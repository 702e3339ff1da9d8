-------------------------- MODULE DependencyClosure --------------------------
(***************************************************************************)
(* What dependency retrieval promises, without seeds order, deque, depths  *)
(* or edges: from some starting set, dependencies are added one at a time, *)
(* in any order, and the answer is called complete only when no dependency *)
(* of a reached item is left out.  An answer may also be partial.          *)
(***************************************************************************)
CONSTANT Item

VARIABLES
    depends,    \* the direct dependencies of each item that exist
    reached,    \* the items gathered so far
    answer      \* "open", "complete" or "partial"

vars == <<depends, reached, answer>>

Closed == \A x \in reached : depends[x] \subseteq reached

Init ==
    /\ depends \in [Item -> SUBSET Item]
    /\ reached = {}
    /\ answer = "open"

Start ==
    /\ answer = "open"
    /\ reached = {}
    /\ reached' \in SUBSET Item
    /\ UNCHANGED <<depends, answer>>

Reach(x) ==
    /\ answer = "open"
    /\ \E y \in reached : x \in depends[y]
    /\ reached' = reached \cup {x}
    /\ UNCHANGED <<depends, answer>>

Complete ==
    /\ answer = "open"
    /\ Closed
    /\ answer' = "complete"
    /\ UNCHANGED <<depends, reached>>

GiveUp ==
    /\ answer = "open"
    /\ answer' = "partial"
    /\ UNCHANGED <<depends, reached>>

Next == Start \/ (\E x \in Item : Reach(x)) \/ Complete \/ GiveUp

Spec == Init /\ [][Next]_vars
=============================================================================
