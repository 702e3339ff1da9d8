----------------------------- MODULE GraphLoading -----------------------------
(***************************************************************************)
(* What a command that loads a graph promises: one answer, which depends   *)
(* on which rows the files hold and not on their order.  It is refused as  *)
(* a whole or gives every row that the profile keeps.                      *)
(***************************************************************************)
EXTENDS GraphRows

VARIABLES input, answer

loading == <<input, answer>>

\* Two rows the filter keeps have the same id.
Clash(in) ==
    \E i, j \in DOMAIN in.graph :
        /\ i # j
        /\ in.graph[i].type = in.graph[j].type /\ in.graph[i].id = in.graph[j].id
        /\ Kept(in.graph[i], in.filtered) /\ Kept(in.graph[j], in.filtered)

Refused(in) ==
    \/ \E i \in DOMAIN in.graph : ~ Valid(in.graph[i])
    \/ Clash(in)
    \/ \E i \in DOMAIN in.events : ~ in.events[i].legal
    \/ \E i \in DOMAIN in.candidates : ~ CandidatePasses(in.candidates[i])
    \/ \E i \in DOMAIN in.weak : ~ WeakPasses(in.weak[i])

\* Store s holds what the filter keeps of the first n rows.
Selected(in, type, n) ==
    {i \in 1 .. n : in.graph[i].type = type /\ Kept(in.graph[i], in.filtered)}

Selects(s, in, n) ==
    /\ DOMAIN s.nodes = {in.graph[i].id : i \in Selected(in, "node", n)}
    /\ DOMAIN s.edges = {in.graph[i].id : i \in Selected(in, "edge", n)}
    /\ \A i \in Selected(in, "node", n) :
          s.nodes[in.graph[i].id] = in.graph[i].record
    /\ \A i \in Selected(in, "edge", n) :
          s.edges[in.graph[i].id] = in.graph[i].record

UniqueEvents(in) ==
    \A i, j \in DOMAIN in.events : in.events[i].id = in.events[j].id => i = j

\* validate fails for a dangling edge or an event id given twice, and for
\* nothing else; an export to a file fails for its path or for what it shows.
Exit(in, s) ==
    CASE in.cmd = "validate" ->
            IF DanglingEdges(s) = {} /\ UniqueEvents(in) THEN "ok" ELSE "invalid"
      [] in.cmd = "export" /\ in.out # "none" ->
            IF in.out = "allowed" /\ ~ Leaks(in, s) THEN "ok" ELSE "unsafe"
      [] OTHER -> "ok"

IsAnswer(a, in) ==
    IF Refused(in)
    THEN a = [exit |-> "raised", store |-> EmptyStore, written |-> FALSE]
    ELSE /\ Selects(a.store, in, Len(in.graph))
         /\ a.exit = Exit(in, a.store)
         /\ a.written <=> in.cmd = "export" /\ in.out # "none" /\ a.exit = "ok"

NoAnswer == [exit |-> "none", store |-> EmptyStore, written |-> FALSE]

Init == input \in Input /\ answer = NoAnswer

Reply ==
    /\ answer.exit = "none"
    /\ IsAnswer(answer', input)
    /\ answer'.exit # "none"
    /\ UNCHANGED input

Spec == Init /\ [][Reply]_loading
===============================================================================
