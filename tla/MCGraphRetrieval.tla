-------------------------- MODULE MCGraphRetrieval --------------------------
(***************************************************************************)
(* Instances of GraphRetrieval for TLC: all small dependency/provenance    *)
(* graphs of a given shape, with one node of each interesting kind.        *)
(***************************************************************************)
EXTENDS GraphRetrieval

MCNodeId == 1 .. 3
MCEdgeId == 1 .. 3

Plain == [claim |-> FALSE, scope |-> "profile", label |-> "releasable"]

\* Node 3 is the special one: a plain node, a claim, a node of another
\* profile, a protected one; or it was never loaded.
NodeTables ==
    LET special == {[Plain EXCEPT !.claim = TRUE],
                    [Plain EXCEPT !.scope = "foreign"],
                    [Plain EXCEPT !.label = "protected"],
                    [Plain EXCEPT !.label = "unknown"]}
    IN  {[n \in 1 .. 2 |-> Plain]} \cup
        {[n \in 1 .. 3 |-> IF n = 3 THEN r ELSE Plain] :
            r \in {Plain} \cup special}

EdgeOf(s, t, k) == [source |-> s, target |-> t, kind |-> k, metadata |-> FALSE]

\* Edge 1 leaves node 1 or 3; the others join any two nodes.
EdgeTables ==
    LET edge == {EdgeOf(s, t, k) : s \in 1 .. 3, t \in 1 .. 3,
                                   k \in {"dependency", "strict"}}
        loopless == {e \in edge : e.source # e.target}
    IN  {<<a, b, c>> : a \in {e \in edge : e.source \in {1, 3}},
                       b \in loopless,
                       c \in loopless \cup {EdgeOf(1, 2, "caused_by")}}

MCStores == [nodes : NodeTables, edges : EdgeTables]

Request1(third, public, out) ==
    [relevance  |-> <<2, 0, third>>, public |-> public, weak |-> {2},
     candidates |-> {3}, out |-> out]

\* Node 1 always matches; node 3 not at all, better, or in a tie.
RankingRequests == {Request1(3, TRUE, "stdout"), Request1(2, FALSE, "allowed"),
                    Request1(0, TRUE, "refused")}

OneRequest == {Request1(0, TRUE, "stdout")}
=============================================================================
