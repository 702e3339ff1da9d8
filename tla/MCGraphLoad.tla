----------------------------- MODULE MCGraphLoad -----------------------------
(***************************************************************************)
(* Instance of GraphLoad for TLC: two node ids, one edge id that is also a *)
(* node id, and every sequence of up to MaxRows rows from  a set in which *)
(* each check of the loops has a row that fails it.                        *)
(***************************************************************************)
EXTENDS GraphLoad, SequencesExt

CONSTANTS
    MaxRows       \* bound: rows of the graph file

MCNodeId == {1, 2}
MCEdgeId == {1}
MCEventId == {1, 2}

Node(n, scope, label) ==
    [type |-> "node", declared |-> "node", linked |-> FALSE, legal |-> TRUE,
     id |-> n, record |-> [claim |-> FALSE, scope |-> scope, label |-> label]]

Edge(scope, from, to) ==
    [type |-> "edge", declared |-> "none", linked |-> TRUE, legal |-> TRUE,
     id |-> 1, scope |-> scope,
     record |-> [source |-> from, target |-> to, kind |-> "dependency",
                 metadata |-> FALSE]]

GoodRows ==
    {Node(1, "profile", "releasable"), Node(1, "foreign", "releasable"),
     Node(2, "shared", "protected"),
     Node(2, "foreign", "unknown"),
     [Node(1, "shared", "releasable") EXCEPT !.declared = "none"],
     Edge("profile", 1, 2), Edge("foreign", 2, 1), Edge("cross", 1, 2)}

BadRows ==
    {[type |-> "none"],
     [Node(2, "profile", "releasable") EXCEPT !.declared = "other"],
     [Node(2, "profile", "releasable") EXCEPT !.legal = FALSE],
     [Node(2, "profile", "releasable") EXCEPT !.declared = "none", !.linked = TRUE],
     [Edge("profile", 1, 1) EXCEPT !.linked = FALSE],
     [Edge("profile", 1, 2) EXCEPT !.declared = "node"]}

Files == SeqOf(GoodRows \cup BadRows, MaxRows)

SomeFiles ==
    {<<>>, <<Node(1, "profile", "releasable"), Node(2, "shared", "protected")>>,
     <<Edge("cross", 1, 2), Node(1, "foreign", "releasable")>>,
     <<Node(2, "foreign", "unknown"), Edge("foreign", 2, 1)>>}

EventFiles ==
    SeqOf([legal : {TRUE}, id : MCEventId], 2)
        \cup {<<[legal |-> FALSE, id |-> 1]>>,
              <<[legal |-> TRUE, id |-> 1], [legal |-> FALSE, id |-> 1]>>}

SideRows ==
    [legal : {TRUE}, confirm : Given, upgrade : Given, insufficient : BOOLEAN]
        \cup {[legal |-> FALSE, confirm |-> "true", upgrade |-> "false",
               insufficient |-> TRUE]}

SideFiles == SeqOf(SideRows, 1)

Command(cmd, filtered, graph, log, cands, weak, out, leaky) ==
    [cmd |-> cmd, filtered |-> filtered, graph |-> graph, events |-> log,
     candidates |-> cands, weak |-> weak, out |-> out, leaky |-> leaky]

Loads ==
    {Command(c, c = "load", g, <<>>, <<>>, <<>>, "none", {}) :
        c \in {"load", "validate"}, g \in Files}

Answers ==
    {Command(c, FALSE, g, e, <<>>, <<>>, o, l) :
        c \in {"validate", "inspect", "export"}, g \in SomeFiles, e \in EventFiles,
        o \in {"none", "allowed", "refused"}, l \in SUBSET MCNodeId}

Gates ==
    {Command("validate", FALSE, <<>>, <<>>, s, w, "none", {}) :
        s \in SideFiles, w \in SideFiles}

MCInputs == Loads \cup Answers \cup Gates
==============================================================================
