------------------------------ MODULE GraphRows ------------------------------
(***************************************************************************)
(* The rows of the files a graph is loaded from and the checks each row    *)
(* has to pass (schema.py, sidecar.py, events.py).  Of a row remains what  *)
(* decides on it: the type list its type is from, how its kind is inferred,*)
(* and legal, which stands for all other checks of from_record: id, scope  *)
(* and endpoints are not empty, labels are in the schema, fields convert,  *)
(* a caused_by edge cites evidence.                                        *)
(***************************************************************************)
EXTENDS GraphStore, Sequences

CONSTANTS EventId

Declared == {"node", "edge", "other", "none"}     \* record_type, "none": not given
EdgeScope == Scope \cup {"cross"}                 \* cross: cross_profile

\* linked  the row has a source and a target field
Row ==
    [type : {"node"}, declared : Declared, linked : BOOLEAN, legal : BOOLEAN,
     id : NodeId, record : NodeRecord]
       \cup [type : {"edge"}, declared : Declared, linked : BOOLEAN,
             legal : BOOLEAN, id : EdgeId, scope : EdgeScope, record : EdgeRecord]
       \cup [type : {"none"}]                     \* no JSON, or no object

EventRow == [legal : BOOLEAN, id : EventId]

\* A flag of a sidecar row.  empty: any other value Python holds for false,
\* null among them; text: any other value it holds for true, "false" among them.
Given == {"absent", "true", "false", "empty", "text"}

\* insufficient  a weak association has the two status words it must have
SideRow ==
    [legal : BOOLEAN, confirm : Given, upgrade : Given, insufficient : BOOLEAN]

\* A row without a record_type is an edge if it has both endpoints.
ReadAs(r) ==
    CASE r.type = "none" -> "nothing"
      [] r.type # "none" /\ r.declared # "none" -> r.declared
      [] r.type # "none" /\ r.declared = "none" ->
            IF r.linked THEN "edge" ELSE "node"

\* Mutant of Valid: the type is not looked up.
ValidOfAnyType(r) ==
    /\ ReadAs(r) \in {"node", "edge"}
    /\ r.legal
    /\ ReadAs(r) = "edge" => r.linked

Valid(r) ==
    /\ ReadAs(r) \in {"node", "edge"}
    /\ r.type = ReadAs(r)
    /\ r.legal
    /\ r.type = "edge" => r.linked

\* The profile filter, for a row that is valid.
Kept(r, filtered) ==
    filtered =>
        \/ r.type = "node" /\ r.record.scope \in {"profile", "shared"}
        \/ r.type = "edge" /\ r.scope \in {"profile", "shared", "cross"}

\* bool() of a flag, with the default from_record gives it.
Truthy(given, default) ==
    IF given = "absent" THEN default ELSE given \in {"true", "text"}

\* Mutant of Demands: a missing upgrade_allowed is taken for a refusal.
DemandsUnlessSilent(r) ==
    Truthy(r.confirm, FALSE) /\ ~ Truthy(r.upgrade, FALSE)

\* The two gates of every sidecar row.
Demands(r) == Truthy(r.confirm, FALSE) /\ ~ Truthy(r.upgrade, TRUE)

CandidatePasses(r) == r.legal /\ Demands(r)
WeakPasses(r) == r.legal /\ Demands(r) /\ r.insufficient

\* A command with the files it is given; a file that is not given has no rows.
\* filtered: from_paths is called with a profile, as no command does.
\* leaky: node ids that read like an absolute path even when redacted.
Input ==
    [cmd : {"load", "validate", "inspect", "export"}, filtered : BOOLEAN,
     graph : Seq(Row), events : Seq(EventRow),
     candidates : Seq(SideRow), weak : Seq(SideRow),
     out : {"none", "allowed", "refused"}, leaky : SUBSET NodeId]

EmptyStore == [nodes |-> [n \in {} |-> 0], edges |-> [e \in {} |-> 0]]

\* check_export_node, for a public export: what blocks the node names it,
\* but for an unknown label, where the label is named.
NamedInBlock(record) ==
    \/ record.label = "protected"
    \/ record.label = "releasable" /\ record.scope = "foreign"

\* write_export renders no summary that looks like an absolute path.  The ids in
\* the reasons stand for every string the summary takes from its input: the
\* profile, node types and labels, strengths of evidence.
Leaks(in, s) ==
    \E n \in DOMAIN s.nodes : NamedInBlock(s.nodes[n]) /\ n \in in.leaky
=============================================================================
