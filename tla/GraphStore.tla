----------------------------- MODULE GraphStore -----------------------------
(***************************************************************************)
(* The in-memory graph of graph_harness_maintain.store.GraphStore, as the  *)
(* commands read it after loading: a record of two dictionaries,           *)
(*   s.nodes : id -> node record,   s.edges : id -> edge record,           *)
(* and the indexed look-ups the other parts are built from.  No command    *)
(* writes the store after it has been loaded.                              *)
(*                                                                         *)
(* Ids are ranked by their string order, so that an id is a natural number *)
(* and the "sorted by id" of the code is <.  The attributes keep what the  *)
(* checks tell apart:                                                      *)
(*   kind  "dependency"  depends_on, invokes, reads, writes                *)
(*         "strict"      derived_from, cites, supports                     *)
(*         "caused_by"                                                     *)
(*         "other"       the remaining edge types of the schema            *)
(*   claim the node type is in PROVENANCE_REQUIRED_NODE_TYPES              *)
(*   scope the node's profile against the requested one                    *)
(*   label "releasable"  none, internal, sensitive                         *)
(*         "protected"   phi_or_patient_level, credential                  *)
(*         "unknown"     a label only a custom schema file declares        *)
(***************************************************************************)
EXTENDS Naturals, FiniteSets

CONSTANTS
    NodeId,     \* every node id a record may name, loaded or not
    EdgeId      \* every edge id

ASSUME GraphStoreAssumption ==
    /\ NodeId \subseteq Nat
    /\ EdgeId \subseteq Nat

EdgeKind == {"dependency", "strict", "caused_by", "other"}
Scope    == {"profile", "shared", "foreign"}
Label    == {"releasable", "protected", "unknown"}

NodeRecord == [claim : BOOLEAN, scope : Scope, label : Label]

\* metadata: a caused_by edge carries mechanism, temporal_precedence and
\* confounder_check besides the evidence_refs its loading requires.
EdgeRecord ==
    [source : NodeId, target : NodeId, kind : EdgeKind, metadata : BOOLEAN]

IsStore(s) ==
    /\ DOMAIN s.nodes \subseteq NodeId
    /\ DOMAIN s.edges \subseteq EdgeId
    /\ IsFiniteSet(DOMAIN s.nodes)
    /\ s.nodes \in [DOMAIN s.nodes -> NodeRecord]
    /\ s.edges \in [DOMAIN s.edges -> EdgeRecord]

\* neighbors(node, kinds, "out"): the indexed out-edges of the given kinds.
OutEdges(s, n, kinds) ==
    {e \in DOMAIN s.edges : s.edges[e].source = n /\ s.edges[e].kind \in kinds}

DependencyEdges(s, n) == OutEdges(s, n, {"dependency"})

ProvenanceEdges(s, n) == OutEdges(s, n, {"strict"})

\* The target of e is a record the store holds.
Present(s, e) == s.edges[e].target \in DOMAIN s.nodes

\* validate_integrity: the edges with an endpoint that was never loaded.
DanglingEdges(s) ==
    {e \in DOMAIN s.edges : \/ s.edges[e].source \notin DOMAIN s.nodes
                            \/ ~ Present(s, e)}
=============================================================================
