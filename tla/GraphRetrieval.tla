--------------------------- MODULE GraphRetrieval ---------------------------
(***************************************************************************)
(* The `retrieve` command: lexical seeds, breadth-first expansion along    *)
(* dependency edges up to a depth limit, one hop of strict provenance,     *)
(* sidecar annotations, the hard-fail factors, and the emitted result.     *)
(*                                                                         *)
(* One call is one behaviour.  Its inputs, the loaded store and the        *)
(* request, are chosen in Init and never change; `phase' is the function   *)
(* the call is in.                                                         *)
(***************************************************************************)
EXTENDS GraphStore, Sequences

CONSTANTS
    Stores,      \* the graphs a command may have loaded
    Requests,    \* the requests it may be asked to answer
    MaxDepth,    \* expand_dependency_closure(max_depth): 20 in the code
    SeedLimit    \* lexical_seed_nodes(limit): 10 in the code

\* relevance  how many task terms occur in the text of each node
\* public     Policy.export_scope = "public" (what the command line passes)
\* weak       edges a weak-association sidecar row names
\* candidates nodes an evidence-candidate sidecar row names
\* out        no --out, an --out the policy allows, one it refuses
Request ==
    [relevance : [NodeId -> Nat], public : BOOLEAN, weak : SUBSET EdgeId,
     candidates : SUBSET NodeId, out : {"stdout", "allowed", "refused"}]

ASSUME RetrievalAssumption ==
    /\ \A s \in Stores : IsStore(s)
    /\ \A r \in Requests :
          /\ DOMAIN r = {"relevance", "public", "weak", "candidates", "out"}
          /\ r.relevance \in [NodeId -> Nat]
          /\ r.public \in BOOLEAN
          /\ r.weak \subseteq EdgeId
          /\ r.candidates \subseteq NodeId
          /\ r.out \in {"stdout", "allowed", "refused"}
    /\ MaxDepth \in Nat
    /\ SeedLimit \in Nat

VARIABLES
    store, request,   \* the inputs of the call
    phase,            \* "seed", "expand", "attach", "score", "emit", "done"
    seeds,            \* the seed list
    included,         \* ids reached by the expansion
    queue,            \* the deque of [node, depth]
    depth,            \* depth of the node popped last
    todo,             \* its dependency edges still to be visited
    edges,            \* dependency edges recorded by the expansion
    missing,          \* recorded edges whose target the store does not hold
    cut,              \* history: nodes popped at the depth limit, unexpanded
    subgraph,         \* [nodes, edges] of the Subgraph under construction
    annotated,        \* [nodes, edges] that carry a sidecar annotation
    status,           \* ScoreReport.status, "none" before scoring
    result            \* [exit, written]: exit code and where output went

inputs == <<store, request>>
expansion == <<seeds, included, queue, depth, todo, edges, missing, cut>>
answer == <<subgraph, annotated, status, result>>
vars == <<inputs, phase, expansion, answer>>

-----------------------------------------------------------------------------
(* Seeds.                                                                  *)

\* Nodes of the profile or shared ones that match at least one term.
SeedCandidates ==
    {n \in DOMAIN store.nodes : /\ store.nodes[n].scope # "foreign"
                                /\ request.relevance[n] > 0}

\* sorted(scored, key = (-score, id))
Before(m, n) ==
    \/ request.relevance[m] > request.relevance[n]
    \/ request.relevance[m] = request.relevance[n] /\ m < n

SeedCount ==
    IF Cardinality(SeedCandidates) < SeedLimit
    THEN Cardinality(SeedCandidates) ELSE SeedLimit

\* The first SeedCount candidates in that order.
SeedLists ==
    {q \in [1 .. SeedCount -> SeedCandidates] :
        /\ \A i, j \in 1 .. SeedCount : i < j => Before(q[i], q[j])
        /\ \A n \in SeedCandidates : \A i \in 1 .. SeedCount :
              (\A j \in 1 .. SeedCount : q[j] # n) => Before(q[i], n)}

-----------------------------------------------------------------------------
(* Scoring: the factors whose finding is a hard failure.                   *)

Targets(es) == {store.edges[e].target : e \in es}

\* Mutant of ClosureFails: a target that is in the store will do, as it does
\* for provenance.
ClosureFailsInStore(sg) ==
    \E n \in sg.nodes :
        ~ Targets(DependencyEdges(store, n)) \subseteq DOMAIN store.nodes

ClosureFails(sg) ==
    \E n \in sg.nodes : ~ Targets(DependencyEdges(store, n)) \subseteq sg.nodes

\* Mutant of ProvenanceFails: an evidence candidate stands in for provenance.
ProvenanceFailsUnlessCandidate(sg) ==
    \E n \in sg.nodes \ request.candidates :
        /\ store.nodes[n].claim
        /\ \A e \in ProvenanceEdges(store, n) :
              store.edges[e].target \notin sg.nodes \cup DOMAIN store.nodes

\* A strict edge counts when its target is in the subgraph or in the store.
ProvenanceFails(sg) ==
    \E n \in sg.nodes :
        /\ store.nodes[n].claim
        /\ \A e \in ProvenanceEdges(store, n) :
              store.edges[e].target \notin sg.nodes \cup DOMAIN store.nodes

\* Mutant of ExportAllowed: refuse the labels known to be sensitive only.
ExportUnlessProtected(n) ==
    /\ store.nodes[n].label # "protected"
    /\ request.public => store.nodes[n].scope # "foreign"

ExportAllowed(n) ==
    /\ store.nodes[n].label = "releasable"
    /\ request.public => store.nodes[n].scope # "foreign"

BoundaryFails(sg) == request.public /\ \E n \in sg.nodes : ~ ExportAllowed(n)

CausalFails(sg) ==
    \E e \in sg.edges : /\ store.edges[e].kind = "caused_by"
                        /\ ~ store.edges[e].metadata

Blocked(sg) ==
    ClosureFails(sg) \/ ProvenanceFails(sg) \/ BoundaryFails(sg)
        \/ CausalFails(sg)

-----------------------------------------------------------------------------
Init ==
    /\ store \in Stores
    /\ request \in Requests
    /\ phase = "seed"
    /\ seeds = <<>>
    /\ included = {}
    /\ queue = <<>>
    /\ depth = 0
    /\ todo = {}
    /\ edges = {}
    /\ missing = {}
    /\ cut = {}
    /\ subgraph = [nodes |-> {}, edges |-> {}]
    /\ annotated = [nodes |-> {}, edges |-> {}]
    /\ status = "none"
    /\ result = [exit |-> "none", written |-> "none"]

SelectSeeds ==
    /\ phase = "seed"
    /\ \E q \in SeedLists :
          /\ seeds' = q
          /\ included' = {q[i] : i \in 1 .. SeedCount}
          /\ queue' = [i \in 1 .. SeedCount |-> [node |-> q[i], depth |-> 0]]
    /\ phase' = "expand"
    /\ UNCHANGED <<inputs, depth, todo, edges, missing, cut, answer>>

\* Mutant of CanPop: the edge loop is left after any edge.
CanPopEarly == phase = "expand" /\ queue # <<>>

\* The deque is read again only when the edges of the last node are done.
CanPop == phase = "expand" /\ todo = {} /\ queue # <<>>

\* Mutant of SkipAtLimit: looks at the head of the deque without popping it.
SkipWithoutPop ==
    /\ CanPop
    /\ Head(queue).depth >= MaxDepth
    /\ cut' = cut \cup {Head(queue).node}
    /\ UNCHANGED <<inputs, phase, seeds, included, queue, depth, todo, edges,
                   missing, answer>>

\* `if depth >= max_depth: continue'
SkipAtLimit ==
    /\ CanPop
    /\ Head(queue).depth >= MaxDepth
    /\ queue' = Tail(queue)
    /\ cut' = cut \cup {Head(queue).node}
    /\ UNCHANGED <<inputs, phase, seeds, included, depth, todo, edges,
                   missing, answer>>

PopNode ==
    /\ CanPop
    /\ Head(queue).depth < MaxDepth
    /\ queue' = Tail(queue)
    /\ depth' = Head(queue).depth
    /\ todo' = DependencyEdges(store, Head(queue).node)
    /\ UNCHANGED <<inputs, phase, seeds, included, edges, missing, cut, answer>>

\* The edges of the popped node are visited, and recorded, in id order.
Visit(e) ==
    /\ phase = "expand"
    /\ \A f \in todo : e <= f
    /\ edges' = edges \cup {e}
    /\ todo' = todo \ {e}
    /\ UNCHANGED <<inputs, phase, seeds, depth, cut, answer>>

RecordMissing(e) ==
    /\ Visit(e)
    /\ ~ Present(store, e)
    /\ missing' = missing \cup {e}
    /\ UNCHANGED <<included, queue>>

SkipKnown(e) ==
    /\ Visit(e)
    /\ Present(store, e)
    /\ store.edges[e].target \in included
    /\ UNCHANGED <<included, queue, missing>>

\* Mutants of EnqueueTarget: no look-up of the target; no membership test;
\* the depth of the parent.
EnqueueUnchecked(e) ==
    /\ Visit(e)
    /\ included' = included \cup {store.edges[e].target}
    /\ queue' = Append(queue, [node  |-> store.edges[e].target,
                               depth |-> depth + 1])
    /\ UNCHANGED missing

EnqueueAgain(e) ==
    /\ Visit(e)
    /\ Present(store, e)
    /\ included' = included \cup {store.edges[e].target}
    /\ queue' = Append(queue, [node  |-> store.edges[e].target,
                               depth |-> depth + 1])
    /\ UNCHANGED missing

EnqueueAtSameDepth(e) ==
    /\ Visit(e)
    /\ Present(store, e)
    /\ store.edges[e].target \notin included
    /\ included' = included \cup {store.edges[e].target}
    /\ queue' = Append(queue, [node |-> store.edges[e].target,
                               depth |-> depth])
    /\ UNCHANGED missing

EnqueueTarget(e) ==
    /\ Visit(e)
    /\ Present(store, e)
    /\ store.edges[e].target \notin included
    /\ included' = included \cup {store.edges[e].target}
    /\ queue' = Append(queue, [node  |-> store.edges[e].target,
                               depth |-> depth + 1])
    /\ UNCHANGED missing

\* Mutant of BuildSubgraph: returns with nodes still queued.
BuildEarly ==
    /\ phase = "expand"
    /\ todo = {}
    /\ subgraph' = [nodes |-> included, edges |-> edges]
    /\ phase' = "attach"
    /\ UNCHANGED <<inputs, expansion, annotated, status, result>>

\* The expansion returns and becomes the subgraph.
BuildSubgraph ==
    /\ phase = "expand"
    /\ todo = {}
    /\ queue = <<>>
    /\ subgraph' = [nodes |-> included, edges |-> edges]
    /\ phase' = "attach"
    /\ UNCHANGED <<inputs, expansion, annotated, status, result>>

\* One hop: the loop runs over a copy of the nodes taken before it adds any.
StrictHop == {e \in UNION {ProvenanceEdges(store, n) : n \in subgraph.nodes} :
                 Present(store, e)}

\* Mutant of AttachStrictProvenance: an edge is kept though its target was
\* not found.
AttachEveryEdge ==
    /\ phase = "attach"
    /\ subgraph' = [nodes |-> subgraph.nodes \cup Targets(StrictHop),
                    edges |-> subgraph.edges \cup
                        UNION {ProvenanceEdges(store, n) : n \in subgraph.nodes}]
    /\ annotated' = [nodes |-> subgraph'.nodes \cap request.candidates,
                     edges |-> subgraph'.edges \cap request.weak]
    /\ phase' = "score"
    /\ UNCHANGED <<inputs, expansion, status, result>>

AttachStrictProvenance ==
    /\ phase = "attach"
    /\ subgraph' = [nodes |-> subgraph.nodes \cup Targets(StrictHop),
                    edges |-> subgraph.edges \cup StrictHop]
    /\ annotated' = [nodes |-> subgraph'.nodes \cap request.candidates,
                     edges |-> subgraph'.edges \cap request.weak]
    /\ phase' = "score"
    /\ UNCHANGED <<inputs, expansion, status, result>>

ScoreSubgraph ==
    /\ phase = "score"
    /\ status' = IF Blocked(subgraph) THEN "blocked" ELSE "ok"
    /\ phase' = "emit"
    /\ UNCHANGED <<inputs, expansion, subgraph, annotated, result>>

\* A refused --out path ends the command with 4 and no output; otherwise the
\* subgraph is emitted, blocked or not, and only the exit code says which.
Emit ==
    /\ phase = "emit"
    /\ result' = IF request.out = "refused"
                 THEN [exit |-> "unsafe_output", written |-> "none"]
                 ELSE [exit |-> status, written |-> request.out]
    /\ phase' = "done"
    /\ UNCHANGED <<inputs, expansion, subgraph, annotated, status>>

Expand ==
    \/ SkipAtLimit
    \/ PopNode
    \/ \E e \in todo : RecordMissing(e) \/ SkipKnown(e) \/ EnqueueTarget(e)

Next ==
    \/ SelectSeeds
    \/ Expand
    \/ BuildSubgraph
    \/ AttachStrictProvenance
    \/ ScoreSubgraph
    \/ Emit

Spec == Init /\ [][Next]_vars

\* One thread runs the call and nothing it does can wait.
FairSpec == Spec /\ WF_vars(Next)
-----------------------------------------------------------------------------
(* Type invariant.                                                         *)

QueueEntry == [node : NodeId, depth : 0 .. MaxDepth]

Subgraphs == [nodes : SUBSET NodeId, edges : SUBSET EdgeId]

\* Every variable has the type its declaration comments give it.
TypeOK ==
    /\ store \in Stores
    /\ request \in Requests
    /\ phase \in {"seed", "expand", "attach", "score", "emit", "done"}
    /\ seeds \in Seq(NodeId)
    /\ included \subseteq DOMAIN store.nodes
    /\ queue \in Seq(QueueEntry)
    /\ depth \in 0 .. MaxDepth
    /\ todo \subseteq DOMAIN store.edges
    /\ edges \subseteq DOMAIN store.edges
    /\ missing \subseteq edges
    /\ cut \subseteq NodeId
    /\ subgraph \in Subgraphs
    /\ annotated \in Subgraphs
    /\ status \in {"none", "ok", "blocked"}
    /\ result \in [exit : {"none", "ok", "blocked", "unsafe_output"},
                   written : {"none", "stdout", "allowed"}]

-----------------------------------------------------------------------------
(* Reference definitions: what a retrieval should be, without a deque.     *)

DependencyEdgesOf(s, S) == UNION {DependencyEdges(s, n) : n \in S}

PresentTargets(s, es) == {s.edges[e].target : e \in {e \in es : Present(s, e)}}

\* S and the nodes some node of S depends on.
Spread(s, S) == S \cup PresentTargets(s, DependencyEdgesOf(s, S))

\* The nodes at dependency distance at most d from a node of S.
Ball(s, S, d) ==
    LET ball[k \in Nat] == IF k = 0 THEN S ELSE Spread(s, ball[k - 1])
    IN  ball[d]

SeedSet == {seeds[i] : i \in DOMAIN seeds}

\* The nodes at dependency distance at most d from a seed.
Within(d) == Ball(store, SeedSet, d)

\* Every node a seed depends on, however long the chain.
Closure == Within(Cardinality(DOMAIN store.nodes))

Expanded == IF MaxDepth = 0 THEN {} ELSE Within(MaxDepth - 1)

StrictEdgesOf(S) ==
    {e \in UNION {ProvenanceEdges(store, n) : n \in S} : Present(store, e)}

Scored == status # "none"

-----------------------------------------------------------------------------
(* Safety.                                                                 *)

\* retrieve_minimal_subgraph returns exactly the dependency ball around the
\* seeds with the edges it walked, plus one hop of strict provenance of that
\* ball, and names every missing target it met: nothing is left out and
\* nothing else (a weak association, an unrelated node) gets in.
SubgraphIsReference ==
    Scored =>
        LET ball  == Within(MaxDepth)
            walk  == DependencyEdgesOf(store, Expanded)
            cites == StrictEdgesOf(ball)
        IN  /\ subgraph.nodes = ball \cup Targets(cites)
            /\ subgraph.edges = walk \cup cites
            /\ missing = {e \in walk : ~ Present(store, e)}

\* The deque is level ordered, holds no node twice, and the depth it carries
\* is the dependency distance of the node: a longer path to a node never
\* makes expand_dependency_closure give up on it too early.
QueueByLevel ==
    /\ \A i, j \in 1 .. Len(queue) : i < j =>
          /\ queue[i].node # queue[j].node
          /\ queue[i].depth <= queue[j].depth
          /\ queue[j].depth <= queue[i].depth + 1
    /\ \A i \in 1 .. Len(queue) :
          LET d == queue[i].depth
          IN  /\ queue[i].node \in Within(d)
              /\ d > 0 => queue[i].node \notin Within(d - 1)

\* An expansion that was never stopped by the depth limit has walked every
\* dependency edge of every node it returns; each one leads to a returned
\* node or is reported as missing.
ClosedUnlessCut ==
    phase \notin {"seed", "expand"} /\ cut = {} =>
        \A n \in included : \A e \in DependencyEdges(store, n) :
            /\ e \in edges
            /\ \/ store.edges[e].target \in included
               \/ e \in missing /\ ~ Present(store, e)

\* An "ok" verdict is not affected by the depth limit: the subgraph then
\* holds every node a seed transitively depends on, and no such dependency
\* is missing from the store.
OkIsFullClosure ==
    status = "ok" =>
        /\ Closure \subseteq subgraph.nodes
        /\ \A e \in DependencyEdgesOf(store, Closure) : Present(store, e)

\* An "ok" subgraph is a graph: both ends of each edge it returns, dependency
\* or provenance, are among the nodes it returns.
OkHasNoDanglingEdge ==
    status = "ok" =>
        \A e \in subgraph.edges :
            /\ store.edges[e].source \in subgraph.nodes
            /\ store.edges[e].target \in subgraph.nodes

\* The expansion follows dependency edges into other profiles and sensitive
\* nodes, and provenance does too; whenever a public retrieval reached one,
\* however indirectly, the verdict is "blocked".
UnsafeReachBlocks ==
    /\ Scored
    /\ request.public
    /\ \E n \in Within(MaxDepth) \cup
                 Targets(StrictEdgesOf(Within(MaxDepth))) :
          \/ store.nodes[n].scope = "foreign"
          \/ store.nodes[n].label # "releasable"
    => status = "blocked"

\* A claim the expansion reached is returned with a strict provenance edge
\* and its target; sidecar candidates never stand in for one.
OkClaimsAreCited ==
    status = "ok" =>
        \A n \in included : store.nodes[n].claim =>
            \E e \in ProvenanceEdges(store, n) \cap subgraph.edges :
                store.edges[e].target \in subgraph.nodes

\* "Retrieve dependency-closed subgraphs" (docs/architecture.md:8): in a
\* store without dangling edges, a retrieval the depth limit did not cut
\* returns a dependency-closed subgraph.
RetrievedIsClosed ==
    phase = "done" /\ cut = {} /\ DanglingEdges(store) = {} =>
        ~ ClosureFails(subgraph)

-----------------------------------------------------------------------------
(* Refinement.                                                             *)

Expansion == INSTANCE DependencyClosure WITH
    Item    <- NodeId,
    depends <- [n \in NodeId |-> PresentTargets(store, DependencyEdges(store, n))],
    reached <- included,
    answer  <- IF phase \in {"seed", "expand"} THEN "open"
               ELSE IF cut = {} THEN "complete" ELSE "partial"

\* The breadth-first expansion implements the abstract closure: it only ever
\* adds a dependency of something it holds, and what it hands on without
\* having hit the depth limit is closed.
ImplementsClosure == Expansion!Spec

-----------------------------------------------------------------------------
(* Liveness.                                                               *)

\* Every retrieval ends, whatever cycles the dependency graph has.
Terminates == <>(phase = "done")
=============================================================================
