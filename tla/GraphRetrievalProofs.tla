------------------------ MODULE GraphRetrievalProofs ------------------------
(***************************************************************************)
(* Proofs about GraphRetrieval, for every store, request, depth limit and  *)
(* seed limit: type correctness, the closure of an uncut expansion, the    *)
(* refinement of DependencyClosure, and that an answer is the reference    *)
(* answer.  For the last, distances are compared by induction.             *)
(***************************************************************************)
EXTENDS GraphRetrieval, InductionLemmas

\* What TypeOK and the assumptions say of the loaded store.
LEMMA StoreShape ==
    ASSUME store \in Stores
    PROVE  /\ DOMAIN store.nodes \subseteq NodeId
           /\ DOMAIN store.edges \subseteq EdgeId
           /\ IsFiniteSet(DOMAIN store.nodes)
           /\ \A e \in DOMAIN store.edges :
                 /\ store.edges[e].source \in NodeId
                 /\ store.edges[e].target \in NodeId
BY RetrievalAssumption DEF IsStore, EdgeRecord

\* lexical_seed_nodes returns finitely many nodes of the store.
LEMMA SeedsAreNodes ==
    ASSUME store \in Stores
    PROVE  /\ SeedCount \in Nat
           /\ SeedCandidates \subseteq DOMAIN store.nodes
           /\ SeedLists \subseteq [1 .. SeedCount -> SeedCandidates]
<1>1. SeedCandidates \subseteq DOMAIN store.nodes
  BY DEF SeedCandidates
<1>2. IsFiniteSet(SeedCandidates)
  BY <1>1, StoreShape, FS_Subset
<1>3. Cardinality(SeedCandidates) \in Nat
  BY <1>2, FS_CardinalityType
<1>4. SeedCount \in Nat
  BY <1>3, RetrievalAssumption DEF SeedCount
<1> QED
  BY <1>1, <1>4 DEF SeedLists

-----------------------------------------------------------------------------
\* While edges are visited their node was below the depth limit, so that the
\* depth of what they enqueue stays within it.
TypeInv == TypeOK /\ (todo # {} => depth < MaxDepth)

\* Every reachable state has the declared types.
THEOREM TypeInvariant == Spec => []TypeInv
<1>1. Init => TypeInv
  <2> SUFFICES ASSUME Init PROVE TypeInv
    OBVIOUS
  <2>1. <<>> \in Seq(NodeId) /\ <<>> \in Seq(QueueEntry)
    OBVIOUS
  <2>2. 0 \in 0 .. MaxDepth
    BY RetrievalAssumption
  <2> QED
    BY <2>1, <2>2 DEF Init, TypeInv, TypeOK, Subgraphs
<1>2. TypeInv /\ [Next]_vars => TypeInv'
  <2> SUFFICES ASSUME TypeInv, [Next]_vars PROVE TypeInv'
    OBVIOUS
  <2> USE DEF TypeInv
  <2>0. /\ DOMAIN store.nodes \subseteq NodeId
        /\ DOMAIN store.edges \subseteq EdgeId
        /\ \A e \in DOMAIN store.edges : store.edges[e].target \in NodeId
    BY StoreShape DEF TypeOK
  <2>1. CASE SelectSeeds
    <3>1. PICK q \in SeedLists :
             /\ seeds' = q
             /\ included' = {q[i] : i \in 1 .. SeedCount}
             /\ queue' = [i \in 1 .. SeedCount |-> [node |-> q[i], depth |-> 0]]
      BY <2>1 DEF SelectSeeds
    <3>2. /\ SeedCount \in Nat
          /\ q \in [1 .. SeedCount -> DOMAIN store.nodes]
          /\ q \in [1 .. SeedCount -> NodeId]
      BY <2>0, SeedsAreNodes DEF TypeOK
    <3>3. q \in Seq(NodeId)
      BY <3>2
    <3>4. \A i \in 1 .. SeedCount : [node |-> q[i], depth |-> 0] \in QueueEntry
      BY <3>2, RetrievalAssumption DEF QueueEntry
    <3>5. queue' \in Seq(QueueEntry)
      BY <3>1, <3>2, <3>4
    <3>6. included' \subseteq DOMAIN store.nodes
      BY <3>1, <3>2
    <3> QED
      BY <2>1, <3>1, <3>3, <3>5, <3>6 DEF SelectSeeds, TypeOK, inputs, answer
  <2>2. CASE SkipAtLimit
    <3>1. Tail(queue) \in Seq(QueueEntry) /\ Head(queue) \in QueueEntry
      BY <2>2 DEF SkipAtLimit, CanPop, TypeOK
    <3> QED
      BY <2>2, <3>1 DEF SkipAtLimit, TypeOK, QueueEntry, inputs, answer
  <2>3. CASE PopNode
    <3>1. Tail(queue) \in Seq(QueueEntry) /\ Head(queue) \in QueueEntry
      BY <2>3 DEF PopNode, CanPop, TypeOK
    <3>2. todo' \subseteq DOMAIN store.edges
      BY <2>3 DEF PopNode, DependencyEdges, OutEdges
    <3> QED
      BY <2>3, <3>1, <3>2 DEF PopNode, TypeOK, QueueEntry, inputs, answer
  <2>4. ASSUME NEW e \in todo, RecordMissing(e) PROVE TypeInv'
    BY <2>4 DEF RecordMissing, Visit, TypeOK, inputs, answer
  <2>5. ASSUME NEW e \in todo, SkipKnown(e) PROVE TypeInv'
    BY <2>5 DEF SkipKnown, Visit, TypeOK, inputs, answer
  <2>6. ASSUME NEW e \in todo, EnqueueTarget(e) PROVE TypeInv'
    <3> DEFINE entry == [node |-> store.edges[e].target, depth |-> depth + 1]
    <3>1. entry \in QueueEntry
      BY <2>0, <2>6, RetrievalAssumption DEF TypeOK, QueueEntry
    <3>2. Append(queue, entry) \in Seq(QueueEntry)
      BY <3>1 DEF TypeOK
    <3>3. included' \subseteq DOMAIN store.nodes
      BY <2>6 DEF EnqueueTarget, Visit, Present, TypeOK, inputs
    <3> QED
      BY <2>6, <3>2, <3>3 DEF EnqueueTarget, Visit, TypeOK, inputs, answer
  <2>7. CASE BuildSubgraph
    BY <2>7, <2>0 DEF BuildSubgraph, TypeOK, Subgraphs, inputs, expansion
  <2>8. CASE AttachStrictProvenance
    <3>1. StrictHop \subseteq DOMAIN store.edges
      BY DEF StrictHop, ProvenanceEdges, OutEdges
    <3>2. Targets(StrictHop) \subseteq NodeId /\ StrictHop \subseteq EdgeId
      BY <2>0, <3>1 DEF Targets
    <3>3. /\ subgraph.nodes \subseteq NodeId
          /\ subgraph.edges \subseteq EdgeId
      BY DEF TypeOK, Subgraphs
    <3>4. subgraph' \in Subgraphs
      BY <2>8, <3>2, <3>3 DEF AttachStrictProvenance, Subgraphs
    <3>5. annotated' \in Subgraphs
      BY <2>8, <3>4 DEF AttachStrictProvenance, Subgraphs
    <3> QED
      BY <2>8, <3>4, <3>5 DEF AttachStrictProvenance, TypeOK, inputs, expansion
  <2>9. CASE ScoreSubgraph
    BY <2>9 DEF ScoreSubgraph, TypeOK, inputs, expansion
  <2>10. CASE Emit
    <3>1. request.out \in {"stdout", "allowed", "refused"}
      BY RetrievalAssumption DEF TypeOK
    <3> QED
      BY <2>10, <3>1 DEF Emit, TypeOK, inputs, expansion
  <2>11. CASE UNCHANGED vars
    BY <2>11 DEF vars, inputs, expansion, answer, TypeOK
  <2> QED
    BY <2>1, <2>2, <2>3, <2>4, <2>5, <2>6, <2>7, <2>8, <2>9, <2>10, <2>11
       DEF Next, Expand
<1> QED
  BY <1>1, <1>2, PTL DEF Spec

\* In particular TypeOK, the type invariant the runs check.
THEOREM TypeCorrect == Spec => []TypeOK
BY TypeInvariant, PTL DEF TypeInv
-----------------------------------------------------------------------------
(* The closure of the expansion.                                           *)

NodesOf(q) == {q[i].node : i \in 1 .. Len(q)}

\* popleft removes one node from the deque, append adds one.
LEMMA QueueNodes ==
    ASSUME NEW q \in Seq(QueueEntry)
    PROVE  /\ q # <<>> => NodesOf(q) = {Head(q).node} \cup NodesOf(Tail(q))
           /\ \A x \in QueueEntry : NodesOf(Append(q, x)) = NodesOf(q) \cup {x.node}
<1>1. ASSUME q # <<>>
      PROVE  NodesOf(q) = {Head(q).node} \cup NodesOf(Tail(q))
  <2>1. /\ Len(q) \in Nat /\ Len(q) > 0
        /\ Len(Tail(q)) = Len(q) - 1
        /\ \A i \in 1 .. Len(q) - 1 : Tail(q)[i] = q[i + 1]
        /\ Head(q) = q[1]
    BY <1>1
  <2>2. ASSUME NEW i \in 1 .. Len(q)
        PROVE  q[i].node \in {Head(q).node} \cup NodesOf(Tail(q))
    <3>1. CASE i = 1
      BY <2>1, <3>1
    <3>2. CASE i > 1
      <4>1. i - 1 \in 1 .. Len(Tail(q)) /\ q[i] = Tail(q)[i - 1]
        BY <2>1, <3>2
      <4> QED
        BY <4>1 DEF NodesOf
    <3> QED
      BY <3>1, <3>2
  <2>3. ASSUME NEW i \in 1 .. Len(Tail(q))
        PROVE  Tail(q)[i].node \in NodesOf(q)
    <3>1. i + 1 \in 1 .. Len(q) /\ Tail(q)[i] = q[i + 1]
      BY <2>1
    <3> QED
      BY <3>1 DEF NodesOf
  <2>4. Head(q).node \in NodesOf(q)
    BY <2>1 DEF NodesOf
  <2> QED
    BY <2>2, <2>3, <2>4 DEF NodesOf
<1>2. ASSUME NEW x \in QueueEntry
      PROVE  NodesOf(Append(q, x)) = NodesOf(q) \cup {x.node}
  <2>1. /\ Len(q) \in Nat
        /\ Len(Append(q, x)) = Len(q) + 1
        /\ \A i \in 1 .. Len(q) : Append(q, x)[i] = q[i]
        /\ Append(q, x)[Len(q) + 1] = x
    OBVIOUS
  <2>2. ASSUME NEW i \in 1 .. Len(q) + 1
        PROVE  Append(q, x)[i].node \in NodesOf(q) \cup {x.node}
    <3>1. CASE i = Len(q) + 1
      BY <2>1, <3>1
    <3>2. CASE i # Len(q) + 1
      <4>1. i \in 1 .. Len(q)
        BY <2>1, <3>2
      <4> QED
        BY <2>1, <4>1 DEF NodesOf
    <3> QED
      BY <3>1, <3>2
  <2>3. x.node \in NodesOf(Append(q, x))
    BY <2>1 DEF NodesOf
  <2>4. ASSUME NEW i \in 1 .. Len(q)
        PROVE  q[i].node \in NodesOf(Append(q, x))
    <3>1. i \in 1 .. Len(q) + 1
      BY <2>1
    <3> QED
      BY <2>1, <3>1 DEF NodesOf
  <2> QED
    BY <2>1, <2>2, <2>3, <2>4 DEF NodesOf
<1> QED
  BY <1>1, <1>2

Handled(e) ==
    /\ e \in edges
    /\ \/ store.edges[e].target \in included
       \/ e \in missing /\ ~ Present(store, e)

\* A node is waiting in the deque, was cut off, or has each dependency edge
\* either handled or among the edges being visited.
Accounted(n) ==
    \/ n \in NodesOf(queue) \cup cut
    \/ \A e \in DependencyEdges(store, n) : e \in todo \/ Handled(e)

\* The loop invariant of expand_dependency_closure.
ExpansionInv ==
    /\ phase = "seed" =>
          /\ included = {} /\ queue = <<>> /\ todo = {} /\ cut = {}
    /\ phase \notin {"seed", "expand"} => queue = <<>> /\ todo = {}
    /\ NodesOf(queue) \subseteq included
    /\ \A e \in todo : e \in DependencyEdges(store, store.edges[e].source)
                       /\ store.edges[e].source \in included
    /\ \A n \in included : Accounted(n)

\* The steps that visit edge e leave every other node accounted for.
LEMMA VisitKeepsAccounted ==
    ASSUME TypeInv, ExpansionInv, NEW e \in todo, Visit(e),
           included \subseteq included', missing \subseteq missing',
           NodesOf(queue) \subseteq NodesOf(queue)',
           Handled(e)',
           NEW n \in included
    PROVE  Accounted(n)'
<1>1. /\ store' = store
      /\ cut' = cut
      /\ edges' = edges \cup {e}
      /\ todo' = todo \ {e}
  BY DEF Visit, inputs
<1>2. CASE n \in NodesOf(queue) \cup cut
  BY <1>1, <1>2 DEF Accounted
<1>3. CASE \A f \in DependencyEdges(store, n) : f \in todo \/ Handled(f)
  <2>1. ASSUME NEW f \in DependencyEdges(store, n)'
        PROVE  f \in todo' \/ Handled(f)'
    <3>1. f \in DependencyEdges(store, n)
      BY <1>1 DEF DependencyEdges, OutEdges
    <3>2. CASE f = e
      BY <3>2
    <3>3. CASE f # e /\ f \in todo
      BY <1>1, <3>3
    <3>4. CASE Handled(f)
      BY <1>1, <3>4 DEF Handled, Present
    <3> QED
      BY <1>3, <3>1, <3>2, <3>3, <3>4
  <2> QED
    BY <2>1 DEF Accounted
<1> QED
  BY <1>2, <1>3 DEF ExpansionInv, Accounted

\* Every reachable state satisfies the loop invariant of the expansion.
THEOREM ExpansionInvariant == Spec => []ExpansionInv
<1>1. Init => ExpansionInv
  BY DEF Init, ExpansionInv, NodesOf
<1>2. TypeInv /\ ExpansionInv /\ [Next]_vars => ExpansionInv'
  <2> SUFFICES ASSUME TypeInv, ExpansionInv, [Next]_vars PROVE ExpansionInv'
    OBVIOUS
  <2>0. /\ queue \in Seq(QueueEntry)
        /\ IsStore(store)
    BY RetrievalAssumption DEF TypeInv, TypeOK
  <2>1. CASE SelectSeeds
    <3>1. PICK q \in SeedLists :
             /\ included' = {q[i] : i \in 1 .. SeedCount}
             /\ queue' = [i \in 1 .. SeedCount |-> [node |-> q[i], depth |-> 0]]
      BY <2>1 DEF SelectSeeds
    <3>2. SeedCount \in Nat
      BY SeedsAreNodes DEF TypeInv, TypeOK
    <3>3. Len(queue') = SeedCount
      BY <3>1, <3>2
    <3>4. NodesOf(queue)' = included'
      BY <3>1, <3>3 DEF NodesOf
    <3>5. \A n \in included' : Accounted(n)'
      BY <3>4 DEF Accounted
    <3>6. todo' = {} /\ phase' = "expand"
      BY <2>1 DEF SelectSeeds, ExpansionInv
    <3> QED
      BY <3>4, <3>5, <3>6 DEF ExpansionInv
  <2>2. CASE SkipAtLimit
    <3>1. NodesOf(queue) = {Head(queue).node} \cup NodesOf(queue')
      BY <2>0, <2>2, QueueNodes DEF SkipAtLimit, CanPop
    <3>2. UNCHANGED <<store, phase, included, todo, edges, missing>>
      BY <2>2 DEF SkipAtLimit, inputs
    <3>3. cut' = cut \cup {Head(queue).node}
      BY <2>2 DEF SkipAtLimit
    <3>4. ASSUME NEW n \in included PROVE Accounted(n)'
      BY <3>1, <3>2, <3>3 DEF ExpansionInv, Accounted, NodesOf, Handled,
                              DependencyEdges, OutEdges, Present
    <3>5. phase = "expand" /\ todo = {}
      BY <2>2 DEF SkipAtLimit, CanPop
    <3> QED
      BY <3>1, <3>2, <3>4, <3>5 DEF ExpansionInv, NodesOf
  <2>3. CASE PopNode
    <3> DEFINE node == Head(queue).node
    <3>1. NodesOf(queue) = {node} \cup NodesOf(queue')
      BY <2>0, <2>3, QueueNodes DEF PopNode, CanPop
    <3>2. UNCHANGED <<store, phase, included, edges, missing, cut>>
      BY <2>3 DEF PopNode, inputs
    <3>3. todo = {} /\ todo' = DependencyEdges(store, node) /\ phase = "expand"
      BY <2>3 DEF PopNode, CanPop
    <3>4. \A e \in todo' : store.edges[e].source = node
      BY <3>3 DEF DependencyEdges, OutEdges
    <3>5. node \in included
      BY <3>1 DEF ExpansionInv
    <3>6. ASSUME NEW n \in included PROVE Accounted(n)'
      <4>1. DependencyEdges(store, n)' = DependencyEdges(store, n)
        BY <3>2 DEF DependencyEdges, OutEdges
      <4>2. CASE n = node
        BY <3>3, <4>1, <4>2 DEF Accounted
      <4>3. CASE n # node
        <5>1. n \in NodesOf(queue)' \cup cut' \/ \A e \in DependencyEdges(store, n) : Handled(e)
          BY <3>1, <3>2, <3>3, <4>3 DEF ExpansionInv, Accounted, NodesOf
        <5>2. \A e : Handled(e) => Handled(e)'
          BY <3>2 DEF Handled, Present
        <5> QED
          BY <4>1, <5>1, <5>2 DEF Accounted
      <4> QED
        BY <4>2, <4>3
    <3>7. \A e \in todo' : e \in DependencyEdges(store, store.edges[e].source)'
      BY <3>2, <3>3, <3>4 DEF DependencyEdges, OutEdges
    <3> QED
      BY <3>1, <3>2, <3>3, <3>4, <3>5, <3>6, <3>7 DEF ExpansionInv, NodesOf
  <2>4. ASSUME NEW e \in todo, RecordMissing(e) \/ SkipKnown(e)
        PROVE  ExpansionInv'
    <3>1. Visit(e) /\ UNCHANGED <<included, queue>>
      BY <2>4 DEF RecordMissing, SkipKnown
    <3>2. /\ UNCHANGED <<store, phase, cut>>
          /\ phase = "expand" /\ todo' = todo \ {e} /\ edges' = edges \cup {e}
      BY <3>1 DEF Visit, inputs
    <3>3. missing \subseteq missing'
      BY <2>4 DEF RecordMissing, SkipKnown
    <3>4. Handled(e)'
      BY <2>4, <3>1, <3>2 DEF RecordMissing, SkipKnown, Handled, Present
    <3>5. NodesOf(queue) = NodesOf(queue)'
      BY <3>1 DEF NodesOf
    <3>6. \A n \in included : Accounted(n)'
      BY <3>1, <3>3, <3>4, <3>5, VisitKeepsAccounted
    <3> QED
      BY <3>1, <3>2, <3>5, <3>6
         DEF ExpansionInv, DependencyEdges, OutEdges
  <2>5. ASSUME NEW e \in todo, EnqueueTarget(e) PROVE ExpansionInv'
    <3> DEFINE target == store.edges[e].target
               entry  == [node |-> target, depth |-> depth + 1]
    <3>1. Visit(e) /\ UNCHANGED missing
      BY <2>5 DEF EnqueueTarget
    <3>2. /\ UNCHANGED <<store, phase, cut>>
          /\ phase = "expand" /\ todo' = todo \ {e} /\ edges' = edges \cup {e}
      BY <3>1 DEF Visit, inputs
    <3>3. included' = included \cup {target} /\ queue' = Append(queue, entry)
      BY <2>5 DEF EnqueueTarget
    <3>4. Handled(e)'
      BY <3>2, <3>3 DEF Handled
    <3>5. entry \in QueueEntry
      <4>1. target \in NodeId
        BY StoreShape DEF TypeInv, TypeOK
      <4>2. depth + 1 \in 0 .. MaxDepth
        BY RetrievalAssumption DEF TypeInv, TypeOK
      <4> QED
        BY <4>1, <4>2 DEF QueueEntry
    <3>6. NodesOf(queue') = NodesOf(queue) \cup {target}
      BY <2>0, <3>3, <3>5, QueueNodes
    <3>7. NodesOf(queue)' = NodesOf(queue) \cup {target}
      BY <3>6 DEF NodesOf
    <3>8. \A n \in included : Accounted(n)'
      BY <3>1, <3>3, <3>4, <3>7, VisitKeepsAccounted
    <3>9. \A n \in {target} : Accounted(n)'
      BY <3>7 DEF Accounted
    <3> QED
      BY <3>2, <3>3, <3>7, <3>8, <3>9
         DEF ExpansionInv, DependencyEdges, OutEdges
  <2>6. CASE BuildSubgraph
    BY <2>6 DEF BuildSubgraph, ExpansionInv, Accounted, Handled, NodesOf,
                DependencyEdges, OutEdges, Present, inputs, expansion
  <2>7. CASE AttachStrictProvenance \/ ScoreSubgraph \/ Emit \/ UNCHANGED vars
    BY <2>7 DEF AttachStrictProvenance, ScoreSubgraph, Emit, vars, answer,
                ExpansionInv, Accounted, Handled, NodesOf, DependencyEdges,
                OutEdges, Present, inputs, expansion
  <2> QED
    BY <2>1, <2>2, <2>3, <2>4, <2>5, <2>6, <2>7 DEF Next, Expand
<1> QED
  BY <1>1, <1>2, TypeInvariant, PTL DEF Spec

\* Closure: an expansion the depth limit never stopped is handed on closed.
THEOREM UncutIsClosed == Spec => []ClosedUnlessCut
<1>1. ExpansionInv => ClosedUnlessCut
  BY DEF ExpansionInv, ClosedUnlessCut, Accounted, Handled, NodesOf
<1> QED
  BY <1>1, ExpansionInvariant, PTL
-----------------------------------------------------------------------------
(* Refinement of DependencyClosure.                                        *)

\* The breadth-first expansion implements the abstract closure.
THEOREM ExpansionRefines == Spec => ImplementsClosure
<1>1. Init => Expansion!Init
  <2> SUFFICES ASSUME Init PROVE Expansion!Init
    OBVIOUS
  <2>1. \A n \in NodeId : PresentTargets(store, DependencyEdges(store, n)) \subseteq NodeId
    BY StoreShape DEF Init, PresentTargets, Targets, DependencyEdges, OutEdges
  <2> QED
    BY <2>1 DEF Init, Expansion!Init
<1>2. TypeInv /\ ExpansionInv /\ ClosedUnlessCut' /\ [Next]_vars
        => [Expansion!Next]_(Expansion!vars)
  <2> SUFFICES ASSUME TypeInv, ExpansionInv, ClosedUnlessCut', [Next]_vars
               PROVE  [Expansion!Next]_(Expansion!vars)
    OBVIOUS
  <2> DEFINE dep == [n \in NodeId |-> PresentTargets(store, DependencyEdges(store, n))]
             ans == IF phase \in {"seed", "expand"} THEN "open"
                    ELSE IF cut = {} THEN "complete" ELSE "partial"
  <2>1. store' = store => dep' = dep
    BY DEF PresentTargets, Targets, DependencyEdges, OutEdges, Present
  <2>2. ASSUME store' = store, included' = included, ans' = ans
        PROVE  [Expansion!Next]_(Expansion!vars)
    BY <2>1, <2>2 DEF Expansion!vars
  <2>3. CASE SelectSeeds
    <3>1. store' = store /\ ans = "open" /\ ans' = "open" /\ included = {}
      BY <2>3 DEF SelectSeeds, ExpansionInv, inputs
    <3>2. included' \subseteq NodeId
      <4>1. PICK q \in SeedLists : included' = {q[i] : i \in 1 .. SeedCount}
        BY <2>3 DEF SelectSeeds
      <4> QED
        BY <4>1, SeedsAreNodes, StoreShape DEF TypeInv, TypeOK
    <3> QED
      BY <2>1, <3>1, <3>2 DEF Expansion!Next, Expansion!Start
  <2>4. CASE SkipAtLimit
    BY <2>2, <2>4 DEF SkipAtLimit, CanPop, inputs
  <2>5. CASE PopNode
    BY <2>2, <2>5 DEF PopNode, CanPop, inputs
  <2>6. ASSUME NEW e \in todo, RecordMissing(e) \/ SkipKnown(e)
        PROVE  [Expansion!Next]_(Expansion!vars)
    BY <2>2, <2>6 DEF RecordMissing, SkipKnown, Visit, inputs
  <2>7. ASSUME NEW e \in todo, EnqueueTarget(e)
        PROVE  [Expansion!Next]_(Expansion!vars)
    <3> DEFINE x == store.edges[e].target
               y == store.edges[e].source
    <3>1. /\ store' = store /\ ans = "open" /\ ans' = "open"
          /\ included' = included \cup {x} /\ Present(store, e)
      BY <2>7 DEF EnqueueTarget, Visit, inputs
    <3>2. /\ e \in DependencyEdges(store, y) /\ y \in included
          /\ x \in NodeId /\ y \in NodeId
      BY StoreShape DEF ExpansionInv, TypeInv, TypeOK
    <3>3. x \in dep[y]
      BY <3>1, <3>2 DEF PresentTargets, Targets
    <3> QED
      BY <2>1, <3>1, <3>2, <3>3 DEF Expansion!Next, Expansion!Reach
  <2>8. CASE BuildSubgraph
    <3>1. /\ store' = store /\ included' = included /\ cut' = cut
          /\ edges' = edges /\ missing' = missing
          /\ ans = "open" /\ phase' = "attach"
      BY <2>8 DEF BuildSubgraph, inputs, expansion
    <3>2. CASE cut # {}
      BY <2>1, <3>1, <3>2 DEF Expansion!Next, Expansion!GiveUp
    <3>3. CASE cut = {}
      <4>1. \A n \in included : \A e \in DependencyEdges(store, n) :
               Present(store, e) => store.edges[e].target \in included
        BY <3>1, <3>3 DEF ClosedUnlessCut, DependencyEdges, OutEdges, Present
      <4>2. \A n \in included : dep[n] \subseteq included
        BY <4>1, StoreShape DEF PresentTargets, Targets, TypeInv, TypeOK
      <4>3. ans' = "complete"
        BY <3>1, <3>3
      <4> QED
        BY <2>1, <3>1, <4>2, <4>3
           DEF Expansion!Next, Expansion!Complete, Expansion!Closed
    <3> QED
      BY <3>2, <3>3
  <2>9. CASE AttachStrictProvenance
    BY <2>2, <2>9 DEF AttachStrictProvenance, inputs, expansion
  <2>10. CASE ScoreSubgraph
    BY <2>2, <2>10 DEF ScoreSubgraph, inputs, expansion
  <2>11. CASE Emit
    BY <2>2, <2>11 DEF Emit, inputs, expansion
  <2>12. CASE UNCHANGED vars
    BY <2>2, <2>12 DEF vars, inputs, expansion
  <2> QED
    BY <2>3, <2>4, <2>5, <2>6, <2>7, <2>8, <2>9, <2>10, <2>11, <2>12
       DEF Next, Expand
<1> QED
  BY <1>1, <1>2, TypeInvariant, ExpansionInvariant, UncutIsClosed, PTL
     DEF Spec, ImplementsClosure, Expansion!Spec
-----------------------------------------------------------------------------
(* What an "ok" answer promises.                                           *)

\* How the answer is put together: the walked edges leave included nodes; the
\* subgraph is the expansion, then the expansion with one strict hop; and an
\* "ok" status means that the subgraph passed the hard-fail factors.
AnswerInv ==
    /\ \A e \in edges : /\ store.edges[e].source \in included
                        /\ e \in DependencyEdges(store, store.edges[e].source)
    /\ phase = "attach" =>
          subgraph.nodes = included /\ subgraph.edges = edges
    /\ phase \in {"score", "emit", "done"} =>
          /\ subgraph.nodes = included \cup Targets(StrictEdgesOf(included))
          /\ subgraph.edges = edges \cup StrictEdgesOf(included)
    /\ status # "none" => phase \in {"emit", "done"}
    /\ status = "ok" => ~ Blocked(subgraph)

\* Every reachable state satisfies the invariant of the answer.
THEOREM AnswerInvariant == Spec => []AnswerInv
<1>1. Init => AnswerInv
  BY DEF Init, AnswerInv
<1>2. ExpansionInv /\ AnswerInv /\ [Next]_vars => AnswerInv'
  <2> SUFFICES ASSUME ExpansionInv, AnswerInv, [Next]_vars PROVE AnswerInv'
    OBVIOUS
  <2>1. CASE SelectSeeds
    <3>1. /\ UNCHANGED <<store, edges, subgraph, status>>
          /\ phase = "seed" /\ phase' = "expand" /\ included = {}
      BY <2>1 DEF SelectSeeds, ExpansionInv, inputs, answer
    <3> QED
      BY <3>1 DEF AnswerInv
  <2>2. CASE SkipAtLimit \/ PopNode
    <3>1. /\ UNCHANGED <<store, phase, edges, included, subgraph, status>>
          /\ phase = "expand"
      BY <2>2 DEF SkipAtLimit, PopNode, CanPop, inputs, answer
    <3> QED
      BY <3>1 DEF AnswerInv, DependencyEdges, OutEdges
  <2>3. ASSUME NEW e \in todo,
               RecordMissing(e) \/ SkipKnown(e) \/ EnqueueTarget(e)
        PROVE  AnswerInv'
    <3>1. /\ UNCHANGED <<store, phase, subgraph, status>>
          /\ phase = "expand" /\ edges' = edges \cup {e}
          /\ included \subseteq included'
      BY <2>3 DEF RecordMissing, SkipKnown, EnqueueTarget, Visit, inputs, answer
    <3>2. /\ store.edges[e].source \in included
          /\ e \in DependencyEdges(store, store.edges[e].source)
      BY DEF ExpansionInv
    <3> QED
      BY <3>1, <3>2 DEF AnswerInv, DependencyEdges, OutEdges
  <2>4. CASE BuildSubgraph
    BY <2>4 DEF BuildSubgraph, AnswerInv, DependencyEdges, OutEdges, inputs,
                expansion
  <2>5. CASE AttachStrictProvenance
    <3>1. /\ UNCHANGED <<store, edges, included, status>>
          /\ phase = "attach" /\ phase' = "score"
          /\ subgraph' = [nodes |-> subgraph.nodes \cup Targets(StrictHop),
                          edges |-> subgraph.edges \cup StrictHop]
      BY <2>5 DEF AttachStrictProvenance, inputs, expansion
    <3>2. StrictHop = StrictEdgesOf(included)
      BY <3>1 DEF AnswerInv, StrictHop, StrictEdgesOf
    <3>3. StrictEdgesOf(included)' = StrictEdgesOf(included)
      BY <3>1 DEF StrictEdgesOf, ProvenanceEdges, OutEdges, Present
    <3>4. Targets(StrictEdgesOf(included))' = Targets(StrictEdgesOf(included))
      BY <3>1, <3>3 DEF Targets
    <3> QED
      BY <3>1, <3>2, <3>3, <3>4 DEF AnswerInv, DependencyEdges, OutEdges
  <2>6. CASE ScoreSubgraph \/ Emit \/ UNCHANGED vars
    <3>1. UNCHANGED <<store, request, edges, included, subgraph>>
      BY <2>6 DEF ScoreSubgraph, Emit, vars, inputs, expansion, answer
    <3>2. StrictEdgesOf(included)' = StrictEdgesOf(included)
      BY <3>1 DEF StrictEdgesOf, ProvenanceEdges, OutEdges, Present
    <3>3. Targets(StrictEdgesOf(included))' = Targets(StrictEdgesOf(included))
      BY <3>1, <3>2 DEF Targets
    <3>4. Blocked(subgraph)' = Blocked(subgraph)
      BY <3>1 DEF Blocked, ClosureFails, ProvenanceFails, BoundaryFails,
                  CausalFails, ExportAllowed, Targets, DependencyEdges,
                  ProvenanceEdges, OutEdges
    <3>5. CASE ScoreSubgraph
      BY <3>1, <3>2, <3>3, <3>4, <3>5
         DEF ScoreSubgraph, AnswerInv, DependencyEdges, OutEdges
    <3>6. CASE Emit
      BY <3>1, <3>2, <3>3, <3>4, <3>6
         DEF Emit, AnswerInv, DependencyEdges, OutEdges
    <3>7. CASE UNCHANGED vars
      BY <3>1, <3>2, <3>3, <3>4, <3>7
         DEF vars, answer, AnswerInv, DependencyEdges, OutEdges
    <3> QED
      BY <2>6, <3>5, <3>6, <3>7
  <2> QED
    BY <2>1, <2>2, <2>3, <2>4, <2>5, <2>6 DEF Next, Expand
<1> QED
  BY <1>1, <1>2, ExpansionInvariant, PTL DEF Spec

\* The nodes and edges of an "ok" answer, and what the factors say of them.
LEMMA OkAnswer ==
    ASSUME AnswerInv, status = "ok"
    PROVE  /\ subgraph.nodes = included \cup Targets(StrictEdgesOf(included))
           /\ subgraph.edges = edges \cup StrictEdgesOf(included)
           /\ ~ ClosureFails(subgraph)
           /\ ~ ProvenanceFails(subgraph)
BY DEF AnswerInv, Blocked

\* A graph: no edge of an "ok" answer hangs in the air.
THEOREM OkIsAGraph == Spec => []OkHasNoDanglingEdge
<1>1. AnswerInv => OkHasNoDanglingEdge
  <2> SUFFICES ASSUME AnswerInv, status = "ok", NEW e \in subgraph.edges
               PROVE  /\ store.edges[e].source \in subgraph.nodes
                      /\ store.edges[e].target \in subgraph.nodes
    BY DEF OkHasNoDanglingEdge
  <2>1. CASE e \in edges
    <3>1. /\ store.edges[e].source \in subgraph.nodes
          /\ e \in DependencyEdges(store, store.edges[e].source)
      BY <2>1, OkAnswer DEF AnswerInv
    <3>2. store.edges[e].target
            \in Targets(DependencyEdges(store, store.edges[e].source))
      BY <3>1 DEF Targets
    <3> QED
      BY <3>1, <3>2, OkAnswer DEF ClosureFails
  <2>2. CASE e \in StrictEdgesOf(included)
    <3>1. store.edges[e].source \in included
      BY <2>2 DEF StrictEdgesOf, ProvenanceEdges, OutEdges
    <3>2. store.edges[e].target \in Targets(StrictEdgesOf(included))
      BY <2>2 DEF Targets
    <3> QED
      BY <3>1, <3>2, OkAnswer
  <2> QED
    BY <2>1, <2>2, OkAnswer
<1> QED
  BY <1>1, AnswerInvariant, PTL

\* Cited: every claim the expansion reached comes with its source.  The
\* factor is content with a target in the store; the hop then brings it in.
THEOREM OkIsCited == Spec => []OkClaimsAreCited
<1>1. TypeOK /\ AnswerInv => OkClaimsAreCited
  <2> SUFFICES ASSUME TypeOK, AnswerInv, status = "ok",
                      NEW n \in included, store.nodes[n].claim
               PROVE  \E e \in ProvenanceEdges(store, n) \cap subgraph.edges :
                          store.edges[e].target \in subgraph.nodes
    BY DEF OkClaimsAreCited
  <2>1. n \in subgraph.nodes
    BY OkAnswer
  <2>2. PICK e \in ProvenanceEdges(store, n) :
                store.edges[e].target \in subgraph.nodes \cup DOMAIN store.nodes
    BY <2>1, OkAnswer DEF ProvenanceFails
  <2>3. subgraph.nodes \subseteq DOMAIN store.nodes
    BY OkAnswer DEF TypeOK, Targets, StrictEdgesOf, Present
  <2>4. e \in StrictEdgesOf(included)
    BY <2>2, <2>3 DEF StrictEdgesOf, Present
  <2>5. store.edges[e].target \in Targets(StrictEdgesOf(included))
    BY <2>4 DEF Targets
  <2> QED
    BY <2>2, <2>4, <2>5, OkAnswer
<1> QED
  BY <1>1, TypeCorrect, AnswerInvariant, PTL

-----------------------------------------------------------------------------
(* Balls.                                                                  *)

\* A ball of a store around nodes is one of nodes; its radius grows by one
\* spread at a time.
LEMMA BallSteps ==
    ASSUME NEW s, IsStore(s), NEW S \in SUBSET NodeId
    PROVE  /\ Ball(s, S, 0) = S
           /\ \A d \in Nat : /\ Ball(s, S, d) \subseteq NodeId
                             /\ Ball(s, S, d + 1) = Spread(s, Ball(s, S, d))
<1> DEFINE T == SUBSET NodeId
           step == [k \in Nat |-> [B \in T |-> Spread(s, B)]]
           IsBall(f) == f = [k \in Nat |-> IF k = 0 THEN S ELSE Spread(s, f[k - 1])]
           ball == CHOOSE f : IsBall(f)
<1>1. \A B \in T : Spread(s, B) \in T
  BY DEF Spread, PresentTargets, DependencyEdgesOf, DependencyEdges, OutEdges,
         IsStore, EdgeRecord
<1>2. step \in [Nat -> [T -> T]]
  BY <1>1
<1>3. PICK f \in [Nat -> T] : Iterates(f, S, step)
  <2>1. S \in T
    OBVIOUS
  <2> HIDE DEF step, T
  <2> QED
    BY <1>2, <2>1, IteratesExist
<1>4. ASSUME NEW k \in Nat
      PROVE  f[k] = IF k = 0 THEN S ELSE Spread(s, f[k - 1])
  <2>1. CASE k = 0
    BY <1>3, <2>1 DEF Iterates
  <2>2. CASE k # 0
    <3>1. k - 1 \in Nat /\ (k - 1) + 1 = k
      BY <2>2
    <3>2. f[k] = step[k - 1][f[k - 1]] /\ f[k - 1] \in T
      BY <1>3, <3>1 DEF Iterates
    <3> QED
      BY <2>2, <3>1, <3>2
  <2> QED
    BY <2>1, <2>2
<1>5. IsBall(f)
  BY <1>3, <1>4
<1>6. IsBall(ball)
  <2> HIDE DEF IsBall
  <2> QED
    BY <1>5
<1>7. \A d \in Nat : Ball(s, S, d) = ball[d]
  BY DEF Ball
<1>8. ball[0] = S /\ \A d \in Nat : ball[d + 1] = Spread(s, ball[d])
  <2> HIDE DEF ball
  <2>1. ball = [k \in Nat |-> IF k = 0 THEN S ELSE Spread(s, ball[k - 1])]
    BY <1>6
  <2>2. \A d \in Nat : d + 1 \in Nat /\ d + 1 # 0 /\ (d + 1) - 1 = d
    OBVIOUS
  <2>3. ball[0] = S
    BY <2>1
  <2>4. ASSUME NEW d \in Nat PROVE ball[d + 1] = Spread(s, ball[d])
    BY <2>1, <2>2
  <2> QED
    BY <2>3, <2>4
<1>9. \A d \in Nat : ball[d] \in T
  <2> DEFINE P == {d \in Nat : ball[d] \in T}
  <2> HIDE DEF ball
  <2>1. 0 \in P
    BY <1>8
  <2>2. ASSUME NEW d \in Nat, d \in P PROVE d + 1 \in P
    BY <1>1, <1>8, <2>2
  <2> HIDE DEF P
  <2>3. Nat \subseteq P
    BY <2>1, <2>2, SetInduction
  <2> QED
    BY <2>3 DEF P
<1> HIDE DEF ball
<1> QED
  BY <1>7, <1>8, <1>9

\* A larger radius reaches no fewer nodes.
LEMMA BallGrows ==
    ASSUME NEW s, IsStore(s), NEW S \in SUBSET NodeId,
           NEW c \in Nat, NEW d \in Nat, c <= d
    PROVE  Ball(s, S, c) \subseteq Ball(s, S, d)
<1> DEFINE P == {k \in Nat : Ball(s, S, c) \subseteq Ball(s, S, c + k)}
<1>1. 0 \in P
  BY BallSteps
<1>2. ASSUME NEW k \in Nat, k \in P PROVE k + 1 \in P
  <2>1. c + k \in Nat /\ c + (k + 1) = (c + k) + 1
    OBVIOUS
  <2>2. Ball(s, S, c + (k + 1)) = Spread(s, Ball(s, S, c + k))
    BY <2>1, BallSteps
  <2> QED
    BY <1>2, <2>2 DEF Spread
<1> HIDE DEF P
<1>3. d - c \in P
  BY <1>1, <1>2, SetInduction
<1>4. c + (d - c) = d
  OBVIOUS
<1> QED
  BY <1>3, <1>4 DEF P

-----------------------------------------------------------------------------
(* The level invariant of the expansion.                                   *)

AtDistance(n, d) == n \in Within(d) /\ (d > 0 => n \notin Within(d - 1))

\* The deque holds the rest of one level and what there is yet of the next.
QueueInv ==
    /\ \A i \in 1 .. Len(queue) :
          /\ queue[i].depth \in {depth, depth + 1}
          /\ AtDistance(queue[i].node, queue[i].depth)
    /\ \A i, j \in 1 .. Len(queue) : i < j =>
          queue[i].node # queue[j].node /\ queue[i].depth <= queue[j].depth

\* The levels up to the current one are complete, nothing is farther away
\* than the limit, and what was cut is exactly as far.
ReachInv ==
    /\ Within(depth) \subseteq included
    /\ included \subseteq Within(MaxDepth)
    /\ \A n \in cut : AtDistance(n, MaxDepth)
    /\ \A e \in todo : store.edges[e].source \in Within(depth)

RecordInv ==
    /\ \A e \in edges : store.edges[e].source \in Expanded
    /\ missing = {e \in edges : ~ Present(store, e)}

LevelInv ==
    /\ phase = "seed" => seeds = <<>> /\ depth = 0 /\ edges = {} /\ missing = {}
    /\ QueueInv
    /\ ReachInv
    /\ RecordInv

\* The nodes one dependency farther away than d.
LEMMA WithinGrows ==
    ASSUME TypeOK
    PROVE  /\ SeedSet \subseteq NodeId
           /\ Within(0) = SeedSet
           /\ \A d \in Nat : Within(d) \subseteq NodeId
           /\ \A c, d \in Nat : c <= d => Within(c) \subseteq Within(d)
           /\ \A d \in Nat : \A n \in Within(d) : \A e \in DependencyEdges(store, n) :
                 Present(store, e) => store.edges[e].target \in Within(d + 1)
           /\ \A d \in Nat : \A x \in Within(d + 1) \ Within(d) :
                 \E n \in Within(d) : \E e \in DependencyEdges(store, n) :
                    Present(store, e) /\ store.edges[e].target = x
<1>1. IsStore(store)
  BY RetrievalAssumption DEF TypeOK
<1>2. SeedSet \in SUBSET NodeId
  BY DEF TypeOK, SeedSet
<1>3. \A d \in Nat : Within(d + 1) = Spread(store, Within(d))
  BY <1>1, <1>2, BallSteps DEF Within
<1>4. Within(0) = SeedSet /\ \A d \in Nat : Within(d) \subseteq NodeId
  BY <1>1, <1>2, BallSteps DEF Within
<1>5. \A c, d \in Nat : c <= d => Within(c) \subseteq Within(d)
  BY <1>1, <1>2, BallGrows DEF Within
<1>6. ASSUME NEW d \in Nat, NEW n \in Within(d),
             NEW e \in DependencyEdges(store, n), Present(store, e)
      PROVE  store.edges[e].target \in Within(d + 1)
  <2>1. e \in DependencyEdgesOf(store, Within(d))
    BY DEF DependencyEdgesOf
  <2> QED
    BY <1>3, <1>6, <2>1 DEF Spread, PresentTargets
<1>7. ASSUME NEW d \in Nat, NEW x \in Within(d + 1) \ Within(d)
      PROVE  \E n \in Within(d) : \E e \in DependencyEdges(store, n) :
                Present(store, e) /\ store.edges[e].target = x
  <2>1. PICK e \in DependencyEdgesOf(store, Within(d)) :
            Present(store, e) /\ store.edges[e].target = x
    BY <1>3 DEF Spread, PresentTargets
  <2> QED
    BY <2>1 DEF DependencyEdgesOf
<1> QED
  BY <1>2, <1>4, <1>5, <1>6, <1>7

\* While the store and the seeds stay, so do the distances.
LEMMA WithinStays ==
    ASSUME store' = store, seeds' = seeds
    PROVE  SeedSet' = SeedSet /\ Expanded' = Expanded
BY DEF SeedSet, Expanded, Within

\* When no node at distance at most d waits, is being expanded or was cut,
\* the nodes one step farther away are included.
LEMMA LevelIsDone ==
    ASSUME TypeOK, ExpansionInv, todo = {}, NEW d \in Nat,
           Within(d) \subseteq included,
           Within(d) \cap (NodesOf(queue) \cup cut) = {}
    PROVE  /\ Within(d + 1) \subseteq included
           /\ DependencyEdgesOf(store, Within(d)) \subseteq edges
<1>1. \A n \in Within(d) : \A e \in DependencyEdges(store, n) : Handled(e)
  BY DEF ExpansionInv, Accounted
<1>2. DependencyEdgesOf(store, Within(d)) \subseteq edges
  BY <1>1 DEF DependencyEdgesOf, Handled
<1>3. ASSUME NEW x \in Within(d + 1) \ Within(d) PROVE x \in included
  <2>1. PICK n \in Within(d) : \E e \in DependencyEdges(store, n) :
            Present(store, e) /\ store.edges[e].target = x
    BY WithinGrows
  <2> QED
    BY <1>1, <2>1 DEF Handled
<1> QED
  BY <1>2, <1>3

\* A node that was cut is farther away than anything below the limit.
LEMMA CutIsFar ==
    ASSUME TypeOK, ReachInv, NEW d \in Nat, d < MaxDepth
    PROVE  Within(d) \cap cut = {}
<1>1. /\ MaxDepth \in Nat /\ MaxDepth > 0
      /\ MaxDepth - 1 \in Nat /\ d <= MaxDepth - 1
  BY RetrievalAssumption
<1>2. Within(d) \subseteq Within(MaxDepth - 1)
  BY <1>1, WithinGrows
<1> QED
  BY <1>1, <1>2 DEF ReachInv, AtDistance

\* Where the elements of a deque are after popleft and append.
LEMMA QueueEnds ==
    ASSUME NEW q \in Seq(QueueEntry)
    PROVE  /\ q # <<>> =>
                /\ 1 \in 1 .. Len(q) /\ Head(q) = q[1] /\ q[1] \in QueueEntry
                /\ \A i \in 1 .. Len(Tail(q)) :
                      i + 1 \in 1 .. Len(q) /\ Tail(q)[i] = q[i + 1]
           /\ \A x \in QueueEntry :
                /\ Len(Append(q, x)) = Len(q) + 1
                /\ Append(q, x)[Len(q) + 1] = x
                /\ \A i \in 1 .. Len(q) : Append(q, x)[i] = q[i]
           /\ Len(q) \in Nat
           /\ \A i \in 1 .. Len(q) : q[i] \in QueueEntry
<1>1. Len(q) \in Nat /\ \A i \in 1 .. Len(q) : q[i] \in QueueEntry
  OBVIOUS
<1>2. ASSUME q # <<>>
      PROVE  /\ 1 \in 1 .. Len(q) /\ Head(q) = q[1]
             /\ \A i \in 1 .. Len(Tail(q)) :
                   i + 1 \in 1 .. Len(q) /\ Tail(q)[i] = q[i + 1]
  BY <1>2
<1>3. ASSUME NEW x \in QueueEntry
      PROVE  /\ Len(Append(q, x)) = Len(q) + 1
             /\ Append(q, x)[Len(q) + 1] = x
             /\ \A i \in 1 .. Len(q) : Append(q, x)[i] = q[i]
  OBVIOUS
<1> QED
  BY <1>1, <1>2, <1>3

\* The seeds are distinct, and the level of distance 0.
LEMMA SeedsMakeALevel ==
    ASSUME TypeOK, ExpansionInv, LevelInv, SelectSeeds
    PROVE  LevelInv'
<1>1. PICK q \in SeedLists :
         /\ seeds' = q
         /\ included' = {q[i] : i \in 1 .. SeedCount}
         /\ queue' = [i \in 1 .. SeedCount |-> [node |-> q[i], depth |-> 0]]
  BY DEF SelectSeeds
<1>2. /\ UNCHANGED <<store, depth, todo, edges, missing, cut>>
      /\ depth = 0 /\ edges = {} /\ missing = {} /\ phase' = "expand"
      /\ seeds = <<>>
  BY DEF SelectSeeds, LevelInv, inputs
<1>3. SeedCount \in Nat /\ q \in [1 .. SeedCount -> SeedCandidates]
  BY SeedsAreNodes DEF TypeOK
<1>4. included' = SeedSet'
  BY <1>1, <1>3 DEF SeedSet
<1>5. Len(queue') = SeedCount
  BY <1>1, <1>3
<1>6. IsStore(store) /\ SeedSet' \in SUBSET NodeId
  BY <1>1, <1>3, <1>4, SeedsAreNodes, StoreShape, RetrievalAssumption DEF TypeOK
<1>7. /\ Ball(store, SeedSet', 0) = SeedSet'
      /\ SeedSet' \subseteq Ball(store, SeedSet', MaxDepth)
  <2>1. 0 \in Nat /\ MaxDepth \in Nat /\ 0 <= MaxDepth
    BY RetrievalAssumption
  <2>2. Ball(store, SeedSet', 0) = SeedSet'
    BY <1>6, BallSteps
  <2>3. Ball(store, SeedSet', 0) \subseteq Ball(store, SeedSet', MaxDepth)
    BY <1>6, <2>1, BallGrows
  <2> QED
    BY <2>2, <2>3
<1>8. QueueInv'
  <2>1. ASSUME NEW i \in 1 .. SeedCount
        PROVE  /\ queue'[i].depth = depth'
               /\ AtDistance(queue[i].node, queue[i].depth)'
    <3>1. queue'[i].depth = 0 /\ queue'[i].node = q[i]
      BY <1>1
    <3>2. q[i] \in SeedSet'
      BY <1>1, <1>4
    <3> QED
      BY <1>2, <1>7, <3>1, <3>2 DEF AtDistance, Within
  <2>2. ASSUME NEW i \in 1 .. SeedCount, NEW j \in 1 .. SeedCount, i < j
        PROVE  /\ queue'[i].node # queue'[j].node
               /\ queue'[i].depth <= queue'[j].depth
    <3>1. /\ queue'[i].depth = 0 /\ queue'[i].node = q[i]
          /\ queue'[j].depth = 0 /\ queue'[j].node = q[j]
      BY <1>1
    <3>2. Before(q[i], q[j])
      BY <2>2 DEF SeedLists
    <3>3. ASSUME q[i] = q[j] PROVE FALSE
      <4>1. q[i] \in NodeId /\ request.relevance[q[i]] \in Nat /\ q[i] \in Nat
        BY <1>3, SeedsAreNodes, StoreShape, RetrievalAssumption,
           GraphStoreAssumption DEF TypeOK
      <4> QED
        BY <3>2, <3>3, <4>1 DEF Before
    <3> QED
      BY <3>1, <3>3
  <2> QED
    BY <1>5, <2>1, <2>2 DEF QueueInv
<1>9. cut = {} /\ todo = {}
  BY DEF SelectSeeds, ExpansionInv
<1>10. ReachInv'
  BY <1>2, <1>4, <1>7, <1>9 DEF ReachInv, Within
<1>11. RecordInv'
  BY <1>2 DEF RecordInv
<1> QED
  BY <1>2, <1>8, <1>10, <1>11 DEF LevelInv

\* popleft leaves the rest in its order, none of it before the head.
LEMMA TailIsOrdered ==
    ASSUME TypeOK, QueueInv, queue # <<>>,
           NEW i \in 1 .. Len(Tail(queue))
    PROVE  /\ Tail(queue)[i].depth \in {depth, depth + 1}
           /\ Tail(queue)[i].depth >= Head(queue).depth
           /\ AtDistance(Tail(queue)[i].node, Tail(queue)[i].depth)
           /\ \A j \in 1 .. Len(Tail(queue)) : i < j =>
                 /\ Tail(queue)[i].node # Tail(queue)[j].node
                 /\ Tail(queue)[i].depth <= Tail(queue)[j].depth
<1>1. queue \in Seq(QueueEntry)
  BY DEF TypeOK
<1>2. /\ 1 \in 1 .. Len(queue) /\ Head(queue) = queue[1]
      /\ i + 1 \in 1 .. Len(queue) /\ Tail(queue)[i] = queue[i + 1]
      /\ 1 < i + 1
  BY <1>1, QueueEnds
<1>3. queue[1].depth <= queue[i + 1].depth
  BY <1>2 DEF QueueInv
<1>4. /\ Tail(queue)[i].depth \in {depth, depth + 1}
      /\ AtDistance(Tail(queue)[i].node, Tail(queue)[i].depth)
  BY <1>2 DEF QueueInv
<1>5. ASSUME NEW j \in 1 .. Len(Tail(queue)), i < j
      PROVE  /\ Tail(queue)[i].node # Tail(queue)[j].node
             /\ Tail(queue)[i].depth <= Tail(queue)[j].depth
  <2>1. j + 1 \in 1 .. Len(queue) /\ Tail(queue)[j] = queue[j + 1] /\ i + 1 < j + 1
    BY <1>1, <1>5, QueueEnds
  <2> QED
    BY <1>2, <2>1 DEF QueueInv
<1>6. Tail(queue)[i].depth >= Head(queue).depth
  <2>1. queue[1] \in QueueEntry /\ queue[i + 1] \in QueueEntry
    BY <1>1, <1>2, QueueEnds
  <2> QED
    BY <1>2, <1>3, <2>1, RetrievalAssumption DEF QueueEntry
<1> QED
  BY <1>4, <1>5, <1>6

\* A node popped at the limit is exactly as far away as the limit.
LEMMA SkipKeepsLevels ==
    ASSUME TypeOK, ExpansionInv, LevelInv, SkipAtLimit
    PROVE  LevelInv'
<1>1. /\ UNCHANGED <<store, phase, seeds, included, depth, todo, edges, missing>>
      /\ queue # <<>> /\ queue' = Tail(queue) /\ phase = "expand"
      /\ cut' = cut \cup {Head(queue).node} /\ Head(queue).depth >= MaxDepth
  BY DEF SkipAtLimit, CanPop, inputs
<1>2. /\ SeedSet' = SeedSet /\ Expanded' = Expanded
  BY <1>1, WithinStays
<1>3. QueueInv'
  BY <1>1, <1>2, TailIsOrdered DEF LevelInv, QueueInv, AtDistance, Within
<1>4. AtDistance(Head(queue).node, MaxDepth)
  <2>1. /\ queue \in Seq(QueueEntry)
        /\ 1 \in 1 .. Len(queue) /\ Head(queue) = queue[1]
        /\ queue[1] \in QueueEntry
    BY <1>1, QueueEnds DEF TypeOK
  <2>2. Head(queue).depth = MaxDepth
    BY <1>1, <2>1, RetrievalAssumption DEF QueueEntry
  <2> QED
    BY <2>1, <2>2 DEF LevelInv, QueueInv
<1>5. ReachInv'
  BY <1>1, <1>2, <1>4 DEF LevelInv, ReachInv, AtDistance, Within
<1>6. RecordInv'
  BY <1>1, <1>2 DEF LevelInv, RecordInv, Present
<1> QED
  BY <1>1, <1>3, <1>5, <1>6 DEF LevelInv

\* When the first node of the next level is popped, the next level is complete.
LEMMA PopKeepsLevels ==
    ASSUME TypeOK, ExpansionInv, LevelInv, PopNode
    PROVE  LevelInv'
<1> DEFINE head == Head(queue)
<1>1. /\ UNCHANGED <<store, phase, seeds, included, edges, missing, cut>>
      /\ queue # <<>> /\ queue' = Tail(queue) /\ phase = "expand" /\ todo = {}
      /\ depth' = head.depth /\ head.depth < MaxDepth
      /\ todo' = DependencyEdges(store, head.node)
  BY DEF PopNode, CanPop, inputs
<1>2. /\ SeedSet' = SeedSet /\ Expanded' = Expanded
  BY <1>1, WithinStays
<1>3. /\ queue \in Seq(QueueEntry)
      /\ 1 \in 1 .. Len(queue) /\ head = queue[1]
      /\ queue[1] \in QueueEntry
  BY <1>1, QueueEnds DEF TypeOK
<1>4. /\ head.depth \in {depth, depth + 1} /\ AtDistance(head.node, head.depth)
      /\ head.depth \in Nat /\ depth \in Nat
  BY <1>3, RetrievalAssumption DEF LevelInv, QueueInv, QueueEntry, TypeOK
<1>5. QueueInv'
  <2>1. ASSUME NEW i \in 1 .. Len(Tail(queue))
        PROVE  Tail(queue)[i].depth \in {head.depth, head.depth + 1}
    <3>1. /\ Tail(queue)[i].depth \in {depth, depth + 1}
          /\ Tail(queue)[i].depth >= head.depth
      BY <1>1, TailIsOrdered DEF LevelInv
    <3> QED
      BY <1>4, <3>1
  <2> QED
    BY <1>1, <1>2, <2>1, TailIsOrdered
       DEF LevelInv, QueueInv, AtDistance, Within
<1>6. Within(head.depth) \subseteq included
  <2>1. CASE head.depth = depth
    BY <2>1 DEF LevelInv, ReachInv
  <2>2. CASE head.depth = depth + 1
    <3>1. ASSUME NEW i \in 1 .. Len(queue)
          PROVE  queue[i].node \notin Within(depth)
      <4>1. queue[i].depth = depth + 1
        <5>1. /\ queue[i].depth \in {depth, depth + 1}
              /\ i # 1 => queue[1].depth <= queue[i].depth
          BY DEF LevelInv, QueueInv
        <5> QED
          BY <1>3, <1>4, <2>2, <5>1
      <4>2. AtDistance(queue[i].node, depth + 1)
        BY <4>1 DEF LevelInv, QueueInv
      <4>3. (depth + 1) - 1 = depth /\ depth + 1 > 0
        BY <1>4
      <4> QED
        BY <4>2, <4>3 DEF AtDistance
    <3>2. Within(depth) \cap cut = {}
      <4>1. depth < MaxDepth
        BY <1>1, <1>4, <2>2, RetrievalAssumption
      <4> QED
        BY <1>4, <4>1, CutIsFar DEF LevelInv
    <3>3. Within(depth) \subseteq included
      BY DEF LevelInv, ReachInv
    <3>4. Within(depth) \cap (NodesOf(queue) \cup cut) = {}
      BY <3>1, <3>2 DEF NodesOf
    <3> QED
      BY <1>1, <1>4, <2>2, <3>3, <3>4, LevelIsDone
  <2> QED
    BY <1>4, <2>1, <2>2
<1>7. \A e \in todo' : store.edges[e].source \in Within(head.depth)
  BY <1>1, <1>4 DEF AtDistance, DependencyEdges, OutEdges
<1>8. ReachInv'
  BY <1>1, <1>2, <1>6, <1>7 DEF LevelInv, ReachInv, AtDistance, Within
<1>9. RecordInv'
  BY <1>1, <1>2 DEF LevelInv, RecordInv, Present
<1> QED
  BY <1>1, <1>5, <1>8, <1>9 DEF LevelInv

\* A visited edge leaves a node below the limit.
LEMMA VisitRecords ==
    ASSUME TypeInv, LevelInv, NEW e \in todo, Visit(e),
           missing' = IF Present(store, e) THEN missing ELSE missing \cup {e}
    PROVE  /\ SeedSet' = SeedSet /\ RecordInv'
           /\ store.edges[e].source \in Within(depth)
           /\ depth \in Nat /\ depth < MaxDepth /\ MaxDepth \in Nat
<1>1. /\ UNCHANGED <<store, seeds>>
      /\ edges' = edges \cup {e}
  BY DEF Visit, inputs
<1>2. SeedSet' = SeedSet /\ Expanded' = Expanded
  BY <1>1, WithinStays
<1>3. depth \in Nat /\ depth < MaxDepth /\ MaxDepth \in Nat
  BY RetrievalAssumption DEF TypeInv, TypeOK
<1>4. store.edges[e].source \in Within(depth)
  BY DEF LevelInv, ReachInv
<1>5. Within(depth) \subseteq Expanded
  <2>1. MaxDepth # 0 /\ MaxDepth - 1 \in Nat /\ depth <= MaxDepth - 1
    BY <1>3
  <2> QED
    BY <1>3, <2>1, WithinGrows DEF TypeInv, Expanded
<1>6. missing' = {f \in edges' : ~ Present(store, f)}
  BY <1>1 DEF LevelInv, RecordInv
<1>7. RecordInv'
  BY <1>1, <1>2, <1>4, <1>5, <1>6 DEF LevelInv, RecordInv, Present
<1> QED
  BY <1>2, <1>3, <1>4, <1>7

\* An edge to a missing or a known node changes no level.
LEMMA SkipEdgeKeepsLevels ==
    ASSUME TypeInv, LevelInv, NEW e \in todo, RecordMissing(e) \/ SkipKnown(e)
    PROVE  LevelInv'
<1>1. /\ Visit(e) /\ UNCHANGED <<included, queue>>
      /\ missing' = IF Present(store, e) THEN missing ELSE missing \cup {e}
  BY DEF RecordMissing, SkipKnown
<1>2. /\ UNCHANGED <<store, phase, seeds, depth, cut>>
      /\ phase = "expand" /\ todo' = todo \ {e}
  BY <1>1 DEF Visit, inputs
<1>3. SeedSet' = SeedSet /\ RecordInv'
  BY <1>1, VisitRecords
<1>4. QueueInv'
  BY <1>1, <1>2, <1>3 DEF LevelInv, QueueInv, AtDistance, Within
<1>5. ReachInv'
  BY <1>1, <1>2, <1>3 DEF LevelInv, ReachInv, AtDistance, Within
<1> QED
  BY <1>2, <1>3, <1>4, <1>5 DEF LevelInv

\* A new target is one step farther away than the node in hand.
LEMMA EnqueueKeepsLevels ==
    ASSUME TypeInv, ExpansionInv, LevelInv, NEW e \in todo, EnqueueTarget(e)
    PROVE  LevelInv'
<1> DEFINE target == store.edges[e].target
           entry  == [node |-> target, depth |-> depth + 1]
<1>1. /\ Visit(e) /\ Present(store, e) /\ target \notin included
      /\ included' = included \cup {target} /\ queue' = Append(queue, entry)
      /\ missing' = IF Present(store, e) THEN missing ELSE missing \cup {e}
  BY DEF EnqueueTarget
<1>2. /\ UNCHANGED <<store, phase, seeds, depth, cut>>
      /\ phase = "expand" /\ todo' = todo \ {e}
  BY <1>1 DEF Visit, inputs
<1>3. /\ SeedSet' = SeedSet /\ RecordInv'
      /\ store.edges[e].source \in Within(depth)
      /\ depth \in Nat /\ depth < MaxDepth /\ MaxDepth \in Nat
  BY <1>1, VisitRecords
<1>4. /\ target \in Within(depth + 1) /\ target \notin Within(depth)
      /\ Within(depth + 1) \subseteq Within(MaxDepth)
  <2>1. e \in DependencyEdges(store, store.edges[e].source)
    BY DEF ExpansionInv
  <2>2. target \in Within(depth + 1)
    BY <1>1, <1>3, <2>1, WithinGrows DEF TypeInv
  <2>3. target \notin Within(depth)
    BY <1>1 DEF LevelInv, ReachInv
  <2>4. depth + 1 \in Nat /\ depth + 1 <= MaxDepth
    BY <1>3
  <2>5. Within(depth + 1) \subseteq Within(MaxDepth)
    BY <1>3, <2>4, WithinGrows DEF TypeInv
  <2> QED
    BY <2>2, <2>3, <2>5
<1>5. AtDistance(target, depth + 1)
  BY <1>3, <1>4 DEF AtDistance
<1>6. /\ Len(queue') = Len(queue) + 1 /\ Len(queue) \in Nat
      /\ queue'[Len(queue) + 1] = entry
      /\ \A i \in 1 .. Len(queue) : queue'[i] = queue[i]
  <2>1. queue \in Seq(QueueEntry)
    BY DEF TypeInv, TypeOK
  <2>2. entry \in QueueEntry
    BY <1>3, StoreShape DEF TypeInv, TypeOK, QueueEntry
  <2> HIDE DEF entry
  <2> QED
    BY <1>1, <2>1, <2>2, QueueEnds
<1>7. QueueInv'
  <2>1. ASSUME NEW i \in 1 .. Len(queue')
        PROVE  /\ queue'[i].depth \in {depth, depth + 1}
               /\ AtDistance(queue'[i].node, queue'[i].depth)
    <3>1. CASE i = Len(queue) + 1
      BY <1>5, <1>6, <3>1
    <3>2. CASE i # Len(queue) + 1
      <4>1. i \in 1 .. Len(queue) /\ queue'[i] = queue[i]
        BY <1>6, <3>2
      <4> QED
        BY <4>1 DEF LevelInv, QueueInv
    <3> QED
      BY <3>1, <3>2
  <2>2. ASSUME NEW i \in 1 .. Len(queue'), NEW j \in 1 .. Len(queue'), i < j
        PROVE  queue'[i].node # queue'[j].node /\ queue'[i].depth <= queue'[j].depth
    <3>1. i \in 1 .. Len(queue) /\ queue'[i] = queue[i]
      BY <1>6, <2>2
    <3>2. CASE j = Len(queue) + 1
      <4>1. queue'[j] = entry
        BY <1>6, <3>2
      <4>2. queue[i].node \in included
        BY <3>1 DEF ExpansionInv, NodesOf
      <4>3. queue[i].depth \in {depth, depth + 1}
        BY <3>1 DEF LevelInv, QueueInv
      <4> QED
        BY <1>1, <1>3, <3>1, <4>1, <4>2, <4>3
    <3>3. CASE j # Len(queue) + 1
      <4>1. j \in 1 .. Len(queue) /\ queue'[j] = queue[j]
        BY <1>6, <3>3
      <4> QED
        BY <2>2, <3>1, <4>1 DEF LevelInv, QueueInv
    <3> QED
      BY <3>2, <3>3
  <2> QED
    BY <1>2, <1>3, <2>1, <2>2 DEF QueueInv, AtDistance, Within
<1>8. ReachInv'
  BY <1>1, <1>2, <1>3, <1>4 DEF LevelInv, ReachInv, AtDistance, Within
<1> QED
  BY <1>2, <1>3, <1>7, <1>8 DEF LevelInv

\* Every reachable state satisfies the level invariant.
THEOREM LevelInvariant == Spec => []LevelInv
<1>1. Init => LevelInv
  <2> SUFFICES ASSUME Init PROVE LevelInv
    OBVIOUS
  <2>1. /\ seeds = <<>> /\ depth = 0 /\ edges = {} /\ missing = {}
        /\ queue = <<>> /\ included = {} /\ cut = {} /\ todo = {}
        /\ store \in Stores
    BY DEF Init
  <2>2. SeedSet = {}
    BY <2>1 DEF SeedSet
  <2>3. Within(0) = {}
    BY <2>1, <2>2, BallSteps, RetrievalAssumption DEF Within
  <2> QED
    BY <2>1, <2>3 DEF LevelInv, QueueInv, ReachInv, RecordInv
<1>2. TypeInv /\ ExpansionInv /\ LevelInv /\ [Next]_vars => LevelInv'
  <2> SUFFICES ASSUME TypeInv, ExpansionInv, LevelInv, [Next]_vars
               PROVE  LevelInv'
    OBVIOUS
  <2>1. CASE SelectSeeds
    BY <2>1, SeedsMakeALevel DEF TypeInv
  <2>2. CASE SkipAtLimit
    BY <2>2, SkipKeepsLevels DEF TypeInv
  <2>3. CASE PopNode
    BY <2>3, PopKeepsLevels DEF TypeInv
  <2>4. ASSUME NEW e \in todo, RecordMissing(e) \/ SkipKnown(e)
        PROVE  LevelInv'
    BY <2>4, SkipEdgeKeepsLevels
  <2>5. ASSUME NEW e \in todo, EnqueueTarget(e) PROVE LevelInv'
    BY <2>5, EnqueueKeepsLevels
  <2>6. CASE BuildSubgraph \/ AttachStrictProvenance \/ ScoreSubgraph \/ Emit
             \/ UNCHANGED vars
    <3>1. UNCHANGED <<store, expansion>> /\ (phase' = "seed" => phase = "seed")
      BY <2>6 DEF BuildSubgraph, AttachStrictProvenance, ScoreSubgraph, Emit,
                  vars, inputs
    <3>2. UNCHANGED <<store, seeds, included, queue, depth, todo, edges, missing,
                      cut>>
      BY <3>1 DEF expansion
    <3>3. SeedSet' = SeedSet /\ Expanded' = Expanded
      BY <3>2, WithinStays
    <3>4. QueueInv'
      BY <3>2, <3>3 DEF LevelInv, QueueInv, AtDistance, Within
    <3>5. ReachInv' /\ RecordInv'
      BY <3>2, <3>3
         DEF LevelInv, ReachInv, RecordInv, AtDistance, Within, Present
    <3> QED
      BY <3>1, <3>2, <3>4, <3>5 DEF LevelInv
  <2> QED
    BY <2>1, <2>2, <2>3, <2>4, <2>5, <2>6 DEF Next, Expand
<1> QED
  BY <1>1, <1>2, TypeInvariant, ExpansionInvariant, PTL DEF Spec

\* The deque is in the order of dependency distance, holds no node twice, and
\* carries with each node its distance.
THEOREM QueueIsByLevel == Spec => []QueueByLevel
<1>1. TypeOK /\ LevelInv => QueueByLevel
  <2> SUFFICES ASSUME TypeOK, LevelInv PROVE QueueByLevel
    OBVIOUS
  <2>1. depth \in Nat
    BY DEF TypeOK
  <2>2. ASSUME NEW i \in 1 .. Len(queue), NEW j \in 1 .. Len(queue), i < j
        PROVE  /\ queue[i].node # queue[j].node
               /\ queue[i].depth <= queue[j].depth
               /\ queue[j].depth <= queue[i].depth + 1
    <3>1. /\ queue[i].depth \in {depth, depth + 1}
          /\ queue[j].depth \in {depth, depth + 1}
          /\ queue[i].node # queue[j].node
          /\ queue[i].depth <= queue[j].depth
      BY <2>2 DEF LevelInv, QueueInv
    <3> QED
      BY <2>1, <3>1
  <2> QED
    BY <2>2 DEF LevelInv, QueueInv, QueueByLevel, AtDistance
<1> QED
  BY <1>1, TypeCorrect, LevelInvariant, PTL
-----------------------------------------------------------------------------
(* The answer.                                                             *)

\* What the expansion hands on is the ball of the depth limit around the
\* seeds, with the dependency edges of all nodes below the limit.
LEMMA ExpansionIsBall ==
    ASSUME TypeOK, ExpansionInv, LevelInv, AnswerInv,
           phase \notin {"seed", "expand"}
    PROVE  /\ included = Within(MaxDepth)
           /\ edges = DependencyEdgesOf(store, Expanded)
<1>1. queue = <<>> /\ todo = {} /\ NodesOf(queue) = {} /\ MaxDepth \in Nat
  BY RetrievalAssumption DEF ExpansionInv, NodesOf
<1>2. ASSUME NEW d \in Nat, d < MaxDepth, Within(d) \subseteq included
      PROVE  /\ Within(d + 1) \subseteq included
             /\ DependencyEdgesOf(store, Within(d)) \subseteq edges
  <2>1. Within(d) \cap (NodesOf(queue) \cup cut) = {}
    BY <1>1, <1>2, CutIsFar DEF LevelInv
  <2> QED
    BY <1>1, <1>2, <2>1, LevelIsDone
<1> DEFINE P == {d \in Nat : d <= MaxDepth => Within(d) \subseteq included}
<1>3. 0 \in P
  <2>1. depth \in Nat /\ 0 <= depth
    BY DEF TypeOK
  <2>2. Within(0) \subseteq Within(depth)
    BY <2>1, WithinGrows
  <2> QED
    BY <2>2 DEF LevelInv, ReachInv
<1>4. ASSUME NEW d \in Nat, d \in P PROVE d + 1 \in P
  BY <1>1, <1>2, <1>4
<1>5. Nat \subseteq P
  <2> HIDE DEF P
  <2> QED
    BY <1>3, <1>4, SetInduction
<1>6. included = Within(MaxDepth)
  <2>1. Within(MaxDepth) \subseteq included
    BY <1>1, <1>5
  <2> QED
    BY <2>1 DEF LevelInv, ReachInv
<1>7. DependencyEdgesOf(store, Expanded) \subseteq edges
  <2>1. CASE MaxDepth = 0
    BY <2>1 DEF Expanded, DependencyEdgesOf
  <2>2. CASE MaxDepth # 0
    <3>1. MaxDepth - 1 \in Nat /\ MaxDepth - 1 < MaxDepth
      BY <1>1, <2>2
    <3>2. Within(MaxDepth - 1) \subseteq included
      BY <1>1, <1>5, <3>1
    <3> QED
      BY <1>2, <2>2, <3>1, <3>2 DEF Expanded
  <2> QED
    BY <2>1, <2>2
<1>8. edges \subseteq DependencyEdgesOf(store, Expanded)
  BY DEF AnswerInv, LevelInv, RecordInv, DependencyEdgesOf
<1> QED
  BY <1>6, <1>7, <1>8

\* The answer is the reference answer, for every store, request and limit.
THEOREM AnswerIsReference == Spec => []SubgraphIsReference
<1>1. TypeOK /\ ExpansionInv /\ LevelInv /\ AnswerInv => SubgraphIsReference
  <2> SUFFICES ASSUME TypeOK, ExpansionInv, LevelInv, AnswerInv, Scored
               PROVE  SubgraphIsReference
    BY DEF SubgraphIsReference
  <2>1. phase \in {"emit", "done"}
    BY DEF Scored, AnswerInv
  <2>2. /\ included = Within(MaxDepth)
        /\ edges = DependencyEdgesOf(store, Expanded)
    BY <2>1, ExpansionIsBall
  <2>3. /\ subgraph.nodes = included \cup Targets(StrictEdgesOf(included))
        /\ subgraph.edges = edges \cup StrictEdgesOf(included)
    BY <2>1 DEF AnswerInv
  <2>4. missing = {e \in edges : ~ Present(store, e)}
    BY DEF LevelInv, RecordInv
  <2> QED
    BY <2>2, <2>3, <2>4 DEF SubgraphIsReference
<1> QED
  BY <1>1, TypeCorrect, ExpansionInvariant, LevelInvariant, AnswerInvariant, PTL

\* However far from the seeds a public retrieval met a node that is not to be
\* exported, within the limit or by the provenance hop, its answer is blocked.
THEOREM UnsafeIsBlocked == Spec => []UnsafeReachBlocks
<1>1. TypeOK /\ AnswerInv /\ SubgraphIsReference => UnsafeReachBlocks
  <2> SUFFICES ASSUME TypeOK, AnswerInv, SubgraphIsReference,
                      Scored, request.public,
                      NEW n \in Within(MaxDepth) \cup
                                Targets(StrictEdgesOf(Within(MaxDepth))),
                      \/ store.nodes[n].scope = "foreign"
                      \/ store.nodes[n].label # "releasable"
               PROVE  status = "blocked"
    BY DEF UnsafeReachBlocks
  <2>1. n \in subgraph.nodes
    BY DEF SubgraphIsReference
  <2>2. BoundaryFails(subgraph)
    BY <2>1 DEF BoundaryFails, ExportAllowed
  <2>3. status # "ok"
    BY <2>2 DEF AnswerInv, Blocked
  <2> QED
    BY <2>3 DEF Scored, TypeOK
<1> QED
  BY <1>1, TypeCorrect, AnswerInvariant, AnswerIsReference, PTL

\* An "ok" answer has the dependencies of its seeds to any distance, and none
\* of them is missing from the store: the depth limit made no difference.
OkReachesEverything ==
    status = "ok" =>
        \A d \in Nat : /\ Within(d) \subseteq subgraph.nodes
                       /\ \A e \in DependencyEdgesOf(store, Within(d)) :
                             Present(store, e)

\* The answer passed the closure factor, so that one more dependency of what
\* it holds is in it: by induction, all of them.
THEOREM OkIsClosedAtAnyDistance == Spec => []OkReachesEverything
<1>1. TypeOK /\ AnswerInv /\ SubgraphIsReference => OkReachesEverything
  <2> SUFFICES ASSUME TypeOK, AnswerInv, SubgraphIsReference, status = "ok"
               PROVE  \A d \in Nat :
                         /\ Within(d) \subseteq subgraph.nodes
                         /\ \A e \in DependencyEdgesOf(store, Within(d)) :
                               Present(store, e)
    BY DEF OkReachesEverything
  <2>1. ~ ClosureFails(subgraph)
    BY OkAnswer
  <2>2. subgraph.nodes \subseteq DOMAIN store.nodes
    BY OkAnswer DEF TypeOK, Targets, StrictEdgesOf, Present
  <2>3. \A n \in subgraph.nodes : \A e \in DependencyEdges(store, n) :
           store.edges[e].target \in subgraph.nodes
    BY <2>1 DEF ClosureFails, Targets
  <2> DEFINE P == {d \in Nat : Within(d) \subseteq subgraph.nodes}
  <2>4. 0 \in P
    <3>1. MaxDepth \in Nat /\ 0 <= MaxDepth
      BY RetrievalAssumption
    <3>2. Within(0) \subseteq Within(MaxDepth)
      BY <3>1, WithinGrows
    <3> QED
      BY <3>2 DEF SubgraphIsReference, Scored
  <2>5. ASSUME NEW d \in Nat, d \in P PROVE d + 1 \in P
    <3>1. ASSUME NEW x \in Within(d + 1) \ Within(d) PROVE x \in subgraph.nodes
      <4>1. PICK n \in Within(d) : \E e \in DependencyEdges(store, n) :
                Present(store, e) /\ store.edges[e].target = x
        BY WithinGrows
      <4> QED
        BY <2>3, <2>5, <4>1
    <3> QED
      BY <2>5, <3>1
  <2>6. Nat \subseteq P
    <3> HIDE DEF P
    <3> QED
      BY <2>4, <2>5, SetInduction
  <2>7. ASSUME NEW d \in Nat, NEW e \in DependencyEdgesOf(store, Within(d))
        PROVE  Present(store, e)
    <3>1. PICK n \in Within(d) : e \in DependencyEdges(store, n)
      BY DEF DependencyEdgesOf
    <3> QED
      BY <2>2, <2>3, <2>6, <3>1 DEF Present
  <2> QED
    BY <2>6, <2>7
<1> QED
  BY <1>1, TypeCorrect, AnswerInvariant, AnswerIsReference, PTL

\* In particular the distance that exhausts the store.
THEOREM OkIsWhole == Spec => []OkIsFullClosure
<1>1. TypeOK /\ OkReachesEverything => OkIsFullClosure
  <2>1. TypeOK => Cardinality(DOMAIN store.nodes) \in Nat
    BY StoreShape, FS_CardinalityType DEF TypeOK
  <2> QED
    BY <2>1 DEF OkReachesEverything, OkIsFullClosure, Closure
<1> QED
  BY <1>1, TypeCorrect, OkIsClosedAtAnyDistance, PTL
=============================================================================
