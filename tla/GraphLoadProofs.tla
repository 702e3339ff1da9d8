--------------------------- MODULE GraphLoadProofs ---------------------------
(***************************************************************************)
(* Theorems about GraphLoad for any files of any length: types, the        *)
(* refinement of GraphLoading, and what a profile and a sidecar row can    *)
(* and cannot do.  Everything follows from one loop invariant, ReadInv:    *)
(* whatever has been read so far was legal, without a clash, and is        *)
(* exactly what the store holds.                                           *)
(***************************************************************************)
EXTENDS GraphLoad, FiniteSetTheorems, TLAPS

Turn(place) ==
    CASE place = "graph" -> 1 [] place = "events" -> 2 [] place = "candidates" -> 3
      [] place = "weak" -> 4 [] OTHER -> 5

\* How many rows of a file have been read when the reader is at row n of place.
RowsRead(in, place, n, file) ==
    IF place = file THEN n
    ELSE IF Turn(file) < Turn(place) THEN Len(in[file]) ELSE 0

\* No two of the first n rows clash.
Apart(in, n) ==
    \A i, j \in 1 .. n :
        /\ i # j
        /\ in.graph[i].type = in.graph[j].type
        /\ Kept(in.graph[i], in.filtered) /\ Kept(in.graph[j], in.filtered)
        => in.graph[i].id # in.graph[j].id

GraphRead(s, in, n) ==
    /\ \A i \in 1 .. n : Valid(in.graph[i])
    /\ Apart(in, n)
    /\ Promise!Selects(s, in, n)

EventsRead(es, in, n) ==
    /\ Len(es) = n
    /\ \A i \in 1 .. n : in.events[i].legal /\ es[i] = in.events[i].id

SidesRead(in, c, w) ==
    /\ \A i \in 1 .. c : CandidatePasses(in.candidates[i])
    /\ \A i \in 1 .. w : WeakPasses(in.weak[i])

AllRead(s, es, in, place, n) ==
    /\ GraphRead(s, in, RowsRead(in, place, n, "graph"))
    /\ EventsRead(es, in, RowsRead(in, place, n, "events"))
    /\ SidesRead(in, RowsRead(in, place, n, "candidates"), RowsRead(in, place, n, "weak"))

SidecarPasses(side) ==
    /\ \A r \in side.candidates : Demands(r)
    /\ \A r \in side.weak : Demands(r) /\ r.insufficient

Answered ==
    /\ pc = "done" <=> exit # "none"
    /\ exit = "raised" => Promise!Refused(input)
    /\ exit \notin {"none", "raised"} => exit = Promise!Exit(input, store)
    /\ pc = "write" => input.cmd = "export" /\ input.out # "none"
    /\ written <=> input.cmd = "export" /\ input.out # "none" /\ exit = "ok"

ReadInv ==
    /\ TypeOK
    /\ store = [nodes |-> store.nodes, edges |-> store.edges]
    /\ exit # "raised" => AllRead(store, events, input, pc, at)
    /\ SidecarPasses(sidecar)
    /\ Answered

-----------------------------------------------------------------------------
(* Rows and the store they are put in.                                     *)

\* A row of a file is a row, and the first n rows leave out the one after.
LEMMA RowsAreRows ==
    ASSUME NEW in \in Input
    PROVE  /\ \A i \in 1 .. Len(in.graph) : in.graph[i] \in Row
           /\ \A i \in 1 .. Len(in.events) : in.events[i] \in EventRow
           /\ \A i \in 1 .. Len(in.candidates) : in.candidates[i] \in SideRow
           /\ \A i \in 1 .. Len(in.weak) : in.weak[i] \in SideRow
           /\ Len(in.graph) \in Nat /\ Len(in.events) \in Nat
           /\ Len(in.candidates) \in Nat /\ Len(in.weak) \in Nat
BY DEF Input

\* A valid row has the fields of its type.
LEMMA ValidRow ==
    ASSUME NEW r \in Row, Valid(r)
    PROVE  /\ r.type \in {"node", "edge"} /\ ReadAs(r) = r.type
           /\ r.type = "node" => r.id \in NodeId /\ r.record \in NodeRecord
           /\ r.type = "edge" => r.id \in EdgeId /\ r.record \in EdgeRecord
BY DEF Row, Valid, ReadAs, Declared

\* The empty store is a store.
LEMMA EmptyIsStore == IsStore(EmptyStore)
BY FS_EmptySet DEF IsStore, EmptyStore

\* A node that is put into a store.
LEMMA StoreWithNode ==
    ASSUME NEW s, IsStore(s), s = [nodes |-> s.nodes, edges |-> s.edges],
           NEW id \in NodeId, NEW record \in NodeRecord
    PROVE  IsStore([s EXCEPT !.nodes = With(@, id, record)])
<1> DEFINE f == With(s.nodes, id, record)
<1>1. DOMAIN f = DOMAIN s.nodes \cup {id} /\ f \in [DOMAIN f -> NodeRecord]
    BY DEF With, IsStore
<1>2. IsFiniteSet(DOMAIN f)
    BY <1>1, FS_AddElement DEF IsStore
<1>3. [s EXCEPT !.nodes = With(@, id, record)] = [nodes |-> f, edges |-> s.edges]
    OBVIOUS
<1> HIDE DEF f
<1> QED BY <1>1, <1>2, <1>3 DEF IsStore

\* An edge that is put into a store.
LEMMA StoreWithEdge ==
    ASSUME NEW s, IsStore(s), s = [nodes |-> s.nodes, edges |-> s.edges],
           NEW id \in EdgeId, NEW record \in EdgeRecord
    PROVE  IsStore([s EXCEPT !.edges = With(@, id, record)])
<1> DEFINE f == With(s.edges, id, record)
<1>1. DOMAIN f = DOMAIN s.edges \cup {id} /\ f \in [DOMAIN f -> EdgeRecord]
    BY DEF With, IsStore
<1>3. [s EXCEPT !.edges = With(@, id, record)] = [nodes |-> s.nodes, edges |-> f]
    OBVIOUS
<1> HIDE DEF f
<1> QED BY <1>1, <1>3 DEF IsStore

-----------------------------------------------------------------------------
(* One turn of the loop over the graph file.                               *)

\* The promise reads rows as the loops do.
LEMMA SameRows ==
    /\ \A r, f : Promise!Kept(r, f) <=> Kept(r, f)
    /\ \A r : Promise!Valid(r) <=> Valid(r)
    /\ \A r : Promise!CandidatePasses(r) <=> CandidatePasses(r)
    /\ \A r : Promise!WeakPasses(r) <=> WeakPasses(r)
    /\ \A s : Promise!DanglingEdges(s) = DanglingEdges(s)
    /\ \A in, s : Promise!Leaks(in, s) <=> Leaks(in, s)
    /\ Promise!EmptyStore = EmptyStore
    /\ Promise!Input = Input
<1>1. \A r, f : Promise!Kept(r, f) <=> Kept(r, f)
    BY DEF Promise!Kept, Kept
<1>2. \A r : Promise!Valid(r) <=> Valid(r)
    BY DEF Promise!Valid, Valid, Promise!ReadAs, ReadAs
<1>3. \A r : Promise!Demands(r) <=> Demands(r)
    BY DEF Promise!Demands, Demands, Promise!Truthy, Truthy
<1>4. /\ \A r : Promise!CandidatePasses(r) <=> CandidatePasses(r)
      /\ \A r : Promise!WeakPasses(r) <=> WeakPasses(r)
    BY <1>3 DEF Promise!CandidatePasses, CandidatePasses, Promise!WeakPasses, WeakPasses
<1>5. \A s : Promise!DanglingEdges(s) = DanglingEdges(s)
    BY DEF Promise!DanglingEdges, DanglingEdges, Promise!Present, Present
<1>6. \A in, s : Promise!Leaks(in, s) <=> Leaks(in, s)
    BY DEF Promise!Leaks, Leaks, Promise!NamedInBlock, NamedInBlock
<1>7. Promise!EmptyStore = EmptyStore
    BY DEF Promise!EmptyStore, EmptyStore
<1>8. Promise!Row = Row /\ Promise!EventRow = EventRow /\ Promise!SideRow = SideRow
    BY DEF Promise!Row, Row, Promise!EventRow, EventRow, Promise!SideRow, SideRow,
           Promise!Declared, Declared, Promise!EdgeScope, EdgeScope, Promise!Scope,
           Scope, Promise!NodeRecord, NodeRecord, Promise!EdgeRecord, EdgeRecord,
           Promise!Label, Label, Promise!EdgeKind, EdgeKind, Promise!Given, Given
<1>9. Promise!Input = Input
    BY <1>8 DEF Promise!Input, Input
<1> QED BY <1>1, <1>2, <1>4, <1>5, <1>6, <1>7, <1>9

\* The selection among n + 1 rows is that of the first n, with the row after
\* if it is of the type and kept.
LEMMA NextSelected ==
    ASSUME NEW in, NEW n \in Nat, NEW type,
           NEW r, r = in.graph[n + 1]
    PROVE  /\ r.type = type /\ Kept(r, in.filtered) =>
                Promise!Selected(in, type, n + 1) =
                    Promise!Selected(in, type, n) \cup {n + 1}
           /\ ~ (r.type = type /\ Kept(r, in.filtered)) =>
                Promise!Selected(in, type, n + 1) = Promise!Selected(in, type, n)
<1> DEFINE P(i) == in.graph[i].type = type /\ Kept(in.graph[i], in.filtered)
<1>1. \A m \in Nat : Promise!Selected(in, type, m) = {i \in 1 .. m : P(i)}
    BY SameRows DEF Promise!Selected
<1>2. P(n + 1) <=> r.type = type /\ Kept(r, in.filtered)
    OBVIOUS
<1> HIDE DEF P
<1>3. P(n + 1) => {i \in 1 .. n + 1 : P(i)} = {i \in 1 .. n : P(i)} \cup {n + 1}
    OBVIOUS
<1>4. ~ P(n + 1) => {i \in 1 .. n + 1 : P(i)} = {i \in 1 .. n : P(i)}
    OBVIOUS
<1> QED BY <1>1, <1>2, <1>3, <1>4

\* A row the filter drops changes nothing.
LEMMA SkippedRow ==
    ASSUME NEW in, NEW s, NEW n \in Nat, GraphRead(s, in, n),
           Valid(in.graph[n + 1]), ~ Kept(in.graph[n + 1], in.filtered)
    PROVE  GraphRead(s, in, n + 1)
<1>1. \A type : Promise!Selected(in, type, n + 1) = Promise!Selected(in, type, n)
    <2> TAKE type
    <2> QED BY NextSelected
<1>2. Promise!Selects(s, in, n + 1)
    BY <1>1 DEF GraphRead, Promise!Selects
<1>3. Apart(in, n + 1)
    BY DEF GraphRead, Apart
<1>4. \A i \in 1 .. n + 1 : Valid(in.graph[i])
    BY DEF GraphRead
<1> QED BY <1>2, <1>3, <1>4 DEF GraphRead

\* A row with a new id, if it is kept, is apart from those before it.
LEMMA NewRowApart ==
    ASSUME NEW in, NEW s, NEW n \in Nat, GraphRead(s, in, n),
           NEW r, r = in.graph[n + 1], Valid(r),
           r.id \notin IF r.type = "node" THEN DOMAIN s.nodes ELSE DOMAIN s.edges
    PROVE  /\ \A i \in 1 .. n + 1 : Valid(in.graph[i])
           /\ Apart(in, n + 1)
<1>1. \A i \in 1 .. n + 1 : Valid(in.graph[i])
    BY DEF GraphRead
<1>2. r.type \in {"node", "edge"}
    BY DEF Valid
<1>3. ASSUME NEW i \in 1 .. n, in.graph[i].type = r.type,
             Kept(in.graph[i], in.filtered)
      PROVE  in.graph[i].id # r.id
    BY <1>2, <1>3, SameRows DEF GraphRead, Promise!Selects, Promise!Selected
<1>4. ASSUME NEW i \in 1 .. n + 1, NEW j \in 1 .. n + 1, i # j,
             in.graph[i].type = in.graph[j].type,
             Kept(in.graph[i], in.filtered), Kept(in.graph[j], in.filtered)
      PROVE  in.graph[i].id # in.graph[j].id
    <2>1. CASE i = n + 1
        BY <1>3, <1>4, <2>1
    <2>2. CASE j = n + 1
        BY <1>3, <1>4, <2>2
    <2>3. CASE i \in 1 .. n /\ j \in 1 .. n
        BY <1>4, <2>3 DEF GraphRead, Apart
    <2> QED BY <2>1, <2>2, <2>3
<1> QED BY <1>1, <1>4 DEF Apart

\* A node row with a new id.
LEMMA AddedNode ==
    ASSUME NEW in, NEW s, NEW n \in Nat, GraphRead(s, in, n),
           s = [nodes |-> s.nodes, edges |-> s.edges],
           NEW r, r = in.graph[n + 1], Valid(r), r.type = "node",
           Kept(r, in.filtered), r.id \notin DOMAIN s.nodes
    PROVE  GraphRead([s EXCEPT !.nodes = With(@, r.id, r.record)], in, n + 1)
<1> DEFINE f == With(s.nodes, r.id, r.record)
           t == [nodes |-> f, edges |-> s.edges]
<1>1. [s EXCEPT !.nodes = With(@, r.id, r.record)] = t
    OBVIOUS
<1>2. /\ DOMAIN f = DOMAIN s.nodes \cup {r.id} /\ f[r.id] = r.record
      /\ \A x \in DOMAIN s.nodes : x # r.id => f[x] = s.nodes[x]
    BY DEF With
<1>3. /\ Promise!Selected(in, "node", n + 1) = Promise!Selected(in, "node", n) \cup {n + 1}
      /\ Promise!Selected(in, "edge", n + 1) = Promise!Selected(in, "edge", n)
    BY NextSelected
<1>4. t.nodes = f /\ t.edges = s.edges
    OBVIOUS
<1> HIDE DEF f, t
<1>5. /\ DOMAIN s.nodes = {in.graph[i].id : i \in Promise!Selected(in, "node", n)}
      /\ DOMAIN s.edges = {in.graph[i].id : i \in Promise!Selected(in, "edge", n)}
      /\ \A i \in Promise!Selected(in, "node", n) :
            s.nodes[in.graph[i].id] = in.graph[i].record
      /\ \A i \in Promise!Selected(in, "edge", n) :
            s.edges[in.graph[i].id] = in.graph[i].record
    BY DEF GraphRead, Promise!Selects
<1>6. DOMAIN t.nodes = {in.graph[i].id : i \in Promise!Selected(in, "node", n + 1)}
    <2>1. DOMAIN t.nodes =
            {in.graph[i].id : i \in Promise!Selected(in, "node", n)} \cup {r.id}
        BY <1>2, <1>4, <1>5
    <2>2. in.graph[n + 1].id = r.id
        OBVIOUS
    <2> QED BY <2>1, <2>2, <1>3
<1>7. \A i \in Promise!Selected(in, "node", n + 1) :
            t.nodes[in.graph[i].id] = in.graph[i].record
    BY <1>2, <1>3, <1>4, <1>5
<1>8. Promise!Selects(t, in, n + 1)
    BY <1>3, <1>4, <1>5, <1>6, <1>7 DEF Promise!Selects
<1> QED BY <1>1, <1>8, NewRowApart DEF GraphRead

\* An edge row with a new id.
LEMMA AddedEdge ==
    ASSUME NEW in, NEW s, NEW n \in Nat, GraphRead(s, in, n),
           s = [nodes |-> s.nodes, edges |-> s.edges],
           NEW r, r = in.graph[n + 1], Valid(r), r.type = "edge",
           Kept(r, in.filtered), r.id \notin DOMAIN s.edges
    PROVE  GraphRead([s EXCEPT !.edges = With(@, r.id, r.record)], in, n + 1)
<1> DEFINE f == With(s.edges, r.id, r.record)
           t == [nodes |-> s.nodes, edges |-> f]
<1>1. [s EXCEPT !.edges = With(@, r.id, r.record)] = t
    OBVIOUS
<1>2. /\ DOMAIN f = DOMAIN s.edges \cup {r.id} /\ f[r.id] = r.record
      /\ \A x \in DOMAIN s.edges : x # r.id => f[x] = s.edges[x]
    BY DEF With
<1>3. /\ Promise!Selected(in, "edge", n + 1) = Promise!Selected(in, "edge", n) \cup {n + 1}
      /\ Promise!Selected(in, "node", n + 1) = Promise!Selected(in, "node", n)
    BY NextSelected
<1>4. t.edges = f /\ t.nodes = s.nodes
    OBVIOUS
<1> HIDE DEF f, t
<1>5. /\ DOMAIN s.nodes = {in.graph[i].id : i \in Promise!Selected(in, "node", n)}
      /\ DOMAIN s.edges = {in.graph[i].id : i \in Promise!Selected(in, "edge", n)}
      /\ \A i \in Promise!Selected(in, "node", n) :
            s.nodes[in.graph[i].id] = in.graph[i].record
      /\ \A i \in Promise!Selected(in, "edge", n) :
            s.edges[in.graph[i].id] = in.graph[i].record
    BY DEF GraphRead, Promise!Selects
<1>6. DOMAIN t.edges = {in.graph[i].id : i \in Promise!Selected(in, "edge", n + 1)}
    <2>1. DOMAIN t.edges =
            {in.graph[i].id : i \in Promise!Selected(in, "edge", n)} \cup {r.id}
        BY <1>2, <1>4, <1>5
    <2>2. in.graph[n + 1].id = r.id
        OBVIOUS
    <2> QED BY <2>1, <2>2, <1>3
<1>7. \A i \in Promise!Selected(in, "edge", n + 1) :
            t.edges[in.graph[i].id] = in.graph[i].record
    BY <1>2, <1>3, <1>4, <1>5
<1>8. Promise!Selects(t, in, n + 1)
    BY <1>3, <1>4, <1>5, <1>6, <1>7 DEF Promise!Selects
<1> QED BY <1>1, <1>8, NewRowApart DEF GraphRead

\* A kept row whose id is known clashes with one before it.
LEMMA KnownRowClashes ==
    ASSUME NEW in \in Input, NEW s, NEW n \in Nat, GraphRead(s, in, n),
           n + 1 \in DOMAIN in.graph,
           NEW r, r = in.graph[n + 1], Valid(r), Kept(r, in.filtered),
           r.id \in IF r.type = "node" THEN DOMAIN s.nodes ELSE DOMAIN s.edges
    PROVE  Promise!Clash(in)
<1>1. r.type \in {"node", "edge"}
    BY DEF Valid
<1>2. PICK i \in 1 .. n : /\ in.graph[i].type = r.type /\ in.graph[i].id = r.id
                          /\ Kept(in.graph[i], in.filtered)
    BY <1>1, SameRows DEF GraphRead, Promise!Selects, Promise!Selected
<1>3. DOMAIN in.graph = 1 .. Len(in.graph) /\ Len(in.graph) \in Nat
    BY DEF Input
<1>4. i \in DOMAIN in.graph /\ i # n + 1
    BY <1>3
<1> QED BY <1>2, <1>4, SameRows DEF Promise!Clash

-----------------------------------------------------------------------------
(* The loop invariant.                                                     *)

\* The files that have been read at each place.
LEMMA Places ==
    ASSUME NEW in, NEW n
    PROVE  /\ RowsRead(in, "graph", n, "graph") = n
           /\ RowsRead(in, "graph", n, "events") = 0
           /\ RowsRead(in, "graph", n, "candidates") = 0
           /\ RowsRead(in, "graph", n, "weak") = 0
           /\ RowsRead(in, "events", n, "graph") = Len(in.graph)
           /\ RowsRead(in, "events", n, "events") = n
           /\ RowsRead(in, "events", n, "candidates") = 0
           /\ RowsRead(in, "events", n, "weak") = 0
           /\ RowsRead(in, "candidates", n, "graph") = Len(in.graph)
           /\ RowsRead(in, "candidates", n, "events") = Len(in.events)
           /\ RowsRead(in, "candidates", n, "candidates") = n
           /\ RowsRead(in, "candidates", n, "weak") = 0
           /\ RowsRead(in, "weak", n, "graph") = Len(in.graph)
           /\ RowsRead(in, "weak", n, "events") = Len(in.events)
           /\ RowsRead(in, "weak", n, "candidates") = Len(in.candidates)
           /\ RowsRead(in, "weak", n, "weak") = n
           /\ \A place \in {"check", "write", "done"} :
                 /\ RowsRead(in, place, n, "graph") = Len(in.graph)
                 /\ RowsRead(in, place, n, "events") = Len(in.events)
                 /\ RowsRead(in, place, n, "candidates") = Len(in.candidates)
                 /\ RowsRead(in, place, n, "weak") = Len(in.weak)
BY DEF RowsRead, Turn

\* An error that the promise foresees keeps the invariant.
LEMMA RaiseKeeps ==
    ASSUME ReadInv, pc # "done", Raise, Promise!Refused(input)
    PROVE  ReadInv'
<1>1. TypeOK'
    BY DEF ReadInv, TypeOK, Raise, Finish, Rows
<1>2. SidecarPasses(sidecar)' /\ exit' = "raised" /\ pc' = "done"
    BY DEF ReadInv, Raise, Finish, SidecarPasses
<1>3. ~ written
    BY DEF ReadInv, Answered
<1>4. Promise!Refused(input)'
    BY DEF Raise
<1>5. Answered'
    BY <1>2, <1>3, <1>4 DEF Raise, Answered
<1> QED BY <1>1, <1>2, <1>5 DEF ReadInv, Raise

\* The end of a file keeps the invariant.
LEMMA FileEndKeeps ==
    ASSUME ReadInv, NEW file, NEW then, NextFile(file, then),
           <<file, then>> \in {<<"graph", "events">>, <<"events", "candidates">>,
                               <<"candidates", "weak">>, <<"weak", "check">>}
    PROVE  ReadInv'
<1>1. /\ pc = file /\ pc' = then /\ at' = 0 /\ at = Len(input[file])
      /\ UNCHANGED <<input, store, events, sidecar, exit, written>>
    BY RowsAreRows DEF ReadInv, TypeOK, NextFile, More, Rows
<1>2. TypeOK'
    BY <1>1, RowsAreRows DEF ReadInv, TypeOK, Rows
<1>3. AllRead(store, events, input, pc, at) => AllRead(store, events, input, then, 0)
    <2>1. CASE file = "graph" /\ then = "events"
        BY <1>1, <2>1, Places DEF AllRead
    <2>2. CASE file = "events" /\ then = "candidates"
        BY <1>1, <2>2, Places DEF AllRead
    <2>3. CASE file = "candidates" /\ then = "weak"
        BY <1>1, <2>3, Places DEF AllRead
    <2>4. CASE file = "weak" /\ then = "check"
        BY <1>1, <2>4, Places DEF AllRead
    <2> QED BY <2>1, <2>2, <2>3, <2>4
<1>4. Answered'
    BY <1>1 DEF ReadInv, Answered
<1> QED BY <1>1, <1>2, <1>3, <1>4 DEF ReadInv

\* A row of the graph file that is taken or dropped keeps the invariant.
LEMMA GraphRowKeeps ==
    ASSUME ReadInv, Reading("graph"), GoOn, UNCHANGED <<events, sidecar>>,
           IsStore(store'), store' = [nodes |-> store'.nodes, edges |-> store'.edges],
           GraphRead(store, input, at) => GraphRead(store', input, at + 1)
    PROVE  ReadInv'
<1>1. /\ pc = "graph" /\ pc' = "graph" /\ at' = at + 1 /\ at < Len(input.graph)
      /\ UNCHANGED <<input, events, sidecar, exit, written>>
    BY DEF Reading, More, Rows, GoOn
<1>2. TypeOK'
    BY <1>1, RowsAreRows DEF ReadInv, TypeOK, Rows
<1>3. exit = "none" /\ ~ written
    BY <1>1 DEF ReadInv, Answered
<1>4. AllRead(store, events, input, "graph", at)
    BY <1>1, <1>3 DEF ReadInv
<1>5. AllRead(store', events, input, "graph", at + 1)
    BY <1>4, Places DEF AllRead
<1>6. Answered'
    BY <1>1, <1>3 DEF Answered
<1> QED BY <1>1, <1>2, <1>5, <1>6 DEF ReadInv

\* What is known while the graph file is read.
LEMMA AtGraphRow ==
    ASSUME ReadInv, Reading("graph")
    PROVE  /\ TheRow = input.graph[at + 1] /\ TheRow \in Row
           /\ at \in Nat /\ input \in Input /\ at + 1 \in DOMAIN input.graph
           /\ GraphRead(store, input, at) /\ pc # "done"
<1>1. pc = "graph" /\ at < Len(input.graph) /\ TheRow = input.graph[at + 1]
    BY DEF Reading, More, Rows, TheRow
<1>2. exit = "none"
    BY <1>1 DEF ReadInv, Answered
<1>3. GraphRead(store, input, at)
    BY <1>1, <1>2, Places DEF ReadInv, AllRead
<1>4. at \in Nat /\ input \in Input
    BY DEF ReadInv, TypeOK
<1>5. at + 1 \in 1 .. Len(input.graph) /\ DOMAIN input.graph = 1 .. Len(input.graph)
    BY <1>1, <1>4, RowsAreRows DEF Input
<1> QED BY <1>1, <1>3, <1>4, <1>5, RowsAreRows

\* The five ways a row of the graph file can go.
LEMMA GraphStepKeeps ==
    ASSUME ReadInv, RejectRow \/ RejectDuplicate \/ SkipRow \/ AddNode \/ AddEdge
    PROVE  ReadInv'
<1>1. CASE RejectRow
    <2>1. ~ Valid(input.graph[at + 1]) /\ at + 1 \in DOMAIN input.graph
        BY <1>1, AtGraphRow DEF RejectRow
    <2>2. Promise!Refused(input)
        BY <2>1, SameRows DEF Promise!Refused
    <2> QED BY <1>1, <2>2, AtGraphRow, RaiseKeeps DEF RejectRow
<1>2. CASE RejectDuplicate
    <2>1. /\ Valid(TheRow) /\ Kept(TheRow, input.filtered)
          /\ TheRow.id \in IF TheRow.type = "node"
                           THEN DOMAIN store.nodes ELSE DOMAIN store.edges
        BY <1>2 DEF RejectDuplicate, Known
    <2>2. Promise!Clash(input)
        BY <1>2, <2>1, AtGraphRow, KnownRowClashes DEF RejectDuplicate
    <2> QED BY <1>2, <2>2, AtGraphRow, RaiseKeeps DEF RejectDuplicate, Promise!Refused
<1>3. CASE SkipRow
    <2>1. GraphRead(store, input, at) => GraphRead(store, input, at + 1)
        BY <1>3, AtGraphRow, SkippedRow DEF SkipRow
    <2> QED BY <1>3, <2>1, GraphRowKeeps DEF SkipRow, ReadInv, TypeOK
<1>4. CASE AddNode
    <2>1. /\ Valid(TheRow) /\ TheRow.type = "node" /\ Kept(TheRow, input.filtered)
          /\ TheRow.id \notin DOMAIN store.nodes
          /\ TheRow.id \in NodeId /\ TheRow.record \in NodeRecord
        BY <1>4, AtGraphRow, ValidRow DEF AddNode, Known
    <2>2. store' = [store EXCEPT !.nodes = With(@, TheRow.id, TheRow.record)]
        BY <1>4 DEF AddNode
    <2>3. IsStore(store) /\ store = [nodes |-> store.nodes, edges |-> store.edges]
        BY DEF ReadInv, TypeOK
    <2>4. IsStore(store')
        BY <2>1, <2>2, <2>3, StoreWithNode
    <2>5. GraphRead(store, input, at) => GraphRead(store', input, at + 1)
        BY <1>4, <2>1, <2>2, <2>3, AtGraphRow, AddedNode DEF AddNode
    <2>6. store' = [nodes |-> store'.nodes, edges |-> store'.edges]
        BY <2>2, <2>3
    <2> QED BY <1>4, <2>4, <2>5, <2>6, GraphRowKeeps DEF AddNode
<1>5. CASE AddEdge
    <2>1. /\ Valid(TheRow) /\ TheRow.type = "edge" /\ Kept(TheRow, input.filtered)
          /\ TheRow.id \notin DOMAIN store.edges
          /\ TheRow.id \in EdgeId /\ TheRow.record \in EdgeRecord
        BY <1>5, AtGraphRow, ValidRow DEF AddEdge, Known
    <2>2. store' = [store EXCEPT !.edges = With(@, TheRow.id, TheRow.record)]
        BY <1>5 DEF AddEdge
    <2>3. IsStore(store) /\ store = [nodes |-> store.nodes, edges |-> store.edges]
        BY DEF ReadInv, TypeOK
    <2>4. IsStore(store')
        BY <2>1, <2>2, <2>3, StoreWithEdge
    <2>5. GraphRead(store, input, at) => GraphRead(store', input, at + 1)
        BY <1>5, <2>1, <2>2, <2>3, AtGraphRow, AddedEdge DEF AddEdge
    <2>6. store' = [nodes |-> store'.nodes, edges |-> store'.edges]
        BY <2>2, <2>3
    <2> QED BY <1>5, <2>4, <2>5, <2>6, GraphRowKeeps DEF AddEdge
<1> QED BY <1>1, <1>2, <1>3, <1>4, <1>5

\* A row of the event log keeps the invariant.
LEMMA EventKeeps ==
    ASSUME ReadInv, ReadEvent
    PROVE  ReadInv'
<1>1. /\ pc = "events" /\ at < Len(input.events) /\ TheRow = input.events[at + 1]
      /\ at \in Nat /\ input \in Input /\ events \in Seq(EventId)
    BY DEF ReadEvent, Reading, More, Rows, TheRow, ReadInv, TypeOK
<1>2. /\ at + 1 \in 1 .. Len(input.events) /\ DOMAIN input.events = 1 .. Len(input.events)
      /\ TheRow \in EventRow
    BY <1>1, RowsAreRows DEF Input
<1>3. exit = "none" /\ ~ written
    BY <1>1 DEF ReadInv, Answered
<1>4. CASE ~ TheRow.legal
    <2>1. Promise!Refused(input)
        BY <1>1, <1>2, <1>4 DEF Promise!Refused
    <2>2. Raise /\ pc # "done"
        BY <1>1, <1>4 DEF ReadEvent
    <2> QED BY <2>1, <2>2, RaiseKeeps
<1>5. CASE TheRow.legal
    <2>1. /\ events' = Append(events, TheRow.id) /\ GoOn /\ UNCHANGED <<store, sidecar>>
        BY <1>5 DEF ReadEvent
    <2>2. TypeOK'
        <3>1. events' \in Seq(EventId)
            BY <1>1, <1>2, <2>1 DEF EventRow
        <3> QED BY <1>1, <1>2, <2>1, <3>1 DEF ReadInv, TypeOK, GoOn, Rows
    <2>3. AllRead(store, events, input, "events", at)
        BY <1>1, <1>3 DEF ReadInv
    <2>4. EventsRead(events', input, at + 1)
        <3>1. EventsRead(events, input, at)
            BY <2>3, Places DEF AllRead
        <3>2. Len(events') = at + 1 /\ events'[at + 1] = TheRow.id
              /\ \A i \in 1 .. at : events'[i] = events[i]
            BY <1>1, <2>1, <3>1 DEF EventsRead
        <3> QED BY <1>1, <1>5, <3>1, <3>2 DEF EventsRead
    <2>5. AllRead(store, events', input, "events", at + 1)
        <3>1. GraphRead(store, input, Len(input.graph)) /\ SidesRead(input, 0, 0)
            BY <2>3, Places DEF AllRead
        <3> QED BY <3>1, <2>4, Places DEF AllRead
    <2>6. Answered'
        BY <1>1, <1>3, <2>1 DEF Answered, GoOn
    <2> QED BY <1>1, <2>1, <2>2, <2>5, <2>6 DEF ReadInv, GoOn
<1> QED BY <1>4, <1>5

\* A row of the evidence candidates keeps the invariant.
LEMMA CandidateKeeps ==
    ASSUME ReadInv, ReadCandidate
    PROVE  ReadInv'
<1>1. /\ pc = "candidates" /\ at < Len(input.candidates) /\ TheRow = input.candidates[at + 1]
      /\ at \in Nat /\ input \in Input
      /\ sidecar \in [candidates : SUBSET SideRow, weak : SUBSET SideRow]
    BY DEF ReadCandidate, Reading, More, Rows, TheRow, ReadInv, TypeOK
<1>2. /\ at + 1 \in 1 .. Len(input.candidates)
      /\ DOMAIN input.candidates = 1 .. Len(input.candidates) /\ TheRow \in SideRow
    BY <1>1, RowsAreRows DEF Input
<1>3. exit = "none" /\ ~ written
    BY <1>1 DEF ReadInv, Answered
<1>4. CASE ~ CandidatePasses(TheRow)
    <2>1. Promise!Refused(input)
        BY <1>1, <1>2, <1>4, SameRows DEF Promise!Refused
    <2>2. Raise /\ pc # "done"
        BY <1>1, <1>4 DEF ReadCandidate
    <2> QED BY <2>1, <2>2, RaiseKeeps
<1>5. CASE CandidatePasses(TheRow)
    <2>1. /\ sidecar' = [sidecar EXCEPT !.candidates = @ \cup {TheRow}]
          /\ GoOn /\ UNCHANGED <<store, events>>
        BY <1>5 DEF ReadCandidate
    <2>2. TypeOK'
        <3>1. sidecar' \in [candidates : SUBSET SideRow, weak : SUBSET SideRow]
            BY <1>1, <1>2, <2>1
        <3> QED BY <1>1, <1>2, <2>1, <3>1 DEF ReadInv, TypeOK, GoOn, Rows
    <2>3. AllRead(store, events, input, "candidates", at)
        BY <1>1, <1>3 DEF ReadInv
    <2>4. /\ GraphRead(store, input, Len(input.graph))
          /\ EventsRead(events, input, Len(input.events))
          /\ SidesRead(input, at, 0)
        BY <2>3, Places DEF AllRead
    <2>5. SidesRead(input, at + 1, 0)
        BY <1>1, <1>5, <2>4 DEF SidesRead
    <2>6. AllRead(store, events, input, "candidates", at + 1)
        BY <2>4, <2>5, Places DEF AllRead
    <2>7. SidecarPasses(sidecar')
        BY <1>1, <1>5, <2>1 DEF ReadInv, SidecarPasses, CandidatePasses
    <2>8. Answered'
        BY <1>1, <1>3, <2>1 DEF Answered, GoOn
    <2> QED BY <1>1, <2>1, <2>2, <2>6, <2>7, <2>8 DEF ReadInv, GoOn
<1> QED BY <1>4, <1>5

\* A weak association keeps the invariant.
LEMMA WeakKeeps ==
    ASSUME ReadInv, ReadWeak
    PROVE  ReadInv'
<1>1. /\ pc = "weak" /\ at < Len(input.weak) /\ TheRow = input.weak[at + 1]
      /\ at \in Nat /\ input \in Input
      /\ sidecar \in [candidates : SUBSET SideRow, weak : SUBSET SideRow]
    BY DEF ReadWeak, Reading, More, Rows, TheRow, ReadInv, TypeOK
<1>2. /\ at + 1 \in 1 .. Len(input.weak)
      /\ DOMAIN input.weak = 1 .. Len(input.weak) /\ TheRow \in SideRow
    BY <1>1, RowsAreRows DEF Input
<1>3. exit = "none" /\ ~ written
    BY <1>1 DEF ReadInv, Answered
<1>4. CASE ~ WeakPasses(TheRow)
    <2>1. Promise!Refused(input)
        BY <1>1, <1>2, <1>4, SameRows DEF Promise!Refused
    <2>2. Raise /\ pc # "done"
        BY <1>1, <1>4 DEF ReadWeak
    <2> QED BY <2>1, <2>2, RaiseKeeps
<1>5. CASE WeakPasses(TheRow)
    <2>1. /\ sidecar' = [sidecar EXCEPT !.weak = @ \cup {TheRow}]
          /\ GoOn /\ UNCHANGED <<store, events>>
        BY <1>5 DEF ReadWeak
    <2>2. TypeOK'
        <3>1. sidecar' \in [candidates : SUBSET SideRow, weak : SUBSET SideRow]
            BY <1>1, <1>2, <2>1
        <3> QED BY <1>1, <1>2, <2>1, <3>1 DEF ReadInv, TypeOK, GoOn, Rows
    <2>3. AllRead(store, events, input, "weak", at)
        BY <1>1, <1>3 DEF ReadInv
    <2>4. /\ GraphRead(store, input, Len(input.graph))
          /\ EventsRead(events, input, Len(input.events))
          /\ SidesRead(input, Len(input.candidates), at)
        BY <2>3, Places DEF AllRead
    <2>5. SidesRead(input, Len(input.candidates), at + 1)
        BY <1>1, <1>5, <2>4 DEF SidesRead
    <2>6. AllRead(store, events, input, "weak", at + 1)
        BY <2>4, <2>5, Places DEF AllRead
    <2>7. SidecarPasses(sidecar')
        BY <1>1, <1>5, <2>1 DEF ReadInv, SidecarPasses, WeakPasses
    <2>8. Answered'
        BY <1>1, <1>3, <2>1 DEF Answered, GoOn
    <2> QED BY <1>1, <2>1, <2>2, <2>6, <2>7, <2>8 DEF ReadInv, GoOn
<1> QED BY <1>4, <1>5

-----------------------------------------------------------------------------
(* The answer.                                                             *)

\* The ids validate_event_log reports are there when the promise says so.
LEMMA RepeatedNotUnique ==
    ASSUME events \in Seq(EventId), input \in Input,
           EventsRead(events, input, Len(input.events))
    PROVE  RepeatedEvents = {} <=> Promise!UniqueEvents(input)
<1> DEFINE N == Len(input.events)
<1>1. N \in Nat /\ DOMAIN events = 1 .. N /\ DOMAIN input.events = 1 .. N
      /\ \A i \in 1 .. N : events[i] = input.events[i].id
    BY DEF EventsRead, Input
<1> HIDE DEF N
<1>2. ASSUME RepeatedEvents = {}, NEW i \in 1 .. N, NEW j \in 1 .. N,
             input.events[i].id = input.events[j].id, i # j
      PROVE  FALSE
    <2>1. events[i] = events[j]
        BY <1>1, <1>2
    <2>2. i < j \/ j < i
        BY <1>1, <1>2
    <2>3. CASE i < j
        BY <1>1, <1>2, <2>1, <2>3 DEF RepeatedEvents
    <2>4. CASE j < i
        BY <1>1, <1>2, <2>1, <2>4 DEF RepeatedEvents
    <2> QED BY <2>2, <2>3, <2>4
<1>3. ASSUME Promise!UniqueEvents(input), NEW i \in RepeatedEvents
      PROVE  FALSE
    <2>1. PICK j \in 1 .. i - 1 : events[j] = events[i]
        BY <1>3 DEF RepeatedEvents
    <2>2. i \in 1 .. N
        BY <1>1, <1>3 DEF RepeatedEvents
    <2>3. j \in 1 .. N /\ j # i
        BY <1>1, <2>1, <2>2
    <2> QED BY <1>1, <1>3, <2>1, <2>2, <2>3 DEF Promise!UniqueEvents
<1> QED BY <1>1, <1>2, <1>3 DEF Promise!UniqueEvents

\* What has passed the gates row by row passes them as a whole.
LEMMA LoadedGatesAreOk ==
    ASSUME SidecarPasses(sidecar)
    PROVE  GatesOk
BY DEF SidecarPasses, GatesOk

\* A command that finishes, or goes on to write, with the promised exit code.
LEMMA FinishKeeps ==
    ASSUME ReadInv, pc \in {"check", "write"},
           UNCHANGED <<input, store, events, sidecar, at>>,
           \/ /\ pc' = "done" /\ exit' = Promise!Exit(input, store)
              /\ written' <=> input.cmd = "export" /\ input.out # "none" /\ exit' = "ok"
              /\ written' \in BOOLEAN
           \/ /\ pc' = "write" /\ exit' = exit /\ written' = written
              /\ input.cmd = "export" /\ input.out # "none"
    PROVE  ReadInv'
<1>1. exit = "none" /\ ~ written
    BY DEF ReadInv, Answered
<1>2. Promise!Exit(input, store) \in {"ok", "invalid", "unsafe"}
    BY DEF Promise!Exit
<1>3. TypeOK'
    BY <1>2 DEF ReadInv, TypeOK
<1>4. AllRead(store, events, input, pc', at)
    <2>1. AllRead(store, events, input, pc, at)
        BY <1>1 DEF ReadInv
    <2>2. \A file \in {"graph", "events", "candidates", "weak"} :
             RowsRead(input, pc', at, file) = RowsRead(input, pc, at, file)
        BY DEF RowsRead, Turn
    <2> QED BY <2>1, <2>2 DEF AllRead
<1>5. Promise!Exit(input, store)' = Promise!Exit(input, store)
    OBVIOUS
<1>6. Answered'
    BY <1>1, <1>2, <1>5 DEF Answered
<1> QED BY <1>3, <1>4, <1>6 DEF ReadInv

\* The two steps that give the answer.
LEMMA AnswerKeeps ==
    ASSUME ReadInv, Check \/ WriteExport
    PROVE  ReadInv'
<1>1. CASE Check
    <2>1. pc = "check" /\ exit = "none" /\ ~ written /\ written \in BOOLEAN
        BY <1>1 DEF Check, ReadInv, Answered, TypeOK
    <2>2. EventsRead(events, input, Len(input.events))
        BY <2>1, Places DEF ReadInv, AllRead
    <2>3. RepeatedEvents = {} <=> Promise!UniqueEvents(input)
        BY <2>2, RepeatedNotUnique DEF ReadInv, TypeOK
    <2>4. GatesOk
        BY LoadedGatesAreOk DEF ReadInv
    <2>5. CASE input.cmd = "validate"
        <3>1. Finish(IF DanglingEdges(store) = {} /\ GatesOk /\ RepeatedEvents = {}
                     THEN "ok" ELSE "invalid")
              /\ UNCHANGED <<input, store, events, sidecar, written>>
            BY <1>1, <2>5 DEF Check
        <3>2. exit' = Promise!Exit(input, store)
            BY <2>3, <2>4, <2>5, <3>1, SameRows DEF Finish, Promise!Exit
        <3> QED BY <2>1, <2>5, <3>1, <3>2, FinishKeeps DEF Finish
    <2>6. CASE input.cmd = "export" /\ input.out # "none"
        BY <1>1, <2>1, <2>6, FinishKeeps DEF Check
    <2>7. CASE input.cmd # "validate" /\ ~ (input.cmd = "export" /\ input.out # "none")
        <3>1. Finish("ok") /\ UNCHANGED <<input, store, events, sidecar, written>>
            BY <1>1, <2>7 DEF Check
        <3>2. exit' = Promise!Exit(input, store)
            BY <2>7, <3>1 DEF Finish, Promise!Exit
        <3> QED BY <2>1, <2>7, <3>1, <3>2, FinishKeeps DEF Finish
    <2> QED BY <2>5, <2>6, <2>7
<1>2. CASE WriteExport
    <2>1. /\ pc = "write" /\ exit = "none" /\ ~ written /\ written \in BOOLEAN
          /\ input.cmd = "export" /\ input.out # "none" /\ input \in Input
        BY <1>2 DEF WriteExport, ReadInv, Answered, TypeOK
    <2>2. input.out \in {"allowed", "refused"}
        BY <2>1 DEF Input
    <2>3. /\ UNCHANGED <<input, store, events, sidecar, at>> /\ pc' = "done"
          /\ exit' = Promise!Exit(input, store)
          /\ written' <=> exit' = "ok"
          /\ written' \in BOOLEAN
        <3>1. CASE (input.out = "refused" \/ Leaks(input, store)) /\ Finish("unsafe")
                   /\ UNCHANGED written
            BY <1>2, <2>1, <2>2, <3>1, SameRows DEF WriteExport, Finish, Promise!Exit
        <3>2. CASE (input.out = "allowed" /\ ~ Leaks(input, store)) /\ Finish("ok")
                   /\ written' = TRUE
            BY <1>2, <2>1, <2>2, <3>2, SameRows DEF WriteExport, Finish, Promise!Exit
        <3> QED BY <1>2, <3>1, <3>2 DEF WriteExport
    <2> QED BY <2>1, <2>3, FinishKeeps
<1> QED BY <1>1, <1>2

LEMMA InitRead == Init => ReadInv
<1> SUFFICES ASSUME Init PROVE ReadInv
    OBVIOUS
<1>1. input \in Input
    BY GraphLoadAssumption DEF Init
<1>2. TypeOK
    <2>1. Len(input.graph) \in Nat /\ Rows = input.graph
        BY <1>1, RowsAreRows DEF Init, Rows
    <2>2. events \in Seq(EventId)
        BY DEF Init
    <2>3. sidecar \in [candidates : SUBSET SideRow, weak : SUBSET SideRow]
        BY DEF Init
    <2>4. IsStore(store)
        BY EmptyIsStore DEF Init
    <2>5. at \in Nat /\ at <= Len(Rows)
        BY <2>1 DEF Init
    <2>6. exit \in {"none", "ok", "invalid", "unsafe", "raised"} /\ written \in BOOLEAN
          /\ pc \in {"graph", "events", "candidates", "weak", "check", "write", "done"}
        BY DEF Init
    <2> QED BY <1>1, <2>2, <2>3, <2>4, <2>5, <2>6 DEF TypeOK
<1>3. AllRead(EmptyStore, <<>>, input, "graph", 0)
    <2>1. GraphRead(EmptyStore, input, 0)
        BY DEF GraphRead, Apart, Promise!Selects, Promise!Selected, EmptyStore
    <2>2. EventsRead(<<>>, input, 0) /\ SidesRead(input, 0, 0)
        BY DEF EventsRead, SidesRead
    <2> QED BY <2>1, <2>2, Places DEF AllRead
<1>4. SidecarPasses(sidecar) /\ Answered
    BY DEF Init, SidecarPasses, Answered
<1> QED BY <1>2, <1>3, <1>4 DEF Init, ReadInv, EmptyStore

LEMMA NextRead == ReadInv /\ [Next]_vars => ReadInv'
<1> SUFFICES ASSUME ReadInv, [Next]_vars PROVE ReadInv'
    OBVIOUS
<1>1. CASE RejectRow \/ RejectDuplicate \/ SkipRow \/ AddNode \/ AddEdge
    BY <1>1, GraphStepKeeps
<1>2. CASE EndGraph \/ EndEvents \/ EndCandidates \/ EndWeak
    BY <1>2, FileEndKeeps DEF EndGraph, EndEvents, EndCandidates, EndWeak
<1>3. CASE ReadEvent
    BY <1>3, EventKeeps
<1>4. CASE ReadCandidate
    BY <1>4, CandidateKeeps
<1>5. CASE ReadWeak
    BY <1>5, WeakKeeps
<1>6. CASE Check \/ WriteExport
    BY <1>6, AnswerKeeps
<1>7. CASE UNCHANGED vars
    BY <1>7 DEF vars, ReadInv, TypeOK, Rows, AllRead, Answered, SidecarPasses
<1> QED BY <1>1, <1>2, <1>3, <1>4, <1>5, <1>6, <1>7 DEF Next

\* Every variable keeps its type, whatever rows the files hold: what a command
\* hands to the retrieval, or looks at itself, is a store.
THEOREM LoadTypeCorrect == Spec => []TypeOK
<1>1. ReadInv => TypeOK
    BY DEF ReadInv
<1> QED BY <1>1, InitRead, NextRead, PTL DEF Spec

-----------------------------------------------------------------------------
(* The properties.                                                         *)

\* Files that have been read without an error are not refused.
LEMMA ReadIsNotRefused ==
    ASSUME NEW s, NEW es, NEW in \in Input, NEW n, NEW place \in {"check", "write", "done"},
           AllRead(s, es, in, place, n)
    PROVE  ~ Promise!Refused(in) /\ Promise!Selects(s, in, Len(in.graph))
<1>1. /\ GraphRead(s, in, Len(in.graph))
      /\ EventsRead(es, in, Len(in.events))
      /\ SidesRead(in, Len(in.candidates), Len(in.weak))
    BY Places DEF AllRead
<1>2. /\ DOMAIN in.graph = 1 .. Len(in.graph)
      /\ DOMAIN in.events = 1 .. Len(in.events)
      /\ DOMAIN in.candidates = 1 .. Len(in.candidates)
      /\ DOMAIN in.weak = 1 .. Len(in.weak)
    BY DEF Input
<1>3. \A i \in DOMAIN in.graph : Promise!Valid(in.graph[i])
    BY <1>1, <1>2, SameRows DEF GraphRead
<1>4. ~ Promise!Clash(in)
    BY <1>1, <1>2, SameRows DEF GraphRead, Apart, Promise!Clash
<1>5. \A i \in DOMAIN in.events : in.events[i].legal
    BY <1>1, <1>2 DEF EventsRead
<1>6. /\ \A i \in DOMAIN in.candidates : Promise!CandidatePasses(in.candidates[i])
      /\ \A i \in DOMAIN in.weak : Promise!WeakPasses(in.weak[i])
    BY <1>1, <1>2, SameRows DEF SidesRead
<1> QED BY <1>1, <1>3, <1>4, <1>5, <1>6 DEF GraphRead, Promise!Refused

\* A profile never turns a file that loads into one that does not, and never
\* changes a record it keeps (FilterOnlyForgets).
THEOREM FiltersOnlyForget == Spec => []FilterOnlyForgets
<1>1. ASSUME ReadInv PROVE FilterOnlyForgets
    <2> DEFINE whole == [input EXCEPT !.filtered = FALSE]
    <2>1. /\ whole.graph = input.graph /\ whole.events = input.events
          /\ whole.candidates = input.candidates /\ whole.weak = input.weak
          /\ whole.filtered = FALSE
        BY <1>1 DEF ReadInv, TypeOK, Input
    <2> HIDE DEF whole
    <2> SUFFICES ASSUME pc = "done", ~ Promise!Refused(whole)
        PROVE  /\ exit # "raised"
               /\ \A n \in DOMAIN store.nodes :
                     \E i \in Promise!Selected(whole, "node", Len(whole.graph)) :
                        whole.graph[i].id = n /\ whole.graph[i].record = store.nodes[n]
               /\ \A e \in DOMAIN store.edges :
                     \E i \in Promise!Selected(whole, "edge", Len(whole.graph)) :
                        whole.graph[i].id = e /\ whole.graph[i].record = store.edges[e]
               /\ \A i \in Promise!Selected(whole, "node", Len(whole.graph)) :
                     whole.graph[i].record.scope # "foreign" =>
                        whole.graph[i].id \in DOMAIN store.nodes
        BY DEF FilterOnlyForgets, whole
    <2>2. ~ Promise!Refused(input)
        <3>1. Promise!Clash(input) => Promise!Clash(whole)
            BY <2>1, SameRows DEF Promise!Clash, Kept
        <3> QED BY <2>1, <3>1 DEF Promise!Refused
    <2>3. exit # "raised"
        BY <1>1, <2>2 DEF ReadInv, Answered
    <2>4. Promise!Selects(store, input, Len(input.graph))
        BY <1>1, <2>3, ReadIsNotRefused DEF ReadInv, TypeOK
    <2>5. \A type : Promise!Selected(whole, type, Len(whole.graph)) =
                       {i \in 1 .. Len(input.graph) : input.graph[i].type = type}
        BY <2>1, SameRows DEF Promise!Selected, Kept
    <2>6. \A i \in Promise!Selected(input, "node", Len(input.graph)) :
                i \in Promise!Selected(whole, "node", Len(whole.graph))
        BY <2>5 DEF Promise!Selected
    <2>7. \A i \in Promise!Selected(input, "edge", Len(input.graph)) :
                i \in Promise!Selected(whole, "edge", Len(whole.graph))
        BY <2>5 DEF Promise!Selected
    <2>8. ASSUME NEW i \in Promise!Selected(whole, "node", Len(whole.graph)),
                 whole.graph[i].record.scope # "foreign"
          PROVE  whole.graph[i].id \in DOMAIN store.nodes
        <3>1. i \in 1 .. Len(input.graph) /\ input.graph[i].type = "node"
            BY <2>5
        <3>2. Valid(input.graph[i]) /\ input.graph[i] \in Row
            BY <1>1, <2>3, <3>1, Places, RowsAreRows
               DEF ReadInv, TypeOK, AllRead, GraphRead
        <3>3. input.graph[i].record.scope \in {"profile", "shared"}
            BY <2>1, <2>8, <3>1, <3>2, ValidRow DEF NodeRecord, Scope
        <3>4. i \in Promise!Selected(input, "node", Len(input.graph))
            BY <3>1, <3>3, SameRows DEF Promise!Selected, Kept
        <3> QED BY <2>1, <2>4, <3>4 DEF Promise!Selects
    <2> QED BY <2>1, <2>3, <2>4, <2>6, <2>7, <2>8 DEF Promise!Selects
<1> QED BY <1>1, InitRead, NextRead, PTL DEF Spec

\* No default lets a sidecar row through (SidecarSpeaks).
THEOREM SidecarsSpeak == Spec => []SidecarSpeaks
<1>1. ReadInv => SidecarSpeaks
    BY DEF ReadInv, SidecarPasses, SidecarSpeaks, Demands, Truthy
<1> QED BY <1>1, InitRead, NextRead, PTL DEF Spec

\* The loops give the promised answer, for any rows in any order: every step
\* before the last stutters, and the last is the reply (ImplementsLoading).
THEOREM LoadingIsImplemented == Spec => ImplementsLoading
<1> DEFINE a == IF pc = "done"
                THEN [exit |-> exit, written |-> written,
                      store |-> IF exit = "raised" THEN EmptyStore ELSE store]
                ELSE [exit |-> "none", written |-> FALSE, store |-> EmptyStore]
<1>1. Init => Promise!Init
    BY SameRows, GraphLoadAssumption DEF Init, Promise!Init, Promise!NoAnswer
<1>2. ASSUME ReadInv, ReadInv', [Next]_vars
      PROVE  [Promise!Reply]_(Promise!loading)
    <2>1. input' = input
        BY <1>2 DEF Next, vars, RejectRow, RejectDuplicate, SkipRow, AddNode, AddEdge,
                    EndGraph, EndEvents, EndCandidates, EndWeak, NextFile, ReadEvent,
                    ReadCandidate, ReadWeak, Check, WriteExport, Raise, GoOn
    <2>2. CASE pc = "done"
        <3>1. UNCHANGED vars
            BY <1>2, <2>2 DEF Next, RejectRow, RejectDuplicate, SkipRow, AddNode,
                    AddEdge, EndGraph, EndEvents, EndCandidates, EndWeak, NextFile,
                    ReadEvent, ReadCandidate, ReadWeak, Reading, Check, WriteExport
        <3> QED BY <3>1 DEF vars, Promise!loading
    <2>3. CASE pc # "done" /\ pc' # "done"
        BY <2>1, <2>3 DEF Promise!loading
    <2>4. CASE pc # "done" /\ pc' = "done"
        <3>1. a.exit = "none"
            BY <2>4
        <3>2. a' = [exit |-> exit', written |-> written',
                    store |-> IF exit' = "raised" THEN EmptyStore ELSE store']
            BY <2>4
        <3> HIDE DEF a
        <3>3. exit' # "none"
            BY <1>2, <2>4 DEF ReadInv, Answered
        <3>4. a'.exit = exit' /\ a'.written = written'
              /\ a'.store = IF exit' = "raised" THEN EmptyStore ELSE store'
            BY <3>2
        <3>5. ASSUME exit' = "raised" PROVE Promise!IsAnswer(a', input)
            <4>1. Promise!Refused(input)
                BY <1>2, <2>1, <3>5 DEF ReadInv, Answered
            <4>2. written' = FALSE
                BY <1>2, <3>5 DEF ReadInv, Answered, TypeOK
            <4> QED BY <3>2, <3>5, <4>1, <4>2, SameRows DEF Promise!IsAnswer
        <3>6. ASSUME exit' # "raised" PROVE Promise!IsAnswer(a', input)
            <4>1. input \in Input /\ AllRead(store', events', input, "done", at')
                BY <1>2, <2>1, <2>4, <3>6 DEF ReadInv, TypeOK
            <4>2. /\ ~ Promise!Refused(input)
                  /\ Promise!Selects(store', input, Len(input.graph))
                BY <4>1, ReadIsNotRefused
            <4>3. exit' = Promise!Exit(input, store')
                BY <1>2, <2>1, <3>3, <3>6 DEF ReadInv, Answered
            <4>4. written' <=> input.cmd = "export" /\ input.out # "none" /\ exit' = "ok"
                BY <1>2, <2>1 DEF ReadInv, Answered
            <4>5. a'.store = store'
                BY <3>4, <3>6
            <4> QED BY <3>4, <4>2, <4>3, <4>4, <4>5 DEF Promise!IsAnswer
        <3>7. Promise!IsAnswer(a', input)
            BY <3>5, <3>6
        <3> QED BY <2>1, <3>1, <3>3, <3>4, <3>7 DEF Promise!Reply, a
    <2> QED BY <2>2, <2>3, <2>4
<1> QED BY <1>1, <1>2, InitRead, NextRead, PTL DEF Spec, ImplementsLoading, Promise!Spec
=============================================================================
