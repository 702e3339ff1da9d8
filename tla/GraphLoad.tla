------------------------------ MODULE GraphLoad ------------------------------
(***************************************************************************)
(* The commands that read a graph: `validate', `inspect',                  *)
(* `export-sanitized-dry-run' (cli.py) and a caller of from_paths ("load", *)
(* as the tests call it, the only one to give a profile), row by row from  *)
(* the first file to the exit code.  Any error raises out of the loop it   *)
(* is found in.  `retrieve' loads in the same way and goes on in           *)
(* GraphRetrieval with the store.                                          *)
(***************************************************************************)
EXTENDS GraphRows

CONSTANTS Inputs     \* bound: the commands and files that are tried

ASSUME GraphLoadAssumption == Inputs \subseteq Input

VARIABLES
    input,
    pc,        \* the file that is being read, then check, write, done
    at,        \* rows read of that file
    store,
    events,    \* ids of the events loaded, in order
    sidecar,   \* the sidecar rows loaded
    exit, written

vars == <<input, pc, at, store, events, sidecar, exit, written>>

Init ==
    /\ input \in Inputs
    /\ pc = "graph" /\ at = 0
    /\ store = EmptyStore
    /\ events = <<>>
    /\ sidecar = [candidates |-> {}, weak |-> {}]
    /\ exit = "none" /\ written = FALSE

Rows == input[pc]
More == at < Len(Rows)
TheRow == Rows[at + 1]

Finish(code) ==
    /\ pc' = "done"
    /\ exit' = code
    /\ UNCHANGED at

Raise ==
    /\ Finish("raised")
    /\ UNCHANGED <<input, store, events, sidecar, written>>

GoOn ==
    /\ at' = at + 1
    /\ UNCHANGED <<input, pc, exit, written>>

Reading(file) == pc = file /\ More

\* The file ends; a sidecar file that is not given has no rows.
NextFile(file, then) ==
    /\ pc = file
    /\ ~ More
    /\ pc' = then
    /\ at' = 0
    /\ UNCHANGED <<input, store, events, sidecar, exit, written>>

-----------------------------------------------------------------------------
(* GraphStore.from_paths.                                                  *)

\* Mutant of Known: the dictionaries share their ids.
KnownAnywhere(r) == r.id \in DOMAIN store.nodes \cup DOMAIN store.edges

Known(r) ==
    r.id \in IF r.type = "node" THEN DOMAIN store.nodes ELSE DOMAIN store.edges

With(f, id, record) ==
    [x \in DOMAIN f \cup {id} |-> IF x = id THEN record ELSE f[x]]

RejectRow ==
    /\ Reading("graph")
    /\ ~ Valid(TheRow)
    /\ Raise

RejectDuplicate ==
    /\ Reading("graph")
    /\ Valid(TheRow)
    /\ Kept(TheRow, input.filtered) /\ Known(TheRow)
    /\ Raise

SkipRow ==
    /\ Reading("graph")
    /\ Valid(TheRow)
    /\ ~ Kept(TheRow, input.filtered)
    /\ GoOn
    /\ UNCHANGED <<store, events, sidecar>>

AddNode ==
    /\ Reading("graph")
    /\ Valid(TheRow) /\ ReadAs(TheRow) = "node"
    /\ Kept(TheRow, input.filtered) /\ ~ Known(TheRow)
    /\ store' = [store EXCEPT !.nodes = With(@, TheRow.id, TheRow.record)]
    /\ GoOn
    /\ UNCHANGED <<events, sidecar>>

\* Mutant of AddEdge: an edge is added only if its source has been.
AddEdgeInOrder ==
    /\ Reading("graph")
    /\ Valid(TheRow) /\ ReadAs(TheRow) = "edge"
    /\ Kept(TheRow, input.filtered) /\ ~ Known(TheRow)
    /\ store' = IF TheRow.record.source \in DOMAIN store.nodes
                THEN [store EXCEPT !.edges = With(@, TheRow.id, TheRow.record)]
                ELSE store
    /\ GoOn
    /\ UNCHANGED <<events, sidecar>>

AddEdge ==
    /\ Reading("graph")
    /\ Valid(TheRow) /\ ReadAs(TheRow) = "edge"
    /\ Kept(TheRow, input.filtered) /\ ~ Known(TheRow)
    /\ store' = [store EXCEPT !.edges = With(@, TheRow.id, TheRow.record)]
    /\ GoOn
    /\ UNCHANGED <<events, sidecar>>

ReadEvent ==
    /\ Reading("events")
    /\ \/ ~ TheRow.legal /\ Raise
       \/ /\ TheRow.legal
          /\ events' = Append(events, TheRow.id)
          /\ GoOn
          /\ UNCHANGED <<store, sidecar>>

-----------------------------------------------------------------------------
(* SidecarIndex.from_paths.                                                *)

ReadCandidate ==
    /\ Reading("candidates")
    /\ \/ ~ CandidatePasses(TheRow) /\ Raise
       \/ /\ CandidatePasses(TheRow)
          /\ sidecar' = [sidecar EXCEPT !.candidates = @ \cup {TheRow}]
          /\ GoOn
          /\ UNCHANGED <<store, events>>

ReadWeak ==
    /\ Reading("weak")
    /\ \/ ~ WeakPasses(TheRow) /\ Raise
       \/ /\ WeakPasses(TheRow)
          /\ sidecar' = [sidecar EXCEPT !.weak = @ \cup {TheRow}]
          /\ GoOn
          /\ UNCHANGED <<store, events>>

-----------------------------------------------------------------------------
(* The answers.                                                            *)

\* validate_event_log: the ids seen so far are kept in a set.
RepeatedEvents ==
    {i \in DOMAIN events : \E j \in 1 .. i - 1 : events[j] = events[i]}

\* validate_gates looks at every loaded row again.
GatesOk ==
    /\ \A r \in sidecar.candidates \cup sidecar.weak : Demands(r)
    /\ \A r \in sidecar.weak : r.insufficient

Check ==
    /\ pc = "check"
    /\ CASE input.cmd = "validate" ->
              Finish(IF DanglingEdges(store) = {} /\ GatesOk /\ RepeatedEvents = {}
                     THEN "ok" ELSE "invalid")
         [] input.cmd = "export" /\ input.out # "none" ->
              pc' = "write" /\ UNCHANGED <<at, exit>>
         [] OTHER -> Finish("ok")
    /\ UNCHANGED <<input, store, events, sidecar, written>>

\* write_export: first the path, then what would be written.
WriteExport ==
    /\ pc = "write"
    /\ \/ /\ input.out = "refused" \/ Leaks(input, store)
          /\ Finish("unsafe")
          /\ UNCHANGED written
       \/ /\ input.out = "allowed" /\ ~ Leaks(input, store)
          /\ Finish("ok")
          /\ written' = TRUE
    /\ UNCHANGED <<input, store, events, sidecar>>

EndGraph == NextFile("graph", "events")
EndEvents == NextFile("events", "candidates")
EndCandidates == NextFile("candidates", "weak")
EndWeak == NextFile("weak", "check")

Next ==
    \/ RejectRow
    \/ RejectDuplicate
    \/ SkipRow
    \/ AddNode
    \/ AddEdge
    \/ EndGraph
    \/ ReadEvent
    \/ EndEvents
    \/ ReadCandidate
    \/ EndCandidates
    \/ ReadWeak
    \/ EndWeak
    \/ Check
    \/ WriteExport

Spec == Init /\ [][Next]_vars

-----------------------------------------------------------------------------
(* Type invariant.                                                         *)

\* Every variable has the type its comment gives it: in particular the store
\* is one the retrieval is specified for, whatever the files say.
TypeOK ==
    /\ input \in Input
    /\ pc \in {"graph", "events", "candidates", "weak", "check", "write", "done"}
    /\ at \in Nat
    /\ pc \in {"graph", "events", "candidates", "weak"} => at <= Len(Rows)
    /\ IsStore(store)
    /\ events \in Seq(EventId)
    /\ sidecar \in [candidates : SUBSET SideRow, weak : SUBSET SideRow]
    /\ exit \in {"none", "ok", "invalid", "unsafe", "raised"}
    /\ written \in BOOLEAN

-----------------------------------------------------------------------------
(* Safety.                                                                 *)

\* The loops implement the promise of GraphLoading: whatever the order of the
\* rows, the answer is the whole selection and the exit code its cause, or a
\* refusal that leaves nothing behind.
Promise ==
    INSTANCE GraphLoading WITH
        answer <- IF pc = "done"
                  THEN [exit |-> exit, written |-> written,
                        store |-> IF exit = "raised" THEN EmptyStore ELSE store]
                  ELSE [exit |-> "none", written |-> FALSE, store |-> EmptyStore]

ImplementsLoading == Promise!Spec

\* A profile only forgets: files that load as a whole load for every profile,
\* and give the rows of that profile as they are given as a whole.  The other
\* way round it does not hold: a filter hides an id that two profiles use.
FilterOnlyForgets ==
    LET whole == [input EXCEPT !.filtered = FALSE]
        Of(type) == Promise!Selected(whole, type, Len(whole.graph))
        Whole(i)   == whole.graph[i]
    IN  pc = "done" /\ ~ Promise!Refused(whole) =>
            /\ exit # "raised"
            /\ \A n \in DOMAIN store.nodes : \E i \in Of("node") :
                  Whole(i).id = n /\ Whole(i).record = store.nodes[n]
            /\ \A e \in DOMAIN store.edges : \E i \in Of("edge") :
                  Whole(i).id = e /\ Whole(i).record = store.edges[e]
            /\ \A i \in Of("node") :
                  Whole(i).record.scope # "foreign" => Whole(i).id \in DOMAIN store.nodes

\* A sidecar row that was loaded gives both flags: no default lets a row
\* through that says nothing about confirmation or upgrades.
SidecarSpeaks ==
    \A r \in sidecar.candidates \cup sidecar.weak :
        r.confirm # "absent" /\ r.upgrade # "absent" /\ r.upgrade # "true"
=============================================================================
