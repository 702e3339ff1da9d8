# Formal model of graph-harness-maintain

This directory is a TLA+ development of `graph-harness-maintain`
(`src/graph_harness_maintain`, command `ghm`): a local governance tool that
retrieves dependency-closed pieces of a knowledge graph, decides which actions
need human approval, and runs two "release candidate" pipelines that audit a
repository and write their findings under `artifacts/`.

The models cover the six parts of the program in which something can go wrong
over several steps: loading a graph, retrieval, the approval gates, the files
of the reviewed-action layer, the pipelines, and the storage audit. Each has a
module and a TLC instance, and theorems checked by TLAPS: every invariant and
every action property the runs check, and both refinements, are proved for all
values of the constants. Only the two liveness properties are not.

Paths below are relative to the repository; Python files without a directory
are in `src/graph_harness_maintain/`.

## 1. Inventory

| part | code | state it keeps | operations | modelled |
|---|---|---|---|---|
| graph store | `store.py`, `schema.py` | nodes and edges by id, indexes, events; never written after loading | `from_paths`, `neighbors`, `dependency_edges`, `provenance_edges`, `validate_integrity` | `GraphStore`, `GraphRows`, `GraphLoad` |
| retrieval | `retrieve.py`, `factors.py`, `score.py`, `policy.py`, `cli.py` retrieve | deque, included ids, edges, missing list, subgraph, findings | seeds, breadth-first expansion, provenance hop, annotations, scoring, output | `GraphRetrieval`, `DependencyClosure` |
| approval gates | `gates.py`, `cli.py` check-gates | `policies/approval-gates.yaml`, `artifacts/v1/approval-gate-check.json` | ensure, load, decide, write the gate report | `PolicyText`, `ApprovalGates` |
| release pipelines | `pipeline.py`, with `identity.py`, `git_state.py`, `release_audit.py`, `leak_scan.py`, `templates.py`, `evidence.py`, `provenance.py` | results in memory; one artifact per stage under `artifacts/v1` or `artifacts/v1.1` | `local-rc`, `v1.1-rc`; `locate-evidence`, `provenance current-state` beside them | `ReleasePipeline` |
| proposals | `proposals.py` | manifest, schema, validation report under `artifacts/v1.1` | create, validate | `ProposalManifest`, `LocalArtifacts`; as stages in `ReleasePipeline` |
| local provenance append | `provenance.py` 91-132 | append-only event log, append report | append | `LocalArtifacts`; as a stage in `ReleasePipeline` |
| sidecar index | `sidecar.py` | candidate and weak-association rows | load, gate check, redacted copy | `GraphRows`, `GraphLoad`; not the redacted copy |
| event log | `events.py` | list of events | load, duplicate check | `GraphRows`, `GraphLoad` |
| export | `export.py`, `policy.py` | none | summary, redaction, refusal to write | `GraphLoad` (refusals), `GraphRetrieval` (policy checks) |
| storage guard | `storage.py` | none (reads the file system) | audit, archive proposal | `StorageGuard` |
| adapter report | `adapter_report.py`, `adapters/` | two files under `artifacts/v1.1` | describe, write | the files in `LocalArtifacts` |
| maintenance analyses | `maintain.py` | none | queries without effect, no command calls them | no |
| reports, CLI parsing, `scripts/` | `report.py`, `cli.py` | none | render, parse, search files | that the verdict writes the report |

How the parts interact. Commands share no memory; they share the working tree.
The gate commands and both pipelines create and read the policy file. The
pipelines call the checks in turn, run `pytest`, which calls the pipelines
again on the *same* tree, and start children of the command line (`smoke`)
that write the *same* v1 artifacts. Nothing is locked: a second pipeline may be
started from another terminal, `pytest` goes on when only its pipeline is
killed, and `locate-evidence` and `provenance current-state` write four of
these artifacts at any time.
The reviewed-action commands (`proposal`, `provenance append`,
`adapter-report`) write files under `artifacts/` whose names may be given on
the command line, so that one command's output may be another's input.
`validate`, `inspect`, `export-sanitized-dry-run` and `retrieve` load a graph,
events and the sidecar in the same way; retrieval goes on with the store and
writes one output. `storage-audit` walks directories other programs write to.

What is hard about each part, and what makes it correct:

* **Retrieval.** A depth limit and a seed limit stop it without a word; cycles,
  shared targets and equal scores decide in which order the deque is filled;
  missing targets are a message only; provenance targets join after the
  closure. Correct means: the result is the reachable set it should be, it
  terminates, and an `ok` status is never a wrong promise (closure, dangling
  edges, unsafe nodes, uncited claims).
* **Loading.** Three kinds of rows are validated, filtered by profile and
  compared with the ids so far, in that order, and an error leaves the loop
  with part of the rows stored; flags of sidecar rows are read through `bool`
  and a default. Correct means: a command's answer is the whole selection or a
  refusal, independent of the order of rows; a profile only forgets; a sidecar
  row gets in only if it says that it needs confirmation and allows no upgrade.
* **Reviewed-action files.** Every file is truncated before it is written, the
  log and its receipt are two files, any name may be given for any of them, and
  an exception other than a JSON error leaves the last report in place. Correct
  means: whatever races and dies, a PASS was given to a manifest that may be
  reviewed, the log loses no line, and a receipt speaks of a line in the log.
* **Storage.** A walk takes time; files grow, move and vanish meanwhile and the
  sum belongs to no moment of the disk. Correct means: exact on a quiet disk,
  no alarm missed and none given for nothing on a busy one.
* **Approval gates.** Look, create, look again and read are separate steps, on
  a file without a lock that a user edits; creation truncates first; the
  reader of the policy is home-made. Correct means: no interleaving and no
  crash makes the gates laxer than the default policy, a command answers from
  the policy in force, and the reader finds what the text lists.
* **Pipelines.** Recursion through pytest, nested runs that overwrite the
  artifacts of the outer run's finished stages, smoke children in another
  identity mode, an audit that precedes the repair of what it audits, results
  in memory against artifacts on disk, several pipelines and suites left behind
  writing the same files, exceptions and kills. Correct means: undisturbed, the
  exit code is the one the tree deserves and a ready verdict stands beside
  artifacts that all say so; whatever else runs, no tree is called ready that is
  not fit; verdict, evidence index and provenance state agree; and every run
  ends.

`PROJECT.json` lists the hazards line by line with the properties that cover
them.

## 2. Modules

### GraphStore, GraphRetrieval, DependencyClosure

`GraphStore` is the loaded store as two functions, `nodes` and `edges`, with
the look-ups of `store.py` as operators. Ids are numbers ranked as the strings
are, so "sorted by id" is `<`. A node is what the factors ask of it: is it of
a type that needs provenance, whose profile it has, what its sensitivity label
allows. Edge types fall into four kinds.

`GraphRetrieval` is one `retrieve` command. `Init` picks a store and a request;
`phase` is the function the call is in.

| variable | in the code |
|---|---|
| `seeds`, `queue`, `included`, `edges`, `missing` | `seeds`, `q`, `included`, `edges`, `missing` of `expand_dependency_closure` |
| `depth`, `todo` | `d` and the rest of the `for e in deps` loop |
| `subgraph`, `annotated` | the `Subgraph` and its annotations |
| `status`, `result` | `ScoreReport.status`; exit code and where the output went |
| `cut` | history only: nodes popped at the limit |

| action | in the code |
|---|---|
| `SelectSeeds` | `lexical_seed_nodes`, and the initial deque |
| `SkipAtLimit`, `PopNode` | `popleft`, `if d >= max_depth: continue`, sorted dependencies |
| `RecordMissing`, `SkipKnown`, `EnqueueTarget` | the three ways one edge is handled |
| `BuildSubgraph`, `AttachStrictProvenance` | `retrieve_minimal_subgraph`, `attach_strict_provenance` |
| `ScoreSubgraph`, `Emit` | `score_subgraph` with the hard-fail factors; `cli.py` 261-270 |

`DependencyClosure` is what retrieval promises: from some starting set,
dependencies are added in any order, and the answer is called complete only if
nothing is left out. `GraphRetrieval!ImplementsClosure` is the refinement, with
`included` as the set and `cut = {}` as "complete".

The causal-guard factor is in `Blocked` though it never fires here: a
`caused_by` edge enters no subgraph, for retrieval follows dependency and
strict edges only. Numeric scores and warnings, which block nothing, are left
out.

### GraphRows, GraphLoading, GraphLoad

`GraphRows` is a row of each kind of file: of a row remains what decides on it
(`ReadAs` infers its kind as `from_paths` does, `Valid` stands for
`from_record`, `Kept` is the profile filter, `Demands` the gates of a sidecar
row with `bool()` and its defaults). A file that cannot be read is one whose
first row is no row.

`GraphLoad` is one command that loads a graph. `pc` is the file being read,
then `check`, `write`, `done`; `at` the rows read of it.

| action | in the code |
|---|---|
| `RejectRow`, `RejectDuplicate`, `SkipRow`, `AddNode`, `AddEdge`, `EndGraph` | the loop of `GraphStore.from_paths` |
| `ReadEvent`, `EndEvents` | its second loop, over the event log |
| `ReadCandidate`, `EndCandidates`, `ReadWeak`, `EndWeak` | `SidecarIndex.from_paths` |
| `Check` | `validate_integrity`, `validate_gates`, `validate_event_log` and the exit code of the command |
| `WriteExport` | `write_export` with its two refusals |

No command gives `from_paths` a profile; the tests do, and `filtered` is their
call. `GraphLoading` is what loading promises: one answer, a function of which
rows there are, a refusal of everything or all that the profile keeps.
`GraphLoad!ImplementsLoading` is the refinement, with the state of the loops
hidden until the command has ended.

### PolicyText, ApprovalGates

`PolicyText` is the line reader `_parse_simple_yaml`. A text is a sequence of
lines, a line what the reader takes it for. `Parsed` reads in order, as the
code does; `Listed` and `Numbered` say what a text lists without an order, and
are what `ApprovalGates` is written with. That the two agree is the property
`ReaderIsFaithful`: the run tries short texts, the theorem is about every text.

`ApprovalGates` has one record per command in progress, with the program
counter `pc`, the action asked about (or `NoAction` for the report), and the
policy it has loaded.

| action | in the code |
|---|---|
| `Ask` | `cli.py` 160-168; `again`: without `--action` the policy is ensured twice |
| `FindPolicy`, `MissPolicy`, `CreatePolicy`, `WriteDefault` | `ensure_policy_file`: `exists()`, opening for writing (which truncates), the write on closing |
| `LookUp`, `ReadPolicy` | `load_policy`: its own `exists()`, then `read_text` |
| `Answer`, `WriteReport` | `check_action_allowed`; `write_gate_check` |
| `Edit`, `Kill` | the user saves or removes the policy; a command dies |

An editor may write in place or rename a new file over the old one; in the
second case a write in progress goes to the old file. The default text, about
a kilobyte, reaches the file in one write. Of an in-place save of a text that
is longer than the default while a command writes, the tail that would remain
is left out.

### ReleasePipeline

The working tree is the facts the checks look for (`Tree`), an artifact its
status, a run the list of stages of its version and a position in it. A
`Command` is a terminal a pipeline is started from; it has two runs at most, its
own (`Outer`) and the one its test suite has in progress (`Nested`). All
commands share tree and artifacts, without a lock, as in the code.

| variable | in the code |
|---|---|
| `tree` | the files and the git configuration |
| `disk[v][s]` | the artifact of stage `s` under `artifacts/v1` or `artifacts/v1.1` |
| `run[p].got` | `stage_results` and the locals of `run_local_rc`, `run_v1_1_rc` |
| `run[p].open` | how far a stage that writes a file in several steps has got |
| `suite[c]` | the pytest child: the nested run it is at, whether all passed |
| `start`, `clean`, `edited`, `last` | history: tree at the start, nothing and nobody interfered, the user edited, last verdict |

| action | in the code |
|---|---|
| `Observe` | the stages that look at the tree and write their artifact |
| `FindPolicy`, `OpenPolicy`, `WritePolicy`, `CheckGates` | `write_gate_check`: look for the policy, truncate, write, load and report |
| `OpenProposal`, `CreateProposal`, `ValidateProposal` | the manifest is truncated, then written; then the *file* is validated |
| `SkipTests`, `StartSuite`, `StartNested`, `FinishSuite` | `run_tests`; the nested runs of `tests/test_pipeline.py` and `tests/test_v1_1_commands.py` |
| `OrphanEnds` | a suite whose command was killed ends, after any of its tests |
| `SmokeTests` | `run_smoke_tests` with its children, in one step |
| `WriteEvidence`, `WriteState`, `Verdict` | lines 137-239 and 262-397 |
| `EditTree`, `EditManifest` | the user |
| `Raise` | a stage of a nested run raises: its test fails, the suite goes on |
| `Kill` | a stage of the command's run raises, or the command *alone* is killed: a suite it waits for goes on |
| `Interrupt` | Ctrl-C, which ends the command and its children |
| `LocateEvidence`, `CurrentState` | the two commands that write pipeline artifacts |

`StartRun` asks only that its own terminal is free, that is, that neither a
command nor a suite it left behind runs there. Any other command may run, and
then neither of the two is `clean`.

Notes on the translation. `--strict` is left out because it changes nothing:
`blockers` is a list of non-empty strings, so `status` is `FAIL` with or
without it. `stage_overrides` change the results in memory after the
artifacts were written. Only `local-rc` gives its `--ci` to the smoke
children, so that `v1.1-rc --ci` still accepts the owner's identity only.
The two files a stage writes and some stage reads again, policy and manifest,
are truncated and written in separate steps. No status
of a pipeline depends on any other artifact once it is written, so that its
truncation and its text are one step; so is the policy when a smoke child or `current-state` creates it
(`ApprovalGates` is the model of that, step by step).
`AsExpected` asks status and exit code of every nested run, also of the two of
`tests/test_pipeline.py` (lines 27 and 58) that assert neither: on a tree where
those fail, others of the suite fail with them, and `ReadyIsFit` rests on the
assertions about v1.1 runs only.

### ProposalManifest, LocalArtifacts

`ProposalManifest` is `validate_manifest`: a manifest keeps of each field what
the rules ask of it, an action type is in one of the code's classes. `Passes`
is the rules as they are written, `Reviewable` what they are there for.

`LocalArtifacts` is the files under `artifacts/v1.1` and the commands that
write them. A file is a sequence of items, one for each line of the log and
one for any other document; a command is a record with its program counter.

| action | in the code |
|---|---|
| `CreateProposal`, `ValidateProposal`, `AppendEvent`, `AdapterReport` | a command starts, with usual or given names |
| `LookForPlan`, `ReadPlan` | `validate_proposal_file`: `exists()`, then `read_text` and the rules; what is not a JSON object raises |
| `OpenLog`, `AppendLine`, `CountLines` | `append_local_test_event`: open for appending, write on closing, read again and count |
| `OpenTarget`, `WriteTarget` | `write_text` for each file in turn: truncation, text on closing |
| `Edit`, `Kill` | the user saves or removes a file, in place or by renaming; a command dies |

Of two texts written over each other the model keeps that they may mix
(`mixed`). `strayed` is history: the paths that were edited or named on a
command line in the place of the usual ones; the properties that need a file
to be left to its own commands say so with it.

### StorageGuard

One audit, with the programs that write to the disk beside it. A path is a
sequence of names, `disk` the size of each path.

| action | in the code |
|---|---|
| `OpenRoot`, `CloseRoot` | `stat_root`: does the root exist; its counts, with the errors cut |
| `ListEntries`, `TestEntry`, `StatFile`, `Descend` | the loop over `rglob`: a listing, `is_dir`, `is_file` and the skipped names, `stat`, a second listing for the directories |
| `Classify`, `Report` | `classify_capacity` of the sum; the `--out` check and the exit code |
| `WriteFile`, `MoveFile`, `MakeDir`, `TakeAway` | other programs |

A directory that is gone when it is listed raises out of `rglob` up to
Python 3.12 and counts as empty after that; the model has both. `low` and
`high` are history: the least and the greatest size each file has had since
the audit began. Symbolic links, unreadable directories and paths that turn
from file to directory are left out. `PathAssumption` says what makes `Path` a
set of paths: they are finitely many, and above each there are directories
only. The sums over roots and files are `SumFunctionOnSet` of the community
modules.

## 3. Runs

All runs have `CHECK_DEADLOCK FALSE`: a command that has ended takes no further
step, and the number of commands is bounded.

| run | checks | instance | shows |
|---|---|---|---|
| `retrieval_depth_limit` | `TypeOK`, `SubgraphIsReference`, `OkIsFullClosure`, `OkHasNoDanglingEdge`, `UnsafeReachBlocks`, `OkClaimsAreCited` | every graph of 3 nodes and 3 edges of the shape below, 3 requests, depth limit 1, seed limit 1; 268,956 states | the subgraph is the ball of the depth limit plus one hop of provenance, and `ok` is never wrong |
| `retrieval_closure` | `QueueByLevel`, `ClosedUnlessCut`, `ImplementsClosure`, `Terminates` | the same graphs, depth limit 2, two seeds; 91,566 states | level order, refinement of the abstract closure, termination on cycles |
| `gates_race` | `TypeOK`, `UneditedIsStrict`, `EmptyWhileWritten`, `LoneAnswerIsCurrent`, `ReaderIsFaithful` | 2 commands at a time, 3 in all, 1 edit to one of 106 texts (all of one or two lines over 7 lines, the longer ones that matter) or removal, 1 kill; 2,043,457 states | races and crashes never make the gates laxer than the default; the reader finds what the text lists |
| `artifacts_race` | `TypeOK`, `PassIsReviewable`, `OwnPlanIsAccepted`, `EmptyWhileOpen`, `ReceiptIsInLog`, `LogOnlyGrows` | 2 commands at a time, 3 in all, any of them told to use the plan's name for any of its files, 1 edit of the plan by one of 3 texts or its removal, 1 kill; 1,538,965 states | no race and no crash passes what may not pass or loses a line |
| `graph_load` | `TypeOK`, `FilterOnlyForgets`, `SidecarSpeaks`, `ImplementsLoading` | every graph file of up to 3 rows over 14 kinds of rows, loaded with and without a profile; every sidecar row; logs of two events; every refusal of an export; 41,710 states | refinement of the promise of loading |
| `storage_audit` | `TypeOK`, `QuietIsExact`, `AlarmIsRaised`, `AlarmIsEarned` | every tree over 3 directories and 3 files of up to 2 bytes, 4 lists of roots, 2 changes at any point of the walk, limits 1 and 2; 1,676,735 states | the sum is exact on a quiet disk and bounded by what was there on a busy one |
| `pipeline_verdict` | `TypeOK`, `VerdictIsDeserved` | all 432 trees, both versions, with and without `--ci`, 4 nested runs; 128,592 states | exit code 0 exactly for the trees that can be released |
| `pipeline_disturbed` | `ReadyLeavesProof`, `ReadyHasRecords`, `RunEnds` | 1 terminal, 6 trees, 2 commands, 2 nested runs each, 1 disturbance anywhere; 321,892 states | records and verdict agree, every run and every suite left behind ends |
| `pipeline_concurrent` | `ReadyIsDeserved` | 2 terminals, a v1.1 run from each at any time, 1 nested run each, 2 trees, 1 disturbance anywhere; 3,038,410 states | no interleaving of two pipelines, one of them perhaps killed with its suite going on, calls a tree ready that is not fit |

The graphs: node 3 is a plain node, a claim, of another profile, protected,
labelled by a custom schema, or missing from the store; edge 1 leaves node 1
or 3, the others join any two nodes; kinds are dependency, strict and
`caused_by`. Three nodes hold every case the code distinguishes - cycle,
self-loop, diamond over two paths of different length, missing target, target
reached by provenance only - and a depth limit of 1 or 2 cuts some of these
and not others. The limits of the code, 20 and 10, only move the same
boundary. The pipelines' bounds: one run with no disturbance suffices for
`VerdictIsDeserved`, which is about undisturbed runs; two runs let the second
find the artifacts and the policy the first has left; the suite's four nested
runs are its real ones without repetitions. Two terminals, two commands and one
disturbance are what it takes for two pipelines to write at once, for one of
them to die there with its suite going on, and for the other to come upon what
it left; both run v1.1, which has every stage, and so does the suite. One of the
two trees is fit and without a policy, so that both create it; the other fails
its tests, so that a verdict that took a result from the wrong run would show.
The fairness run has one terminal: a suite left behind is in it too. A second concurrent gate command
is needed for a race; a third begins when one of the two has ended. The same
holds of the reviewed-action commands: two appends and a validation, or two
creations and a validation, are the races there are, and the plan is the one
file that is both read and written by commands of different kinds. For loading,
three rows hold a duplicate with a row of another kind or profile between, and
an edge before, between and after its two ends; the node id 1 is an edge id
too. In the storage run the root lists are one root, overlapping roots, a root
with a name to skip and a root that is a file; the limits are reached exactly,
passed by one byte, and missed; two changes are what a move into a directory
that was walked already, or that is made meanwhile, takes.

### Disagreements between code and documentation

Each of these runs checks one statement of the documents or tests and is
expected to find it violated; `PROJECT.json` quotes the statement.

| run | statement | what the code does |
|---|---|---|
| `retrieval_is_closed` | `docs/architecture.md:8`, retrieval is dependency-closed | the provenance hop adds nodes without their dependencies (the result is then scored `blocked`) |
| `gates_listed` | EV-019, gates are enforced | a gate check between truncation and write passes with no gated action |
| `pipeline_rerun` | `test_pipeline_is_idempotent` | the audit refuses a tree without policy, the gates stage then creates it, the same command now passes |

### Observations

Other places where code and documents disagree, or where the code does less
than one might think. They can be read off the code at the lines given; the
models translate it as it is, and no run is spent on them.

* `README.md:133` lists actions that always require approval;
  `check_action_allowed` (`gates.py:120`) tests the allowed list first, so that
  an action listed in both is allowed. The default policy lists none twice
  (`DefaultIsSound`).
* A v1.1 run that is refused for its identity leaves an identity check of its
  nested run that says PASS, for the suite sets the owner's identity in the
  environment.
* `docs/plans/v1.1-reviewed-action-layer.md:3` has v1.1 artifacts "clearly
  separated under `artifacts/v1.1/`". The smoke children of a v1.1 run
  (`pipeline.py:107`) are v1 commands and write `artifacts/v1`.
* EV-014 (`evidence.py:22`), "tests pass": in a nested run `run_tests`
  (`pipeline.py:76`) is a skipped pytest with status PASS, and the evidence
  index beside it claims the same.
* `locate-evidence` (`cli.py:142` on) takes the existence of an artifact for
  its status, so that EV-015, "leak scan passes" (`evidence.py:23`), and others
  pass beside an artifact that says FAIL.
* The plan's line 75 has validation fail if "blocked action types are present".
  `git_commit`, `reviewed_apply`, `apply_plan_execute` and
  `graph_events_mutation` are gated types (`GATED_ACTIONS`), but no manifest is
  required to block them (`proposals.py:251`) and `proposals.py:271` refuses
  them only if it does: left out of `blocked_actions`, they pass. `Reviewable`
  says what does hold.
* A flag of a sidecar row is read with `bool` (`schema.py:176`): the string
  `"false"` is a confirmation. `SidecarSpeaks` says what does hold.
* `validate_proposal_file` catches `JSONDecodeError` only: JSON that is not an
  object raises, and the report of the last validation stays.
* `retrieve --out` redacts its output and writes it; the refusal of a text that
  still looks like an absolute path is in `write_export` alone.
* `storage-audit`: a root that is a file counts nothing; roots that overlap are
  summed twice; a root inside a skipped directory is measured; a file moved
  during the walk may be counted twice or not at all; a directory deleted
  during the walk may end the command.

## 4. Fairness

Two formulas state fairness. `GraphRetrieval!FairSpec` is weak fairness of the
whole next-state relation: the command is one thread that is scheduled and
waits for nobody. `ReleasePipeline!FairSpec` is weak fairness of `Progress`
(a stage, the start of a nested run, the end of a suite, also of one left
behind), for each command by itself: a process that can run is scheduled, and `subprocess.run` returns when its child has ended.
Starting commands, edits and kills are not fair. `RunEnds` therefore does not
say that pytest terminates in general, but that the recursion of pipeline and
pytest does. Nothing about the
other modules is stated as liveness: a gate command, a reviewed-action command
and a loading command are straight lines or loops over a file that has been
read, and the storage walk ends only if the disk stops growing, which the code
cannot know.

## 5. Theorems

The theorems hold for every value of the constants under named assumptions,
which TLC evaluates on every instance. `GraphStoreAssumption`,
`RetrievalAssumption`, `GatesAssumption`, `PipelineAssumption`,
`GraphLoadAssumption`, `ManifestAssumption`, `ArtifactsAssumption` and
`StorageGuardAssumption` say what kind of values the constants are
(`ArtifactsAssumption` also that the plan and the log are no other command's
usual file). Three say more:

* `DefaultIsSound`, a fact about `DEFAULT_POLICY_TEXT`: no action is allowed and
  behind approval at once.
* `SuiteAssumption`, a fact about the repository's tests: some test runs the
  v1.1 pipeline with nothing overridden (`tests/test_v1_1_commands.py:130`), and
  every `local-rc` of the suite has `--ci` (`tests/test_pipeline.py:28` on,
  `tests/test_cli.py:65` on). A suite without the first would not notice a tree
  whose templates are invalid before a v1 release. `VerdictIsDeserved` and
  `ReadyIsDeserved` need it.
* `PathAssumption`, what a path is (section 2).

`InductionLemmas` has what several proofs need: a set of numbers that is not
empty has a least one, hence induction; what is defined by recursion over the
numbers exists and is unique; and what `SumFunctionOnSet` does when an element
is taken away or added, when the summands grow, and when two sets are joined.
All of it follows from one fact of the library, that `<` on the numbers is
well-founded; the library's own induction theorems take an operator as a
parameter, which the installed provers cannot instantiate.

`GraphRetrievalProofs`

* `TypeCorrect`. `TypeOK` is not inductive: that the depth of an enqueued node
  stays within the limit needs that the node in hand is above it, hence
  `TypeInv`.
* `UncutIsClosed` (`ClosedUnlessCut`). The invariant is the one of the loop,
  `ExpansionInv`: every included node is in the deque, was cut, or has each
  of its edges recorded, or still to be visited if it is the node in hand; and
  recorded edges lead to included nodes or to missing ones. When the deque is
  empty and nothing was cut, only the last case is left.
* `ExpansionRefines` (`ImplementsClosure`). Step by step: `SelectSeeds` is the
  abstract start, `EnqueueTarget` an abstract `Reach`, `BuildSubgraph` is
  `Complete` by `ExpansionInv`, or `GiveUp`; everything else stutters.
* `OkIsAGraph` (`OkHasNoDanglingEdge`) and `OkIsCited` (`OkClaimsAreCited`) from
  `AnswerInv`: recorded edges leave included nodes, the subgraph is the
  expansion and later the expansion with its strict hop, and `ok` means that
  the factors passed that subgraph. The closure factor then gives the targets
  of walked edges, the hop those of strict ones; and a claim whose provenance
  is anywhere in the store had it brought in by the hop.
* `QueueIsByLevel` (`QueueByLevel`) from `LevelInv`, the invariant of
  breadth-first search. The deque holds the rest of one level and what there is
  yet of the next, in this order and each node once (`QueueInv`); the levels up
  to the current one are complete, nothing is farther away than the limit, and
  what was cut is exactly that far (`ReachInv`); edges are recorded of expanded
  nodes only (`RecordInv`). Distance is what the ball of a radius adds to the
  next smaller one; `BallSteps` and `BallGrows` get the balls out of their
  recursive definition. That the deque is in order is what makes the first
  depth a node is enqueued with its distance, and so the limit a ball.
* `AnswerIsReference` (`SubgraphIsReference`): with an empty deque `LevelInv`
  leaves the ball of the limit. `UnsafeIsBlocked` (`UnsafeReachBlocks`) follows.
* `OkIsClosedAtAnyDistance`: the closure factor, passed, makes the answer closed
  under one more dependency, hence by induction under any number.
  `OkIsWhole` (`OkIsFullClosure`) is the case of the distance that exhausts the
  store.

`ApprovalGatesProofs`: the invariant `GatesInv` is the conjunction of `TypeOK`
and three parts, each preserved by a lemma of its own.

* `StrictUntilEdited` (`UneditedIsStrict`) from `StrictInv`: while `edits = 0`,
  the file and whatever a command has loaded is the default policy, the empty
  text or no file; the first allows what it should, the others nothing.
* `NeverLeftEmpty` (`EmptyWhileWritten`), inductive with the types.
* `LoneCommandIsCurrent` (`LoneAnswerIsCurrent`) from `LoneInv`: a lone
  command's steps are the only ones, so a policy it has seen to is there.
* `GatesTypeCorrect`.
* `EveryTextIsReadAsListed`, and with the types of the state
  `PoliciesAreReadAsListed` (`ReaderIsFaithful`). By induction over the lines:
  after `n` of them the reader holds what those `n` list, and its current key is
  the section of the last heading if that opens a list. A heading makes every
  earlier item of its section void (`HeadingReads`), an item goes to the section
  of the last heading (`ItemReads`).

`ReleasePipelineProofs`, for any number of terminals: the invariant
`PipelineInv` is `TypeOK`, `Nesting` of each command (a nested run belongs to a
suite, and a command whose suite runs is in its tests stage or gone) and
`RecordInv` of each run.

* `PipelineTypeCorrect`.
* `RecordsAgree` (`ReadyHasRecords`) from `RecordInv`: after the first stage
  there is an identity result, and at the verdict the state's status is the
  one the results give. Blockers, exit code and the state's status are three
  lists in three places of the code; the proof is that they fit together.
* `ReadyIsFit` (`ReadyIsDeserved`) from `DeservedInv`. Nobody but the user
  changes a tree except for its policy (`Alike`), so that a result in memory
  tells something of the tree the command started on, whoever writes beside it
  (`Told`): a passed audit of the surface, a passed smoke stage of package and
  identity, and so on. The suite's success tells of the templates as far as it
  has come (`UneditedRun`), which `local-rc` itself does not look into. The
  results a verdict looks at are the run's own and never read from a shared
  file but one, the manifest, whose validation says nothing of the tree. The
  proof goes through every step of every other command, of its nested run and of
  suites left behind.

`ReleaseVerdictProofs` goes on from there: `UndisturbedInv` is about a command
nothing has interfered with since it started on the tree `start`. Such a command
is alone: it began with no other one busy, and the next to start ends its being
`clean` (`AloneInv`). The two
properties are not inductive, for they speak of the end of a run; what holds on
the way (`CleanInv`) is that

* the results in memory are those `Due` to the tree the run started on, stage by
  stage, for the outer run and for the nested one (`RunsInv`);
* the tree is `start` until the gates stage, and `start` with an empty and then
  the full policy after it (`TreeDuring`, `TreeInv`), so that a nested run finds
  one (`FoundInv`); a manifest just created is the one that is there
  (`ManifestInv`);
* the suite has passed so far exactly if the nested runs so far had to
  (`SuiteInv`): each of them is a whole pipeline run, and ends as its test
  expects because its own results are those due to it;
* if the tree can be released, everything the finished stages have left in
  `artifacts/` is good, though nested runs and smoke children have written over
  it since; all but the manifest, while a nested run has it truncated
  (`ArtifactsInv`, `Rewriting`).

`VerdictsAreDeserved` (`VerdictIsDeserved`) compares the results due with the
facts `Releasable` asks for; that even a v1 run asks for valid templates and a
full policy, whose contents its own verdict never asks about, is where
`SuiteAssumption` comes in.
`ReadyVerdictsLeaveProof` (`ReadyLeavesProof`) is `ArtifactsInv` at the end.

`LocalArtifactsProofs`: `TypeInv` (types, and which of a command's fields are
in use at which point), and over it one lemma, `Kept`, that says what any step
may do to files, orders and records; each property has an invariant of its own
that `Kept` preserves.

* `ArtifactsTypeCorrect`.
* `PassesAreReviewable` (`PassIsReviewable`): every validation in a file or
  on its way to one has the status its reading deserves, and what passes the
  rules is reviewable.
* `OwnPlansAreAccepted` (`OwnPlanIsAccepted`): while the plan is left alone it
  is absent, half written, mixed by two creations, or the default manifest,
  which passes.
* `ReceiptsAreInLog` (`ReceiptIsInLog`) and `LogsOnlyGrow` (`LogOnlyGrows`):
  while the log is left alone it holds events only, a command past its append
  has its line in it, and no step shortens it.
* `EmptyOnlyWhileOpen` (`EmptyWhileOpen`).

`GraphLoadProofs`, for files of any length: the invariant `ReadInv` is `TypeOK`
and that what was read so far was legal, without a clash, and is exactly what
the store holds; that loaded sidecar rows pass the gates; and that an exit code
is the one the promise gives.

* `LoadTypeCorrect`: among others, that a loaded store is a store, which is
  what `RetrievalAssumption` assumes of it.
* `LoadingIsImplemented` (`ImplementsLoading`): every step stutters but the last
  one, which by `ReadInv` gives the promised answer.
* `FiltersOnlyForget` (`FilterOnlyForgets`), `SidecarsSpeak` (`SidecarSpeaks`).

`StorageGuardProofs`, for any tree of paths, any list of roots and any number of
changes. The invariant `AuditInv` starts from the observation that what the
walk has before it (directories to list, entries to test, and all that is below
them: `Ahead`) is a set of separate subtrees of the root (`WalkInv`). Each step
takes one entry out of it, which is counted, or only what is not on the disk;
whatever else happens, nothing is met twice.

* `AuditTypeCorrect` (`TypeOK`): counts are bounded by what is behind the walk
  (`CountInv`).
* `QuietAuditIsExact` (`QuietIsExact`): while nothing has changed, a count is
  exactly what is behind the walk and on the disk (`QuietInv`), and at the end
  of a root everything is. The bytes follow from the bounds below, which
  coincide on a quiet disk.
* `AlarmsAreRaised` (`AlarmIsRaised`) and `AlarmsAreEarned` (`AlarmIsEarned`):
  the bytes lie between the sums of the least and of the greatest size that the
  files behind the walk have had (`HistoryInv`, `SumInv`); a file that was
  absent for a moment has 0 as its least size. Over the roots (`TotalIsBounded`)
  the total is at least the sum over all files below any of them, and if no
  file is below two roots it is at most that.

Only model-checked, because liveness under fairness is beyond this prover:
`Terminates` (`retrieval_closure`), that every retrieval ends, also on cycles,
and `RunEnds` (`pipeline_disturbed`), that the recursion of pipeline and test
suite ends. The three runs that refute a statement of the documents are
counterexamples and need no proof.

## 6. Not modelled

Text search (terms in nodes, leak patterns, required sections), git, JSON and
Markdown layout, timestamps and identifiers: the models keep the outcome of
such a step as a fact about its input. Argument parsing. The maintenance
analyses, which change nothing and which no command calls. The adapters'
descriptions. The two scripts. Redaction, which rewrites strings; of it remains
which ids still read like a path when it is done. Scores and warnings that
block nothing. Symbolic links in the storage walk. Adapter, append and
git-state stages raise or pass; their exceptions are covered by `Raise` and
`Kill`.

Of two pipelines that run at once nothing is stated about the artifacts: they
have no run identifier, and the files of two runs mix. What is stated is what
their verdicts may say (`ReadyIsDeserved`). The opposite direction, that a fit
tree is called ready, fails as soon as another command truncates the manifest
between a run's creation and its validation, and is claimed of undisturbed runs
only.

## 7. Plan

Done, in this order: retrieval first, as the program's own algorithm; the
pipelines, where its parts meet; the gates; the reviewed-action files; loading;
the storage audit.

What a continuation could add:

1. Bounds for the two liveness properties as safety: a measure that every step
   of a retrieval, and every step of `Progress`, decreases. Its proof would be
   an action property, and within reach.
2. Which artifacts a ready verdict leaves when other commands ran beside it, if
   the code ever gets a lock or a run identifier that something could be stated
   about.

The files: `X.tla` a module, `MCX.tla` its instances for TLC, `XProofs.tla` its
theorems (those of the pipeline in `ReleasePipelineProofs` and
`ReleaseVerdictProofs`), `InductionLemmas.tla` the lemmas they share,
`<run>.cfg` the configuration of a run. A run is
`tlc -config <run>.cfg MCX.tla`, a proof `tlapm XProofs.tla`. In a module, an
operator announced as "Mutant of D" is a plausible bug in `D`: with it in the
place of `D`, the property it is paired with in `PROJECT.json` fails.
