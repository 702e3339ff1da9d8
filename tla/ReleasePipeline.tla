--------------------------- MODULE ReleasePipeline ---------------------------
(***************************************************************************)
(* `ghm pipeline local-rc' (version "v1") and `pipeline v1.1-rc' ("v11"):  *)
(* a fixed list of stages, each of which looks at the working tree and     *)
(* writes one artifact, then an evidence index, a provenance state and a   *)
(* verdict computed from the results kept in memory.                       *)
(*                                                                         *)
(* The tests stage runs the repository's own test suite, and the suite     *)
(* runs both pipelines again on the same working tree; an environment      *)
(* variable keeps those nested runs from starting pytest once more.        *)
(* Nothing locks the tree or the artifacts: other pipelines may be started *)
(* from other terminals, a suite goes on when its pipeline alone is        *)
(* killed, the user may edit the tree or give other commands, and any      *)
(* stage may raise.                                                        *)
(*                                                                         *)
(* An artifact is its status; the working tree is the facts the stages     *)
(* look at.  The two files that stages write and later read, the policy    *)
(* and the proposal manifest, are written in place in separate steps.      *)
(***************************************************************************)
EXTENDS Naturals, Sequences

CONSTANTS
    Command,       \* terminals a pipeline is started from, one at a time each
    Trees,         \* the working trees the user may have, or edit his into
    SuiteRuns,     \* the nested runs of the test suite, in order
    Requests,      \* bound: the pipeline commands that are given
    MaxRuns,       \* bound: how many of them
    MaxDisturbances   \* bound: edits, other commands and raised exceptions

Version == {"v1", "v11"}

\* A command has a run of its own, and its pytest child runs nested ones.
Proc      == Command \X {"outer", "nested"}
Outer(c)  == <<c, "outer">>
Nested(c) == <<c, "nested">>
Owner(p)  == p[1]
IsNested(p) == p[2] = "nested"

\* identity  what git reports: the owner, a CI bot, an automated agent
\* surface   the release files and sections other than templates and policy
\* policy    policies/approval-gates.yaml; "empty" parses to no actions
\* templates the files are missing, there but incomplete, or valid
\* tests     the tests that run no pipeline pass
\* package   a child interpreter imports the package
\* leakfree  no blocking pattern in the public files
Tree ==
    [identity : {"owner", "bot", "agent"}, surface : BOOLEAN,
     policy : {"absent", "empty", "full"},
     templates : {"missing", "incomplete", "valid"},
     tests : BOOLEAN, package : BOOLEAN, leakfree : BOOLEAN]

\* override  the suite hands the run a failed leak scan (stage_overrides)
SuiteRun == [version : Version, ci : BOOLEAN, override : BOOLEAN]

ASSUME PipelineAssumption ==
    /\ Trees \subseteq Tree
    /\ Requests \subseteq [version : Version, ci : BOOLEAN]
    /\ SuiteRuns \in Seq(SuiteRun)
    /\ MaxRuns \in Nat
    /\ MaxDisturbances \in Nat

\* The suite runs the v1.1 pipeline once with nothing overridden
\* (test_v1_1_commands.py), and local-rc always with --ci (test_pipeline.py,
\* test_cli.py).
ASSUME SuiteAssumption ==
    /\ \E i \in 1 .. Len(SuiteRuns) :
          SuiteRuns[i].version = "v11" /\ ~ SuiteRuns[i].override
    /\ \A i \in 1 .. Len(SuiteRuns) :
          SuiteRuns[i].version = "v1" => SuiteRuns[i].ci

Stages(v) ==
    IF v = "v1"
    THEN <<"identity", "git_state", "audit", "gates", "adapter", "tests",
           "smoke", "leak", "evidence", "state", "verdict">>
    ELSE <<"identity", "git_state", "audit", "gates", "proposal",
           "validation", "templates", "adapter", "append", "tests", "smoke",
           "leak", "evidence", "state", "verdict">>

ProposalStages == {"proposal", "validation", "templates", "adapter", "append"}

Stage == {"identity", "git_state", "audit", "gates", "tests", "smoke", "leak",
          "evidence", "state", "verdict"} \cup ProposalStages

VARIABLES
    tree,       \* the working tree
    disk,       \* [Version -> [Stage -> artifact status]]
    run,        \* [Proc -> run record]; at = 0 when there is no run
    suite,      \* [Command -> [next, ok]]: nested run the suite of a command
                \* is at (0: it is not running)
    runs,       \* counter: pipeline commands given
    disturbances,  \* counter
    start,      \* history: the tree when a command started
    clean,      \* history: nothing and nobody disturbed the command
    edited,     \* history: the user edited the tree since it started
    last        \* history: the last command that reached its verdict

vars == <<tree, disk, run, suite, runs, disturbances, start, clean, edited, last>>
counters == <<runs, disturbances>>
history == <<start, clean, edited, last>>

Results == [Stage -> {"none", "PASS", "WARN", "FAIL"}]

\* open   how far a stage of several steps has got with its file
NewRun(v, ci, override) ==
    [version |-> v, ci |-> ci, override |-> override, at |-> 1, open |-> "no",
     got |-> [s \in Stage |-> "none"], gated |-> FALSE]

NoRun == [NewRun("v1", FALSE, FALSE) EXCEPT !.at = 0]

NoSuite == [next |-> 0, ok |-> TRUE]

NoVerdict == [version |-> "v1", ci |-> FALSE, exit |-> "none", start |-> tree,
              clean |-> FALSE, edited |-> FALSE]

Active(p) == run[p].at > 0

\* The command runs, or the suite it has left behind.
Busy(c) == Active(Outer(c)) \/ suite[c].next > 0

\* A run waits for its pytest child; a nested run never has one.
Executing(p) == Active(p) /\ (~ IsNested(p) => suite[Owner(p)].next = 0)

AtStage(p, s) == Executing(p) /\ Stages(run[p].version)[run[p].at] = s

-----------------------------------------------------------------------------
(* What the checks find in the working tree.                               *)

PassIf(b) == IF b THEN "PASS" ELSE "FAIL"

\* The suite's v1.1 commands set the owner's identity in the environment; an
\* agent is also recognised in the local configuration and the history.
Identity(p) ==
    IF IsNested(p) /\ run[p].version = "v11" /\ tree.identity = "bot"
    THEN "owner" ELSE tree.identity

IdentityStatus(who, ci) ==
    IF who = "owner" THEN "PASS"
    ELSE IF who = "bot" /\ ci THEN "WARN" ELSE "FAIL"

\* Mutant of AuditStatus: the policy is left to the gates stage.
AuditWithoutPolicy(t) == PassIf(t.surface /\ t.templates # "missing")

AuditStatus(t) ==
    PassIf(t.surface /\ t.policy # "absent" /\ t.templates # "missing")

\* ensure_policy_file, as a child of the smoke stage or another command calls
\* it: the default policy is written where there is none.
EnsurePolicy(t) ==
    IF t.policy = "absent" THEN [t EXCEPT !.policy = "full"] ELSE t

\* Mutant of Observed: a leak is reported as a warning.
ObservedLeakAsWarning(p, s) ==
    CASE s = "identity"  -> IdentityStatus(Identity(p), run[p].ci)
      [] s = "audit"     -> AuditStatus(tree)
      [] s = "templates" -> PassIf(tree.templates = "valid")
      [] s = "leak"      -> IF tree.leakfree THEN "PASS" ELSE "WARN"
      [] s \in {"git_state", "adapter", "append"} -> "PASS"

\* Stages that look at the tree and write their artifact, nothing else.
Observed(p, s) ==
    CASE s = "identity"  -> IdentityStatus(Identity(p), run[p].ci)
      [] s = "audit"     -> AuditStatus(tree)
      [] s = "templates" -> PassIf(tree.templates = "valid")
      [] s = "leak"      -> PassIf(tree.leakfree)
      [] s \in {"git_state", "adapter", "append"} -> "PASS"

ObservingStage == {"identity", "git_state", "audit", "templates", "adapter",
                   "append", "leak"}

-----------------------------------------------------------------------------
(* Verdict, evidence and provenance, from the results in memory.           *)

Passed(status) == status \in {"PASS", "WARN"}

\* REQUIRED_CLAIMS; the claims on the provenance state and the report are
\* given a constant PASS by the pipeline.
EvidenceStatus(got) ==
    PassIf(\A s \in {"identity", "git_state", "audit", "gates", "smoke",
                     "tests", "leak"} : Passed(got[s]))

StateStatus(v, got) ==
    PassIf(/\ Passed(got["identity"])
           /\ \A s \in {"tests", "smoke", "leak"} : got[s] = "PASS"
           /\ v = "v11" => \A s \in ProposalStages \ {"proposal"} :
                              got[s] = "PASS")

Blocked(v, got) ==
    \/ \E s \in {"identity", "audit", "gates"} : got[s] = "FAIL"
    \/ \E s \in {"tests", "smoke", "leak", "evidence"} : got[s] # "PASS"
    \/ v = "v11" /\ \E s \in ProposalStages : got[s] # "PASS"

\* Mutant of ExitCode: failures without a code of their own are forgotten.
ExitCodeOfKnownFailures(v, got) ==
    IF got["identity"] = "FAIL" THEN "identity"
    ELSE IF got["gates"] = "FAIL" THEN "config"
    ELSE IF got["leak"] # "PASS" THEN "leak"
    ELSE IF got["tests"] # "PASS" THEN "tests"
    ELSE IF got["smoke"] # "PASS" THEN "smoke" ELSE "ok"

\* The first failure in this order names the exit code.
ExitCode(v, got) ==
    IF got["identity"] = "FAIL" THEN "identity"
    ELSE IF got["gates"] = "FAIL" THEN "config"
    ELSE IF got["leak"] # "PASS" THEN "leak"
    ELSE IF got["tests"] # "PASS" THEN "tests"
    ELSE IF got["smoke"] # "PASS" THEN "smoke"
    ELSE IF Blocked(v, got) THEN "fail" ELSE "ok"

-----------------------------------------------------------------------------
Init ==
    /\ tree \in Trees
    /\ disk = [v \in Version |-> [s \in Stage |-> "absent"]]
    /\ run = [p \in Proc |-> NoRun]
    /\ suite = [c \in Command |-> NoSuite]
    /\ runs = 0
    /\ disturbances = 0
    /\ start = [c \in Command |-> tree]
    /\ clean = [c \in Command |-> FALSE]
    /\ edited = [c \in Command |-> FALSE]
    /\ last = NoVerdict

\* Nothing keeps a second pipeline from being started beside the first; from
\* then on neither is undisturbed.
StartRun(c, v, ci) ==
    /\ ~ Busy(c)
    /\ [version |-> v, ci |-> ci] \in Requests
    /\ runs < MaxRuns
    /\ runs' = runs + 1
    /\ run' = [run EXCEPT ![Outer(c)] = NewRun(v, ci, FALSE)]
    /\ start' = [start EXCEPT ![c] = tree]
    /\ clean' = [d \in Command |-> d = c /\ \A e \in Command : ~ Busy(e)]
    /\ edited' = [edited EXCEPT ![c] = FALSE]
    /\ UNCHANGED <<tree, disk, suite, disturbances, last>>

\* A stage returned `status': the result is kept in memory, the run goes on.
Moved(r, s, status) ==
    [r EXCEPT !.got[s] = status, !.at = @ + 1, !.open = "no"]

Advance(p, s, status) == run' = [run EXCEPT ![p] = Moved(@, s, status)]

\* The run is at the step `from' of the stage s and comes to the step `to'.
Handle(p, s, from, to) ==
    /\ AtStage(p, s) /\ run[p].open = from
    /\ run' = [run EXCEPT ![p].open = to]

Write(v, s, status) == disk' = [disk EXCEPT ![v][s] = status]

Observe(p, s) ==
    /\ AtStage(p, s)
    /\ Advance(p, s, Observed(p, s))
    /\ Write(run[p].version, s, Observed(p, s))
    /\ UNCHANGED <<tree, suite, counters, history>>

\* ensure_policy_file in the gates stage, after the audit asked for the policy:
\* it is looked for, truncated on opening, and written on closing.
FindPolicy(p) ==
    /\ Handle(p, "gates", "no", IF tree.policy = "absent" THEN "missed" ELSE "seen")
    /\ UNCHANGED <<tree, disk, suite, counters, history>>

OpenPolicy(p) ==
    /\ Handle(p, "gates", "missed", "opened")
    /\ tree' = [tree EXCEPT !.policy = "empty"]
    /\ UNCHANGED <<disk, suite, counters, history>>

WritePolicy(p) ==
    /\ Handle(p, "gates", "opened", "seen")
    /\ tree' = [tree EXCEPT !.policy = "full"]
    /\ UNCHANGED <<disk, suite, counters, history>>

\* load_policy finds whatever is there by then; a text without any action
\* passes.
CheckGates(p) ==
    /\ AtStage(p, "gates") /\ run[p].open = "seen"
    /\ LET status == PassIf(tree.policy # "absent")
           listed == tree.policy = "full"
       IN  /\ run' = [run EXCEPT ![p] = Moved([@ EXCEPT !.gated = listed],
                                              "gates", status)]
           /\ Write(run[p].version, "gates", status)
    /\ UNCHANGED <<tree, suite, counters, history>>

\* The manifest is truncated, and no JSON until it is written.
OpenProposal(p) ==
    /\ Handle(p, "proposal", "no", "opened")
    /\ Write("v11", "proposal", "FAIL")
    /\ UNCHANGED <<tree, suite, counters, history>>

\* The default manifest passes; what is validated next is the file.
CreateProposal(p) ==
    /\ AtStage(p, "proposal") /\ run[p].open = "opened"
    /\ Advance(p, "proposal", "PASS")
    /\ Write("v11", "proposal", "PASS")
    /\ UNCHANGED <<tree, suite, counters, history>>

ValidateProposal(p) ==
    /\ AtStage(p, "validation")
    /\ LET status == PassIf(disk["v11"]["proposal"] = "PASS")
       IN  Advance(p, "validation", status) /\ Write("v11", "validation", status)
    /\ UNCHANGED <<tree, suite, counters, history>>

\* Mutant of Guarded: the environment variable is not looked at.
GuardedNever(p) == FALSE

\* PYTEST_CURRENT_TEST or GHM_RECURSIVE_PYTEST is set: no pytest, a PASS.
Guarded(p) == IsNested(p)

SkipTests(p) ==
    /\ AtStage(p, "tests")
    /\ Guarded(p)
    /\ Advance(p, "tests", "PASS")
    /\ Write(run[p].version, "tests", "SKIPPED")
    /\ UNCHANGED <<tree, suite, counters, history>>

StartSuite(p) ==
    /\ AtStage(p, "tests")
    /\ ~ Guarded(p)
    /\ suite' = [suite EXCEPT ![Owner(p)] = [next |-> 1, ok |-> TRUE]]
    /\ UNCHANGED <<tree, disk, run, counters, history>>

StartNested(c) ==
    /\ suite[c].next \in 1 .. Len(SuiteRuns)
    /\ ~ Active(Nested(c))
    /\ LET r == SuiteRuns[suite[c].next]
       IN  run' = [run EXCEPT ![Nested(c)] = NewRun(r.version, r.ci, r.override)]
    /\ UNCHANGED <<tree, disk, suite, counters, history>>

\* Mutant of FinishSuite: the result is not written after pytest.
FinishSuiteUnwritten(c) ==
    /\ Active(Outer(c)) /\ suite[c].next = Len(SuiteRuns) + 1
    /\ Advance(Outer(c), "tests", PassIf(suite[c].ok /\ tree.tests))
    /\ suite' = [suite EXCEPT ![c] = NoSuite]
    /\ UNCHANGED <<tree, disk, counters, history>>

\* Mutant of FinishSuite: the result is taken from the artifact if there is
\* one, not from pytest's exit code.
FinishSuiteFromFile(c) ==
    /\ Active(Outer(c)) /\ suite[c].next = Len(SuiteRuns) + 1
    /\ LET v      == run[Outer(c)].version
           status == IF disk[v]["tests"] = "absent"
                     THEN PassIf(suite[c].ok /\ tree.tests)
                     ELSE PassIf(disk[v]["tests"] # "FAIL")
       IN  Advance(Outer(c), "tests", status) /\ Write(v, "tests", status)
    /\ suite' = [suite EXCEPT ![c] = NoSuite]
    /\ UNCHANGED <<tree, counters, history>>

\* pytest ends; the stage writes its own result over what other runs left.
FinishSuite(c) ==
    /\ Active(Outer(c)) /\ suite[c].next = Len(SuiteRuns) + 1
    /\ LET status == PassIf(suite[c].ok /\ tree.tests)
       IN  /\ Advance(Outer(c), "tests", status)
           /\ Write(run[Outer(c)].version, "tests", status)
    /\ suite' = [suite EXCEPT ![c] = NoSuite]
    /\ UNCHANGED <<tree, counters, history>>

\* A suite whose command was killed writes into a pipe nobody reads: it may
\* end after any test, and ends after the last.
OrphanEnds(c) ==
    /\ ~ Active(Outer(c)) /\ suite[c].next > 0
    /\ ~ Active(Nested(c))
    /\ suite' = [suite EXCEPT ![c] = NoSuite]
    /\ UNCHANGED <<tree, disk, run, counters, history>>

\* The children identity-check, check-gates and audit-release write their
\* artifacts where these commands always do, under artifacts/v1; only
\* local-rc hands its --ci on to them.
SmokeCi(p) == run[p].version = "v1" /\ run[p].ci

SmokeTests(p) ==
    /\ AtStage(p, "smoke")
    /\ LET who    == IdentityStatus(Identity(p), SmokeCi(p))
           audit  == AuditStatus(EnsurePolicy(tree))
           status == PassIf(tree.package /\ Passed(who) /\ audit = "PASS")
           v1     == IF tree.package
                     THEN [disk["v1"] EXCEPT !["identity"] = who,
                              !["gates"] = "PASS", !["audit"] = audit]
                     ELSE disk["v1"]
       IN  /\ Advance(p, "smoke", status)
           /\ disk' = [[disk EXCEPT !["v1"] = v1]
                          EXCEPT ![run[p].version]["smoke"] = status]
    /\ tree' = IF tree.package THEN EnsurePolicy(tree) ELSE tree
    /\ UNCHANGED <<suite, counters, history>>

\* stage_overrides are merged into the results first.
Overridden(r) == IF r.override THEN [r EXCEPT !.got["leak"] = "FAIL"] ELSE r

WriteEvidence(p) ==
    /\ AtStage(p, "evidence")
    /\ LET r      == Overridden(run[p])
           status == EvidenceStatus(r.got)
       IN  /\ run' = [run EXCEPT ![p] = Moved(r, "evidence", status)]
           /\ Write(run[p].version, "evidence", status)
    /\ UNCHANGED <<tree, suite, counters, history>>

WriteState(p) ==
    /\ AtStage(p, "state")
    /\ LET status == StateStatus(run[p].version, run[p].got)
       IN  Advance(p, "state", status) /\ Write(run[p].version, "state", status)
    /\ UNCHANGED <<tree, suite, counters, history>>

\* What the tests of the suite assert of a nested run.
AsExpected(r, exit) ==
    IF r.override THEN exit = "leak"
    ELSE exit = "ok" /\ (r.version = "v11" => r.gated)

Verdict(p) ==
    /\ AtStage(p, "verdict")
    /\ LET exit == ExitCode(run[p].version, run[p].got)
           c    == Owner(p)
       IN  /\ Write(run[p].version, "verdict",
                    PassIf(~ Blocked(run[p].version, run[p].got)))
           /\ IF IsNested(p)
              THEN /\ suite' = [suite EXCEPT ![c] =
                                  [next |-> @.next + 1,
                                   ok |-> @.ok /\ AsExpected(run[p], exit)]]
                   /\ UNCHANGED last
              ELSE /\ last' = [version |-> run[p].version, ci |-> run[p].ci,
                               exit |-> exit, start |-> start[c],
                               clean |-> clean[c], edited |-> edited[c]]
                   /\ UNCHANGED suite
    /\ run' = [run EXCEPT ![p] = NoRun]
    /\ UNCHANGED <<tree, counters, start, clean, edited>>

-----------------------------------------------------------------------------
(* Disturbances.                                                           *)

Disturb ==
    /\ disturbances < MaxDisturbances
    /\ disturbances' = disturbances + 1
    /\ clean' = [c \in Command |-> FALSE]
    /\ last' = [last EXCEPT !.clean = FALSE]
    /\ UNCHANGED <<runs, start>>

EditTree ==
    /\ Disturb
    /\ tree' \in Trees
    /\ edited' = [c \in Command |-> TRUE]
    /\ UNCHANGED <<disk, run, suite>>

\* The user makes the proposal manifest one that does not validate.
EditManifest ==
    /\ Disturb
    /\ disk["v11"]["proposal"] = "PASS"
    /\ Write("v11", "proposal", "FAIL")
    /\ UNCHANGED <<tree, run, suite, edited>>

\* A stage of a nested run raises: nothing in the pipeline catches it, what
\* was written stays, and the test that called it fails.
Raise(c) ==
    /\ Disturb
    /\ Active(Nested(c))
    /\ run' = [run EXCEPT ![Nested(c)] = NoRun]
    /\ suite' = [suite EXCEPT ![c] = [next |-> @.next + 1, ok |-> FALSE]]
    /\ UNCHANGED <<tree, disk, edited>>

\* A stage of the command's own run raises, or the command alone is killed: a
\* suite it waits for goes on.
Kill(c) ==
    /\ Disturb
    /\ Active(Outer(c))
    /\ run' = [run EXCEPT ![Outer(c)] = NoRun]
    /\ UNCHANGED <<tree, disk, suite, edited>>

\* Ctrl-C ends a command with its children; a suite left behind is ended by
\* its process number.
Interrupt(c) ==
    /\ Disturb
    /\ Busy(c)
    /\ run' = [run EXCEPT ![Outer(c)] = NoRun, ![Nested(c)] = NoRun]
    /\ suite' = [suite EXCEPT ![c] = NoSuite]
    /\ UNCHANGED <<tree, disk, edited>>

\* `locate-evidence': a claim passes when the artifact of its stage exists.
LocateEvidence ==
    /\ Disturb
    /\ Write("v1", "evidence",
             PassIf(\A s \in {"identity", "git_state", "audit", "gates",
                              "tests", "smoke", "leak", "state", "verdict"} :
                       disk["v1"][s] # "absent"))
    /\ UNCHANGED <<tree, run, suite, edited>>

\* `provenance current-state': the validation results are constants.
CurrentState(ci) ==
    /\ Disturb
    /\ LET who == IdentityStatus(tree.identity, ci)
       IN  disk' = [disk EXCEPT !["v1"]["identity"] = who,
                                !["v1"]["gates"] = "PASS",
                                !["v1"]["state"] = PassIf(Passed(who))]
    /\ tree' = EnsurePolicy(tree)
    /\ UNCHANGED <<run, suite, edited>>

-----------------------------------------------------------------------------
RunStep(p) ==
    \/ \E s \in ObservingStage : Observe(p, s)
    \/ FindPolicy(p)
    \/ OpenPolicy(p)
    \/ WritePolicy(p)
    \/ CheckGates(p)
    \/ OpenProposal(p)
    \/ CreateProposal(p)
    \/ ValidateProposal(p)
    \/ SkipTests(p)
    \/ StartSuite(p)
    \/ SmokeTests(p)
    \/ WriteEvidence(p)
    \/ WriteState(p)
    \/ Verdict(p)

\* A command and its children go on.
Progress(c) ==
    \/ RunStep(Outer(c))
    \/ RunStep(Nested(c))
    \/ StartNested(c)
    \/ FinishSuite(c)
    \/ OrphanEnds(c)

Disturbance ==
    \/ EditTree
    \/ EditManifest
    \/ \E c \in Command : Raise(c) \/ Kill(c) \/ Interrupt(c)
    \/ LocateEvidence
    \/ \E ci \in BOOLEAN : CurrentState(ci)

Next ==
    \/ \E c \in Command, v \in Version, ci \in BOOLEAN : StartRun(c, v, ci)
    \/ \E c \in Command : Progress(c)
    \/ Disturbance

Spec == Init /\ [][Next]_vars

\* A process that runs is scheduled, and subprocess.run returns when its
\* child has ended.
FairSpec == Spec /\ \A c \in Command : WF_vars(Progress(c))

-----------------------------------------------------------------------------
(* Type invariant.                                                         *)

ArtifactStatus == {"absent", "PASS", "WARN", "FAIL", "SKIPPED"}

DiskOK ==
    /\ disk \in [Version -> [Stage -> ArtifactStatus]]
    /\ \A v \in Version, s \in Stage :
          /\ disk[v][s] = "SKIPPED" => s = "tests"
          /\ disk[v][s] = "WARN" => s = "identity"

RunRecord == [version : Version, ci : BOOLEAN, override : BOOLEAN,
              at : 0 .. 15, open : {"no", "missed", "opened", "seen"},
              got : Results, gated : BOOLEAN]

RunOK ==
    /\ run \in [Proc -> RunRecord]
    /\ \A p \in Proc : run[p].at <= Len(Stages(run[p].version))

VerdictRecord ==
    [version : Version, ci : BOOLEAN, start : Tree,
     clean : BOOLEAN, edited : BOOLEAN,
     exit : {"none", "ok", "fail", "identity", "config", "leak", "tests",
             "smoke"}]

\* Every variable has the type its comment gives it; only a tests artifact
\* is a skipped one, and only an identity check passes with warnings.
TypeOK ==
    /\ tree \in Tree
    /\ DiskOK
    /\ RunOK
    /\ suite \in [Command -> [next : 0 .. Len(SuiteRuns) + 1, ok : BOOLEAN]]
    /\ runs \in 0 .. MaxRuns
    /\ disturbances \in 0 .. MaxDisturbances
    /\ start \in [Command -> Tree]
    /\ clean \in [Command -> BOOLEAN]
    /\ edited \in [Command -> BOOLEAN]
    /\ last \in VerdictRecord

-----------------------------------------------------------------------------
(* Safety.                                                                 *)

\* What a tree must be for a release, its policy apart: through the suite
\* either pipeline depends on the other's checks, and v1.1-rc passes its --ci to
\* no child, so that it accepts the owner only.
Fit(t, v, ci) ==
    /\ t.surface /\ t.tests /\ t.package /\ t.leakfree
    /\ t.templates = "valid"
    /\ \/ t.identity = "owner"
       \/ t.identity = "bot" /\ v = "v1" /\ ci

Releasable(t, v, ci) == t.policy = "full" /\ Fit(t, v, ci)

\* A run that nothing disturbed exits with 0 exactly when the tree it was
\* started on can be released, whatever its own nested runs wrote to the
\* shared artifacts and repaired in the tree meanwhile.
VerdictIsDeserved ==
    last.clean => (last.exit = "ok" <=> Releasable(last.start, last.version,
                                                   last.ci))

\* Other pipelines, suites left behind by killed ones, interrupts, exceptions
\* and other commands may spoil a run, but never make it ready: exit code 0 is
\* given only to a tree that is fit, as long as the user edits no file of it.
\* Of the policy, which any of them may truncate and write at any time, nothing
\* is claimed here.
ReadyIsDeserved ==
    ~ last.edited /\ last.exit = "ok" => Fit(last.start, last.version, last.ci)

\* After a ready verdict of an undisturbed run every artifact it lists says
\* PASS: none is left from a nested run, such as the result of a skipped
\* pytest, or from a smoke child with another identity mode.
ReadyLeavesProof ==
    last.clean /\ last.exit = "ok" /\ (\A c \in Command : ~ Busy(c)) =>
        \A i \in 1 .. Len(Stages(last.version)) :
            Passed(disk[last.version][Stages(last.version)[i]])

\* When a verdict is due, exit code 0, release_ready_local and the records
\* agree, however the tree was edited during the run: a ready run has a PASS
\* evidence index and a PASS provenance state, though the latter blocks
\* nothing, and a blocked run never exits with 0.
ReadyHasRecords ==
    \A p \in Proc : AtStage(p, "verdict") =>
        LET v == run[p].version
            got == run[p].got
        IN  /\ ExitCode(v, got) = "ok" <=> ~ Blocked(v, got)
            /\ ~ Blocked(v, got) => /\ got["evidence"] = "PASS"
                                   /\ got["state"] = "PASS"

-----------------------------------------------------------------------------
(* Statements of the documentation.                                        *)

\* test_pipeline_is_idempotent: the same command given twice, with nothing
\* edited in between, gives the same result.
RerunAgrees ==
    [][/\ last' # last
       /\ last.clean /\ last'.clean
       /\ last.version = last'.version /\ last.ci = last'.ci
       => last.exit = last'.exit]_vars

-----------------------------------------------------------------------------
(* Liveness.                                                               *)

\* Every command ends, by a verdict or by an exception, and so does a suite it
\* has left behind: pytest runs the pipeline that runs pytest, but never a third
\* time.
RunEnds == \A c \in Command : Busy(c) ~> ~ Busy(c)
=============================================================================
