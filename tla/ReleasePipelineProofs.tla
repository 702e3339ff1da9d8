----------------------- MODULE ReleasePipelineProofs -----------------------
(***************************************************************************)
(* Proofs about ReleasePipeline for every set of working trees, every      *)
(* sequence of nested runs in the test suite, every set of terminals, and  *)
(* any number of commands, edits, exceptions and kills.                    *)
(***************************************************************************)
EXTENDS ReleasePipeline, TLAPS

\* A process is the run of a command or the run nested in its suite.
LEMMA ProcFacts ==
    ASSUME NEW c \in Command
    PROVE  /\ Outer(c) \in Proc /\ Nested(c) \in Proc
           /\ Owner(Outer(c)) = c /\ Owner(Nested(c)) = c
           /\ ~ IsNested(Outer(c)) /\ IsNested(Nested(c))
           /\ \A d \in Command : /\ Outer(c) # Nested(d)
                                 /\ Outer(c) = Outer(d) => c = d
                                 /\ Nested(c) = Nested(d) => c = d
BY DEF Proc, Outer, Nested, Owner, IsNested

LEMMA ProcCases ==
    ASSUME NEW p \in Proc
    PROVE  /\ Owner(p) \in Command
           /\ IsNested(p) => p = Nested(Owner(p))
           /\ ~ IsNested(p) => p = Outer(Owner(p))
BY DEF Proc, Outer, Nested, Owner, IsNested

\* Where the stages the proofs distinguish stand in the two pipelines.
LEMMA StageList ==
    ASSUME NEW v \in Version
    PROVE  /\ Len(Stages(v)) \in {11, 15}
           /\ Len(Stages(v)) = 11 <=> v = "v1"
           /\ \A i \in 1 .. Len(Stages(v)) : Stages(v)[i] \in Stage
           /\ \A i \in 1 .. Len(Stages(v)) :
                 /\ Stages(v)[i] = "identity" <=> i = 1
                 /\ Stages(v)[i] = "audit" <=> i = 3
                 /\ Stages(v)[i] = "verdict" <=> i = Len(Stages(v))
                 /\ Stages(v)[i] = "state" <=> i = Len(Stages(v)) - 1
<1>1. CASE v = "v1"
  BY <1>1 DEF Stages, Stage, ProposalStages
<1>2. CASE v = "v11"
  BY <1>2 DEF Stages, Stage, ProposalStages
<1> QED
  BY <1>1, <1>2 DEF Version

\* Only the v1.1 pipeline creates and validates a proposal.
LEMMA ProposalIsV11 ==
    ASSUME NEW v \in Version, NEW i \in 1 .. Len(Stages(v)),
           Stages(v)[i] \in {"proposal", "validation"}
    PROVE  v = "v11"
<1>1. ASSUME v = "v1"
      PROVE  FALSE
  <2>1. Len(Stages("v1")) = 11
    BY DEF Stages
  <2>2. i \in 1 .. 11
    BY <1>1, <2>1
  <2>3. \A j \in 1 .. 11 : Stages("v1")[j] \notin {"proposal", "validation"}
    BY DEF Stages
  <2> QED
    BY <1>1, <2>2, <2>3
<1> QED
  BY <1>1 DEF Version

\* The exit code is 0 exactly when there is no blocker.
LEMMA ExitAgrees ==
    ASSUME NEW v, NEW got
    PROVE  ExitCode(v, got) = "ok" <=> ~ Blocked(v, got)
BY DEF ExitCode, Blocked
-----------------------------------------------------------------------------
\* What a stage does to the record of its run.
LEMMA MovedRecord ==
    ASSUME NEW r \in RunRecord, NEW s \in Stage,
           NEW status \in {"PASS", "WARN", "FAIL"}, r.at < 15
    PROVE  /\ Moved(r, s, status) \in RunRecord
           /\ Moved(r, s, status).at = r.at + 1
           /\ Moved(r, s, status).version = r.version
           /\ Moved(r, s, status).open = "no"
           /\ Moved(r, s, status).ci = r.ci
           /\ Moved(r, s, status).override = r.override
           /\ \A t \in Stage : Moved(r, s, status).got[t] =
                               IF t = s THEN status ELSE r.got[t]
<1>1. r.got \in Results /\ r.at \in 0 .. 15
  BY DEF RunRecord
<1>2. [r.got EXCEPT ![s] = status] \in Results
  BY <1>1 DEF Results
<1>3. r.at + 1 \in 0 .. 15
  BY <1>1
<1>4. \A t \in Stage : [r.got EXCEPT ![s] = status][t] =
                        IF t = s THEN status ELSE r.got[t]
  BY <1>1 DEF Results
<1> QED
  BY <1>2, <1>3, <1>4 DEF Moved, RunRecord

-----------------------------------------------------------------------------
(* The inductive invariant.                                                *)

\* A run past its first stage has an identity result, a run before its verdict
\* holds the state status its results give, and only the stages that write a
\* file in several steps are ever half through.
RecordInv(r) ==
    /\ r.at > 1 => r.got["identity"] \in {"PASS", "WARN", "FAIL"}
    /\ r.at = Len(Stages(r.version)) =>
          r.got["state"] = StateStatus(r.version, r.got)
    /\ r.open # "no" => Stages(r.version)[r.at] \in {"gates", "proposal"}

\* A nested run belongs to a suite, and the command of a suite is in its tests
\* stage, or gone.
Nesting(c) ==
    /\ Active(Nested(c)) => suite[c].next \in 1 .. Len(SuiteRuns)
    /\ suite[c].next > 0 /\ Active(Outer(c)) =>
          Stages(run[Outer(c)].version)[run[Outer(c)].at] = "tests"

PipelineInv ==
    /\ TypeOK
    /\ \A c \in Command : Nesting(c)
    /\ \A p \in Proc : RecordInv(run[p])

\* Writing one artifact keeps the artifacts well typed.
LEMMA WriteKeepsDisk ==
    ASSUME DiskOK, NEW v \in Version, NEW s \in Stage,
           NEW status \in {"PASS", "WARN", "FAIL", "SKIPPED"},
           status = "WARN" => s = "identity",
           status = "SKIPPED" => s = "tests",
           Write(v, s, status)
    PROVE  DiskOK'
BY DEF DiskOK, Write, ArtifactStatus

\* The results of a run after its stage s returned: a record that keeps the
\* invariant when the stage recorded what the invariant says of it.
LEMMA StageKeepsRuns ==
    ASSUME RunOK, \A q \in Proc : RecordInv(run[q]),
           NEW p \in Proc, Active(p),
           NEW s \in Stage, s # "verdict",
           Stages(run[p].version)[run[p].at] = s,
           NEW x \in RunRecord,
           x.at = run[p].at + 1, x.version = run[p].version, x.open = "no",
           x.got["identity"] # "none" \/ s # "identity",
           s # "identity" => x.got["identity"] = run[p].got["identity"],
           s = "state" => x.got["state"] = StateStatus(x.version, x.got),
           run' = [run EXCEPT ![p] = x]
    PROVE  /\ RunOK'
           /\ \A q \in Proc : RecordInv(run'[q])
           /\ \A q \in Proc : Active(q)' <=> Active(q)
           /\ \A q \in Proc \ {p} : run'[q] = run[q]
<1> DEFINE n == Len(Stages(run[p].version))
<1>1. /\ run[p] \in RunRecord
      /\ run[p].version \in Version
      /\ run[p].at \in 1 .. 15 /\ run[p].at <= n
  BY DEF RunOK, RunRecord, Active
<1>2. n \in {11, 15} /\ run[p].at \in 1 .. n
  BY <1>1, StageList
<1>3. /\ s = "identity" <=> run[p].at = 1
      /\ s = "state" <=> run[p].at = n - 1
      /\ run[p].at # n
  BY <1>1, <1>2, StageList
<1>4. run'[p] = x /\ \A q \in Proc \ {p} : run'[q] = run[q]
  BY DEF RunOK
<1>5. x.at <= Len(Stages(x.version)) /\ x.at > 1
  <2>1. x.at <= n /\ x.at > 1
    <3> HIDE DEF n
    <3> QED
      BY <1>2, <1>3
  <2> QED
    BY <2>1
<1>6. RecordInv(x)
  <2>1. x.got \in Results
    BY DEF RunRecord
  <2>2. x.got["identity"] \in {"none", "PASS", "WARN", "FAIL"}
    BY <2>1 DEF Results, Stage
  <2>3. x.got["identity"] # "none"
    <3>1. CASE s = "identity"
      BY <3>1
    <3>2. CASE s # "identity"
      <4>1. run[p].at > 1
        <5> HIDE DEF n
        <5> QED
          BY <3>2, <1>2, <1>3
      <4> QED
        BY <3>2, <4>1 DEF RecordInv
    <3> QED
      BY <3>1, <3>2
  <2>4. x.at = Len(Stages(x.version)) => s = "state"
    <3>1. x.at = n => run[p].at = n - 1
      <4> HIDE DEF n
      <4> QED
        BY <1>2
    <3> QED
      BY <3>1, <1>3
  <2> QED
    BY <2>2, <2>3, <2>4 DEF RecordInv
<1>7. run' \in [Proc -> RunRecord]
  BY DEF RunOK
<1>8. \A q \in Proc : run'[q].at <= Len(Stages(run'[q].version))
  BY <1>4, <1>5 DEF RunOK
<1>9. RunOK'
  BY <1>7, <1>8 DEF RunOK, RunRecord, Results, Stages
<1>10. \A q \in Proc : RecordInv(run'[q])
  BY <1>4, <1>6
<1>11. \A q \in Proc : Active(q)' <=> Active(q)
  <2>1. Active(p)'
    BY <1>4, <1>5 DEF Active, RunRecord
  <2>2. ASSUME NEW q \in Proc, q # p
        PROVE  Active(q)' <=> Active(q)
    BY <1>4, <2>2 DEF Active
  <2> QED
    BY <2>1, <2>2
<1> QED
  BY <1>4, <1>9, <1>10, <1>11

\* A run that is at a stage is somewhere in the list of its version.
LEMMA AtStageFacts ==
    ASSUME TypeOK, NEW p \in Proc, NEW s \in Stage, AtStage(p, s)
    PROVE  /\ run[p] \in RunRecord
           /\ run[p].version \in Version
           /\ run[p].at \in 1 .. Len(Stages(run[p].version))
           /\ Stages(run[p].version)[run[p].at] = s
<1>1. run[p] \in RunRecord /\ run[p].at > 0
  BY DEF TypeOK, RunOK, AtStage, Executing, Active
<1>2. run[p].version \in Version /\ run[p].at \in 0 .. 15
  BY <1>1 DEF RunRecord
<1>3. run[p].at <= Len(Stages(run[p].version))
  BY DEF TypeOK, RunOK
<1>4. Len(Stages(run[p].version)) \in Nat
  BY <1>2, StageList
<1> QED
  BY <1>1, <1>2, <1>3, <1>4 DEF AtStage

\* A stage that leaves the suites alone keeps the nesting of the runs.
LEMMA StageKeepsNesting ==
    ASSUME \A c \in Command : Nesting(c),
           \A c \in Command : suite[c].next \in Nat,
           NEW p \in Proc, Executing(p),
           suite' = suite,
           \A q \in Proc : Active(q)' <=> Active(q),
           \A q \in Proc \ {p} : run'[q] = run[q]
    PROVE  \A c \in Command : Nesting(c)'
<1>1. SUFFICES ASSUME NEW c \in Command PROVE Nesting(c)'
  OBVIOUS
<1>2. /\ Outer(c) \in Proc /\ Nested(c) \in Proc
      /\ ~ IsNested(Outer(c)) /\ Owner(Outer(c)) = c
  BY ProcFacts
<1>3. Active(Nested(c))' => suite'[c].next \in 1 .. Len(SuiteRuns)
  BY <1>2 DEF Nesting
<1>4. CASE p = Outer(c)
  <2>1. suite[c].next = 0
    BY <1>2, <1>4 DEF Executing
  <2> QED
    BY <1>3, <2>1 DEF Nesting
<1>5. CASE p # Outer(c)
  <2>1. run'[Outer(c)] = run[Outer(c)]
    BY <1>2, <1>5
  <2> QED
    BY <1>2, <1>3, <2>1 DEF Nesting
<1> QED
  BY <1>4, <1>5

\* The two lemmas on stages together, for a run that is at its stage s.
LEMMA StageKeepsRunInv ==
    ASSUME PipelineInv,
           NEW p \in Proc, NEW s \in Stage, AtStage(p, s), s # "verdict",
           NEW x \in RunRecord,
           x.at = run[p].at + 1, x.version = run[p].version, x.open = "no",
           s = "identity" => x.got["identity"] # "none",
           s # "identity" => x.got["identity"] = run[p].got["identity"],
           s = "state" => x.got["state"] = StateStatus(x.version, x.got),
           run' = [run EXCEPT ![p] = x],
           suite' = suite
    PROVE  /\ RunOK'
           /\ \A c \in Command : Nesting(c)'
           /\ \A q \in Proc : RecordInv(run'[q])
<1>1. /\ Active(p) /\ Executing(p) /\ Stages(run[p].version)[run[p].at] = s
      /\ RunOK /\ \A c \in Command : Nesting(c)
      /\ \A c \in Command : suite[c].next \in Nat
      /\ \A q \in Proc : RecordInv(run[q])
  BY PipelineAssumption DEF PipelineInv, TypeOK, AtStage, Executing
<1>2. /\ RunOK'
      /\ \A q \in Proc : RecordInv(run'[q])
      /\ \A q \in Proc : Active(q)' <=> Active(q)
      /\ \A q \in Proc \ {p} : run'[q] = run[q]
  BY <1>1, StageKeepsRuns
<1>3. \A c \in Command : Nesting(c)'
  BY <1>1, <1>2, StageKeepsNesting
<1> QED
  BY <1>2, <1>3
-----------------------------------------------------------------------------
\* The provenance state looks at the results of these stages only.
LEMMA StateStatusReads ==
    ASSUME NEW v, NEW got, NEW other,
           \A t \in {"identity", "tests", "smoke", "leak"} \cup ProposalStages :
              got[t] = other[t]
    PROVE  StateStatus(v, got) = StateStatus(v, other)
<1>1. got["identity"] = other["identity"]
  OBVIOUS
<1>2. \A s \in {"tests", "smoke", "leak"} : got[s] = other[s]
  OBVIOUS
<1>3. \A s \in ProposalStages : got[s] = other[s]
  OBVIOUS
<1> QED
  BY <1>1, <1>2, <1>3 DEF StateStatus, PassIf

\* The common case: the stage records one status and goes on.
LEMMA AdvanceKeepsRunInv ==
    ASSUME PipelineInv,
           NEW p \in Proc, NEW s \in Stage, AtStage(p, s), s # "verdict",
           NEW status \in {"PASS", "WARN", "FAIL"},
           NEW r \in RunRecord,
           r.at = run[p].at, r.version = run[p].version,
           r.got["identity"] = run[p].got["identity"],
           s = "state" => status = StateStatus(r.version, r.got),
           run' = [run EXCEPT ![p] = Moved(r, s, status)],
           suite' = suite
    PROVE  /\ RunOK'
           /\ \A c \in Command : Nesting(c)'
           /\ \A q \in Proc : RecordInv(run'[q])
<1> DEFINE x == Moved(r, s, status)
<1>1. r.at \in 0 .. 15 /\ r.at < 15
  <2>1. run[p].version \in Version /\ run[p].at \in 1 .. Len(Stages(run[p].version))
    BY DEF PipelineInv, TypeOK, RunOK, RunRecord, AtStage, Executing, Active
  <2>2. run[p].at # Len(Stages(run[p].version))
    BY <2>1, StageList DEF AtStage
  <2> DEFINE n == Len(Stages(run[p].version))
  <2>3. n \in {11, 15} /\ r.at \in 1 .. n /\ r.at # n
    BY <2>1, <2>2, StageList
  <2> HIDE DEF n
  <2> QED
    BY <2>3
<1>2. /\ x \in RunRecord
      /\ x.at = r.at + 1
      /\ x.version = r.version
      /\ x.open = "no"
      /\ \A t \in Stage : x.got[t] = IF t = s THEN status ELSE r.got[t]
  BY <1>1, MovedRecord
<1>4. /\ x.got[s] = status
      /\ \A t \in Stage \ {s} : x.got[t] = r.got[t]
  BY <1>2
<1>5. s = "identity" => x.got["identity"] # "none"
  BY <1>4
<1>6. s # "identity" => x.got["identity"] = run[p].got["identity"]
  BY <1>4 DEF Stage
<1>7. s = "state" => x.got["state"] = StateStatus(x.version, x.got)
  <2>1. SUFFICES ASSUME s = "state"
                 PROVE  x.got["state"] = StateStatus(x.version, x.got)
    OBVIOUS
  <2>2. StateStatus(x.version, x.got) = StateStatus(r.version, r.got)
    <3>1. \A t \in {"identity", "tests", "smoke", "leak"} \cup ProposalStages :
             x.got[t] = r.got[t]
      BY <1>4, <2>1 DEF Stage, ProposalStages
    <3>2. x.version = r.version
      BY <1>2
    <3> HIDE DEF x
    <3> QED
      BY <3>1, <3>2, StateStatusReads
  <2> QED
    BY <1>4, <2>1, <2>2
<1> HIDE DEF x
<1>8. run' = [run EXCEPT ![p] = x]
  BY DEF x
<1>9. /\ x \in RunRecord /\ x.at = run[p].at + 1
      /\ x.version = run[p].version /\ x.open = "no"
  BY <1>2
<1> QED
  BY <1>5, <1>6, <1>7, <1>8, <1>9, StageKeepsRunInv, Zenon

\* A stage of a run keeps the invariant: the run goes on by AdvanceKeepsRunInv,
\* and no stage touches the counters or the history.
LEMMA StageKeepsInv ==
    ASSUME PipelineInv,
           NEW p \in Proc, NEW s \in Stage, AtStage(p, s), s # "verdict",
           NEW status \in {"PASS", "WARN", "FAIL"},
           NEW r \in RunRecord,
           r.at = run[p].at, r.version = run[p].version,
           r.got["identity"] = run[p].got["identity"],
           s = "state" => status = StateStatus(r.version, r.got),
           run' = [run EXCEPT ![p] = Moved(r, s, status)],
           DiskOK', tree' \in Tree,
           UNCHANGED <<suite, counters, history>>
    PROVE  PipelineInv'
<1>1. suite' = suite
  OBVIOUS
<1>2. /\ RunOK'
      /\ \A c \in Command : Nesting(c)'
      /\ \A q \in Proc : RecordInv(run'[q])
  BY <1>1, AdvanceKeepsRunInv, Zenon
<1>3. TypeOK'
  BY <1>2 DEF PipelineInv, TypeOK, counters, history
<1> QED
  BY <1>2, <1>3 DEF PipelineInv

\* The same for a stage that reports one status and writes it.
LEMMA ReportKeepsInv ==
    ASSUME PipelineInv,
           NEW p \in Proc, NEW s \in Stage, AtStage(p, s), s # "verdict",
           NEW status \in {"PASS", "WARN", "FAIL"},
           NEW written \in {status, "SKIPPED"},
           written = "WARN" => s = "identity",
           written = "SKIPPED" => s = "tests",
           s = "state" => status = StateStatus(run[p].version, run[p].got),
           Advance(p, s, status),
           Write(run[p].version, s, written),
           tree' \in Tree,
           UNCHANGED <<suite, counters, history>>
    PROVE  PipelineInv'
<1>1. run[p] \in RunRecord /\ run[p].version \in Version
  BY DEF PipelineInv, TypeOK, RunOK, RunRecord
<1>2. DiskOK'
  BY <1>1, WriteKeepsDisk DEF PipelineInv, TypeOK
<1>3. run' = [run EXCEPT ![p] = Moved(run[p], s, status)]
  BY DEF Advance, PipelineInv, TypeOK, RunOK
<1> QED
  BY <1>1, <1>2, <1>3, StageKeepsInv

\* What the observing stages report.
LEMMA ObservedStatus ==
    ASSUME NEW p \in Proc, NEW s \in ObservingStage
    PROVE  /\ Observed(p, s) \in {"PASS", "WARN", "FAIL"}
           /\ Observed(p, s) = "WARN" => s = "identity"
<1>1. CASE s = "identity"
  BY <1>1 DEF Observed, IdentityStatus
<1>2. CASE s = "audit"
  BY <1>2 DEF Observed, AuditStatus, PassIf
<1>3. CASE s = "templates"
  BY <1>3 DEF Observed, PassIf
<1>4. CASE s = "leak"
  BY <1>4 DEF Observed, PassIf
<1>5. CASE s \in {"git_state", "adapter", "append"}
  BY <1>5 DEF Observed
<1> QED
  BY <1>1, <1>2, <1>3, <1>4, <1>5 DEF ObservingStage

\* Repairing the policy leaves a working tree.
LEMMA PolicyKept ==
    ASSUME NEW t \in Tree
    PROVE  /\ EnsurePolicy(t) \in Tree
           /\ [t EXCEPT !.policy = "empty"] \in Tree
           /\ [t EXCEPT !.policy = "full"] \in Tree
BY DEF EnsurePolicy, Tree

\* A step inside a stage that writes a file in several steps.
LEMMA HandleKeepsInv ==
    ASSUME PipelineInv,
           NEW p \in Proc, NEW s \in {"gates", "proposal"}, NEW from,
           NEW to \in {"no", "missed", "opened", "seen"},
           Handle(p, s, from, to),
           DiskOK', tree' \in Tree,
           UNCHANGED <<suite, counters, history>>
    PROVE  PipelineInv'
<1> DEFINE x == [run[p] EXCEPT !.open = to]
<1>1. /\ run \in [Proc -> RunRecord] /\ run[p] \in RunRecord
      /\ AtStage(p, s) /\ Executing(p) /\ Active(p)
      /\ Stages(run[p].version)[run[p].at] = s
      /\ run' = [run EXCEPT ![p] = x]
  BY DEF Handle, AtStage, Executing, PipelineInv, TypeOK, RunOK
<1>2. /\ x \in RunRecord /\ x.at = run[p].at /\ x.version = run[p].version
      /\ x.got = run[p].got
  BY <1>1 DEF RunRecord
<1> HIDE DEF x
<1>3. run'[p] = x /\ \A q \in Proc \ {p} : run'[q] = run[q]
  BY <1>1
<1>4. \A q \in Proc : /\ run'[q] \in RunRecord
                      /\ run'[q].at = run[q].at
                      /\ run'[q].version = run[q].version
                      /\ run'[q].got = run[q].got
  BY <1>1, <1>2, <1>3
<1>5. RunOK'
  <2>1. run' \in [Proc -> RunRecord]
    BY <1>1, <1>2
  <2>2. \A q \in Proc : run'[q].at <= Len(Stages(run'[q].version))
    BY <1>4 DEF PipelineInv, TypeOK, RunOK
  <2> QED
    BY <2>1, <2>2 DEF RunOK, RunRecord, Results, Stages
<1>6. \A q \in Proc : RecordInv(run'[q])
  <2>1. SUFFICES ASSUME NEW q \in Proc PROVE RecordInv(run'[q])
    OBVIOUS
  <2>2. RecordInv(run[q])
    BY DEF PipelineInv
  <2>3. q = p => Stages(run'[q].version)[run'[q].at] \in {"gates", "proposal"}
    BY <1>1, <1>2, <1>3
  <2>4. q # p => run'[q] = run[q]
    BY <1>3
  <2> QED
    BY <1>4, <2>2, <2>3, <2>4 DEF RecordInv
<1>7. \A c \in Command : Nesting(c)'
  <2>1. \A q \in Proc : Active(q)' <=> Active(q)
    BY <1>4 DEF Active
  <2>2. suite' = suite /\ \A c \in Command : suite[c].next \in Nat
    BY PipelineAssumption DEF PipelineInv, TypeOK
  <2> QED
    BY <1>1, <1>3, <2>1, <2>2, StageKeepsNesting DEF PipelineInv
<1>8. TypeOK'
  BY <1>5 DEF PipelineInv, TypeOK, counters, history
<1> QED
  BY <1>6, <1>7, <1>8 DEF PipelineInv
-----------------------------------------------------------------------------
\* Every stage of a run, up to the verdict, keeps the invariant.
LEMMA RunStepInv ==
    ASSUME PipelineInv, NEW p \in Proc, RunStep(p), ~ Verdict(p)
    PROVE  PipelineInv'
<1> USE DEF ObservingStage, Stage, ProposalStages
<1>0. /\ DiskOK /\ tree \in Tree
      /\ disk' = disk => DiskOK'
  BY DEF PipelineInv, TypeOK, DiskOK
<1>1. ASSUME NEW s \in ObservingStage, Observe(p, s)
      PROVE  PipelineInv'
  <2>1. /\ Observed(p, s) \in {"PASS", "WARN", "FAIL"}
        /\ Observed(p, s) = "WARN" => s = "identity"
    BY <1>1, ObservedStatus
  <2>2. tree' \in Tree
    BY <1>0, <1>1 DEF Observe
  <2>3. s \in Stage /\ s \notin {"verdict", "state", "tests"}
    OBVIOUS
  <2> QED
    BY <1>1, <2>1, <2>2, <2>3, ReportKeepsInv DEF Observe
<1>2. CASE CheckGates(p)
  <2> DEFINE listed == tree.policy = "full"
             status == PassIf(tree.policy # "absent")
             r == [run[p] EXCEPT !.gated = listed]
  <2>1. run[p] \in RunRecord
    BY DEF PipelineInv, TypeOK, RunOK
  <2>2. /\ r \in RunRecord
        /\ r.at = run[p].at /\ r.version = run[p].version
        /\ r.got = run[p].got
    BY <2>1 DEF RunRecord
  <2>3. run' = [run EXCEPT ![p] = Moved(r, "gates", status)]
    BY <1>2 DEF CheckGates, PipelineInv, TypeOK, RunOK
  <2>4. status \in {"PASS", "FAIL"} /\ Write(run[p].version, "gates", status)
    BY <1>2 DEF CheckGates, PassIf
  <2>5. /\ AtStage(p, "gates") /\ tree' = tree
        /\ UNCHANGED <<suite, counters, history>>
    BY <1>2 DEF CheckGates
  <2> HIDE DEF r, listed, status
  <2>6. DiskOK'
    BY <1>0, <2>1, <2>4, WriteKeepsDisk DEF RunRecord
  <2>7. r.got["identity"] = run[p].got["identity"]
    BY <2>2
  <2> QED
    BY <1>0, <2>2, <2>3, <2>4, <2>5, <2>6, <2>7, StageKeepsInv
<1>3. CASE CreateProposal(p)
  <2>1. run[p].version = "v11"
    <3>1. AtStage(p, "proposal")
      BY <1>3 DEF CreateProposal
    <3> QED
      BY <3>1, AtStageFacts, ProposalIsV11 DEF PipelineInv
  <2> QED
    BY <1>0, <1>3, <2>1, ReportKeepsInv DEF CreateProposal
<1>10. CASE FindPolicy(p)
  BY <1>0, <1>10, HandleKeepsInv DEF FindPolicy
<1>11. CASE OpenPolicy(p)
  BY <1>0, <1>11, PolicyKept, HandleKeepsInv DEF OpenPolicy
<1>12. CASE WritePolicy(p)
  BY <1>0, <1>12, PolicyKept, HandleKeepsInv DEF WritePolicy
<1>13. CASE OpenProposal(p)
  <2>1. DiskOK'
    <3>1. "v11" \in Version
      BY DEF Version
    <3> QED
      BY <1>0, <1>13, <3>1, WriteKeepsDisk DEF OpenProposal
  <2> QED
    BY <1>0, <1>13, <2>1, HandleKeepsInv DEF OpenProposal
<1>4. CASE ValidateProposal(p)
  <2>1. run[p].version = "v11"
    <3>1. AtStage(p, "validation")
      BY <1>4 DEF ValidateProposal
    <3> QED
      BY <3>1, AtStageFacts, ProposalIsV11 DEF PipelineInv
  <2> DEFINE status == PassIf(disk["v11"]["proposal"] = "PASS")
  <2>2. status \in {"PASS", "FAIL"}
    BY DEF PassIf
  <2>3. /\ AtStage(p, "validation") /\ Advance(p, "validation", status)
        /\ Write("v11", "validation", status)
        /\ tree' = tree /\ UNCHANGED <<suite, counters, history>>
    BY <1>4 DEF ValidateProposal
  <2>4. tree' \in Tree
    BY <2>3 DEF PipelineInv, TypeOK
  <2> HIDE DEF status
  <2> QED
    BY <2>1, <2>2, <2>3, <2>4, ReportKeepsInv
<1>5. CASE SkipTests(p)
  BY <1>5, ReportKeepsInv DEF SkipTests, PipelineInv, TypeOK
<1>6. CASE StartSuite(p)
  <2> DEFINE c == Owner(p)
  <2>1. c \in Command /\ p = Outer(c) /\ ~ IsNested(p)
    BY <1>6, ProcCases DEF StartSuite, Guarded
  <2>2. /\ suite' = [suite EXCEPT ![c] = [next |-> 1, ok |-> TRUE]]
        /\ suite[c].next = 0 /\ Stages(run[p].version)[run[p].at] = "tests"
        /\ UNCHANGED <<tree, disk, run, counters, history>>
    BY <1>6, <2>1 DEF StartSuite, AtStage, Executing
  <2> HIDE DEF c
  <2>3. Len(SuiteRuns) \in Nat
    BY PipelineAssumption
  <2>4. suite \in [Command -> [next : 0 .. Len(SuiteRuns) + 1, ok : BOOLEAN]]
    BY DEF PipelineInv, TypeOK
  <2>5. suite' \in [Command -> [next : 0 .. Len(SuiteRuns) + 1, ok : BOOLEAN]]
    <3>1. [next |-> 1, ok |-> TRUE] \in [next : 0 .. Len(SuiteRuns) + 1, ok : BOOLEAN]
      BY <2>3
    <3> QED
      BY <2>2, <2>4, <3>1
  <2>6. TypeOK'
    BY <2>2, <2>5 DEF PipelineInv, TypeOK, DiskOK, RunOK, counters, history
  <2>7. ASSUME NEW d \in Command
        PROVE  Nesting(d)'
    <3>1. Nesting(d)
      BY DEF PipelineInv
    <3>2. CASE d = c
      <4>1. suite[c].next \notin 1 .. Len(SuiteRuns)
        BY <2>2, <2>3
      <4>2. ~ Active(Nested(c))
        BY <3>1, <3>2, <4>1 DEF Nesting
      <4> QED
        BY <2>1, <2>2, <3>2, <4>2 DEF Nesting, Active
    <3>3. CASE d # c
      BY <2>1, <2>2, <2>4, <3>1, <3>3 DEF Nesting, Active
    <3> QED
      BY <3>2, <3>3
  <2>8. \A q \in Proc : RecordInv(run'[q])
    BY <2>2 DEF PipelineInv
  <2> QED
    BY <2>6, <2>7, <2>8 DEF PipelineInv
<1>7. CASE SmokeTests(p)
  <2>1. run[p] \in RunRecord /\ run[p].version \in Version
    BY DEF PipelineInv, TypeOK, RunOK, RunRecord
  <2>2. tree' \in Tree
    BY <1>7, PolicyKept DEF SmokeTests, PipelineInv, TypeOK
  <2> DEFINE who == IdentityStatus(Identity(p), SmokeCi(p))
             audit == AuditStatus(EnsurePolicy(tree))
             status == PassIf(tree.package /\ Passed(who) /\ audit = "PASS")
             v1 == IF tree.package
                   THEN [disk["v1"] EXCEPT !["identity"] = who,
                            !["gates"] = "PASS", !["audit"] = audit]
                   ELSE disk["v1"]
  <2>3. /\ who \in {"PASS", "WARN", "FAIL"}
        /\ audit \in {"PASS", "FAIL"} /\ status \in {"PASS", "FAIL"}
    BY DEF IdentityStatus, AuditStatus, PassIf
  <2>4. disk' = [[disk EXCEPT !["v1"] = v1] EXCEPT ![run[p].version]["smoke"] = status]
    BY <1>7 DEF SmokeTests
  <2>5. run' = [run EXCEPT ![p] = Moved(run[p], "smoke", status)]
    BY <1>7 DEF SmokeTests, Advance, PipelineInv, TypeOK, RunOK
  <2> HIDE DEF who, audit, status
  <2>6. DiskOK'
    <3> DEFINE half == [disk EXCEPT !["v1"] = v1]
    <3>1. /\ v1 \in [Stage -> ArtifactStatus]
          /\ \A s \in Stage : /\ v1[s] = "SKIPPED" => s = "tests"
                              /\ v1[s] = "WARN" => s = "identity"
      BY <2>3 DEF PipelineInv, TypeOK, DiskOK, ArtifactStatus, Version
    <3> HIDE DEF v1
    <3>2. /\ half \in [Version -> [Stage -> ArtifactStatus]]
          /\ \A v \in Version, s \in Stage :
                /\ half[v][s] = "SKIPPED" => s = "tests"
                /\ half[v][s] = "WARN" => s = "identity"
      BY <3>1 DEF PipelineInv, TypeOK, DiskOK, Version
    <3>3. disk' = [half EXCEPT ![run[p].version]["smoke"] = status]
      BY <2>4
    <3> HIDE DEF half
    <3> QED
      BY <2>1, <2>3, <3>2, <3>3 DEF DiskOK, ArtifactStatus
  <2>7. AtStage(p, "smoke") /\ UNCHANGED <<suite, counters, history>>
    BY <1>7 DEF SmokeTests
  <2> QED
    BY <2>1, <2>2, <2>3, <2>5, <2>6, <2>7, StageKeepsInv
<1>8. CASE WriteEvidence(p)
  <2> DEFINE r == Overridden(run[p])
             status == EvidenceStatus(r.got)
  <2>1. run[p] \in RunRecord /\ run[p].version \in Version
    BY DEF PipelineInv, TypeOK, RunOK, RunRecord
  <2>2. /\ r \in RunRecord
        /\ r.at = run[p].at /\ r.version = run[p].version
        /\ r.got["identity"] = run[p].got["identity"]
    BY <2>1 DEF Overridden, RunRecord, Results
  <2>3. status \in {"PASS", "FAIL"}
    BY DEF EvidenceStatus, PassIf
  <2>4. run' = [run EXCEPT ![p] = Moved(r, "evidence", status)]
    BY <1>8 DEF WriteEvidence
  <2>5. Write(run[p].version, "evidence", status)
    BY <1>8 DEF WriteEvidence
  <2>6. AtStage(p, "evidence") /\ tree' = tree
          /\ UNCHANGED <<suite, counters, history>>
    BY <1>8 DEF WriteEvidence
  <2> HIDE DEF r, status
  <2>7. DiskOK'
    BY <2>1, <2>3, <2>5, WriteKeepsDisk DEF PipelineInv, TypeOK
  <2> QED
    BY <2>2, <2>3, <2>4, <2>6, <2>7, StageKeepsInv DEF PipelineInv, TypeOK
<1>9. CASE WriteState(p)
  <2> DEFINE status == StateStatus(run[p].version, run[p].got)
  <2>1. status \in {"PASS", "FAIL"}
    BY DEF StateStatus, PassIf
  <2>2. /\ AtStage(p, "state") /\ Advance(p, "state", status)
        /\ Write(run[p].version, "state", status)
        /\ tree' = tree /\ UNCHANGED <<suite, counters, history>>
    BY <1>9 DEF WriteState
  <2>3. tree' \in Tree
    BY <2>2 DEF PipelineInv, TypeOK
  <2> QED
    BY <2>1, <2>2, <2>3, ReportKeepsInv
<1> QED
  BY <1>1, <1>2, <1>3, <1>4, <1>5, <1>6, <1>7, <1>8, <1>9, <1>10, <1>11,
     <1>12, <1>13 DEF RunStep
-----------------------------------------------------------------------------
\* A run that starts, and no run at all, keep the invariant of a record.
LEMMA FreshRecords ==
    /\ NoRun \in RunRecord /\ RecordInv(NoRun) /\ NoRun.at = 0
    /\ NoRun.open = "no"
    /\ \A v \in Version, ci, override \in BOOLEAN :
          LET r == NewRun(v, ci, override)
          IN  /\ r \in RunRecord /\ RecordInv(r)
              /\ r.at = 1 /\ r.version = v /\ r.open = "no"
<1>1. ASSUME NEW v \in Version, NEW ci \in BOOLEAN, NEW override \in BOOLEAN
      PROVE  LET r == NewRun(v, ci, override)
             IN  /\ r \in RunRecord /\ RecordInv(r)
                 /\ r.at = 1 /\ r.version = v /\ r.open = "no"
  <2>1. [s \in Stage |-> "none"] \in Results
    BY DEF Results
  <2>2. /\ NewRun(v, ci, override).at = 1
        /\ NewRun(v, ci, override).version = v
        /\ NewRun(v, ci, override).open = "no"
        /\ NewRun(v, ci, override) \in RunRecord
    BY <2>1 DEF NewRun, RunRecord
  <2>3. Len(Stages(v)) # 1
    <3> DEFINE n == Len(Stages(v))
    <3>1. n \in {11, 15}
      BY StageList
    <3> HIDE DEF n
    <3>2. n # 1
      BY <3>1
    <3> QED
      BY <3>2 DEF n
  <2>4. RecordInv(NewRun(v, ci, override))
    BY <2>2, <2>3 DEF RecordInv
  <2> QED
    BY <2>2, <2>4
<1>2. /\ NoRun.at = 0
      /\ NoRun.version = "v1" /\ NoRun.open = "no"
      /\ NoRun \in RunRecord
  <2>1. "v1" \in Version
    BY DEF Version
  <2> DEFINE r == NewRun("v1", FALSE, FALSE)
  <2>2. r \in RunRecord /\ r.version = "v1" /\ r.open = "no"
    BY <1>1, <2>1
  <2>3. NoRun = [r EXCEPT !.at = 0]
    BY DEF NoRun
  <2> HIDE DEF r
  <2> QED
    BY <2>2, <2>3 DEF RunRecord
<1>3. RecordInv(NoRun)
  <2>1. Len(Stages("v1")) # 0
    BY DEF Stages
  <2> QED
    BY <1>2, <2>1 DEF RecordInv
<1> QED
  BY <1>1, <1>2, <1>3

\* The invariant holds before the first command.
LEMMA PipelineInit == Init => PipelineInv
<1> SUFFICES ASSUME Init PROVE PipelineInv
  OBVIOUS
<1>1. Len(SuiteRuns) \in Nat /\ MaxRuns \in Nat /\ MaxDisturbances \in Nat
  BY PipelineAssumption
<1>2. tree \in Tree
  BY PipelineAssumption DEF Init
<1>3. DiskOK
  BY DEF Init, DiskOK, ArtifactStatus
<1>4. \A p \in Proc : run[p] = NoRun
  BY DEF Init
<1>5. RunOK
  <2>1. Len(Stages(NoRun.version)) \in Nat
    BY FreshRecords, StageList DEF RunRecord
  <2> QED
    BY <2>1, FreshRecords DEF Init, RunOK
<1>6. last \in VerdictRecord
  BY <1>2 DEF Init, NoVerdict, VerdictRecord, Version
<1>7. TypeOK
  <2>1. NoSuite \in [next : 0 .. Len(SuiteRuns) + 1, ok : BOOLEAN]
    BY <1>1 DEF NoSuite
  <2>2. suite \in [Command -> [next : 0 .. Len(SuiteRuns) + 1, ok : BOOLEAN]]
    BY <2>1 DEF Init
  <2>3. runs \in 0 .. MaxRuns /\ disturbances \in 0 .. MaxDisturbances
    BY <1>1 DEF Init
  <2>4. /\ start \in [Command -> Tree] /\ clean \in [Command -> BOOLEAN]
        /\ edited \in [Command -> BOOLEAN]
    BY <1>2 DEF Init
  <2> QED
    BY <1>2, <1>3, <1>5, <1>6, <2>2, <2>3, <2>4 DEF TypeOK
<1>8. \A c \in Command : Nesting(c)
  <2>1. SUFFICES ASSUME NEW c \in Command PROVE Nesting(c)
    OBVIOUS
  <2>2. suite[c].next = 0
    BY DEF Init, NoSuite
  <2>3. ~ Active(Nested(c))
    BY <1>4, FreshRecords, ProcFacts DEF Active
  <2> QED
    BY <2>2, <2>3 DEF Nesting
<1> QED
  BY <1>4, <1>7, <1>8, FreshRecords DEF PipelineInv

\* Replacing the record of one process by a fresh one, or by none.
LEMMA FreshRunOK ==
    ASSUME RunOK, \A q \in Proc : RecordInv(run[q]),
           NEW p \in Proc, NEW r \in RunRecord, RecordInv(r), r.at <= 1,
           run' = [run EXCEPT ![p] = r]
    PROVE  /\ RunOK'
           /\ \A q \in Proc : RecordInv(run'[q])
           /\ run'[p] = r
           /\ \A q \in Proc \ {p} : run'[q] = run[q]
<1>1. run'[p] = r /\ \A q \in Proc \ {p} : run'[q] = run[q]
  BY DEF RunOK
<1>2. r.at <= Len(Stages(r.version))
  <2> DEFINE n == Len(Stages(r.version))
  <2>1. n \in {11, 15} /\ r.at \in 0 .. 15
    BY StageList DEF RunRecord
  <2> HIDE DEF n
  <2>2. r.at <= n
    BY <2>1
  <2> QED
    BY <2>2 DEF n
<1>3. run' \in [Proc -> RunRecord]
  BY DEF RunOK
<1>4. \A q \in Proc : run'[q].at <= Len(Stages(run'[q].version))
  BY <1>1, <1>2 DEF RunOK
<1>5. RunOK'
  BY <1>3, <1>4 DEF RunOK, RunRecord, Results, Stages
<1> QED
  BY <1>1, <1>5

\* The types of a suite that is set to one state.
LEMMA SuiteSet ==
    ASSUME TypeOK, NEW c \in Command,
           NEW n \in 0 .. Len(SuiteRuns) + 1, NEW ok \in BOOLEAN,
           suite' = [suite EXCEPT ![c] = [next |-> n, ok |-> ok]]
    PROVE  /\ suite' \in [Command -> [next : 0 .. Len(SuiteRuns) + 1, ok : BOOLEAN]]
           /\ suite'[c].next = n /\ suite'[c].ok = ok
           /\ \A d \in Command \ {c} : suite'[d] = suite[d]
<1>1. suite \in [Command -> [next : 0 .. Len(SuiteRuns) + 1, ok : BOOLEAN]]
  BY DEF TypeOK
<1>2. [next |-> n, ok |-> ok] \in [next : 0 .. Len(SuiteRuns) + 1, ok : BOOLEAN]
  OBVIOUS
<1> QED
  BY <1>1, <1>2

\* Starting a command keeps the invariant: it has no suite to nest in.
LEMMA StartRunInv ==
    ASSUME PipelineInv, NEW c \in Command, NEW v \in Version,
           NEW ci \in BOOLEAN, StartRun(c, v, ci)
    PROVE  PipelineInv'
<1> DEFINE r == NewRun(v, ci, FALSE)
<1>1. r \in RunRecord /\ RecordInv(r) /\ r.at = 1
  BY FreshRecords
<1>2. /\ run' = [run EXCEPT ![Outer(c)] = r] /\ suite' = suite
      /\ suite[c].next = 0
  BY PipelineAssumption DEF StartRun, Busy, PipelineInv, TypeOK
<1> HIDE DEF r
<1>3. /\ RunOK'
      /\ \A q \in Proc : RecordInv(run'[q])
      /\ run'[Outer(c)] = r
      /\ \A q \in Proc \ {Outer(c)} : run'[q] = run[q]
  <2>1. RunOK /\ \A q \in Proc : RecordInv(run[q])
    BY DEF PipelineInv, TypeOK
  <2>2. r.at <= 1 /\ Outer(c) \in Proc
    BY <1>1, ProcFacts
  <2> QED
    BY <1>1, <1>2, <2>1, <2>2, FreshRunOK
<1>4. ASSUME NEW d \in Command
      PROVE  Nesting(d)'
  <2>1. /\ Outer(d) \in Proc /\ Nested(d) \in Proc
        /\ Nested(d) # Outer(c)
        /\ d # c => Outer(d) # Outer(c)
    BY ProcFacts
  <2>2. Nesting(d)
    BY DEF PipelineInv
  <2>3. run'[Nested(d)] = run[Nested(d)]
    BY <1>3, <2>1
  <2>4. d # c => run'[Outer(d)] = run[Outer(d)]
    BY <1>3, <2>1
  <2> QED
    BY <1>2, <2>2, <2>3, <2>4 DEF Nesting, Active
<1>5. runs' \in 0 .. MaxRuns
  BY PipelineAssumption DEF StartRun, PipelineInv, TypeOK
<1>6. /\ start' \in [Command -> Tree] /\ clean' \in [Command -> BOOLEAN]
      /\ edited' \in [Command -> BOOLEAN]
  <2>1. clean' \in [Command -> BOOLEAN]
    <3>1. clean' = [d \in Command |-> d = c /\ \A e \in Command : ~ Busy(e)]
      BY DEF StartRun
    <3> QED
      BY <3>1, Zenon
  <2> QED
    BY <2>1 DEF StartRun, PipelineInv, TypeOK
<1>7. TypeOK'
  BY <1>3, <1>5, <1>6 DEF StartRun, PipelineInv, TypeOK, DiskOK
<1> QED
  BY <1>3, <1>4, <1>7 DEF PipelineInv

\* A suite starts its next nested run.
LEMMA StartNestedInv ==
    ASSUME PipelineInv, NEW c \in Command, StartNested(c)
    PROVE  PipelineInv'
<1> DEFINE n == SuiteRuns[suite[c].next]
           r == NewRun(n.version, n.ci, n.override)
<1>1. r \in RunRecord /\ RecordInv(r) /\ r.at = 1
  <2>1. n \in SuiteRun
    BY PipelineAssumption DEF StartNested
  <2> HIDE DEF n
  <2> QED
    BY <2>1, FreshRecords DEF SuiteRun
<1>2. /\ run' = [run EXCEPT ![Nested(c)] = r] /\ suite' = suite
      /\ suite[c].next \in 1 .. Len(SuiteRuns)
      /\ UNCHANGED <<tree, disk, counters, history>>
  BY DEF StartNested
<1> HIDE DEF r
<1>3. /\ RunOK'
      /\ \A q \in Proc : RecordInv(run'[q])
      /\ run'[Nested(c)] = r
      /\ \A q \in Proc \ {Nested(c)} : run'[q] = run[q]
  <2>1. RunOK /\ \A q \in Proc : RecordInv(run[q])
    BY DEF PipelineInv, TypeOK
  <2>2. r.at <= 1 /\ Nested(c) \in Proc
    BY <1>1, ProcFacts
  <2> QED
    BY <1>1, <1>2, <2>1, <2>2, FreshRunOK
<1>4. ASSUME NEW d \in Command
      PROVE  Nesting(d)'
  <2>1. /\ Outer(d) \in Proc /\ Nested(d) \in Proc
        /\ Outer(d) # Nested(c)
        /\ d # c => Nested(d) # Nested(c)
    BY ProcFacts
  <2>2. Nesting(d)
    BY DEF PipelineInv
  <2>3. run'[Outer(d)] = run[Outer(d)]
    BY <1>3, <2>1
  <2>4. d # c => run'[Nested(d)] = run[Nested(d)]
    BY <1>3, <2>1
  <2> QED
    BY <1>2, <2>2, <2>3, <2>4 DEF Nesting, Active
<1>5. TypeOK'
  BY <1>2, <1>3 DEF PipelineInv, TypeOK, DiskOK, counters, history
<1> QED
  BY <1>3, <1>4, <1>5 DEF PipelineInv

\* The suite ends after its last nested run, and its command goes on.
LEMMA FinishSuiteInv ==
    ASSUME PipelineInv, NEW c \in Command, FinishSuite(c)
    PROVE  PipelineInv'
<1> DEFINE o == Outer(c)
           status == PassIf(suite[c].ok /\ tree.tests)
           x == Moved(run[o], "tests", status)
<1>1. status \in {"PASS", "FAIL"}
  BY DEF PassIf
<1>2. /\ Len(SuiteRuns) \in Nat
      /\ suite[c].next = Len(SuiteRuns) + 1
      /\ suite' = [suite EXCEPT ![c] = [next |-> 0, ok |-> TRUE]]
      /\ Active(o)
      /\ UNCHANGED <<tree, counters, history>>
  BY PipelineAssumption DEF FinishSuite, NoSuite
<1>3. Nesting(c) /\ o \in Proc
  BY ProcFacts DEF PipelineInv
<1>4. ~ Active(Nested(c)) /\ Stages(run[o].version)[run[o].at] = "tests"
  BY <1>2, <1>3 DEF Nesting
<1>5. /\ run[o] \in RunRecord
      /\ run[o].version \in Version
      /\ run[o].at < 15
  <2> DEFINE n == Len(Stages(run[o].version))
  <2>1. run[o] \in RunRecord /\ run[o].at <= n
    BY <1>3 DEF PipelineInv, TypeOK, RunOK
  <2>2. run[o].version \in Version /\ run[o].at \in 0 .. 15
    BY <2>1 DEF RunRecord
  <2>3. run[o].at > 0
    BY <1>2 DEF Active
  <2>4. n \in {11, 15}
    BY <2>2, StageList
  <2>5. run[o].at \in 1 .. n
    <3> HIDE DEF n
    <3> QED
      BY <2>1, <2>2, <2>3, <2>4
  <2>6. run[o].at # n
    BY <1>4, <2>2, <2>5, StageList
  <2> HIDE DEF n
  <2> QED
    BY <2>1, <2>2, <2>4, <2>5, <2>6
<1>6. /\ x \in RunRecord
      /\ x.at = run[o].at + 1 /\ x.version = run[o].version /\ x.open = "no"
      /\ x.got["identity"] = run[o].got["identity"]
  <2>1. "tests" \in Stage /\ "identity" \in Stage
    BY DEF Stage
  <2> HIDE DEF status, o
  <2> QED
    BY <1>1, <1>5, <2>1, MovedRecord
<1>7. run' = [run EXCEPT ![o] = x] /\ Write(run[o].version, "tests", status)
  BY <1>3 DEF FinishSuite, Advance, PipelineInv, TypeOK, RunOK
<1> HIDE DEF x, status
<1>8. /\ RunOK'
      /\ \A q \in Proc : RecordInv(run'[q])
      /\ \A q \in Proc : Active(q)' <=> Active(q)
      /\ \A q \in Proc \ {o} : run'[q] = run[q]
  <2>1. "tests" \in Stage /\ "tests" \notin {"verdict", "identity", "state"}
    BY DEF Stage
  <2> HIDE DEF o
  <2> QED
    BY <1>2, <1>3, <1>4, <1>6, <1>7, <2>1, StageKeepsRuns
    DEF PipelineInv, TypeOK
<1>9. DiskOK'
  <2>1. "tests" \in Stage
    BY DEF Stage
  <2> QED
    BY <1>1, <1>5, <1>7, <2>1, WriteKeepsDisk DEF PipelineInv, TypeOK
<1>10. /\ suite' \in [Command -> [next : 0 .. Len(SuiteRuns) + 1, ok : BOOLEAN]]
       /\ suite'[c].next = 0
       /\ \A d \in Command \ {c} : suite'[d] = suite[d]
  <2>1. 0 \in 0 .. Len(SuiteRuns) + 1
    BY <1>2
  <2> QED
    BY <1>2, <2>1, SuiteSet DEF PipelineInv
<1>11. ASSUME NEW d \in Command
       PROVE  Nesting(d)'
  <2>1. /\ Outer(d) \in Proc /\ Nested(d) \in Proc
        /\ d # c => Outer(d) # o
    BY ProcFacts
  <2>2. Nesting(d)
    BY DEF PipelineInv
  <2>3. Active(Nested(d))' <=> Active(Nested(d))
    BY <1>8, <2>1
  <2>4. CASE d = c
    BY <1>4, <1>10, <2>3, <2>4 DEF Nesting
  <2>5. CASE d # c
    <3>1. run'[Outer(d)] = run[Outer(d)] /\ suite'[d] = suite[d]
      BY <1>8, <1>10, <2>1, <2>5
    <3> QED
      BY <2>2, <2>3, <3>1 DEF Nesting, Active
  <2> QED
    BY <2>4, <2>5
<1>12. TypeOK'
  BY <1>2, <1>8, <1>9, <1>10 DEF PipelineInv, TypeOK, counters, history
<1> QED
  BY <1>8, <1>11, <1>12 DEF PipelineInv

\* A suite that was left behind ends.
LEMMA OrphanEndsInv ==
    ASSUME PipelineInv, NEW c \in Command, OrphanEnds(c)
    PROVE  PipelineInv'
<1>1. /\ suite' = [suite EXCEPT ![c] = [next |-> 0, ok |-> TRUE]]
      /\ ~ Active(Nested(c))
      /\ UNCHANGED <<tree, disk, run, counters, history>>
  BY DEF OrphanEnds, NoSuite
<1>2. /\ suite' \in [Command -> [next : 0 .. Len(SuiteRuns) + 1, ok : BOOLEAN]]
      /\ suite'[c].next = 0
      /\ \A d \in Command \ {c} : suite'[d] = suite[d]
  <2>1. 0 \in 0 .. Len(SuiteRuns) + 1
    BY PipelineAssumption
  <2> QED
    BY <1>1, <2>1, SuiteSet DEF PipelineInv
<1>3. \A d \in Command : Nesting(d)'
  BY <1>1, <1>2 DEF PipelineInv, Nesting, Active
<1>4. TypeOK'
  BY <1>1, <1>2 DEF PipelineInv, TypeOK, DiskOK, RunOK, counters, history
<1>5. \A q \in Proc : RecordInv(run'[q])
  BY <1>1 DEF PipelineInv
<1> QED
  BY <1>3, <1>4, <1>5 DEF PipelineInv

\* A process of c ends: no run is nested in another command's suite.
LEMMA EndKeepsNesting ==
    ASSUME PipelineInv, NEW c \in Command, NEW p \in Proc, Owner(p) = c,
           run'[p] = NoRun, \A q \in Proc \ {p} : run'[q] = run[q],
           \A d \in Command \ {c} : suite'[d] = suite[d],
           IsNested(p) => Active(p) /\ suite'[c].next = suite[c].next + 1,
           ~ IsNested(p) => suite'[c] = suite[c]
    PROVE  \A d \in Command : Nesting(d)'
<1>1. SUFFICES ASSUME NEW d \in Command PROVE Nesting(d)'
  OBVIOUS
<1>2. /\ Outer(d) \in Proc /\ Nested(d) \in Proc /\ Nesting(d)
      /\ Owner(Outer(d)) = d /\ Owner(Nested(d)) = d
      /\ ~ IsNested(Outer(d)) /\ IsNested(Nested(d))
      /\ suite[d].next \in Nat
  BY ProcFacts, PipelineAssumption DEF PipelineInv, TypeOK
<1>3. ~ Active(p)'
  BY FreshRecords DEF Active
<1>4. CASE d # c
  <2>1. run'[Outer(d)] = run[Outer(d)] /\ run'[Nested(d)] = run[Nested(d)]
    BY <1>2, <1>4
  <2> QED
    BY <1>2, <1>4, <2>1 DEF Nesting, Active
<1>5. CASE d = c /\ IsNested(p)
  <2>1. p = Nested(c) /\ run'[Outer(c)] = run[Outer(c)]
    BY <1>2, <1>5, ProcCases
  <2>2. suite[c].next > 0
    BY <1>2, <1>5, <2>1, PipelineAssumption DEF Nesting
  <2> QED
    BY <1>2, <1>3, <1>5, <2>1, <2>2 DEF Nesting, Active
<1>6. CASE d = c /\ ~ IsNested(p)
  <2>1. p = Outer(c) /\ run'[Nested(c)] = run[Nested(c)]
    BY <1>2, <1>6, ProcCases
  <2> QED
    BY <1>2, <1>3, <1>6, <2>1 DEF Nesting, Active
<1> QED
  BY <1>4, <1>5, <1>6

\* A verdict ends a run: the command's own when its suite is over, a nested
\* one with the suite going on.
LEMMA VerdictInv ==
    ASSUME PipelineInv, NEW p \in Proc, Verdict(p)
    PROVE  PipelineInv'
<1> DEFINE c == Owner(p)
<1>1. AtStage(p, "verdict") /\ Active(p) /\ Executing(p) /\ c \in Command
  BY ProcCases DEF Verdict, AtStage, Executing
<1>2. run[p] \in RunRecord /\ run[p].version \in Version
  BY <1>1, AtStageFacts DEF PipelineInv, Stage
<1>3. /\ RunOK'
      /\ \A q \in Proc : RecordInv(run'[q])
      /\ run'[p] = NoRun
      /\ \A q \in Proc \ {p} : run'[q] = run[q]
  <2>1. RunOK /\ \A q \in Proc : RecordInv(run[q])
    BY DEF PipelineInv, TypeOK
  <2>2. run' = [run EXCEPT ![p] = NoRun]
    BY DEF Verdict
  <2>3. NoRun \in RunRecord /\ RecordInv(NoRun) /\ NoRun.at <= 1
    BY FreshRecords
  <2> QED
    BY <2>1, <2>2, <2>3, FreshRunOK
<1>4. DiskOK'
  <2> DEFINE status == PassIf(~ Blocked(run[p].version, run[p].got))
  <2>1. status \in {"PASS", "FAIL"}
    BY DEF PassIf
  <2>2. Write(run[p].version, "verdict", status)
    BY DEF Verdict
  <2> HIDE DEF status
  <2>3. "verdict" \in Stage
    BY DEF Stage
  <2> QED
    BY <1>2, <2>1, <2>2, <2>3, WriteKeepsDisk DEF PipelineInv, TypeOK
<1>5. /\ tree' = tree /\ runs' = runs /\ disturbances' = disturbances
      /\ start' = start /\ clean' = clean /\ edited' = edited
  BY DEF Verdict, counters
<1> DEFINE exit == ExitCode(run[p].version, run[p].got)
<1>6. CASE ~ IsNested(p)
  <2>1. suite' = suite
    BY <1>6 DEF Verdict
  <2>2. last' \in VerdictRecord
    <3>1. exit \in {"none", "ok", "fail", "identity", "config", "leak",
                    "tests", "smoke"}
      BY DEF ExitCode
    <3>2. last' = [version |-> run[p].version, ci |-> run[p].ci,
                   exit |-> exit, start |-> start[c], clean |-> clean[c],
                   edited |-> edited[c]]
      BY <1>6 DEF Verdict
    <3>4. c \in Command
      BY <1>1
    <3> HIDE DEF exit, c
    <3>3. /\ run[p].version \in Version /\ run[p].ci \in BOOLEAN
          /\ start[c] \in Tree /\ clean[c] \in BOOLEAN /\ edited[c] \in BOOLEAN
      BY <1>2, <3>4 DEF RunRecord, PipelineInv, TypeOK
    <3> QED
      BY <3>1, <3>2, <3>3 DEF VerdictRecord
  <2>3. \A d \in Command : Nesting(d)'
    <3> HIDE DEF c
    <3> QED
      BY <1>1, <1>3, <1>6, <2>1, EndKeepsNesting DEF c
  <2>4. TypeOK'
    BY <1>3, <1>4, <1>5, <2>1, <2>2 DEF PipelineInv, TypeOK
  <2> QED
    BY <1>3, <2>3, <2>4 DEF PipelineInv
<1>7. CASE IsNested(p)
  <2> DEFINE ok == suite[c].ok /\ AsExpected(run[p], exit)
  <2>1. p = Nested(c)
    BY <1>7, ProcCases
  <2>2. /\ suite' = [suite EXCEPT ![c] = [next |-> suite[c].next + 1, ok |-> ok]]
        /\ last' = last
    BY <1>7 DEF Verdict
  <2>3. suite[c].next \in 1 .. Len(SuiteRuns) /\ Len(SuiteRuns) \in Nat
    BY <1>1, <2>1, PipelineAssumption DEF PipelineInv, Nesting
  <2>4. ok \in BOOLEAN
    <3>1. suite[c].ok \in BOOLEAN
      BY <1>1 DEF PipelineInv, TypeOK
    <3>2. AsExpected(run[p], exit) \in BOOLEAN
      BY DEF AsExpected
    <3> QED
      BY <3>1, <3>2
  <2> HIDE DEF ok, c
  <2>5. suite[c].next + 1 \in 0 .. Len(SuiteRuns) + 1
    BY <2>3
  <2>6. /\ suite' \in [Command -> [next : 0 .. Len(SuiteRuns) + 1, ok : BOOLEAN]]
        /\ suite'[c].next = suite[c].next + 1
        /\ \A d \in Command \ {c} : suite'[d] = suite[d]
    BY <1>1, <2>2, <2>4, <2>5, SuiteSet DEF PipelineInv
  <2>7. \A d \in Command : Nesting(d)'
    BY <1>1, <1>3, <1>7, <2>6, EndKeepsNesting DEF c
  <2>8. TypeOK'
    BY <1>3, <1>4, <1>5, <2>2, <2>6 DEF PipelineInv, TypeOK
  <2> QED
    BY <1>3, <2>7, <2>8 DEF PipelineInv
<1> QED
  BY <1>6, <1>7

\* What every disturbance does to the counters and the history.
LEMMA DisturbTypes ==
    ASSUME TypeOK, Disturb
    PROVE  /\ runs' \in 0 .. MaxRuns
           /\ disturbances' \in 0 .. MaxDisturbances
           /\ start' \in [Command -> Tree] /\ clean' \in [Command -> BOOLEAN]
           /\ last' \in VerdictRecord
<1>1. disturbances' \in 0 .. MaxDisturbances
  BY PipelineAssumption DEF Disturb, TypeOK
<1>2. last' \in VerdictRecord
  BY DEF Disturb, TypeOK, VerdictRecord
<1> QED
  BY <1>1, <1>2 DEF Disturb, TypeOK

\* A disturbance that leaves the runs alone keeps the invariant.
LEMMA OutsideInv ==
    ASSUME PipelineInv, Disturb, UNCHANGED <<run, suite>>, DiskOK', tree' \in Tree,
           edited' \in [Command -> BOOLEAN]
    PROVE  PipelineInv'
<1>1. TypeOK'
  BY DisturbTypes DEF PipelineInv, TypeOK, RunOK, RunRecord, Results, Stages
<1>2. \A c \in Command : Nesting(c)'
  BY DEF PipelineInv, Nesting, Active
<1>3. \A q \in Proc : RecordInv(run'[q])
  BY DEF PipelineInv
<1> QED
  BY <1>1, <1>2, <1>3 DEF PipelineInv

\* An exception in a nested run.
LEMMA RaiseInv ==
    ASSUME PipelineInv, NEW c \in Command, Raise(c)
    PROVE  PipelineInv'
<1>1. /\ Nested(c) \in Proc /\ Owner(Nested(c)) = c /\ IsNested(Nested(c))
      /\ Active(Nested(c)) /\ Disturb
      /\ run' = [run EXCEPT ![Nested(c)] = NoRun]
      /\ suite' = [suite EXCEPT ![c] = [next |-> suite[c].next + 1, ok |-> FALSE]]
      /\ tree' = tree /\ disk' = disk /\ edited' = edited
  BY ProcFacts DEF Raise
<1>2. /\ RunOK'
      /\ \A q \in Proc : RecordInv(run'[q])
      /\ run'[Nested(c)] = NoRun
      /\ \A q \in Proc \ {Nested(c)} : run'[q] = run[q]
  <2>1. RunOK /\ \A q \in Proc : RecordInv(run[q])
    BY DEF PipelineInv, TypeOK
  <2>2. NoRun \in RunRecord /\ RecordInv(NoRun) /\ NoRun.at <= 1
    BY FreshRecords
  <2> QED
    BY <1>1, <2>1, <2>2, FreshRunOK
<1>3. suite[c].next + 1 \in 0 .. Len(SuiteRuns) + 1
  BY <1>1, PipelineAssumption DEF PipelineInv, Nesting
<1>4. /\ suite' \in [Command -> [next : 0 .. Len(SuiteRuns) + 1, ok : BOOLEAN]]
      /\ suite'[c].next = suite[c].next + 1
      /\ \A d \in Command \ {c} : suite'[d] = suite[d]
  BY <1>1, <1>3, SuiteSet DEF PipelineInv
<1>5. \A d \in Command : Nesting(d)'
  BY <1>1, <1>2, <1>4, EndKeepsNesting
<1>6. TypeOK'
  BY <1>1, <1>2, <1>4, DisturbTypes DEF PipelineInv, TypeOK, DiskOK
<1> QED
  BY <1>2, <1>5, <1>6 DEF PipelineInv

\* A command that is killed leaves its suite behind.
LEMMA KillInv ==
    ASSUME PipelineInv, NEW c \in Command, Kill(c)
    PROVE  PipelineInv'
<1>1. /\ Outer(c) \in Proc /\ Owner(Outer(c)) = c /\ ~ IsNested(Outer(c))
      /\ Disturb
      /\ run' = [run EXCEPT ![Outer(c)] = NoRun]
      /\ suite' = suite /\ tree' = tree /\ disk' = disk /\ edited' = edited
  BY ProcFacts DEF Kill
<1>2. /\ RunOK'
      /\ \A q \in Proc : RecordInv(run'[q])
      /\ run'[Outer(c)] = NoRun
      /\ \A q \in Proc \ {Outer(c)} : run'[q] = run[q]
  <2>1. RunOK /\ \A q \in Proc : RecordInv(run[q])
    BY DEF PipelineInv, TypeOK
  <2>2. NoRun \in RunRecord /\ RecordInv(NoRun) /\ NoRun.at <= 1
    BY FreshRecords
  <2> QED
    BY <1>1, <2>1, <2>2, FreshRunOK
<1>3. \A d \in Command : Nesting(d)'
  BY <1>1, <1>2, EndKeepsNesting
<1>4. TypeOK'
  BY <1>1, <1>2, DisturbTypes DEF PipelineInv, TypeOK, DiskOK
<1> QED
  BY <1>2, <1>3, <1>4 DEF PipelineInv

\* A command that is interrupted ends with its suite.
LEMMA InterruptInv ==
    ASSUME PipelineInv, NEW c \in Command, Interrupt(c)
    PROVE  PipelineInv'
<1> DEFINE Ended == {Outer(c), Nested(c)}
<1>1. /\ Outer(c) \in Proc /\ Nested(c) \in Proc /\ Outer(c) # Nested(c)
      /\ Disturb
      /\ run' = [run EXCEPT ![Outer(c)] = NoRun, ![Nested(c)] = NoRun]
      /\ suite' = [suite EXCEPT ![c] = [next |-> 0, ok |-> TRUE]]
      /\ tree' = tree /\ disk' = disk /\ edited' = edited
  BY ProcFacts DEF Interrupt, NoSuite
<1>2. /\ run' \in [Proc -> RunRecord]
      /\ \A q \in Proc : run'[q] = IF q \in Ended THEN NoRun ELSE run[q]
  BY <1>1, FreshRecords DEF PipelineInv, TypeOK, RunOK
<1>3. RunOK'
  <2>1. NoRun.at <= Len(Stages(NoRun.version))
    <3>1. NoRun.at = 0 /\ Len(Stages(NoRun.version)) \in Nat
      BY FreshRecords, StageList DEF RunRecord
    <3> QED
      BY <3>1
  <2>2. \A q \in Proc : run'[q].at <= Len(Stages(run'[q].version))
    BY <1>2, <2>1 DEF PipelineInv, TypeOK, RunOK
  <2> QED
    BY <1>2, <2>2 DEF RunOK, RunRecord, Results, Stages
<1>4. \A q \in Proc : RecordInv(run'[q])
  BY <1>2, FreshRecords DEF PipelineInv
<1>5. /\ suite' \in [Command -> [next : 0 .. Len(SuiteRuns) + 1, ok : BOOLEAN]]
      /\ suite'[c].next = 0
      /\ \A d \in Command \ {c} : suite'[d] = suite[d]
  <2>1. 0 \in 0 .. Len(SuiteRuns) + 1
    BY PipelineAssumption
  <2> QED
    BY <1>1, <2>1, SuiteSet DEF PipelineInv
<1>6. ASSUME NEW d \in Command
      PROVE  Nesting(d)'
  <2>1. CASE d = c
    <3>1. ~ Active(Nested(c))'
      BY <1>1, <1>2, FreshRecords DEF Active
    <3> QED
      BY <1>5, <2>1, <3>1 DEF Nesting
  <2>2. CASE d # c
    <3>1. /\ Outer(d) \in Proc \ Ended /\ Nested(d) \in Proc \ Ended
      BY <2>2, ProcFacts
    <3>2. run'[Outer(d)] = run[Outer(d)] /\ run'[Nested(d)] = run[Nested(d)]
      BY <1>2, <3>1
    <3> QED
      BY <1>5, <2>2, <3>2 DEF PipelineInv, Nesting, Active
  <2> QED
    BY <2>1, <2>2
<1>7. TypeOK'
  BY <1>1, <1>3, <1>5, DisturbTypes DEF PipelineInv, TypeOK, DiskOK
<1> QED
  BY <1>4, <1>6, <1>7 DEF PipelineInv

\* An edit, an exception, a kill or another command keeps the invariant.
LEMMA DisturbanceInv ==
    ASSUME PipelineInv, Disturbance
    PROVE  PipelineInv'
<1>0. edited \in [Command -> BOOLEAN]
  BY DEF PipelineInv, TypeOK
<1>1. CASE EditTree
  <2>1. DiskOK' /\ tree' \in Tree
    BY <1>1, PipelineAssumption DEF EditTree, PipelineInv, TypeOK, DiskOK
  <2>2. edited' \in [Command -> BOOLEAN]
    BY <1>1 DEF EditTree
  <2> QED
    BY <1>1, <2>1, <2>2, OutsideInv DEF EditTree
<1>2. CASE EditManifest
  <2>1. "v11" \in Version /\ "proposal" \in Stage
    BY DEF Version, Stage, ProposalStages
  <2>2. DiskOK'
    BY <1>2, <2>1, WriteKeepsDisk DEF EditManifest, PipelineInv, TypeOK
  <2>3. tree' \in Tree
    BY <1>2 DEF EditManifest, PipelineInv, TypeOK
  <2> QED
    BY <1>0, <1>2, <2>2, <2>3, OutsideInv DEF EditManifest
<1>3. ASSUME NEW c \in Command, Raise(c) \/ Kill(c) \/ Interrupt(c)
      PROVE  PipelineInv'
  BY <1>3, RaiseInv, KillInv, InterruptInv
<1>5. CASE LocateEvidence
  <2>1. "v1" \in Version /\ "evidence" \in Stage
    BY DEF Version, Stage
  <2> DEFINE status == PassIf(\A s \in {"identity", "git_state", "audit",
                "gates", "tests", "smoke", "leak", "state", "verdict"} :
                disk["v1"][s] # "absent")
  <2>2. status \in {"PASS", "FAIL"} /\ Write("v1", "evidence", status)
    BY <1>5 DEF PassIf, LocateEvidence
  <2> HIDE DEF status
  <2>3. DiskOK'
    BY <2>1, <2>2, WriteKeepsDisk DEF PipelineInv, TypeOK
  <2>4. tree' \in Tree
    BY <1>5 DEF LocateEvidence, PipelineInv, TypeOK
  <2> QED
    BY <1>0, <1>5, <2>3, <2>4, OutsideInv DEF LocateEvidence
<1>6. ASSUME NEW ci \in BOOLEAN, CurrentState(ci)
      PROVE  PipelineInv'
  <2> DEFINE who == IdentityStatus(tree.identity, ci)
             state == PassIf(Passed(who))
  <2>1. who \in {"PASS", "WARN", "FAIL"} /\ state \in {"PASS", "FAIL"}
    BY DEF IdentityStatus, PassIf
  <2>2. disk' = [disk EXCEPT !["v1"]["identity"] = who, !["v1"]["gates"] = "PASS",
                             !["v1"]["state"] = state]
    BY <1>6 DEF CurrentState
  <2> HIDE DEF who, state
  <2>3. DiskOK'
    BY <2>1, <2>2
    DEF PipelineInv, TypeOK, DiskOK, ArtifactStatus, Version, Stage
  <2>4. tree' \in Tree
    BY <1>6, PolicyKept DEF CurrentState, PipelineInv, TypeOK
  <2> QED
    BY <1>0, <1>6, <2>3, <2>4, OutsideInv DEF CurrentState
<1> QED
  BY <1>1, <1>2, <1>3, <1>5, <1>6 DEF Disturbance

\* PipelineInv is inductive.
LEMMA PipelineNext ==
    ASSUME PipelineInv, [Next]_vars
    PROVE  PipelineInv'
<1>1. ASSUME NEW c \in Command, NEW v \in Version, NEW ci \in BOOLEAN,
             StartRun(c, v, ci)
      PROVE  PipelineInv'
  BY <1>1, StartRunInv
<1>2. ASSUME NEW p \in Proc, RunStep(p)
      PROVE  PipelineInv'
  BY <1>2, RunStepInv, VerdictInv
<1>3. ASSUME NEW c \in Command, Progress(c)
      PROVE  PipelineInv'
  <2>1. Outer(c) \in Proc /\ Nested(c) \in Proc
    BY ProcFacts
  <2> QED
    BY <1>2, <1>3, <2>1, StartNestedInv, FinishSuiteInv, OrphanEndsInv
    DEF Progress
<1>4. CASE Disturbance
  BY <1>4, DisturbanceInv
<1>5. CASE UNCHANGED vars
  BY <1>5 DEF vars, PipelineInv, TypeOK, DiskOK, RunOK, RunRecord, Results,
              Stages, Nesting, Active
<1> QED
  BY <1>1, <1>3, <1>4, <1>5 DEF Next
-----------------------------------------------------------------------------
\* The invariant holds in every reachable state.
LEMMA PipelineCorrect == Spec => []PipelineInv
<1>1. Init => PipelineInv
  BY PipelineInit
<1>2. PipelineInv /\ [Next]_vars => PipelineInv'
  BY PipelineNext
<1> QED
  BY <1>1, <1>2, PTL DEF Spec

\* Type correctness: artifacts, run records and counters stay in their types
\* for every tree, every sequence of nested runs and every bound.
THEOREM PipelineTypeCorrect == Spec => []TypeOK
<1>1. PipelineInv => TypeOK
  BY DEF PipelineInv
<1> QED
  BY <1>1, PipelineCorrect, PTL

\* At every verdict the exit code, release_ready_local, the evidence index and
\* the provenance state agree: the state, which is no blocker, cannot be FAIL
\* when nothing blocks.
THEOREM RecordsAgree == Spec => []ReadyHasRecords
<1>1. PipelineInv => ReadyHasRecords
  <2> SUFFICES ASSUME PipelineInv, NEW p \in Proc, AtStage(p, "verdict")
               PROVE  /\ ExitCode(run[p].version, run[p].got) = "ok"
                            <=> ~ Blocked(run[p].version, run[p].got)
                      /\ ~ Blocked(run[p].version, run[p].got) =>
                            /\ run[p].got["evidence"] = "PASS"
                            /\ run[p].got["state"] = "PASS"
    BY DEF ReadyHasRecords
  <2>1. /\ run[p] \in RunRecord /\ run[p].version \in Version
        /\ run[p].at \in 1 .. Len(Stages(run[p].version))
        /\ Stages(run[p].version)[run[p].at] = "verdict"
    BY AtStageFacts DEF PipelineInv, Stage
  <2>2. run[p].at = Len(Stages(run[p].version))
    BY <2>1, StageList
  <2>3. run[p].at > 1
    <3> DEFINE n == Len(Stages(run[p].version))
    <3>1. n \in {11, 15} /\ run[p].at = n
      BY <2>1, <2>2, StageList
    <3> HIDE DEF n
    <3> QED
      BY <3>1
  <2>4. /\ run[p].got["identity"] \in {"PASS", "WARN", "FAIL"}
        /\ run[p].got["state"] = StateStatus(run[p].version, run[p].got)
    BY <2>2, <2>3 DEF PipelineInv, RecordInv
  <2>5. ASSUME ~ Blocked(run[p].version, run[p].got)
        PROVE  /\ run[p].got["evidence"] = "PASS"
               /\ StateStatus(run[p].version, run[p].got) = "PASS"
    <3>1. /\ run[p].got["identity"] # "FAIL"
          /\ \A s \in {"tests", "smoke", "leak", "evidence"} :
                run[p].got[s] = "PASS"
          /\ run[p].version = "v11" =>
                \A s \in ProposalStages : run[p].got[s] = "PASS"
      BY <2>5 DEF Blocked
    <3>2. Passed(run[p].got["identity"])
      BY <2>4, <3>1 DEF Passed
    <3> QED
      BY <3>1, <3>2 DEF StateStatus, PassIf
  <2> QED
    BY <2>4, <2>5, ExitAgrees
<1> QED
  BY <1>1, PipelineCorrect, PTL
-----------------------------------------------------------------------------
(* Exit code 0 is for fit trees only, whatever else goes on.               *)

\* The facts of the tree that no step of a pipeline changes: all but the
\* policy.
Alike(t, u) ==
    /\ t.identity = u.identity /\ t.surface = u.surface
    /\ t.templates = u.templates /\ t.tests = u.tests
    /\ t.package = u.package /\ t.leakfree = u.leakfree

\* What the results in the memory of a run tell of a tree that is like t.
Told(p, r, t) ==
    /\ r.at > 3 /\ r.got["audit"] # "FAIL" => t.surface
    /\ r.got["leak"] = "PASS" => t.leakfree
    /\ r.got["templates"] = "PASS" => t.templates = "valid"
    /\ ~ IsNested(p) =>
          /\ r.got["smoke"] = "PASS" =>
                /\ t.package
                /\ Passed(IdentityStatus(t.identity, r.version = "v1" /\ r.ci))
          /\ r.got["tests"] = "PASS" => t.tests /\ t.templates = "valid"

\* A command during which the user edited nothing: its results, those of the
\* nested run and the success of the suite so far tell of its tree.  The suite
\* speaks of the templates, which local-rc itself does not look into.
UneditedRun(c) ==
    /\ Alike(tree, start[c])
    /\ \A p \in {Outer(c), Nested(c)} : Active(p) => Told(p, run[p], start[c])
    /\ Active(Nested(c)) =>
          /\ run[Nested(c)].version = SuiteRuns[suite[c].next].version
          /\ run[Nested(c)].override = SuiteRuns[suite[c].next].override
    /\ suite[c].ok =>
          \A i \in 1 .. suite[c].next - 1 :
             SuiteRuns[i].version = "v11" /\ ~ SuiteRuns[i].override =>
                start[c].templates = "valid"

DeservedInv ==
    /\ \A c \in Command : Active(Outer(c)) /\ ~ edited[c] => UneditedRun(c)
    /\ ReadyIsDeserved

\* Only the policy of a tree is ever written.
LEMMA AlikeFacts ==
    ASSUME NEW t \in Tree
    PROVE  /\ Alike(t, t)
           /\ Alike(EnsurePolicy(t), t)
           /\ Alike([t EXCEPT !.policy = "empty"], t)
           /\ Alike([t EXCEPT !.policy = "full"], t)
BY DEF Alike, EnsurePolicy, Tree

\* A run that starts has found out nothing.
LEMMA ToldFresh ==
    ASSUME NEW p, NEW t, NEW v, NEW ci, NEW override
    PROVE  Told(p, NewRun(v, ci, override), t)
BY DEF Told, NewRun, Stage, ProposalStages

\* A stage adds its own result to what a run tells.
LEMMA ToldMoved ==
    ASSUME NEW p, NEW t, NEW r \in RunRecord, Told(p, r, t),
           NEW s \in Stage, r.at = 3 => s = "audit",
           NEW x \in RunRecord, x.at = r.at + 1,
           x.version = r.version, x.ci = r.ci,
           \A u \in Stage \ {s} : x.got[u] \in {r.got[u], "FAIL"},
           s = "audit" /\ x.got["audit"] # "FAIL" => t.surface,
           s = "leak" /\ x.got["leak"] = "PASS" => t.leakfree,
           s = "templates" /\ x.got["templates"] = "PASS" => t.templates = "valid",
           ~ IsNested(p) /\ s = "smoke" /\ x.got["smoke"] = "PASS" =>
              t.package /\ Passed(IdentityStatus(t.identity, r.version = "v1" /\ r.ci)),
           ~ IsNested(p) /\ s = "tests" /\ x.got["tests"] = "PASS" =>
              t.tests /\ t.templates = "valid"
    PROVE  Told(p, x, t)
<1>1. \A u \in {"audit", "leak", "templates", "smoke", "tests"} : u \in Stage
  BY DEF Stage, ProposalStages
<1>2. x.at > 3 /\ x.got["audit"] # "FAIL" => t.surface
  <2>1. CASE s = "audit"
    BY <2>1
  <2>2. CASE s # "audit"
    <3>1. x.at > 3 => r.at > 3
      BY <2>2 DEF RunRecord
    <3>2. x.got["audit"] # "FAIL" => r.got["audit"] # "FAIL"
      BY <1>1, <2>2
    <3> QED
      BY <3>1, <3>2 DEF Told
  <2> QED
    BY <2>1, <2>2
<1>3. /\ x.got["leak"] = "PASS" => t.leakfree
      /\ x.got["templates"] = "PASS" => t.templates = "valid"
  BY <1>1 DEF Told
<1>4. ~ IsNested(p) =>
         /\ x.got["smoke"] = "PASS" =>
               /\ t.package
               /\ Passed(IdentityStatus(t.identity, x.version = "v1" /\ x.ci))
         /\ x.got["tests"] = "PASS" => t.tests /\ t.templates = "valid"
  BY <1>1 DEF Told
<1> QED
  BY <1>2, <1>3, <1>4 DEF Told

\* A command that a step leaves alone.
LEMMA UneditedStays ==
    ASSUME NEW c \in Command, UneditedRun(c),
           run'[Outer(c)] = run[Outer(c)], run'[Nested(c)] = run[Nested(c)],
           suite'[c] = suite[c], start'[c] = start[c], Alike(tree', tree)
    PROVE  UneditedRun(c)'
BY DEF UneditedRun, Alike, Active

\* A command one of whose processes goes on, or goes.
LEMMA UneditedMoves ==
    ASSUME NEW c \in Command, UneditedRun(c),
           NEW p \in {Outer(c), Nested(c)}, Active(p),
           \A q \in {Outer(c), Nested(c)} \ {p} : run'[q] = run[q],
           Told(p, run'[p], start[c]),
           run'[p].version = run[p].version, run'[p].override = run[p].override,
           suite'[c] = suite[c], start'[c] = start[c], Alike(tree', tree)
    PROVE  UneditedRun(c)'
<1>1. Alike(tree, start[c])'
  BY DEF UneditedRun, Alike
<1>2. \A q \in {Outer(c), Nested(c)} : Active(q)' => Told(q, run'[q], start'[c])
  BY DEF UneditedRun, Active
<1>3. Active(Nested(c))' =>
         /\ run'[Nested(c)].version = SuiteRuns[suite'[c].next].version
         /\ run'[Nested(c)].override = SuiteRuns[suite'[c].next].override
  BY DEF UneditedRun, Active
<1> QED
  BY <1>1, <1>2, <1>3 DEF UneditedRun

\* The same for all commands, when the process p goes on with the record x.
LEMMA UneditedStep ==
    ASSUME PipelineInv, NEW p \in Proc, Active(p),
           NEW x, run' = [run EXCEPT ![p] = x],
           x.version = run[p].version, x.override = run[p].override,
           UneditedRun(Owner(p)) => Told(p, x, start[Owner(p)]),
           suite' = suite, start' = start, Alike(tree', tree),
           NEW c \in Command, UneditedRun(c)
    PROVE  UneditedRun(c)'
<1>1. run'[p] = x /\ \A q \in Proc \ {p} : run'[q] = run[q]
  BY DEF PipelineInv, TypeOK, RunOK
<1>2. /\ Outer(c) \in Proc /\ Nested(c) \in Proc
      /\ Owner(Outer(c)) = c /\ Owner(Nested(c)) = c
  BY ProcFacts
<1>3. CASE Owner(p) = c
  <2>1. p \in {Outer(c), Nested(c)}
    BY <1>3, ProcCases
  <2> QED
    BY <1>1, <1>2, <1>3, <2>1, UneditedMoves
<1>4. CASE Owner(p) # c
  <2>1. run'[Outer(c)] = run[Outer(c)] /\ run'[Nested(c)] = run[Nested(c)]
    BY <1>1, <1>2, <1>4
  <2> QED
    BY <2>1, UneditedStays
<1> QED
  BY <1>3, <1>4

\* x is the record q but for what a stage does before it reports: note whether
\* the gates are listed, or take an override that fails the leak scan.
Annotates(x, q) ==
    /\ x.at = q.at /\ x.version = q.version
    /\ x.ci = q.ci /\ x.override = q.override
    /\ \A u \in Stage : x.got[u] \in {q.got[u], "FAIL"}

\* A stage of one status; r is what its run remembers with it.
LEMMA UneditedStage ==
    ASSUME PipelineInv, NEW p \in Proc,
           NEW s \in Stage, AtStage(p, s), s # "verdict",
           NEW status \in {"PASS", "WARN", "FAIL"},
           NEW r \in RunRecord, Annotates(r, run[p]),
           run' = [run EXCEPT ![p] = Moved(r, s, status)],
           suite' = suite, start' = start, Alike(tree', tree),
           s = "audit" /\ status # "FAIL" => tree.surface,
           s = "leak" /\ status = "PASS" => tree.leakfree,
           s = "templates" /\ status = "PASS" => tree.templates = "valid",
           ~ IsNested(p) /\ s = "smoke" /\ status = "PASS" =>
              /\ tree.package
              /\ Passed(IdentityStatus(tree.identity,
                                       run[p].version = "v1" /\ run[p].ci)),
           ~ IsNested(p) => s # "tests",
           NEW c \in Command, UneditedRun(c)
    PROVE  UneditedRun(c)'
<1> DEFINE x == Moved(r, s, status)
           n == Len(Stages(run[p].version))
<1>1. /\ Active(p) /\ run[p] \in RunRecord /\ run[p].version \in Version
      /\ run[p].at \in 1 .. n
      /\ Stages(run[p].version)[run[p].at] = s
  BY AtStageFacts DEF PipelineInv, AtStage, Executing
<1>2. /\ n \in {11, 15}
      /\ run[p].at = 3 => s = "audit"
      /\ run[p].at # n
  BY <1>1, StageList
<1>3. r.at < 15
  <2>1. r.at = run[p].at
    BY DEF Annotates
  <2> HIDE DEF n
  <2> QED
    BY <1>1, <1>2, <2>1
<1> HIDE DEF n
<1>4. /\ x \in RunRecord /\ x.at = r.at + 1
      /\ x.version = r.version /\ x.ci = r.ci /\ x.override = r.override
      /\ \A u \in Stage : x.got[u] = IF u = s THEN status ELSE r.got[u]
  BY <1>3, MovedRecord
<1> HIDE DEF x
<1>5. UneditedRun(Owner(p)) => Told(p, x, start[Owner(p)])
  <2>1. SUFFICES ASSUME UneditedRun(Owner(p))
                 PROVE  Told(p, x, start[Owner(p)])
    OBVIOUS
  <2> DEFINE t == start[Owner(p)]
  <2>2. Told(p, run[p], t) /\ Alike(tree, t)
    BY <1>1, <2>1, ProcCases DEF UneditedRun
  <2> HIDE DEF t
  <2>3. /\ s = "audit" /\ status # "FAIL" => t.surface
        /\ s = "leak" /\ status = "PASS" => t.leakfree
        /\ s = "templates" /\ status = "PASS" => t.templates = "valid"
        /\ ~ IsNested(p) /\ s = "smoke" /\ status = "PASS" =>
              /\ t.package
              /\ Passed(IdentityStatus(t.identity,
                                       run[p].version = "v1" /\ run[p].ci))
    BY <2>2 DEF Alike
  <2>4. /\ x.at = run[p].at + 1
        /\ x.version = run[p].version /\ x.ci = run[p].ci
        /\ \A u \in Stage \ {s} : x.got[u] \in {run[p].got[u], "FAIL"}
        /\ x.got[s] = status
    BY <1>4 DEF Annotates
  <2> QED
    BY <1>1, <1>2, <1>4, <2>2, <2>3, <2>4, ToldMoved DEF t
<1>6. run' = [run EXCEPT ![p] = x]
  BY DEF x
<1>7. x.version = run[p].version /\ x.override = run[p].override
  BY <1>4 DEF Annotates
<1> QED
  BY <1>1, <1>5, <1>6, <1>7, UneditedStep

\* A step inside a stage tells a run nothing.
LEMMA UneditedHandle ==
    ASSUME PipelineInv, NEW p \in Proc, NEW s, NEW from, NEW to,
           Handle(p, s, from, to),
           suite' = suite, start' = start, Alike(tree', tree),
           NEW c \in Command, UneditedRun(c)
    PROVE  UneditedRun(c)'
<1> DEFINE x == [run[p] EXCEPT !.open = to]
<1>1. /\ run[p] \in RunRecord /\ Active(p)
      /\ run' = [run EXCEPT ![p] = x]
  BY DEF Handle, AtStage, Executing, PipelineInv, TypeOK, RunOK
<1>2. /\ x.at = run[p].at /\ x.version = run[p].version /\ x.ci = run[p].ci
      /\ x.override = run[p].override /\ x.got = run[p].got
  BY <1>1 DEF RunRecord
<1> HIDE DEF x
<1>3. UneditedRun(Owner(p)) => Told(p, x, start[Owner(p)])
  <2>1. UneditedRun(Owner(p)) => Told(p, run[p], start[Owner(p)])
    BY <1>1, ProcCases DEF UneditedRun
  <2> QED
    BY <1>2, <2>1 DEF Told
<1> QED
  BY <1>1, <1>2, <1>3, UneditedStep

\* The stages of a run up to its verdict.
LEMMA UneditedRunStep ==
    ASSUME PipelineInv, NEW p \in Proc, RunStep(p), ~ Verdict(p),
           NEW c \in Command, UneditedRun(c)
    PROVE  UneditedRun(c)'
<1>0. /\ tree \in Tree /\ run[p] \in RunRecord
      /\ run \in [Proc -> RunRecord]
  BY DEF PipelineInv, TypeOK, RunOK
<1>15. /\ ObservingStage \subseteq Stage \ {"verdict", "tests", "smoke"}
      /\ {"gates", "proposal", "validation", "tests", "smoke", "evidence",
          "state"} \subseteq Stage
  BY DEF ObservingStage, Stage, ProposalStages
<1>16. Annotates(run[p], run[p])
  BY DEF Annotates
<1>1. ASSUME NEW s \in ObservingStage, Observe(p, s)
      PROVE  UneditedRun(c)'
  <2> DEFINE status == Observed(p, s)
  <2>1. status \in {"PASS", "WARN", "FAIL"}
    BY ObservedStatus
  <2>2. /\ s = "audit" /\ status # "FAIL" => tree.surface
        /\ s = "leak" /\ status = "PASS" => tree.leakfree
        /\ s = "templates" /\ status = "PASS" => tree.templates = "valid"
    BY DEF Observed, AuditStatus, PassIf
  <2>3. /\ AtStage(p, s) /\ suite' = suite /\ start' = start /\ tree' = tree
        /\ run' = [run EXCEPT ![p] = Moved(run[p], s, status)]
    BY <1>0, <1>1 DEF Observe, Advance, history
  <2> HIDE DEF status
  <2>4. Alike(tree', tree)
    BY <1>0, <2>3, AlikeFacts
  <2> QED
    BY <1>0, <1>15, <1>16, <2>1, <2>2, <2>3, <2>4, UneditedStage
<1>2. CASE CheckGates(p)
  <2> DEFINE listed == tree.policy = "full"
             status == PassIf(tree.policy # "absent")
             r == [run[p] EXCEPT !.gated = listed]
  <2>1. r \in RunRecord /\ Annotates(r, run[p])
    BY <1>0 DEF RunRecord, Annotates
  <2>2. /\ run' = [run EXCEPT ![p] = Moved(r, "gates", status)]
        /\ AtStage(p, "gates") /\ suite' = suite /\ start' = start
        /\ tree' = tree
    BY <1>0, <1>2 DEF CheckGates, history
  <2>3. status \in {"PASS", "WARN", "FAIL"}
    BY DEF PassIf
  <2> HIDE DEF r, status
  <2>4. Alike(tree', tree)
    BY <1>0, <2>2, AlikeFacts
  <2> QED
    BY <1>15, <2>1, <2>2, <2>3, <2>4, UneditedStage
<1>3. CASE FindPolicy(p)
  <2>1. Alike(tree', tree)
    BY <1>0, <1>3, AlikeFacts DEF FindPolicy
  <2> QED
    BY <1>3, <2>1, UneditedHandle DEF FindPolicy, history
<1>4. CASE OpenPolicy(p)
  <2>1. Alike(tree', tree)
    BY <1>0, <1>4, AlikeFacts DEF OpenPolicy
  <2> QED
    BY <1>4, <2>1, UneditedHandle DEF OpenPolicy, history
<1>5. CASE WritePolicy(p)
  <2>1. Alike(tree', tree)
    BY <1>0, <1>5, AlikeFacts DEF WritePolicy
  <2> QED
    BY <1>5, <2>1, UneditedHandle DEF WritePolicy, history
<1>6. CASE OpenProposal(p)
  <2>1. Alike(tree', tree)
    BY <1>0, <1>6, AlikeFacts DEF OpenProposal
  <2> QED
    BY <1>6, <2>1, UneditedHandle DEF OpenProposal, history
<1>7. ASSUME NEW s \in {"proposal", "validation", "tests", "state"},
             NEW status \in {"PASS", "FAIL"},
             AtStage(p, s), Advance(p, s, status), ~ IsNested(p) => s # "tests",
             UNCHANGED <<tree, suite, start>>
      PROVE  UneditedRun(c)'
  <2>1. run' = [run EXCEPT ![p] = Moved(run[p], s, status)]
    BY <1>0, <1>7 DEF Advance
  <2>2. Alike(tree', tree)
    BY <1>0, <1>7, AlikeFacts
  <2> QED
    BY <1>0, <1>15, <1>16, <1>7, <2>1, <2>2, UneditedStage
<1>8. CASE CreateProposal(p)
  BY <1>7, <1>8 DEF CreateProposal, history
<1>9. CASE ValidateProposal(p)
  <2> DEFINE status == PassIf(disk["v11"]["proposal"] = "PASS")
  <2>1. status \in {"PASS", "FAIL"}
    BY DEF PassIf
  <2>2. /\ AtStage(p, "validation") /\ Advance(p, "validation", status)
        /\ UNCHANGED <<tree, suite, start>>
    BY <1>9 DEF ValidateProposal, history
  <2> HIDE DEF status
  <2> QED
    BY <1>7, <2>1, <2>2
<1>10. CASE SkipTests(p)
  BY <1>7, <1>10 DEF SkipTests, Guarded, history
<1>11. CASE StartSuite(p)
  <2> DEFINE d == Owner(p)
  <2>1. d \in Command /\ p = Outer(d)
    BY <1>11, ProcCases DEF StartSuite, Guarded
  <2>2. /\ suite' = [suite EXCEPT ![d] = [next |-> 1, ok |-> TRUE]]
        /\ suite[d].next = 0
        /\ run' = run /\ tree' = tree /\ start' = start
    BY <1>11, <2>1 DEF StartSuite, AtStage, Executing, Guarded, history
  <2> HIDE DEF d
  <2>3. /\ suite'[d].next = 1
        /\ \A e \in Command \ {d} : suite'[e] = suite[e]
    BY <2>1, <2>2 DEF PipelineInv, TypeOK
  <2>4. Alike(tree', tree)
    BY <1>0, <2>2, AlikeFacts
  <2>5. CASE c # d
    BY <2>2, <2>3, <2>4, <2>5, UneditedStays
  <2>6. CASE c = d
    <3>1. Len(SuiteRuns) \in Nat
      BY PipelineAssumption
    <3>2. ~ Active(Nested(c))
      BY <2>2, <2>6, <3>1 DEF PipelineInv, Nesting
    <3> QED
      BY <2>2, <2>3, <2>6, <3>2 DEF UneditedRun, Active
  <2> QED
    BY <2>5, <2>6
<1>12. CASE SmokeTests(p)
  <2> DEFINE who == IdentityStatus(Identity(p), SmokeCi(p))
             audit == AuditStatus(EnsurePolicy(tree))
             status == PassIf(tree.package /\ Passed(who) /\ audit = "PASS")
  <2>1. status \in {"PASS", "WARN", "FAIL"}
    BY DEF PassIf
  <2>2. ~ IsNested(p) /\ status = "PASS" =>
           /\ tree.package
           /\ Passed(IdentityStatus(tree.identity,
                                    run[p].version = "v1" /\ run[p].ci))
    BY DEF PassIf, Identity, SmokeCi
  <2>3. /\ AtStage(p, "smoke") /\ suite' = suite /\ start' = start
        /\ run' = [run EXCEPT ![p] = Moved(run[p], "smoke", status)]
        /\ tree' \in {tree, EnsurePolicy(tree)}
    BY <1>0, <1>12 DEF SmokeTests, Advance, history
  <2> HIDE DEF status
  <2>4. Alike(tree', tree)
    BY <1>0, <2>3, AlikeFacts
  <2> QED
    BY <1>0, <1>15, <1>16, <2>1, <2>2, <2>3, <2>4, UneditedStage
<1>13. CASE WriteEvidence(p)
  <2> DEFINE r == Overridden(run[p])
             status == EvidenceStatus(r.got)
  <2>1. r \in RunRecord /\ Annotates(r, run[p])
    BY <1>0 DEF Overridden, RunRecord, Results, Annotates
  <2>2. status \in {"PASS", "WARN", "FAIL"}
    BY DEF EvidenceStatus, PassIf
  <2>3. /\ AtStage(p, "evidence") /\ suite' = suite /\ start' = start
        /\ run' = [run EXCEPT ![p] = Moved(r, "evidence", status)]
        /\ tree' = tree
    BY <1>13 DEF WriteEvidence, history
  <2> HIDE DEF r, status
  <2>4. Alike(tree', tree)
    BY <1>0, <2>3, AlikeFacts
  <2> QED
    BY <1>15, <2>1, <2>2, <2>3, <2>4, UneditedStage
<1>14. CASE WriteState(p)
  <2> DEFINE status == StateStatus(run[p].version, run[p].got)
  <2>1. status \in {"PASS", "FAIL"}
    BY DEF StateStatus, PassIf
  <2>2. /\ AtStage(p, "state") /\ Advance(p, "state", status)
        /\ UNCHANGED <<tree, suite, start>>
    BY <1>14 DEF WriteState, history
  <2> HIDE DEF status
  <2> QED
    BY <1>7, <2>1, <2>2
<1> QED
  BY <1>1, <1>2, <1>3, <1>4, <1>5, <1>6, <1>8, <1>9, <1>10, <1>11, <1>12,
     <1>13, <1>14 DEF RunStep

\* A v1.1 run without a blocker has found the templates valid.
LEMMA ReadyNested ==
    ASSUME NEW c \in Command, UneditedRun(c), Active(Nested(c)),
           LET r == run[Nested(c)]
           IN  AsExpected(r, ExitCode(r.version, r.got)),
           run[Nested(c)].version = "v11", ~ run[Nested(c)].override
    PROVE  start[c].templates = "valid"
<1> DEFINE r == run[Nested(c)]
<1>1. ~ Blocked(r.version, r.got)
  BY ExitAgrees DEF AsExpected
<1>2. r.got["templates"] = "PASS"
  BY <1>1 DEF Blocked, ProposalStages
<1>3. Told(Nested(c), r, start[c])
  BY DEF UneditedRun
<1> QED
  BY <1>2, <1>3 DEF Told

\* A command that passes has found its tree fit.
LEMMA ReadyIsFitTree ==
    ASSUME NEW r \in RunRecord, NEW p, ~ IsNested(p), NEW t \in Tree,
           Told(p, r, t), r.at > 3, ExitCode(r.version, r.got) = "ok"
    PROVE  Fit(t, r.version, r.ci)
<1>1. ~ Blocked(r.version, r.got)
  BY ExitAgrees
<1>2. /\ r.got["audit"] # "FAIL"
      /\ r.got["tests"] = "PASS" /\ r.got["smoke"] = "PASS"
      /\ r.got["leak"] = "PASS"
  BY <1>1 DEF Blocked
<1>3. /\ t.surface /\ t.leakfree /\ t.package /\ t.tests
      /\ t.templates = "valid"
      /\ Passed(IdentityStatus(t.identity, r.version = "v1" /\ r.ci))
  BY <1>2 DEF Told
<1>4. \/ t.identity = "owner"
      \/ t.identity = "bot" /\ r.version = "v1" /\ r.ci
  BY <1>3 DEF Passed, IdentityStatus
<1> QED
  BY <1>3, <1>4 DEF Fit

\* A verdict ends a run: of the suite, with one more test, or of the command,
\* whose exit code was deserved.
LEMMA DeservedVerdict ==
    ASSUME PipelineInv, DeservedInv, NEW p \in Proc, Verdict(p)
    PROVE  DeservedInv'
<1> DEFINE c == Owner(p)
<1>1. /\ c \in Command /\ AtStage(p, "verdict") /\ Active(p)
      /\ run' = [run EXCEPT ![p] = NoRun]
      /\ tree' = tree /\ start' = start /\ edited' = edited
      /\ tree \in Tree /\ run \in [Proc -> RunRecord] /\ run[p] \in RunRecord
  BY ProcCases DEF Verdict, AtStage, Executing, PipelineInv, TypeOK, RunOK
<1>2. run'[p] = NoRun /\ \A q \in Proc \ {p} : run'[q] = run[q]
  BY <1>1
<1>3. ~ Active(p)' /\ Alike(tree', tree)
  <2>1. ~ Active(p)'
    BY <1>2, FreshRecords DEF Active
  <2>2. Alike(tree', tree)
    BY <1>1, AlikeFacts
  <2> QED
    BY <2>1, <2>2
<1> HIDE DEF c
<1>4. ASSUME NEW d \in Command, d # c, suite'[d] = suite[d],
             Active(Outer(d))', ~ edited'[d]
      PROVE  UneditedRun(d)'
  <2>1. /\ Outer(d) \in Proc \ {p} /\ Nested(d) \in Proc \ {p}
    BY <1>4, ProcFacts DEF c
  <2>2. run'[Outer(d)] = run[Outer(d)] /\ run'[Nested(d)] = run[Nested(d)]
    BY <1>2, <2>1
  <2>3. UneditedRun(d)
    BY <1>1, <1>4, <2>2 DEF DeservedInv, Active
  <2> QED
    BY <1>1, <1>3, <1>4, <2>2, <2>3, UneditedStays
<1>5. CASE ~ IsNested(p)
  <2>1. p = Outer(c) /\ suite' = suite
    BY <1>1, <1>5, ProcCases DEF Verdict, c
  <2>2. \A d \in Command : Active(Outer(d))' /\ ~ edited'[d] => UneditedRun(d)'
    BY <1>3, <1>4, <2>1
  <2>3. last' = [version |-> run[p].version, ci |-> run[p].ci,
                 exit |-> ExitCode(run[p].version, run[p].got),
                 start |-> start[c], clean |-> clean[c], edited |-> edited[c]]
    BY <1>5 DEF Verdict, c
  <2>4. ASSUME ~ edited[c], ExitCode(run[p].version, run[p].got) = "ok"
        PROVE  Fit(start[c], run[p].version, run[p].ci)
    <3>1. Told(p, run[p], start[c])
      BY <1>1, <2>1, <2>4 DEF DeservedInv, UneditedRun
    <3>2. run[p].at > 3
      <4> DEFINE n == Len(Stages(run[p].version))
      <4>1. /\ run[p].version \in Version /\ run[p].at \in 1 .. n
            /\ Stages(run[p].version)[run[p].at] = "verdict"
        BY <1>1, AtStageFacts DEF PipelineInv, Stage
      <4>2. n \in {11, 15} /\ run[p].at = n
        BY <4>1, StageList
      <4> HIDE DEF n
      <4> QED
        BY <4>2
    <3>3. start[c] \in Tree
      BY <1>1 DEF PipelineInv, TypeOK
    <3> QED
      BY <1>1, <1>5, <2>4, <3>1, <3>2, <3>3, ReadyIsFitTree
  <2>5. ReadyIsDeserved'
    BY <2>3, <2>4 DEF ReadyIsDeserved
  <2> QED
    BY <2>2, <2>5 DEF DeservedInv
<1>6. CASE IsNested(p)
  <2> DEFINE exit == ExitCode(run[p].version, run[p].got)
             ok == suite[c].ok /\ AsExpected(run[p], exit)
  <2>1. p = Nested(c)
    BY <1>6, ProcCases DEF c
  <2>2. /\ suite' = [suite EXCEPT ![c] = [next |-> suite[c].next + 1, ok |-> ok]]
        /\ last' = last
    BY <1>6 DEF Verdict, c
  <2>3. suite[c].next \in 1 .. Len(SuiteRuns) /\ Len(SuiteRuns) \in Nat
    BY <1>1, <2>1, PipelineAssumption DEF PipelineInv, Nesting
  <2>4. /\ suite'[c].next = suite[c].next + 1 /\ suite'[c].ok = ok
        /\ \A d \in Command \ {c} : suite'[d] = suite[d]
    BY <1>1, <2>2 DEF PipelineInv, TypeOK
  <2>5. ASSUME Active(Outer(c))', ~ edited'[c]
        PROVE  UneditedRun(c)'
    <3>1. Outer(c) # p /\ Outer(c) \in Proc
      BY <1>1, <2>1, ProcFacts
    <3>2. run'[Outer(c)] = run[Outer(c)]
      BY <1>2, <3>1
    <3>3. UneditedRun(c)
      BY <1>1, <2>5, <3>2 DEF DeservedInv, Active
    <3>4. Alike(tree, start[c])' /\ start'[c] = start[c]
      BY <1>1, <3>3 DEF UneditedRun
    <3>5. \A q \in {Outer(c), Nested(c)} : Active(q)' => Told(q, run'[q], start'[c])
      BY <1>3, <2>1, <3>2, <3>3, <3>4 DEF UneditedRun, Active
    <3>6. ASSUME ok, NEW i \in 1 .. suite'[c].next - 1,
                 SuiteRuns[i].version = "v11", ~ SuiteRuns[i].override
          PROVE  start[c].templates = "valid"
      <4>1. CASE i = suite[c].next
        BY <1>1, <2>1, <3>3, <3>6, <4>1, ReadyNested DEF UneditedRun
      <4>2. CASE i # suite[c].next
        <5>1. i \in 1 .. suite[c].next - 1
          BY <2>3, <2>4, <4>2
        <5> QED
          BY <3>3, <3>6, <5>1 DEF UneditedRun
      <4> QED
        BY <4>1, <4>2
    <3> QED
      BY <1>3, <2>1, <2>4, <3>4, <3>5, <3>6 DEF UneditedRun
  <2>6. \A d \in Command : Active(Outer(d))' /\ ~ edited'[d] => UneditedRun(d)'
    BY <1>4, <2>4, <2>5
  <2> QED
    BY <2>2, <2>6 DEF DeservedInv, ReadyIsDeserved
<1> QED
  BY <1>5, <1>6

\* The steps by which a suite starts a nested run and ends, or the command
\* starts.
LEMMA DeservedSuite ==
    ASSUME PipelineInv, DeservedInv, NEW c \in Command,
           \/ StartNested(c)
           \/ FinishSuite(c)
           \/ OrphanEnds(c)
           \/ \E v \in Version, ci \in BOOLEAN : StartRun(c, v, ci)
    PROVE  DeservedInv'
<1>1. /\ tree' = tree /\ last' = last
      /\ \A d \in Command \ {c} : /\ suite'[d] = suite[d]
                                  /\ start'[d] = start[d]
                                  /\ edited'[d] = edited[d]
      /\ \A q \in Proc : Owner(q) # c => run'[q] = run[q]
  <2>1. Outer(c) \in Proc /\ Nested(c) \in Proc
        /\ Owner(Outer(c)) = c /\ Owner(Nested(c)) = c
    BY ProcFacts
  <2>2. /\ run \in [Proc -> RunRecord]
        /\ start \in [Command -> Tree] /\ edited \in [Command -> BOOLEAN]
        /\ suite \in [Command -> [next : 0 .. Len(SuiteRuns) + 1, ok : BOOLEAN]]
    BY DEF PipelineInv, TypeOK, RunOK
  <2>3. CASE StartNested(c)
    BY <2>1, <2>2, <2>3 DEF StartNested, history
  <2>4. CASE FinishSuite(c)
    BY <2>1, <2>2, <2>4 DEF FinishSuite, Advance, history
  <2>5. CASE OrphanEnds(c)
    BY <2>1, <2>2, <2>5 DEF OrphanEnds, history
  <2>6. ASSUME NEW v \in Version, NEW ci \in BOOLEAN, StartRun(c, v, ci)
        PROVE  /\ tree' = tree /\ last' = last
               /\ \A d \in Command \ {c} : /\ suite'[d] = suite[d]
                                           /\ start'[d] = start[d]
                                           /\ edited'[d] = edited[d]
               /\ \A q \in Proc : Owner(q) # c => run'[q] = run[q]
    BY <2>1, <2>2, <2>6 DEF StartRun
  <2> QED
    BY <2>3, <2>4, <2>5, <2>6
<1>2. tree \in Tree /\ Alike(tree', tree)
  BY <1>1, AlikeFacts DEF PipelineInv, TypeOK
<1>3. ASSUME NEW d \in Command, d # c, Active(Outer(d))', ~ edited'[d]
      PROVE  UneditedRun(d)'
  <2>1. run'[Outer(d)] = run[Outer(d)] /\ run'[Nested(d)] = run[Nested(d)]
    BY <1>1, <1>3, ProcFacts
  <2>2. UneditedRun(d)
    BY <1>1, <1>3, <2>1 DEF DeservedInv, Active
  <2> QED
    BY <1>1, <1>2, <1>3, <2>1, <2>2, UneditedStays
<1>4. /\ Outer(c) \in Proc /\ Nested(c) \in Proc /\ Outer(c) # Nested(c)
      /\ Len(SuiteRuns) \in Nat
      /\ suite[c].next \in Nat
      /\ run \in [Proc -> RunRecord]
      /\ suite \in [Command -> [next : 0 .. Len(SuiteRuns) + 1, ok : BOOLEAN]]
  BY ProcFacts, PipelineAssumption DEF PipelineInv, TypeOK, RunOK
<1>5. ASSUME StartNested(c), Active(Outer(c))', ~ edited'[c]
      PROVE  UneditedRun(c)'
  <2> DEFINE n == SuiteRuns[suite[c].next]
             r == NewRun(n.version, n.ci, n.override)
  <2>1. /\ run'[Nested(c)] = r /\ run'[Outer(c)] = run[Outer(c)]
        /\ suite' = suite /\ start' = start /\ edited' = edited
    BY <1>4, <1>5 DEF StartNested, history
  <2>2. UneditedRun(c)
    BY <1>5, <2>1 DEF DeservedInv, Active
  <2>3. Told(Nested(c), r, start[c])
    BY ToldFresh
  <2>4. r.version = n.version /\ r.override = n.override
    BY DEF NewRun
  <2> HIDE DEF r
  <2>5. Alike(tree, start[c])'
    BY <1>1, <2>1, <2>2 DEF UneditedRun
  <2>6. \A q \in {Outer(c), Nested(c)} : Active(q)' => Told(q, run'[q], start'[c])
    BY <2>1, <2>2, <2>3 DEF UneditedRun, Active
  <2> QED
    BY <2>1, <2>2, <2>4, <2>5, <2>6 DEF UneditedRun
<1>6. ASSUME FinishSuite(c), Active(Outer(c))', ~ edited'[c]
      PROVE  UneditedRun(c)'
  <2> DEFINE o == Outer(c)
             n == Len(Stages(run[o].version))
             status == PassIf(suite[c].ok /\ tree.tests)
             x == Moved(run[o], "tests", status)
  <2>1. /\ Active(o) /\ suite[c].next = Len(SuiteRuns) + 1
        /\ run'[o] = x /\ run'[Nested(c)] = run[Nested(c)]
        /\ suite'[c].next = 0 /\ start' = start /\ edited' = edited
    BY <1>4, <1>6 DEF FinishSuite, Advance, NoSuite, history
  <2>2. UneditedRun(c)
    BY <1>6, <2>1 DEF DeservedInv
  <2>3. ~ Active(Nested(c)) /\ Stages(run[o].version)[run[o].at] = "tests"
    BY <1>4, <2>1 DEF PipelineInv, Nesting
  <2>4. /\ run[o] \in RunRecord /\ run[o].version \in Version
        /\ run[o].at \in 0 .. 15 /\ run[o].at <= n /\ run[o].at > 0
    BY <1>4, <2>1 DEF PipelineInv, TypeOK, RunOK, RunRecord, Active
  <2>5. n \in {11, 15} /\ run[o].at \in 1 .. n
    <3>1. n \in {11, 15}
      BY <2>4, StageList
    <3> HIDE DEF n
    <3> QED
      BY <2>4, <3>1
  <2>6. run[o].at # 3 /\ run[o].at # n
    BY <2>3, <2>4, <2>5, StageList
  <2>7. run[o].at < 15
    <3> HIDE DEF n
    <3> QED
      BY <2>4, <2>5, <2>6
  <2>8. status \in {"PASS", "WARN", "FAIL"} /\ "tests" \in Stage
    BY DEF PassIf, Stage
  <2>9. status = "PASS" => start[c].tests /\ start[c].templates = "valid"
    <3>1. SUFFICES ASSUME suite[c].ok, tree.tests
                   PROVE  start[c].tests /\ start[c].templates = "valid"
      BY DEF PassIf
    <3>2. start[c].tests
      BY <2>2, <3>1 DEF UneditedRun, Alike
    <3>3. PICK i \in 1 .. Len(SuiteRuns) :
             SuiteRuns[i].version = "v11" /\ ~ SuiteRuns[i].override
      BY SuiteAssumption
    <3>4. i \in 1 .. suite[c].next - 1
      BY <1>4, <2>1, <3>3
    <3> QED
      BY <2>2, <3>1, <3>2, <3>3, <3>4 DEF UneditedRun
  <2> HIDE DEF n, status
  <2>10. /\ x \in RunRecord /\ x.at = run[o].at + 1
         /\ x.version = run[o].version /\ x.ci = run[o].ci
         /\ \A u \in Stage \ {"tests"} : x.got[u] = run[o].got[u]
         /\ x.got["tests"] = status
    BY <2>4, <2>7, <2>8, MovedRecord
  <2> HIDE DEF x
  <2>11. Told(o, x, start[c])
    <3>1. Told(o, run[o], start[c])
      BY <2>1, <2>2 DEF UneditedRun
    <3> HIDE DEF o
    <3> QED
      BY <2>4, <2>6, <2>8, <2>9, <2>10, <3>1, ToldMoved
  <2>12. Alike(tree, start[c])'
    BY <1>1, <2>1, <2>2 DEF UneditedRun
  <2>13. ~ Active(Nested(c))'
    BY <2>1, <2>3 DEF Active
  <2> QED
    BY <2>1, <2>11, <2>12, <2>13 DEF UneditedRun
<1>7. ASSUME OrphanEnds(c)
      PROVE  ~ Active(Outer(c))'
  BY <1>7 DEF OrphanEnds, Active
<1>8. ASSUME NEW v \in Version, NEW ci \in BOOLEAN, StartRun(c, v, ci)
      PROVE  UneditedRun(c)'
  <2> DEFINE r == NewRun(v, ci, FALSE)
  <2>1. /\ ~ Busy(c)
        /\ run'[Outer(c)] = r /\ run'[Nested(c)] = run[Nested(c)]
        /\ suite' = suite /\ start'[c] = tree
    BY <1>4, <1>8 DEF StartRun, PipelineInv, TypeOK
  <2>2. suite[c].next = 0
    BY <1>4, <2>1 DEF Busy
  <2>3. ~ Active(Nested(c))
    BY <1>4, <2>2 DEF PipelineInv, Nesting
  <2>4. Told(Outer(c), r, tree)
    BY ToldFresh
  <2> HIDE DEF r
  <2>5. ~ Active(Nested(c))'
    BY <2>1, <2>3 DEF Active
  <2>6. Alike(tree, start[c])'
    BY <1>1, <1>2, <2>1
  <2> QED
    BY <1>1, <2>1, <2>2, <2>4, <2>5, <2>6 DEF UneditedRun
<1>9. ReadyIsDeserved'
  BY <1>1 DEF DeservedInv, ReadyIsDeserved
<1>10. Active(Outer(c))' /\ ~ edited'[c] => UneditedRun(c)'
  BY <1>5, <1>6, <1>7, <1>8
<1> QED
  BY <1>3, <1>9, <1>10 DEF DeservedInv

\* A disturbance edits the tree, ends a run of one command, or leaves all runs
\* as they are.
LEMMA DeservedDisturbed ==
    ASSUME PipelineInv, DeservedInv, Disturbance
    PROVE  DeservedInv'
<1>1. ASSUME Disturb
      PROVE  start' = start /\ ReadyIsDeserved'
  BY <1>1 DEF Disturb, DeservedInv, ReadyIsDeserved, PipelineInv, TypeOK,
              VerdictRecord
<1>2. tree \in Tree /\ run \in [Proc -> RunRecord]
  BY DEF PipelineInv, TypeOK, RunOK
<1>3. CASE EditTree
  <2>1. \A d \in Command : edited'[d]
    BY <1>3 DEF EditTree
  <2> QED
    BY <1>1, <1>3, <2>1 DEF EditTree, DeservedInv
<1>4. ASSUME Disturb, UNCHANGED <<run, suite, edited>>, Alike(tree', tree)
      PROVE  DeservedInv'
  <2>1. ASSUME NEW d \in Command, Active(Outer(d))', ~ edited'[d]
        PROVE  UneditedRun(d)'
    <3>1. UneditedRun(d)
      BY <1>4, <2>1 DEF DeservedInv, Active
    <3> QED
      BY <1>1, <1>4, <3>1, UneditedStays
  <2> QED
    BY <1>1, <1>4, <2>1 DEF DeservedInv
<1>5. CASE EditManifest \/ LocateEvidence
  BY <1>2, <1>4, <1>5, AlikeFacts DEF EditManifest, LocateEvidence
<1>6. ASSUME NEW ci \in BOOLEAN, CurrentState(ci)
      PROVE  DeservedInv'
  BY <1>2, <1>4, <1>6, AlikeFacts DEF CurrentState
<1>7. ASSUME NEW c \in Command, Raise(c) \/ Kill(c) \/ Interrupt(c)
      PROVE  DeservedInv'
  <2>1. /\ Outer(c) \in Proc /\ Nested(c) \in Proc /\ Outer(c) # Nested(c)
        /\ Owner(Outer(c)) = c /\ Owner(Nested(c)) = c
    BY ProcFacts
  <2>2. /\ Disturb /\ tree' = tree /\ edited' = edited
        /\ \A q \in Proc : Owner(q) # c => run'[q] = run[q]
        /\ \A d \in Command \ {c} : suite'[d] = suite[d]
    BY <1>2, <1>7, <2>1 DEF Raise, Kill, Interrupt, PipelineInv, TypeOK
  <2>3. Alike(tree', tree)
    BY <1>2, <2>2, AlikeFacts
  <2>4. ASSUME NEW d \in Command \ {c}, Active(Outer(d))', ~ edited'[d]
        PROVE  UneditedRun(d)'
    <3>1. run'[Outer(d)] = run[Outer(d)] /\ run'[Nested(d)] = run[Nested(d)]
      BY <2>2, ProcFacts
    <3>2. UneditedRun(d)
      BY <2>2, <2>4, <3>1 DEF DeservedInv, Active
    <3> QED
      BY <1>1, <2>2, <2>3, <3>1, <3>2, UneditedStays
  <2>5. ASSUME Active(Outer(c))', ~ edited'[c]
        PROVE  UneditedRun(c)'
    <3>1. Raise(c)
      <4>1. ASSUME Kill(c) \/ Interrupt(c)
            PROVE  ~ Active(Outer(c))'
        <5>1. run'[Outer(c)] = NoRun
          BY <1>2, <2>1, <4>1 DEF Kill, Interrupt
        <5> QED
          BY <5>1, FreshRecords DEF Active
      <4> QED
        BY <1>7, <2>5, <4>1
    <3>2. /\ run'[Nested(c)] = NoRun /\ run'[Outer(c)] = run[Outer(c)]
          /\ ~ suite'[c].ok
      BY <1>2, <2>1, <3>1 DEF Raise, PipelineInv, TypeOK
    <3>3. UneditedRun(c)
      BY <2>2, <2>5, <3>2 DEF DeservedInv, Active
    <3>4. ~ Active(Nested(c))'
      BY <3>2, FreshRecords DEF Active
    <3>5. Alike(tree, start[c])' /\ start' = start
      BY <1>1, <2>2, <3>3 DEF UneditedRun
    <3> QED
      BY <3>2, <3>3, <3>4, <3>5 DEF UneditedRun, Active
  <2> QED
    BY <1>1, <2>2, <2>4, <2>5 DEF DeservedInv
<1> QED
  BY <1>3, <1>5, <1>6, <1>7 DEF Disturbance

\* DeservedInv is inductive.
LEMMA DeservedNext ==
    ASSUME PipelineInv, DeservedInv, [Next]_vars
    PROVE  DeservedInv'
<1>1. ASSUME NEW p \in Proc, RunStep(p)
      PROVE  DeservedInv'
  <2>1. CASE Verdict(p)
    BY <2>1, DeservedVerdict
  <2>2. CASE ~ Verdict(p)
    <3>1. \A c \in Command : UneditedRun(c) => UneditedRun(c)'
      BY <1>1, <2>2, UneditedRunStep
    <3>2. /\ edited' = edited /\ last' = last
          /\ \A c \in Command : Active(Outer(c))' => Active(Outer(c))
      <4>1. edited' = edited /\ last' = last
        BY <1>1, <2>2
        DEF RunStep, Observe, FindPolicy, OpenPolicy, WritePolicy, CheckGates,
            OpenProposal, CreateProposal, ValidateProposal, SkipTests,
            StartSuite, SmokeTests, WriteEvidence, WriteState, history
      <4>2. Active(p)
        BY <1>1, <2>2
        DEF RunStep, Observe, FindPolicy, OpenPolicy, WritePolicy, CheckGates,
            OpenProposal, CreateProposal, ValidateProposal, SkipTests,
            StartSuite, SmokeTests, WriteEvidence, WriteState, Handle, AtStage,
            Executing
      <4>3. \A q \in Proc \ {p} : run'[q] = run[q]
        BY <1>1, <2>2
        DEF RunStep, Observe, FindPolicy, OpenPolicy, WritePolicy, CheckGates,
            OpenProposal, CreateProposal, ValidateProposal, SkipTests,
            StartSuite, SmokeTests, WriteEvidence, WriteState, Handle, Advance,
            PipelineInv, TypeOK, RunOK
      <4>4. ASSUME NEW c \in Command, Active(Outer(c))'
            PROVE  Active(Outer(c))
        <5>1. Outer(c) \in Proc
          BY ProcFacts
        <5> QED
          BY <4>2, <4>3, <4>4, <5>1 DEF Active
      <4> QED
        BY <4>1, <4>4
    <3> QED
      BY <3>1, <3>2 DEF DeservedInv, ReadyIsDeserved
  <2> QED
    BY <2>1, <2>2
<1>2. ASSUME NEW c \in Command, Progress(c)
      PROVE  DeservedInv'
  BY <1>1, <1>2, ProcFacts, DeservedSuite DEF Progress
<1>3. ASSUME NEW c \in Command, NEW v \in Version, NEW ci \in BOOLEAN,
             StartRun(c, v, ci)
      PROVE  DeservedInv'
  BY <1>3, DeservedSuite
<1>4. CASE Disturbance
  BY <1>4, DeservedDisturbed
<1>5. CASE UNCHANGED vars
  BY <1>5 DEF vars, DeservedInv, ReadyIsDeserved, UneditedRun, Alike, Active
<1> QED
  BY <1>2, <1>3, <1>4, <1>5 DEF Next

\* No interleaving with other pipelines, with suites left behind, with
\* interrupts and exceptions or with other commands makes a tree ready that is
\* not fit, as long as the user does not edit it during the run: for every set
\* of terminals, of trees and of commands, and every suite.
THEOREM ReadyIsFit == Spec => []ReadyIsDeserved
<1>1. Init => DeservedInv
  <2>1. SUFFICES ASSUME Init PROVE DeservedInv
    OBVIOUS
  <2>2. \A c \in Command : ~ Active(Outer(c))
    <3>1. SUFFICES ASSUME NEW c \in Command PROVE ~ Active(Outer(c))
      OBVIOUS
    <3>2. run[Outer(c)] = NoRun
      BY <2>1, ProcFacts DEF Init
    <3> QED
      BY <3>2, FreshRecords DEF Active
  <2>3. last.exit = "none"
    BY <2>1 DEF Init, NoVerdict
  <2> QED
    BY <2>2, <2>3 DEF DeservedInv, ReadyIsDeserved
<1>2. PipelineInv /\ DeservedInv /\ [Next]_vars => DeservedInv'
  BY DeservedNext
<1>3. DeservedInv => ReadyIsDeserved
  BY DEF DeservedInv
<1> QED
  BY <1>1, <1>2, <1>3, PipelineCorrect, PTL DEF Spec
=============================================================================
