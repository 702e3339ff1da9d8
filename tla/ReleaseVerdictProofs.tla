------------------------ MODULE ReleaseVerdictProofs ------------------------
(***************************************************************************)
(* Proofs that the verdict of ReleasePipeline is the one the tree          *)
(* deserves, and that a ready verdict stands beside artifacts that say so. *)
(***************************************************************************)
EXTENDS ReleasePipelineProofs

\* The identity a run sees in the tree t.
Who(p, v, t) ==
    IF p = "nested" /\ v = "v11" /\ t.identity = "bot" THEN "owner"
    ELSE t.identity

SmokeDue(p, v, ci, t) ==
    PassIf(/\ t.package
           /\ Passed(IdentityStatus(Who(p, v, t), v = "v1" /\ ci))
           /\ AuditStatus(EnsurePolicy(t)) = "PASS")

\* A nested run r that starts on the tree t ends as its test expects.
NestedPasses(r, t) ==
    /\ IdentityStatus(Who("nested", r.version, t), r.ci) # "FAIL"
    /\ ~ r.override =>
          /\ AuditStatus(t) = "PASS"
          /\ t.leakfree
          /\ SmokeDue("nested", r.version, r.ci, t) = "PASS"
          /\ r.version = "v11" => t.templates = "valid" /\ t.policy = "full"

\* So do the first n nested runs of the suite.
SuitePasses(t, n) == \A i \in 1 .. n : NestedPasses(SuiteRuns[i], t)

\* The stages whose result is a fact about the tree.
TreeStages ==
    {"identity", "git_state", "audit", "gates", "tests", "smoke", "leak"}
       \cup ProposalStages

\* What stage s of a run that started on the tree t has to return.
Due(p, v, ci, t, s) ==
    CASE s = "identity"  -> IdentityStatus(Who(p, v, t), ci)
      [] s = "audit"     -> AuditStatus(t)
      [] s = "templates" -> PassIf(t.templates = "valid")
      [] s = "leak"      -> PassIf(t.leakfree)
      [] s = "smoke"     -> SmokeDue(p, v, ci, t)
      [] s = "tests"     -> PassIf(\/ p = "nested"
                                   \/ /\ t.tests
                                      /\ SuitePasses(EnsurePolicy(t),
                                                     Len(SuiteRuns)))
      [] s \in {"git_state", "gates"} \cup (ProposalStages \ {"templates"})
                         -> "PASS"

\* The stages a run has been through are those it has a result of.
Reached(r) ==
    \A i \in 1 .. Len(Stages(r.version)) :
        r.got[Stages(r.version)[i]] = "none" <=> i >= r.at

\* The results of a run on the tree t are those due; the evidence stage of
\* an overridden run has replaced the result of the leak scan.
ResultsDue(p, r, t) ==
    /\ \A s \in TreeStages \ {"leak"} :
          r.got[s] # "none" => r.got[s] = Due(p, r.version, r.ci, t, s)
    /\ r.got["leak"] # "none" =>
          r.got["leak"] = IF r.override /\ r.got["evidence"] # "none"
                          THEN "FAIL"
                          ELSE Due(p, r.version, r.ci, t, "leak")
    /\ r.got["evidence"] # "none" => r.got["evidence"] = EvidenceStatus(r.got)
    /\ r.got["gates"] # "none" => (r.gated <=> EnsurePolicy(t).policy = "full")

\* A command's own run and the one nested in its suite, and what they are.
Pair(c) == {Outer(c), Nested(c)}
Role(p) == p[2]
Roles   == {"outer", "nested"}

\* The tree a run of an undisturbed command starts on.
StartOf(c, p) == IF p = Outer(c) THEN start[c] ELSE EnsurePolicy(start[c])

RunsInv(c) ==
    \A p \in Pair(c) :
        Active(p) => /\ Reached(run[p])
                     /\ ResultsDue(Role(p), run[p], StartOf(c, p))

\* The tree of an undisturbed run r that started on t: the gates stage gives it
\* a policy, in two steps.
TreeDuring(r, t) ==
    IF r.got["gates"] # "none" \/ r.open = "seen" THEN EnsurePolicy(t)
    ELSE IF r.open = "opened" THEN [t EXCEPT !.policy = "empty"] ELSE t

TreeInv(c) ==
    LET r == run[Outer(c)]
    IN  /\ tree = TreeDuring(r, start[c])
        /\ r.got["gates"] = "none" /\ r.open \in {"missed", "opened"} =>
              start[c].policy = "absent"

\* The manifest a run created is the one it validates.
ManifestInv(c) ==
    \A p \in Pair(c) :
        AtStage(p, "validation") => disk["v11"]["proposal"] = "PASS"

\* The suite has found what it had to, and runs the nested run it is at.
SuiteInv(c) ==
    /\ suite[c].next > 0 =>
          (suite[c].ok <=> SuitePasses(EnsurePolicy(start[c]), suite[c].next - 1))
    /\ Active(Nested(c)) =>
          /\ run[Nested(c)].version = SuiteRuns[suite[c].next].version
          /\ run[Nested(c)].ci = SuiteRuns[suite[c].next].ci
          /\ run[Nested(c)].override = SuiteRuns[suite[c].next].override

\* A nested run finds a policy.
FoundInv(c) ==
    LET r == run[Nested(c)]
    IN  Active(Nested(c)) /\ r.got["gates"] = "none" => r.open \in {"no", "seen"}

\* What the outer run's finished stages wrote, and others over it, is good,
\* but for the manifest while a nested run writes it.
Rewriting(c) == Active(Nested(c)) /\ run[Nested(c)].open = "opened"

ArtifactsInv(c) ==
    LET r == run[Outer(c)]
        v == r.version
    IN  Releasable(start[c], v, r.ci) =>
            \A i \in 1 .. r.at - 1 :
               \/ Passed(disk[v][Stages(v)[i]])
               \/ Stages(v)[i] = "proposal" /\ Rewriting(c)

\* What an undisturbed outer run can count on.
CleanRun(c) ==
    /\ Active(Outer(c)) /\ ~ run[Outer(c)].override
    /\ RunsInv(c) /\ TreeInv(c) /\ ManifestInv(c) /\ SuiteInv(c)
    /\ FoundInv(c) /\ ArtifactsInv(c)

\* An undisturbed command is alone, and so was the one that gave the last
\* verdict: neither runs beside a suite left behind.
AloneInv ==
    /\ \A c \in Command : clean[c] /\ Active(Outer(c)) =>
          \A d \in Command : Busy(d) => d = c
    /\ last.clean => \A c \in Command : suite[c].next > 0 => Active(Outer(c))

CleanInv == \A c \in Command : clean[c] /\ Active(Outer(c)) => CleanRun(c)

UndisturbedInv ==
    AloneInv /\ CleanInv /\ VerdictIsDeserved /\ ReadyLeavesProof
-----------------------------------------------------------------------------
(* The stages.                                                             *)

\* The stages before the test suite.
PreTests == {"identity", "git_state", "audit", "gates"} \cup ProposalStages

\* The stages that are in a pipeline beside its evidence, state and verdict.
Needed(v) ==
    {"identity", "git_state", "audit", "gates", "tests", "smoke", "leak"}
       \cup (IF v = "v11" THEN ProposalStages ELSE {})

\* No stage occurs twice, and those a verdict looks at occur in this order.
LEMMA StageOrder ==
    ASSUME NEW v \in Version
    PROVE  LET n == Len(Stages(v))
           IN  /\ n \in Nat /\ n > 4
               /\ \A i, j \in 1 .. n : Stages(v)[i] = Stages(v)[j] => i = j
               /\ Stages(v)[3] = "audit" /\ Stages(v)[4] = "gates"
               /\ \A i \in 1 .. n :
                     Stages(v)[i] \in {"proposal", "tests", "smoke"} => i > 4
               /\ \A i \in 1 .. n : Stages(v)[i] = "tests" =>
                     \A j \in 1 .. i - 1 : Stages(v)[j] \in PreTests
               /\ \A i \in 1 .. n : Stages(v)[i] = "validation" =>
                     i > 1 /\ Stages(v)[i - 1] = "proposal"
               /\ Stages(v)[n - 2] = "evidence"
               /\ Stages(v)[n - 1] = "state"
               /\ Stages(v)[n] = "verdict"
               /\ \A s \in Needed(v) : \E i \in 1 .. n - 3 : Stages(v)[i] = s
<1> USE DEF Stages, PreTests, Needed, ProposalStages
<1>1. CASE v = "v1"
  <2>1. Len(Stages("v1")) = 11
    OBVIOUS
  <2>2. \A i, j \in 1 .. 11 : Stages("v1")[i] = Stages("v1")[j] => i = j
    OBVIOUS
  <2>3. \A i \in 1 .. 11 :
           /\ Stages("v1")[i] \in {"proposal", "tests", "smoke"} => i > 4
           /\ Stages("v1")[i] = "tests" =>
                 \A j \in 1 .. i - 1 : Stages("v1")[j] \in PreTests
    OBVIOUS
  <2>4. \A s \in Needed("v1") : \E i \in 1 .. 8 : Stages("v1")[i] = s
    <3>1. /\ Stages("v1")[1] = "identity" /\ Stages("v1")[2] = "git_state"
          /\ Stages("v1")[3] = "audit"
          /\ Stages("v1")[4] = "gates" /\ Stages("v1")[6] = "tests"
          /\ Stages("v1")[7] = "smoke" /\ Stages("v1")[8] = "leak"
      OBVIOUS
    <3>2. {1, 2, 3, 4, 6, 7, 8} \subseteq 1 .. 8
      OBVIOUS
    <3> HIDE DEF Stages
    <3> QED
      BY <3>1, <3>2
  <2>5. /\ Stages("v1")[3] = "audit" /\ Stages("v1")[4] = "gates"
        /\ Stages("v1")[9] = "evidence" /\ Stages("v1")[10] = "state"
        /\ Stages("v1")[11] = "verdict"
        /\ \A i \in 1 .. 11 : Stages("v1")[i] # "validation"
    OBVIOUS
  <2> DEFINE n == Len(Stages(v))
  <2>6. n = 11
    BY <1>1, <2>1
  <2> HIDE DEF Stages, PreTests, Needed, n
  <2>7. n - 3 = 8 /\ n - 2 = 9 /\ n - 1 = 10 /\ n \in Nat /\ n > 4
    BY <2>6
  <2>8. /\ \A i, j \in 1 .. n : Stages(v)[i] = Stages(v)[j] => i = j
        /\ \A s \in Needed(v) : \E i \in 1 .. n - 3 : Stages(v)[i] = s
    BY <1>1, <2>2, <2>4, <2>6, <2>7
  <2>9. \A i \in 1 .. n :
           /\ Stages(v)[i] \in {"proposal", "tests", "smoke"} => i > 4
           /\ Stages(v)[i] = "tests" =>
                 \A j \in 1 .. i - 1 : Stages(v)[j] \in PreTests
           /\ Stages(v)[i] = "validation" =>
                 i > 1 /\ Stages(v)[i - 1] = "proposal"
    BY <1>1, <2>3, <2>5, <2>6
  <2>10. /\ Stages(v)[3] = "audit" /\ Stages(v)[4] = "gates"
         /\ Stages(v)[n - 2] = "evidence" /\ Stages(v)[n - 1] = "state"
         /\ Stages(v)[n] = "verdict"
    BY <1>1, <2>5, <2>6, <2>7
  <2> QED
    BY <2>7, <2>8, <2>9, <2>10 DEF n
<1>2. CASE v = "v11"
  <2>1. Len(Stages("v11")) = 15
    OBVIOUS
  <2>2. \A i, j \in 1 .. 15 : Stages("v11")[i] = Stages("v11")[j] => i = j
    OBVIOUS
  <2>3. \A i \in 1 .. 15 :
           /\ Stages("v11")[i] \in {"proposal", "tests", "smoke"} => i > 4
           /\ Stages("v11")[i] = "tests" =>
                 \A j \in 1 .. i - 1 : Stages("v11")[j] \in PreTests
    OBVIOUS
  <2>4. \A s \in Needed("v11") : \E i \in 1 .. 12 : Stages("v11")[i] = s
    <3>1. /\ Stages("v11")[1] = "identity" /\ Stages("v11")[2] = "git_state"
          /\ Stages("v11")[3] = "audit"
          /\ Stages("v11")[4] = "gates" /\ Stages("v11")[5] = "proposal"
          /\ Stages("v11")[6] = "validation" /\ Stages("v11")[7] = "templates"
          /\ Stages("v11")[8] = "adapter" /\ Stages("v11")[9] = "append"
          /\ Stages("v11")[10] = "tests"
          /\ Stages("v11")[11] = "smoke" /\ Stages("v11")[12] = "leak"
      OBVIOUS
    <3>2. {1, 2, 3, 4, 5, 6, 7, 8, 9, 10, 11, 12} \subseteq 1 .. 12
      OBVIOUS
    <3> HIDE DEF Stages
    <3> QED
      BY <3>1, <3>2
  <2>5. /\ Stages("v11")[3] = "audit" /\ Stages("v11")[4] = "gates"
        /\ Stages("v11")[13] = "evidence" /\ Stages("v11")[14] = "state"
        /\ Stages("v11")[15] = "verdict"
        /\ \A i \in 1 .. 15 : Stages("v11")[i] = "validation" =>
              i > 1 /\ Stages("v11")[i - 1] = "proposal"
    OBVIOUS
  <2> DEFINE n == Len(Stages(v))
  <2>6. n = 15
    BY <1>2, <2>1
  <2> HIDE DEF Stages, PreTests, Needed, n
  <2>7. n - 3 = 12 /\ n - 2 = 13 /\ n - 1 = 14 /\ n \in Nat /\ n > 4
    BY <2>6
  <2>8. /\ \A i, j \in 1 .. n : Stages(v)[i] = Stages(v)[j] => i = j
        /\ \A s \in Needed(v) : \E i \in 1 .. n - 3 : Stages(v)[i] = s
    BY <1>2, <2>2, <2>4, <2>6, <2>7
  <2>9. \A i \in 1 .. n :
           /\ Stages(v)[i] \in {"proposal", "tests", "smoke"} => i > 4
           /\ Stages(v)[i] = "tests" =>
                 \A j \in 1 .. i - 1 : Stages(v)[j] \in PreTests
           /\ Stages(v)[i] = "validation" =>
                 i > 1 /\ Stages(v)[i - 1] = "proposal"
    BY <1>2, <2>3, <2>5, <2>6
  <2>10. /\ Stages(v)[3] = "audit" /\ Stages(v)[4] = "gates"
         /\ Stages(v)[n - 2] = "evidence" /\ Stages(v)[n - 1] = "state"
         /\ Stages(v)[n] = "verdict"
    BY <1>2, <2>5, <2>6, <2>7
  <2> QED
    BY <2>7, <2>8, <2>9, <2>10 DEF n
<1> QED
  BY <1>1, <1>2 DEF Version
-----------------------------------------------------------------------------
(* What the tree deserves.                                                 *)

\* A policy that is there is left as it is.
LEMMA PolicyOnce ==
    ASSUME NEW t \in Tree
    PROVE  /\ EnsurePolicy(t).policy # "absent"
           /\ t.policy # "absent" => EnsurePolicy(t) = t
           /\ EnsurePolicy(EnsurePolicy(t)) = EnsurePolicy(t)
           /\ \A f \in {"identity", "surface", "templates", "tests",
                        "package", "leakfree"} : EnsurePolicy(t)[f] = t[f]
BY DEF EnsurePolicy, Tree

\* What is due of a run on the repaired tree is what is due of it on the tree
\* it started on, but for the audit.
LEMMA DueAfterRepair ==
    ASSUME NEW t \in Tree, NEW p \in Roles, NEW v \in Version,
           NEW ci \in BOOLEAN, NEW s \in TreeStages \ {"audit"}
    PROVE  Due(p, v, ci, EnsurePolicy(t), s) = Due(p, v, ci, t, s)
<1>1. /\ EnsurePolicy(EnsurePolicy(t)) = EnsurePolicy(t)
      /\ EnsurePolicy(t).identity = t.identity
      /\ EnsurePolicy(t).templates = t.templates
      /\ EnsurePolicy(t).tests = t.tests
      /\ EnsurePolicy(t).package = t.package
      /\ EnsurePolicy(t).leakfree = t.leakfree
  BY PolicyOnce DEF EnsurePolicy, Tree
<1>2. Who(p, v, EnsurePolicy(t)) = Who(p, v, t)
  BY <1>1 DEF Who
<1>3. SmokeDue(p, v, ci, EnsurePolicy(t)) = SmokeDue(p, v, ci, t)
  BY <1>1, <1>2 DEF SmokeDue
<1> QED
  BY <1>1, <1>2, <1>3 DEF Due, TreeStages

\* The tree that the checks of an undisturbed outer run let through is the
\* one a release deserves: through the suite the v1.1 pipeline decides too.
Deserving(v, ci, t) ==
    /\ IdentityStatus(t.identity, ci) # "FAIL"
    /\ AuditStatus(t) = "PASS"
    /\ t.tests /\ SuitePasses(EnsurePolicy(t), Len(SuiteRuns))
    /\ SmokeDue("outer", v, ci, t) = "PASS"
    /\ t.leakfree
    /\ v = "v11" => t.templates = "valid"

LEMMA DeservingIsReleasable ==
    ASSUME NEW t \in Tree, NEW v \in Version, NEW ci \in BOOLEAN
    PROVE  Deserving(v, ci, t) <=> Releasable(t, v, ci)
<1> USE DEF PassIf, Passed, IdentityStatus, Tree
<1>0. Who("outer", v, t) = t.identity
  BY DEF Who
<1>1. ASSUME Deserving(v, ci, t)
      PROVE  Releasable(t, v, ci)
  <2>1. t.surface /\ t.policy # "absent" /\ t.templates # "missing"
    BY <1>1 DEF Deserving, AuditStatus
  <2>2. EnsurePolicy(t) = t
    BY <2>1, PolicyOnce
  <2>3. PICK i \in 1 .. Len(SuiteRuns) :
            SuiteRuns[i].version = "v11" /\ ~ SuiteRuns[i].override
    BY SuiteAssumption
  <2>4. NestedPasses(SuiteRuns[i], t)
    BY <1>1, <2>2 DEF Deserving, SuitePasses
  <2>5. /\ t.leakfree /\ t.templates = "valid" /\ t.policy = "full"
        /\ SmokeDue("outer", v, ci, t) = "PASS"
    BY <1>1, <2>3, <2>4 DEF NestedPasses, Deserving
  <2>6. t.package /\ IdentityStatus(t.identity, v = "v1" /\ ci) # "FAIL"
    BY <1>0, <2>5 DEF SmokeDue
  <2>7. t.identity = "owner" \/ (t.identity = "bot" /\ v = "v1" /\ ci)
    BY <2>6
  <2> QED
    BY <1>1, <2>1, <2>5, <2>6, <2>7 DEF Releasable, Fit, Deserving
<1>2. ASSUME Releasable(t, v, ci)
      PROVE  Deserving(v, ci, t)
  <2>1. /\ EnsurePolicy(t) = t /\ AuditStatus(t) = "PASS"
        /\ t.package /\ t.leakfree /\ t.templates = "valid"
        /\ t.policy = "full" /\ t.tests
    BY <1>2, PolicyOnce DEF Releasable, Fit, AuditStatus
  <2>2. t.identity = "owner" \/ (t.identity = "bot" /\ v = "v1" /\ ci)
    BY <1>2 DEF Releasable, Fit
  <2>3. SmokeDue("outer", v, ci, t) = "PASS"
    BY <1>0, <2>1, <2>2 DEF SmokeDue
  <2>4. ASSUME NEW i \in 1 .. Len(SuiteRuns)
        PROVE  NestedPasses(SuiteRuns[i], t)
    <3>1. /\ SuiteRuns[i].version \in {"v1", "v11"}
          /\ SuiteRuns[i].ci \in BOOLEAN
          /\ SuiteRuns[i].version = "v1" => SuiteRuns[i].ci
      <4>1. SuiteRuns[i] \in SuiteRun
        BY PipelineAssumption
      <4> QED
        BY <4>1, SuiteAssumption DEF SuiteRun, Version
    <3>2. CASE SuiteRuns[i].version = "v1"
      <4>1. Who("nested", "v1", t) = t.identity
        BY DEF Who
      <4> QED
        BY <2>1, <2>2, <3>1, <3>2, <4>1 DEF NestedPasses, SmokeDue
    <3>3. CASE SuiteRuns[i].version = "v11"
      <4>1. Who("nested", "v11", t) = "owner"
        BY <2>2 DEF Who
      <4> QED
        BY <2>1, <3>3, <4>1 DEF NestedPasses, SmokeDue
    <3> QED
      BY <3>1, <3>2, <3>3
  <2> QED
    BY <2>1, <2>2, <2>3, <2>4 DEF Deserving, SuitePasses
<1> QED
  BY <1>1, <1>2
-----------------------------------------------------------------------------
(* The results of one run.                                                 *)

\* What a stage that may have noted the gates leaves of a run's record.
LEMMA MovedFields ==
    ASSUME NEW r \in RunRecord, NEW y \in RunRecord,
           y.at = r.at, y.version = r.version, y.ci = r.ci,
           y.override = r.override, NEW s \in Stage,
           NEW status \in {"PASS", "WARN", "FAIL"}, r.at < 15
    PROVE  LET x == Moved(y, s, status)
           IN  /\ x \in RunRecord
               /\ x.at = r.at + 1 /\ x.version = r.version /\ x.open = "no"
               /\ x.ci = r.ci /\ x.override = r.override
               /\ x.gated = y.gated
               /\ \A u \in Stage : x.got[u] = IF u = s THEN status ELSE y.got[u]
<1>1. /\ Moved(y, s, status).ci = y.ci
      /\ Moved(y, s, status).override = y.override
      /\ Moved(y, s, status).gated = y.gated
  BY DEF Moved, RunRecord
<1> QED
  BY <1>1, MovedRecord

\* Where a run is when it is at a stage before the evidence, and before it.
LEMMA StagePlace ==
    ASSUME NEW r \in RunRecord, Reached(r),
           r.at \in 1 .. Len(Stages(r.version)),
           NEW s, s = Stages(r.version)[r.at]
    PROVE  /\ s \in Stage
           /\ s # "verdict" => r.at < 15
           /\ r.got[s] = "none"
           /\ s \in TreeStages => r.got["evidence"] = "none"
           /\ s \in {"evidence", "state"} =>
                 \A u \in Needed(r.version) : r.got[u] # "none"
<1> DEFINE v == r.version
           n == Len(Stages(v))
<1>1. v \in Version /\ r.at \in 0 .. 15
  BY DEF RunRecord
<1>2. /\ n \in {11, 15}
      /\ \A i \in 1 .. n : Stages(v)[i] \in Stage
      /\ \A i \in 1 .. n : Stages(v)[i] = "verdict" <=> i = n
  BY <1>1, StageList
<1>3. /\ \A i, j \in 1 .. n : Stages(v)[i] = Stages(v)[j] => i = j
      /\ Stages(v)[n - 2] = "evidence"
      /\ Stages(v)[n - 1] = "state"
      /\ Stages(v)[n] = "verdict"
      /\ \A u \in Needed(v) : \E i \in 1 .. n - 3 : Stages(v)[i] = u
  BY <1>1, StageOrder
<1>4. /\ \A i \in 1 .. n : r.got[Stages(v)[i]] = "none" <=> i >= r.at
      /\ r.at \in 1 .. n
  BY DEF Reached
<1> HIDE DEF n
<1>5. n - 2 \in 1 .. n /\ n - 1 \in 1 .. n /\ n \in 1 .. n /\ r.at \in 1 .. n
  BY <1>2, <1>4
<1>6. ASSUME s \in TreeStages
      PROVE  r.got["evidence"] = "none"
  <2>1. s \notin {"evidence", "state", "verdict"}
    BY <1>6 DEF TreeStages, ProposalStages
  <2>2. r.at # n - 2 /\ r.at # n - 1 /\ r.at # n
    BY <2>1, <1>3
  <2>3. n - 2 >= r.at
    BY <1>2, <1>5, <2>2
  <2> QED
    BY <1>3, <1>4, <1>5, <2>3
<1>7. ASSUME s \in {"evidence", "state"}, NEW u \in Needed(v)
      PROVE  r.got[u] # "none"
  <2>1. PICK i \in 1 .. n - 3 : Stages(v)[i] = u
    BY <1>3
  <2>2. r.at \in {n - 2, n - 1}
    BY <1>3, <1>5, <1>7
  <2>3. i \in 1 .. n /\ ~ (i >= r.at)
    BY <1>2, <2>1, <2>2
  <2> QED
    BY <1>4, <2>1, <2>3
<1>8. s # "verdict" => r.at < 15
  BY <1>2, <1>3, <1>5
<1>9. s \in Stage /\ r.got[s] = "none"
  BY <1>1, <1>2, <1>4, <1>5
<1> QED
  BY <1>6, <1>7, <1>8, <1>9

\* A stage that returned something has been reached.
LEMMA StageReached ==
    ASSUME NEW r \in RunRecord, Reached(r),
           r.at \in 1 .. Len(Stages(r.version)),
           NEW x, x.version = r.version, x.at = r.at + 1,
           \A u \in Stage :
              x.got[u] = "none" <=>
                 u # Stages(r.version)[r.at] /\ r.got[u] = "none"
    PROVE  Reached(x)
<1> DEFINE v == r.version
           n == Len(Stages(v))
<1>1. v \in Version /\ r.at \in 0 .. 15
  BY DEF RunRecord
<1>2. n \in Nat /\ \A i \in 1 .. n : Stages(v)[i] \in Stage
  BY <1>1, StageList
<1>3. \A i, j \in 1 .. n : Stages(v)[i] = Stages(v)[j] => i = j
  BY <1>1, StageOrder
<1>4. \A i \in 1 .. n : r.got[Stages(v)[i]] = "none" <=> i >= r.at
  BY DEF Reached
<1>5. r.at \in 1 .. n
  OBVIOUS
<1>6. SUFFICES ASSUME NEW i \in 1 .. n
               PROVE  x.got[Stages(v)[i]] = "none" <=> i >= x.at
  BY DEF Reached
<1> HIDE DEF n
<1>7. x.got[Stages(v)[i]] = "none" <=> i # r.at /\ i >= r.at
  BY <1>2, <1>3, <1>4, <1>5
<1> QED
  BY <1>5, <1>7, <1>2

\* The evidence index does not look at itself, the state or the verdict.
LEMMA EvidenceReads ==
    ASSUME NEW got, NEW other,
           \A s \in {"identity", "audit", "git_state", "gates", "smoke",
                     "tests", "leak"} : got[s] = other[s]
    PROVE  EvidenceStatus(got) = EvidenceStatus(other)
BY DEF EvidenceStatus, PassIf

\* What is due is a status.
LEMMA DueStatus ==
    ASSUME NEW p, NEW v, NEW ci, NEW t, NEW s \in TreeStages
    PROVE  Due(p, v, ci, t, s) \in {"PASS", "WARN", "FAIL"}
BY DEF Due, TreeStages, IdentityStatus, AuditStatus, SmokeDue, PassIf

\* A stage that looks at the tree and returns what is due.
LEMMA DueStep ==
    ASSUME NEW r \in RunRecord, Reached(r),
           r.at \in 1 .. Len(Stages(r.version)),
           NEW p \in Roles, NEW t, ResultsDue(p, r, t),
           NEW s \in TreeStages, s = Stages(r.version)[r.at],
           NEW g, g \in BOOLEAN,
           IF s = "gates" THEN g <=> EnsurePolicy(t).policy = "full"
           ELSE g = r.gated,
           NEW x, x = Moved([r EXCEPT !.gated = g], s,
                            Due(p, r.version, r.ci, t, s))
    PROVE  /\ x \in RunRecord
           /\ x.at = r.at + 1 /\ x.version = r.version /\ x.open = "no"
           /\ x.ci = r.ci /\ x.override = r.override
           /\ x.got[s] = Due(p, r.version, r.ci, t, s)
           /\ \A u \in Stage \ {s} : x.got[u] = r.got[u]
           /\ Reached(x)
           /\ ResultsDue(p, x, t)
<1> DEFINE status == Due(p, r.version, r.ci, t, s)
<1>1. /\ s \in Stage /\ r.at < 15 /\ r.got[s] = "none"
      /\ r.got["evidence"] = "none"
      /\ s \notin {"evidence", "verdict"}
  BY StagePlace DEF TreeStages, ProposalStages
<1>2. status \in {"PASS", "WARN", "FAIL"}
  BY DueStatus
<1> HIDE DEF status
<1>3. /\ x \in RunRecord
      /\ x.at = r.at + 1 /\ x.version = r.version /\ x.open = "no"
      /\ x.ci = r.ci /\ x.override = r.override /\ x.gated = g
      /\ \A u \in Stage : x.got[u] = IF u = s THEN status ELSE r.got[u]
  <2> DEFINE y == [r EXCEPT !.gated = g]
  <2>1. x = Moved(y, s, status)
    BY DEF status
  <2>2. /\ y \in RunRecord /\ y.at = r.at /\ y.version = r.version
        /\ y.ci = r.ci /\ y.override = r.override /\ y.got = r.got
        /\ y.gated = g
    BY DEF RunRecord
  <2> HIDE DEF y
  <2>3. s \in Stage /\ r.at < 15
    BY <1>1
  <2>4. /\ Moved(y, s, status) \in RunRecord
        /\ Moved(y, s, status).at = r.at + 1
        /\ Moved(y, s, status).version = r.version
        /\ Moved(y, s, status).open = "no"
        /\ Moved(y, s, status).ci = r.ci
        /\ Moved(y, s, status).override = r.override
        /\ Moved(y, s, status).gated = y.gated
        /\ \A u \in Stage : Moved(y, s, status).got[u] =
                               IF u = s THEN status ELSE y.got[u]
    BY <1>2, <2>2, <2>3, MovedFields
  <2> QED
    BY <2>1, <2>2, <2>4
<1>4. Reached(x)
  <2>1. \A u \in Stage : x.got[u] = "none" <=>
                            u # Stages(r.version)[r.at] /\ r.got[u] = "none"
    BY <1>2, <1>3
  <2> QED
    BY <1>3, <2>1, StageReached
<1>5. "evidence" \in Stage /\ "leak" \in Stage /\ "gates" \in Stage
      /\ TreeStages \subseteq Stage
  BY DEF Stage, TreeStages
<1>6. x.got["evidence"] = "none"
  BY <1>1, <1>3, <1>5
<1>7. ASSUME NEW u \in TreeStages \ {"leak"}, x.got[u] # "none"
      PROVE  x.got[u] = Due(p, x.version, x.ci, t, u)
  <2>1. CASE u = s
    BY <1>3, <1>5, <2>1 DEF status
  <2>2. CASE u # s
    BY <1>3, <1>5, <1>7, <2>2 DEF ResultsDue
  <2> QED
    BY <2>1, <2>2
<1>8. ASSUME x.got["leak"] # "none"
      PROVE  x.got["leak"] = Due(p, x.version, x.ci, t, "leak")
  <2>1. CASE s = "leak"
    BY <1>3, <1>5, <2>1 DEF status
  <2>2. CASE s # "leak"
    BY <1>1, <1>3, <1>5, <1>8, <2>2 DEF ResultsDue
  <2> QED
    BY <2>1, <2>2
<1>9. x.got["gates"] # "none" => (x.gated <=> EnsurePolicy(t).policy = "full")
  <2>1. CASE s = "gates"
    BY <1>3, <2>1
  <2>2. CASE s # "gates"
    BY <1>3, <1>5, <2>2 DEF ResultsDue
  <2> QED
    BY <2>1, <2>2
<1>10. ResultsDue(p, x, t)
  BY <1>6, <1>7, <1>8, <1>9 DEF ResultsDue
<1>11. x.got[s] = Due(p, r.version, r.ci, t, s)
  BY <1>1, <1>3 DEF status
<1> QED
  BY <1>3, <1>4, <1>5, <1>10, <1>11

\* The evidence stage: an override is merged into the results first.
LEMMA EvidenceStep ==
    ASSUME NEW r \in RunRecord, Reached(r),
           r.at \in 1 .. Len(Stages(r.version)),
           Stages(r.version)[r.at] = "evidence",
           NEW p \in Roles, NEW t, ResultsDue(p, r, t)
    PROVE  LET y == Overridden(r)
               x == Moved(y, "evidence", EvidenceStatus(y.got))
           IN  /\ x \in RunRecord
               /\ x.at = r.at + 1 /\ x.version = r.version /\ x.open = "no"
               /\ x.ci = r.ci /\ x.override = r.override
               /\ \A u \in Stage \ {"evidence", "leak"} : x.got[u] = r.got[u]
               /\ Reached(x)
               /\ ResultsDue(p, x, t)
<1> DEFINE y == Overridden(r)
           status == EvidenceStatus(y.got)
           x == Moved(y, "evidence", status)
<1>1. /\ "evidence" \in Stage /\ "leak" \in Stage /\ "gates" \in Stage
      /\ TreeStages \subseteq Stage /\ "evidence" \notin TreeStages
      /\ "leak" \in Needed(r.version)
  BY DEF Stage, TreeStages, Needed, ProposalStages
<1>2. r.at < 15 /\ r.got["leak"] # "none"
  BY <1>1, StagePlace
<1>3. status \in {"PASS", "WARN", "FAIL"}
  BY DEF EvidenceStatus, PassIf
<1>4. /\ y \in RunRecord /\ y.at = r.at /\ y.version = r.version
      /\ y.ci = r.ci /\ y.override = r.override /\ y.gated = r.gated
      /\ \A u \in Stage \ {"leak"} : y.got[u] = r.got[u]
      /\ y.got["leak"] = IF r.override THEN "FAIL" ELSE r.got["leak"]
  <2>1. CASE r.override
    BY <1>1, <2>1 DEF Overridden, RunRecord, Results
  <2>2. CASE ~ r.override
    BY <2>2 DEF Overridden
  <2> QED
    BY <2>1, <2>2
<1> HIDE DEF y
<1>5. status = EvidenceStatus(y.got)
  OBVIOUS
<1> HIDE DEF status
<1>6. /\ x \in RunRecord
      /\ x.at = r.at + 1 /\ x.version = r.version /\ x.open = "no"
      /\ x.ci = r.ci /\ x.override = r.override /\ x.gated = r.gated
      /\ \A u \in Stage : x.got[u] = IF u = "evidence" THEN status ELSE y.got[u]
  BY <1>1, <1>2, <1>3, <1>4, MovedFields
<1> HIDE DEF x
<1>7. /\ x.got["evidence"] = status
      /\ x.got["leak"] = IF r.override THEN "FAIL" ELSE r.got["leak"]
      /\ \A u \in Stage \ {"evidence", "leak"} : x.got[u] = r.got[u]
  BY <1>1, <1>4, <1>6
<1>8. Reached(x)
  <2>1. \A u \in Stage : x.got[u] = "none" <=>
                            u # Stages(r.version)[r.at] /\ r.got[u] = "none"
    BY <1>2, <1>3, <1>7
  <2> QED
    BY <1>6, <2>1, StageReached
<1>9. ResultsDue(p, x, t)
  <2>1. \A s \in TreeStages \ {"leak"} :
           x.got[s] # "none" => x.got[s] = Due(p, x.version, x.ci, t, s)
    BY <1>1, <1>6, <1>7 DEF ResultsDue
  <2>2. x.got["leak"] = IF x.override THEN "FAIL"
                        ELSE Due(p, x.version, x.ci, t, "leak")
    <3>1. CASE r.override
      BY <1>6, <1>7, <3>1
    <3>2. CASE ~ r.override
      BY <1>2, <1>6, <1>7, <3>2 DEF ResultsDue
    <3> QED
      BY <3>1, <3>2
  <2>3. x.got["evidence"] = EvidenceStatus(x.got)
    <3>1. \A s \in {"identity", "audit", "git_state", "gates", "smoke",
                    "tests", "leak"} : x.got[s] = y.got[s]
      BY <1>6 DEF Stage
    <3> QED
      BY <1>5, <1>7, <3>1, EvidenceReads
  <2>4. x.got["gates"] # "none" => (x.gated <=> EnsurePolicy(t).policy = "full")
    BY <1>1, <1>6, <1>7 DEF ResultsDue
  <2>5. x.got["evidence"] # "none"
    BY <1>3, <1>7
  <2> QED
    BY <2>1, <2>2, <2>3, <2>4, <2>5 DEF ResultsDue
<1>10. /\ \A u \in Stage \ {"evidence", "leak"} : x.got[u] = r.got[u]
       /\ x \in RunRecord
       /\ x.at = r.at + 1 /\ x.version = r.version /\ x.open = "no"
       /\ x.ci = r.ci /\ x.override = r.override
  BY <1>6, <1>7
<1> QED
  BY <1>8, <1>9, <1>10 DEF x, y, status

\* The state stage: no other result depends on its own.
LEMMA StateStep ==
    ASSUME NEW r \in RunRecord, Reached(r),
           r.at \in 1 .. Len(Stages(r.version)),
           Stages(r.version)[r.at] = "state",
           NEW p \in Roles, NEW t, ResultsDue(p, r, t),
           NEW status \in {"PASS", "WARN", "FAIL"}
    PROVE  LET x == Moved(r, "state", status)
           IN  /\ x \in RunRecord
               /\ x.at = r.at + 1 /\ x.version = r.version /\ x.open = "no"
               /\ x.ci = r.ci /\ x.override = r.override
               /\ \A u \in Stage \ {"state"} : x.got[u] = r.got[u]
               /\ Reached(x)
               /\ ResultsDue(p, x, t)
<1> DEFINE x == Moved(r, "state", status)
<1>1. /\ {"state", "evidence", "leak", "gates"} \subseteq Stage
      /\ TreeStages \subseteq Stage /\ "state" \notin TreeStages
  BY DEF Stage, TreeStages, ProposalStages
<1>2. r.at < 15
  BY StagePlace
<1>3. /\ x \in RunRecord
      /\ x.at = r.at + 1 /\ x.version = r.version /\ x.open = "no"
      /\ x.ci = r.ci /\ x.override = r.override /\ x.gated = r.gated
      /\ \A u \in Stage : x.got[u] = IF u = "state" THEN status ELSE r.got[u]
  BY <1>1, <1>2, MovedFields
<1> HIDE DEF x
<1>4. Reached(x)
  <2>1. \A u \in Stage : x.got[u] = "none" <=>
                            u # Stages(r.version)[r.at] /\ r.got[u] = "none"
    BY <1>3
  <2> QED
    BY <1>3, <2>1, StageReached
<1>5. \A u \in Stage \ {"state"} : x.got[u] = r.got[u]
  BY <1>3
<1>6. ResultsDue(p, x, t)
  <2>1. \A s \in TreeStages \ {"leak"} :
           x.got[s] # "none" => x.got[s] = Due(p, x.version, x.ci, t, s)
    BY <1>1, <1>3, <1>5 DEF ResultsDue
  <2>2. x.got["leak"] # "none" =>
           x.got["leak"] = IF x.override /\ x.got["evidence"] # "none"
                           THEN "FAIL"
                           ELSE Due(p, x.version, x.ci, t, "leak")
    BY <1>1, <1>3, <1>5 DEF ResultsDue
  <2>3. x.got["evidence"] # "none" => x.got["evidence"] = EvidenceStatus(x.got)
    <3>1. \A s \in {"identity", "audit", "git_state", "gates", "smoke",
                    "tests", "leak"} : x.got[s] = r.got[s]
      BY <1>5 DEF Stage
    <3>2. x.got["evidence"] = r.got["evidence"]
      BY <1>1, <1>5
    <3> QED
      BY <3>1, <3>2, EvidenceReads DEF ResultsDue
  <2>4. x.got["gates"] # "none" => (x.gated <=> EnsurePolicy(t).policy = "full")
    BY <1>1, <1>3, <1>5 DEF ResultsDue
  <2> QED
    BY <2>1, <2>2, <2>3, <2>4 DEF ResultsDue
<1> QED
  BY <1>3, <1>4, <1>5, <1>6 DEF x
-----------------------------------------------------------------------------
(* The verdict of one run.                                                 *)

\* A run that is at its verdict has the results due.
LEMMA ResultsAtVerdict ==
    ASSUME NEW r \in RunRecord, Reached(r), r.at = Len(Stages(r.version)),
           NEW p \in Roles, NEW t, ResultsDue(p, r, t)
    PROVE  /\ \A s \in Needed(r.version) \ {"leak"} :
                 r.got[s] = Due(p, r.version, r.ci, t, s)
           /\ r.got["leak"] = IF r.override THEN "FAIL"
                              ELSE Due(p, r.version, r.ci, t, "leak")
           /\ r.got["evidence"] = EvidenceStatus(r.got)
           /\ r.gated <=> EnsurePolicy(t).policy = "full"
<1> DEFINE v == r.version
           n == Len(Stages(v))
<1>1. v \in Version
  BY DEF RunRecord
<1>2. /\ n \in Nat /\ n > 4
      /\ Stages(v)[n - 2] = "evidence"
      /\ \A u \in Needed(v) : \E i \in 1 .. n - 3 : Stages(v)[i] = u
  BY <1>1, StageOrder
<1>3. \A i \in 1 .. n : r.got[Stages(v)[i]] = "none" <=> i >= n
  BY DEF Reached
<1> HIDE DEF n
<1>4. r.got["evidence"] # "none"
  <2>1. n - 2 \in 1 .. n /\ ~ (n - 2 >= n)
    BY <1>2
  <2> QED
    BY <1>2, <1>3, <2>1
<1>5. ASSUME NEW u \in Needed(v)
      PROVE  r.got[u] # "none"
  <2>1. PICK i \in 1 .. n - 3 : Stages(v)[i] = u
    BY <1>2
  <2>2. i \in 1 .. n /\ ~ (i >= n)
    BY <1>2, <2>1
  <2> QED
    BY <1>3, <2>1, <2>2
<1>6. /\ Needed(v) \subseteq TreeStages
      /\ "leak" \in Needed(v) /\ "gates" \in Needed(v)
  BY DEF Needed, TreeStages
<1> QED
  BY <1>4, <1>5, <1>6 DEF ResultsDue

\* Evidence, then verdict, of a run with the results due: nothing blocks when
\* the single stages are good.
LEMMA BlockedReads ==
    ASSUME NEW r \in RunRecord, Reached(r), r.at = Len(Stages(r.version)),
           NEW p \in Roles, NEW t, ResultsDue(p, r, t)
    PROVE  Blocked(r.version, r.got) <=>
              \/ \E s \in {"identity", "audit"} : r.got[s] = "FAIL"
              \/ \E s \in {"tests", "smoke", "leak"} : r.got[s] # "PASS"
              \/ r.version = "v11" /\ t.templates # "valid"
<1> DEFINE v == r.version
<1>1. /\ \A s \in Needed(v) \ {"leak"} : r.got[s] = Due(p, v, r.ci, t, s)
      /\ r.got["leak"] = IF r.override THEN "FAIL" ELSE Due(p, v, r.ci, t, "leak")
      /\ r.got["evidence"] = EvidenceStatus(r.got)
  BY ResultsAtVerdict
<1>2. /\ r.got["gates"] = "PASS" /\ r.got["git_state"] = "PASS"
      /\ r.got["identity"] \in {"PASS", "WARN", "FAIL"}
      /\ r.got["audit"] \in {"PASS", "FAIL"}
  <2>1. {"gates", "git_state", "identity", "audit"} \subseteq Needed(v) \ {"leak"}
    BY DEF Needed
  <2> QED
    BY <1>1, <2>1 DEF Due, IdentityStatus, AuditStatus, PassIf
<1>3. r.version = "v11" =>
         ((\E s \in ProposalStages : r.got[s] # "PASS") <=> t.templates # "valid")
  <2> SUFFICES ASSUME v = "v11"
               PROVE  (\E s \in ProposalStages : r.got[s] # "PASS")
                         <=> t.templates # "valid"
    OBVIOUS
  <2>1. ProposalStages \subseteq Needed(v) \ {"leak"}
    BY DEF Needed, ProposalStages
  <2>2. \A s \in ProposalStages \ {"templates"} : r.got[s] = "PASS"
    BY <1>1, <2>1 DEF Due, ProposalStages
  <2>3. r.got["templates"] = PassIf(t.templates = "valid")
    BY <1>1, <2>1 DEF Due, ProposalStages
  <2> QED
    BY <2>2, <2>3 DEF PassIf, ProposalStages
<1> DEFINE Other == \/ \E s \in {"identity", "audit"} : r.got[s] = "FAIL"
                    \/ \E s \in {"tests", "smoke", "leak"} : r.got[s] # "PASS"
<1>4. r.got["evidence"] # "PASS" => Other
  <2>1. SUFFICES ASSUME ~ Other PROVE EvidenceStatus(r.got) = "PASS"
    BY <1>1
  <2>2. /\ Passed(r.got["identity"]) /\ Passed(r.got["audit"])
        /\ Passed(r.got["gates"]) /\ Passed(r.got["git_state"])
        /\ Passed(r.got["tests"])
        /\ Passed(r.got["smoke"]) /\ Passed(r.got["leak"])
    BY <1>2, <2>1 DEF Passed
  <2> QED
    BY <2>2 DEF EvidenceStatus, PassIf
<1>5. Blocked(v, r.got) <=>
         \/ Other
         \/ r.got["evidence"] # "PASS"
         \/ v = "v11" /\ \E s \in ProposalStages : r.got[s] # "PASS"
  BY <1>2 DEF Blocked
<1> QED
  BY <1>3, <1>4, <1>5

\* What is due, stage by stage.
LEMMA DueOf ==
    ASSUME NEW p, NEW v, NEW ci, NEW t
    PROVE  /\ Due(p, v, ci, t, "identity") = IdentityStatus(Who(p, v, t), ci)
           /\ Due(p, v, ci, t, "audit") = AuditStatus(t)
           /\ Due(p, v, ci, t, "gates") = "PASS"
           /\ Due(p, v, ci, t, "smoke") = SmokeDue(p, v, ci, t)
           /\ Due(p, v, ci, t, "leak") = PassIf(t.leakfree)
           /\ Due(p, v, ci, t, "tests") =
                 PassIf(p = "nested" \/ (t.tests /\ SuitePasses(EnsurePolicy(t),
                                                               Len(SuiteRuns))))
BY DEF Due, PassIf, ProposalStages

\* An undisturbed outer run is blocked unless its tree deserves the release.
LEMMA OuterVerdict ==
    ASSUME NEW r \in RunRecord, Reached(r), r.at = Len(Stages(r.version)),
           ~ r.override, NEW t \in Tree, ResultsDue("outer", r, t)
    PROVE  Blocked(r.version, r.got) <=> ~ Deserving(r.version, r.ci, t)
<1>1. "outer" \in Roles
  BY DEF Roles
<1>2. /\ r.got["identity"] = IdentityStatus(t.identity, r.ci)
      /\ r.got["audit"] = AuditStatus(t)
      /\ r.got["tests"] = PassIf(t.tests /\ SuitePasses(EnsurePolicy(t), Len(SuiteRuns)))
      /\ r.got["smoke"] = SmokeDue("outer", r.version, r.ci, t)
      /\ r.got["leak"] = PassIf(t.leakfree)
  <2>1. {"identity", "audit", "tests", "smoke"} \subseteq Needed(r.version) \ {"leak"}
    BY DEF Needed
  <2>2. /\ \A s \in Needed(r.version) \ {"leak"} :
              r.got[s] = Due("outer", r.version, r.ci, t, s)
        /\ r.got["leak"] = Due("outer", r.version, r.ci, t, "leak")
    BY <1>1, ResultsAtVerdict
  <2>3. Who("outer", r.version, t) = t.identity
    BY DEF Who
  <2>4. /\ r.got["identity"] = Due("outer", r.version, r.ci, t, "identity")
        /\ r.got["audit"] = Due("outer", r.version, r.ci, t, "audit")
        /\ r.got["tests"] = Due("outer", r.version, r.ci, t, "tests")
        /\ r.got["smoke"] = Due("outer", r.version, r.ci, t, "smoke")
    BY <2>1, <2>2
  <2> QED
    BY <2>2, <2>3, <2>4, DueOf
<1>3. Blocked(r.version, r.got) <=>
         \/ \E s \in {"identity", "audit"} : r.got[s] = "FAIL"
         \/ \E s \in {"tests", "smoke", "leak"} : r.got[s] # "PASS"
         \/ r.version = "v11" /\ t.templates # "valid"
  BY <1>1, BlockedReads
<1>4. AuditStatus(t) # "PASS" <=> AuditStatus(t) = "FAIL"
  BY DEF AuditStatus, PassIf
<1>5. PassIf(t.leakfree) # "PASS" <=> ~ t.leakfree
  BY DEF PassIf
<1>6. PassIf(t.tests /\ SuitePasses(EnsurePolicy(t), Len(SuiteRuns))) # "PASS"
         <=> ~ (t.tests /\ SuitePasses(EnsurePolicy(t), Len(SuiteRuns)))
  BY DEF PassIf
<1> QED
  BY <1>2, <1>3, <1>4, <1>5, <1>6 DEF Deserving

\* A nested run does what its test expects exactly when NestedPasses says so.
LEMMA NestedVerdict ==
    ASSUME NEW r \in RunRecord, Reached(r), r.at = Len(Stages(r.version)),
           NEW t \in Tree, EnsurePolicy(t) = t, ResultsDue("nested", r, t)
    PROVE  AsExpected(r, ExitCode(r.version, r.got)) <=> NestedPasses(r, t)
<1> DEFINE v == r.version
<1>1. "nested" \in Roles
  BY DEF Roles
<1>2. /\ r.got["identity"] = IdentityStatus(Who("nested", v, t), r.ci)
      /\ r.got["audit"] = AuditStatus(t)
      /\ r.got["gates"] = "PASS"
      /\ r.got["tests"] = "PASS"
      /\ r.got["smoke"] = SmokeDue("nested", v, r.ci, t)
      /\ r.got["leak"] = IF r.override THEN "FAIL" ELSE PassIf(t.leakfree)
      /\ r.gated <=> t.policy = "full"
  <2>1. {"identity", "audit", "gates", "tests", "smoke"} \subseteq Needed(v) \ {"leak"}
    BY DEF Needed
  <2>2. /\ \A s \in Needed(v) \ {"leak"} :
              r.got[s] = Due("nested", v, r.ci, t, s)
        /\ r.got["leak"] = IF r.override THEN "FAIL"
                           ELSE Due("nested", v, r.ci, t, "leak")
        /\ r.gated <=> t.policy = "full"
    BY <1>1, ResultsAtVerdict
  <2>3. /\ r.got["identity"] = Due("nested", v, r.ci, t, "identity")
        /\ r.got["audit"] = Due("nested", v, r.ci, t, "audit")
        /\ r.got["gates"] = Due("nested", v, r.ci, t, "gates")
        /\ r.got["tests"] = Due("nested", v, r.ci, t, "tests")
        /\ r.got["smoke"] = Due("nested", v, r.ci, t, "smoke")
    BY <2>1, <2>2
  <2>4. Due("nested", v, r.ci, t, "tests") = "PASS"
    BY DueOf DEF PassIf
  <2> QED
    BY <2>2, <2>3, <2>4, DueOf
<1>3. Blocked(v, r.got) <=>
         \/ \E s \in {"identity", "audit"} : r.got[s] = "FAIL"
         \/ \E s \in {"tests", "smoke", "leak"} : r.got[s] # "PASS"
         \/ v = "v11" /\ t.templates # "valid"
  BY <1>1, BlockedReads
<1>4. CASE r.override
  <2>1. ExitCode(v, r.got) = "leak" <=> r.got["identity"] # "FAIL"
    BY <1>2, <1>4 DEF ExitCode
  <2> QED
    BY <1>2, <1>4, <2>1 DEF AsExpected, NestedPasses
<1>5. CASE ~ r.override
  <2>1. ExitCode(v, r.got) = "ok" <=> ~ Blocked(v, r.got)
    BY ExitAgrees
  <2>2. AuditStatus(t) # "PASS" <=> AuditStatus(t) = "FAIL"
    BY DEF AuditStatus, PassIf
  <2>3. PassIf(t.leakfree) # "PASS" <=> ~ t.leakfree
    BY DEF PassIf
  <2>4. ExitCode(v, r.got) = "ok" <=>
           /\ IdentityStatus(Who("nested", v, t), r.ci) # "FAIL"
           /\ AuditStatus(t) = "PASS"
           /\ SmokeDue("nested", v, r.ci, t) = "PASS"
           /\ t.leakfree
           /\ v = "v11" => t.templates = "valid"
    BY <1>2, <1>3, <1>5, <2>1, <2>2, <2>3
  <2> QED
    BY <1>2, <1>5, <2>4 DEF AsExpected, NestedPasses
<1> QED
  BY <1>4, <1>5

\* Everything an undisturbed outer run on a releasable tree returns passes.
LEMMA ReleasableDue ==
    ASSUME NEW t \in Tree, NEW v \in Version, NEW ci \in BOOLEAN,
           Releasable(t, v, ci), NEW s \in TreeStages
    PROVE  /\ Passed(Due("outer", v, ci, t, s))
           /\ s # "identity" => Due("outer", v, ci, t, s) = "PASS"
<1>1. Deserving(v, ci, t) /\ t.templates = "valid"
  BY DeservingIsReleasable DEF Releasable, Fit
<1>2. Who("outer", v, t) = t.identity
  BY DEF Who
<1>3. IdentityStatus(t.identity, ci) \in {"PASS", "WARN"}
  BY <1>1 DEF Deserving, IdentityStatus
<1> QED
  BY <1>1, <1>2, <1>3 DEF Deserving, Due, TreeStages, Passed, PassIf

\* So does what its nested runs return before the test suite, and the
\* identity their smoke children see.
LEMMA NestedDue ==
    ASSUME NEW t \in Tree, NEW v \in Version, NEW ci \in BOOLEAN,
           Releasable(t, v, ci), NEW i \in 1 .. Len(SuiteRuns)
    PROVE  /\ \A s \in PreTests :
                 Passed(Due("nested", SuiteRuns[i].version, SuiteRuns[i].ci, t, s))
           /\ Passed(IdentityStatus(Who("nested", SuiteRuns[i].version, t),
                        SuiteRuns[i].version = "v1" /\ SuiteRuns[i].ci))
<1> DEFINE w == SuiteRuns[i].version
           c == SuiteRuns[i].ci
<1>1. /\ w \in {"v1", "v11"} /\ c \in BOOLEAN
      /\ w = "v1" => c
  <2>1. SuiteRuns[i] \in SuiteRun
    BY PipelineAssumption
  <2> QED
    BY <2>1, SuiteAssumption DEF SuiteRun, Version
<1>2. /\ AuditStatus(t) = "PASS" /\ t.templates = "valid"
      /\ t.identity \in {"owner", "bot"}
  BY DEF Releasable, Fit, AuditStatus, PassIf, Tree
<1> HIDE DEF w, c
<1>3. /\ Passed(IdentityStatus(Who("nested", w, t), c))
      /\ Passed(IdentityStatus(Who("nested", w, t), w = "v1" /\ c))
  <2>1. CASE w = "v1"
    BY <1>1, <1>2, <2>1 DEF Who, IdentityStatus, Passed
  <2>2. CASE w = "v11"
    <3>1. Who("nested", w, t) = "owner"
      BY <1>2, <2>2 DEF Who
    <3> QED
      BY <3>1 DEF IdentityStatus, Passed
  <2> QED
    BY <1>1, <2>1, <2>2
<1>4. \A s \in PreTests : Passed(Due("nested", w, c, t, s))
  BY <1>2, <1>3 DEF PreTests, ProposalStages, Due, Passed, PassIf
<1> QED
  BY <1>3, <1>4 DEF w, c

\* Where the gates stage stands to the others, in a run's results.
LEMMA GatesPlace ==
    ASSUME NEW r \in RunRecord, Reached(r),
           r.at \in 1 .. Len(Stages(r.version)),
           NEW s, s = Stages(r.version)[r.at]
    PROVE  /\ s \in {"audit", "gates"} => r.got["gates"] = "none"
           /\ s \in {"proposal", "tests", "smoke"} => r.got["gates"] # "none"
<1> DEFINE v == r.version
           n == Len(Stages(v))
<1>1. v \in Version /\ r.at \in 0 .. 15
  BY DEF RunRecord
<1>2. /\ n \in Nat /\ n > 4
      /\ Stages(v)[3] = "audit" /\ Stages(v)[4] = "gates"
      /\ \A i, j \in 1 .. n : Stages(v)[i] = Stages(v)[j] => i = j
      /\ \A i \in 1 .. n :
            Stages(v)[i] \in {"proposal", "tests", "smoke"} => i > 4
  BY <1>1, StageOrder
<1>3. /\ \A i \in 1 .. n : r.got[Stages(v)[i]] = "none" <=> i >= r.at
      /\ r.at \in 1 .. n /\ s = Stages(v)[r.at]
  BY DEF Reached
<1> HIDE DEF n, v
<1>4. 3 \in 1 .. n /\ 4 \in 1 .. n
  BY <1>2
<1>5. r.got["gates"] = "none" <=> 4 >= r.at
  BY <1>2, <1>3, <1>4
<1>6. s \in {"audit", "gates"} => r.at \in {3, 4}
  BY <1>2, <1>3, <1>4
<1>7. s \in {"proposal", "tests", "smoke"} => r.at > 4
  BY <1>2, <1>3
<1> QED
  BY <1>3, <1>5, <1>6, <1>7
-----------------------------------------------------------------------------
(* One stage of an undisturbed command.                                    *)

\* The two runs of a command.
LEMMA PairFacts ==
    ASSUME NEW c \in Command, NEW p \in Pair(c)
    PROVE  /\ p \in Proc /\ Owner(p) = c /\ Role(p) \in Roles
           /\ p = Outer(c) => Role(p) = "outer" /\ ~ IsNested(p) /\ p # Nested(c)
           /\ p = Nested(c) => Role(p) = "nested" /\ IsNested(p) /\ p # Outer(c)
           /\ p = Outer(c) \/ p = Nested(c)
BY DEF Pair, Proc, Outer, Nested, Owner, IsNested, Role, Roles

\* Where the runs of an undisturbed command are.
LEMMA PairRecords ==
    ASSUME PipelineInv, NEW c \in Command, CleanRun(c),
           NEW p \in Pair(c), Active(p)
    PROVE  /\ run[p] \in RunRecord /\ run[p].version \in Version
           /\ run[p].ci \in BOOLEAN /\ run[p].gated \in BOOLEAN
           /\ run[p].at \in 1 .. Len(Stages(run[p].version))
           /\ run[p].at \in 1 .. 15
           /\ Stages(run[p].version)[run[p].at] \in Stage
           /\ Reached(run[p])
           /\ ResultsDue(Role(p), run[p], StartOf(c, p))
           /\ start[c] \in Tree /\ StartOf(c, p) \in Tree
<1>1. p \in Proc
  BY PairFacts
<1>2. /\ run[p] \in RunRecord /\ run[p].version \in Version
      /\ run[p].ci \in BOOLEAN /\ run[p].gated \in BOOLEAN
      /\ run[p].at \in 0 .. 15 /\ run[p].at > 0
      /\ run[p].at <= Len(Stages(run[p].version))
      /\ start[c] \in Tree
  BY <1>1 DEF PipelineInv, TypeOK, RunOK, RunRecord, Active
<1>3. run[p].at \in 1 .. Len(Stages(run[p].version)) /\ run[p].at \in 1 .. 15
  <2> DEFINE n == Len(Stages(run[p].version))
  <2>1. n \in {11, 15} /\ run[p].at <= n
    BY <1>2, StageList
  <2> HIDE DEF n
  <2>2. run[p].at \in 1 .. n
    BY <1>2, <2>1
  <2> QED
    BY <1>2, <2>2 DEF n
<1>4. Stages(run[p].version)[run[p].at] \in Stage
  BY <1>2, <1>3, StageList
<1>5. StartOf(c, p) \in Tree
  BY <1>2, PolicyKept DEF StartOf
<1> QED
  BY <1>2, <1>3, <1>4, <1>5 DEF CleanRun, RunsInv

\* The tree while the outer run is not at the gates, and after it has seen to
\* the policy there.
LEMMA OuterTree ==
    ASSUME PipelineInv, NEW c \in Command, CleanRun(c)
    PROVE  LET r == run[Outer(c)]
               s == Stages(r.version)[r.at]
           IN  /\ s # "gates" => tree = IF r.got["gates"] = "none" THEN start[c]
                                        ELSE EnsurePolicy(start[c])
               /\ s = "gates" /\ r.open = "seen" => tree = EnsurePolicy(start[c])
               /\ s = "audit" => tree = start[c]
               /\ s \in {"tests", "smoke"} => tree = EnsurePolicy(start[c])
<1> DEFINE r == run[Outer(c)]
           s == Stages(r.version)[r.at]
<1>1. Outer(c) \in Pair(c) /\ Active(Outer(c)) /\ Outer(c) \in Proc
  BY ProcFacts DEF Pair, CleanRun
<1>2. /\ r \in RunRecord /\ Reached(r) /\ r.at \in 1 .. Len(Stages(r.version))
  BY <1>1, PairRecords
<1>3. /\ s \in {"audit", "gates"} => r.got["gates"] = "none"
      /\ s \in {"proposal", "tests", "smoke"} => r.got["gates"] # "none"
  BY <1>2, GatesPlace
<1>4. r.open # "no" => s \in {"gates", "proposal"}
  BY <1>1 DEF PipelineInv, RecordInv
<1>5. tree = TreeDuring(r, start[c])
  BY DEF CleanRun, TreeInv
<1> QED
  BY <1>3, <1>4, <1>5 DEF TreeDuring

\* A nested run has the tree its outer run repaired.
LEMMA NestedTree ==
    ASSUME PipelineInv, NEW c \in Command, CleanRun(c), suite[c].next > 0
    PROVE  /\ tree = EnsurePolicy(start[c])
           /\ \A j \in 1 .. run[Outer(c)].at - 1 :
                 Stages(run[Outer(c)].version)[j] \in PreTests
<1> DEFINE r == run[Outer(c)]
           n == Len(Stages(r.version))
<1>1. Active(Outer(c)) /\ Stages(r.version)[r.at] = "tests"
  BY DEF PipelineInv, Nesting, CleanRun
<1>2. r.version \in Version /\ r.at \in 1 .. n
  BY <1>1, PairRecords DEF Pair
<1>3. \A j \in 1 .. r.at - 1 : Stages(r.version)[j] \in PreTests
  BY <1>1, <1>2, StageOrder
<1>4. tree = EnsurePolicy(start[c])
  BY <1>1, OuterTree
<1> QED
  BY <1>3, <1>4

\* A nested run that is active has a suite, which its outer run waits for.
LEMMA NestedSuite ==
    ASSUME PipelineInv, NEW c \in Command, Active(Nested(c))
    PROVE  /\ suite[c].next \in 1 .. Len(SuiteRuns) /\ suite[c].next > 0
           /\ ~ Executing(Outer(c))
<1>1. suite[c].next \in 1 .. Len(SuiteRuns)
  BY DEF PipelineInv, Nesting
<1>2. suite[c].next > 0
  BY <1>1, PipelineAssumption
<1> QED
  BY <1>1, <1>2, ProcFacts DEF Executing

\* What is due of a stage now is what was due of it when the run started.
LEMMA DueNow ==
    ASSUME PipelineInv, NEW c \in Command, CleanRun(c),
           NEW p \in Pair(c), NEW s \in TreeStages, AtStage(p, s),
           s = "gates" => run[p].open = "seen"
    PROVE  /\ Due(Role(p), run[p].version, run[p].ci, tree, s) =
                 Due(Role(p), run[p].version, run[p].ci, StartOf(c, p), s)
           /\ s = "smoke" => EnsurePolicy(tree) = tree
           /\ EnsurePolicy(tree) = EnsurePolicy(start[c])
<1> DEFINE r == run[p]
<1>1. /\ Active(p) /\ Stages(r.version)[r.at] = s
      /\ r.version \in Version /\ r.ci \in BOOLEAN /\ start[c] \in Tree
  BY PairRecords DEF AtStage, Executing
<1>2. EnsurePolicy(EnsurePolicy(start[c])) = EnsurePolicy(start[c])
  BY <1>1, PolicyOnce
<1>3. CASE p = Nested(c)
  <2>1. tree = EnsurePolicy(start[c])
    BY <1>1, <1>3, NestedSuite, NestedTree
  <2>2. StartOf(c, p) = EnsurePolicy(start[c])
    BY <1>3, PairFacts DEF StartOf
  <2> QED
    BY <1>2, <2>1, <2>2
<1>4. CASE p = Outer(c)
  <2>1. StartOf(c, p) = start[c] /\ Role(p) \in Roles
    BY <1>4, PairFacts DEF StartOf
  <2>2. /\ tree \in {start[c], EnsurePolicy(start[c])}
        /\ s = "audit" => tree = start[c]
        /\ s = "smoke" => tree = EnsurePolicy(start[c])
    BY <1>1, <1>4, OuterTree
  <2>3. s # "audit" =>
           Due(Role(p), r.version, r.ci, EnsurePolicy(start[c]), s) =
              Due(Role(p), r.version, r.ci, start[c], s)
    BY <1>1, <2>1, DueAfterRepair
  <2> QED
    BY <1>2, <2>1, <2>2, <2>3
<1> QED
  BY <1>3, <1>4, PairFacts

\* What a stage s of the run p may do to the artifacts while the release is
\* still deserved: a nested run spoils none of the stages before the suite,
\* the outer run none at all, and it leaves a good one of its own.
GoodWrites(p, s) ==
    /\ \A w \in Version, u \in Stage :
          Passed(disk[w][u]) /\ (IsNested(p) => u \in PreTests) =>
              Passed(disk'[w][u])
    /\ ~ IsNested(p) => Passed(disk'[run[p].version][s])

\* Once there is a manifest, this step of a run p at the stage s leaves one.
Manifested(s) == s = "proposal" => disk'["v11"]["proposal"] = "PASS"

\* Artifacts of the outer run's finished stages stay good through a stage.
LEMMA StageKeepsArtifacts ==
    ASSUME PipelineInv, NEW c \in Command, CleanRun(c),
           NEW p \in Pair(c), NEW s \in Stage, Active(p),
           Stages(run[p].version)[run[p].at] = s,
           s = "gates" => run[p].open = "seen",
           NEW x \in RunRecord,
           x.at = run[p].at + 1, x.version = run[p].version, x.ci = run[p].ci,
           p = Outer(c) => ~ Active(Nested(c)),
           run' = [run EXCEPT ![p] = x], start' = start, Manifested(s),
           Releasable(start[c], run[Outer(c)].version, run[Outer(c)].ci) =>
              GoodWrites(p, s)
    PROVE  ArtifactsInv(c)'
<1> DEFINE r == run[Outer(c)]
           v == r.version
<1>1. run'[p] = x /\ \A q \in Proc \ {p} : run'[q] = run[q]
  BY PairFacts DEF PipelineInv, TypeOK, RunOK
<1>2. /\ Outer(c) \in Proc /\ Nested(c) \in Proc /\ Outer(c) # Nested(c)
      /\ ~ IsNested(Outer(c)) /\ IsNested(Nested(c))
  BY ProcFacts
<1>3. run'[Outer(c)].version = v /\ run'[Outer(c)].ci = r.ci
  BY <1>1, <1>2
<1>4. v \in Version /\ r.at \in 1 .. Len(Stages(v)) /\ r.at \in 1 .. 15
  BY PairRecords DEF Pair, CleanRun
<1>5. \A i \in 1 .. Len(Stages(v)) : Stages(v)[i] \in Stage
  BY <1>4, StageList
<1>6. Len(Stages(v)) \in Nat
  BY <1>4, StageList
<1>7. SUFFICES ASSUME Releasable(start[c], v, r.ci),
                      NEW i \in 1 .. run'[Outer(c)].at - 1
               PROVE  Passed(disk'[v][Stages(v)[i]])
  BY <1>3 DEF ArtifactsInv
<1>8. /\ \A w \in Version, u \in Stage :
            Passed(disk[w][u]) /\ (IsNested(p) => u \in PreTests) =>
                Passed(disk'[w][u])
      /\ ~ IsNested(p) => Passed(disk'[run[p].version][s])
  BY <1>7 DEF GoodWrites
<1>9. \A j \in 1 .. r.at - 1 :
         \/ Passed(disk[v][Stages(v)[j]])
         \/ Stages(v)[j] = "proposal" /\ Rewriting(c)
  BY <1>7 DEF CleanRun, ArtifactsInv
<1>10. ASSUME NEW j \in 1 .. r.at - 1, ~ Passed(disk[v][Stages(v)[j]])
       PROVE  p = Nested(c) /\ Passed(disk'[v][Stages(v)[j]])
  <2>1. /\ Stages(v)[j] = "proposal"
        /\ run[Nested(c)].open = "opened" /\ Active(Nested(c))
    BY <1>9, <1>10 DEF Rewriting
  <2>2. Stages(run[Nested(c)].version)[run[Nested(c)].at] \in {"gates", "proposal"}
    BY <1>2, <2>1 DEF PipelineInv, RecordInv
  <2>4. p = Nested(c)
    BY <2>1, PairFacts
  <2>5. s = "proposal"
    BY <2>1, <2>2, <2>4
  <2>6. v = "v11"
    <3>1. j \in 1 .. Len(Stages(v))
      <4> DEFINE n == Len(Stages(v))
      <4> HIDE DEF n
      <4>1. r.at \in 1 .. n /\ n \in Nat
        BY <1>4, <1>6 DEF n
      <4>2. j \in 1 .. n
        BY <4>1
      <4> QED
        BY <4>2 DEF n
    <3> QED
      BY <1>4, <2>1, <3>1, ProposalIsV11
  <2> QED
    BY <2>1, <2>4, <2>5, <2>6 DEF Manifested, Passed
<1>11. CASE p = Outer(c)
  <2>1. i \in 1 .. r.at
    BY <1>1, <1>4, <1>11
  <2>2. CASE i = r.at
    BY <1>2, <1>8, <1>11, <2>2
  <2>3. CASE i # r.at
    <3> DEFINE n == Len(Stages(v))
    <3> HIDE DEF n
    <3>1. r.at \in 1 .. n /\ n \in Nat
      BY <1>4, <1>6 DEF n
    <3>2. i \in 1 .. r.at - 1 /\ i \in 1 .. n
      BY <2>1, <2>3, <3>1
    <3>3. Stages(v)[i] \in Stage /\ Passed(disk[v][Stages(v)[i]])
      BY <1>2, <1>5, <1>10, <1>11, <3>2 DEF n
    <3> QED
      BY <1>2, <1>4, <1>8, <1>11, <3>3
  <2> QED
    BY <2>2, <2>3
<1>12. CASE p = Nested(c)
  <2>1. i \in 1 .. r.at - 1
    BY <1>1, <1>2, <1>12
  <2>2. Stages(v)[i] \in PreTests
    BY <1>12, <2>1, NestedSuite, NestedTree
  <2>3. PreTests \subseteq Stage
    BY DEF PreTests, Stage
  <2> QED
    BY <1>4, <1>8, <1>10, <2>1, <2>2, <2>3
<1> QED
  BY <1>11, <1>12, PairFacts

\* Every stage but the verdict and the suite keeps what an undisturbed run
\* counts on, when it records what is due and writes no bad artifact.
LEMMA StageKeepsClean ==
    ASSUME PipelineInv, NEW c \in Command, CleanRun(c),
           NEW p \in Pair(c), NEW s \in Stage, s # "verdict", Active(p),
           Stages(run[p].version)[run[p].at] = s,
           s = "gates" => run[p].open = "seen",
           p = Outer(c) => ~ Active(Nested(c)),
           p = Nested(c) => suite' = suite,
           NEW x \in RunRecord, x.open = "no",
           x.at = run[p].at + 1, x.version = run[p].version,
           x.ci = run[p].ci, x.override = run[p].override,
           Reached(x), ResultsDue(Role(p), x, StartOf(c, p)),
           x.got["gates"] = "none" <=> s # "gates" /\ run[p].got["gates"] = "none",
           tree' = tree, Manifested(s),
           run' = [run EXCEPT ![p] = x], start' = start,
           Releasable(start[c], run[Outer(c)].version, run[Outer(c)].ci) =>
              GoodWrites(p, s),
           SuiteInv(c)'
    PROVE  CleanRun(c)'
<1>1. run'[p] = x /\ \A q \in Proc \ {p} : run'[q] = run[q]
  BY PairFacts DEF PipelineInv, TypeOK, RunOK
<1>2. /\ Outer(c) \in Proc /\ Nested(c) \in Proc /\ Outer(c) # Nested(c)
      /\ ~ IsNested(Outer(c)) /\ Owner(Outer(c)) = c
  BY ProcFacts
<1>3. /\ run[p].version \in Version
      /\ run[p].at \in 1 .. Len(Stages(run[p].version)) /\ run[p].at \in 1 .. 15
  BY PairRecords
<1>4. Active(Outer(c))' /\ ~ run'[Outer(c)].override
  <2>1. CASE p = Outer(c)
    BY <1>1, <1>3, <2>1 DEF CleanRun, Active
  <2>2. CASE p # Outer(c)
    BY <1>1, <1>2, <2>2 DEF CleanRun, Active
  <2> QED
    BY <2>1, <2>2
<1>5. RunsInv(c)'
  <2>1. ASSUME NEW q \in Pair(c), Active(q)'
        PROVE  /\ Reached(run'[q])
               /\ ResultsDue(Role(q), run'[q], StartOf(c, q)')
    <3>1. StartOf(c, q)' = StartOf(c, q)
      BY DEF StartOf
    <3>2. CASE q = p
      BY <1>1, <3>1, <3>2
    <3>3. CASE q # p
      BY <1>1, <2>1, <3>1, <3>3, PairFacts DEF CleanRun, RunsInv, Active
    <3> QED
      BY <3>2, <3>3
  <2> QED
    BY <2>1 DEF RunsInv
<1>6. TreeInv(c)'
  <2>1. CASE p = Outer(c)
    <3>1. s # "gates" => tree = IF run[p].got["gates"] = "none" THEN start[c]
                                ELSE EnsurePolicy(start[c])
      BY <2>1, OuterTree
    <3>2. s = "gates" => tree = EnsurePolicy(start[c])
      BY <2>1, OuterTree
    <3> QED
      BY <1>1, <2>1, <3>1, <3>2 DEF TreeInv, TreeDuring
  <2>2. CASE p = Nested(c)
    BY <1>1, <1>2, <2>2 DEF CleanRun, TreeInv
  <2> QED
    BY <2>1, <2>2, PairFacts
<1>7. ManifestInv(c)'
  <2>1. ASSUME NEW q \in Pair(c), AtStage(q, "validation")'
        PROVE  disk'["v11"]["proposal"] = "PASS"
    <3>1. Active(q)' /\ Stages(run'[q].version)[run'[q].at] = "validation"
      BY <2>1 DEF AtStage, Executing
    <3>2. CASE q = p
      <4> DEFINE n == Len(Stages(x.version))
      <4>1. Stages(x.version)[x.at] = "validation" /\ x.at = run[p].at + 1
        BY <1>1, <3>1, <3>2
      <4>2. /\ x.version \in Version /\ n \in Nat
            /\ run[p].at \in 1 .. n /\ run[p].at # n
        BY <1>3, StageList
      <4> HIDE DEF n
      <4>3. x.at \in 1 .. n
        BY <4>1, <4>2
      <4>4. Stages(x.version)[x.at - 1] = "proposal"
        BY <4>1, <4>2, <4>3, StageOrder DEF n
      <4>5. s = "proposal"
        BY <1>3, <4>1, <4>4
      <4> QED
        BY <4>5 DEF Manifested
    <3>3. CASE q # p
      <4>1. Active(q)
        BY <1>1, <3>1, <3>3, PairFacts DEF Active
      <4>2. q = Outer(c) /\ p = Nested(c)
        BY <3>3, <4>1, PairFacts
      <4>3. suite'[c].next > 0
        BY <4>2, NestedSuite
      <4>4. suite'[c].next = 0
        BY <1>2, <2>1, <4>2 DEF AtStage, Executing
      <4> QED
        BY <4>3, <4>4
    <3> QED
      BY <3>2, <3>3
  <2> QED
    BY <2>1 DEF ManifestInv
<1>8. FoundInv(c)'
  <2>1. CASE p = Nested(c)
    BY <1>1, <2>1 DEF FoundInv
  <2>2. CASE p # Nested(c)
    BY <1>1, <1>2, <2>2 DEF CleanRun, FoundInv, Active
  <2> QED
    BY <2>1, <2>2
<1>9. ArtifactsInv(c)'
  BY StageKeepsArtifacts
<1> QED
  BY <1>4, <1>5, <1>6, <1>7, <1>8, <1>9 DEF CleanRun

\* The suite goes on as it did when a step inside a stage, or from one to the
\* next, leaves it alone.
LEMMA StageKeepsSuite ==
    ASSUME PipelineInv, NEW c \in Command, CleanRun(c),
           NEW p \in Pair(c), Active(p),
           NEW x, x.version = run[p].version, x.ci = run[p].ci,
           x.override = run[p].override,
           run' = [run EXCEPT ![p] = x], start' = start, suite' = suite
    PROVE  SuiteInv(c)'
<1>1. run'[p] = x /\ \A q \in Proc \ {p} : run'[q] = run[q]
  BY PairFacts DEF PipelineInv, TypeOK, RunOK
<1>2. Nested(c) \in Proc
  BY ProcFacts
<1>3. Active(Nested(c))' => Active(Nested(c))
  BY <1>1, <1>2 DEF Active
<1>4. /\ run'[Nested(c)].version = run[Nested(c)].version
      /\ run'[Nested(c)].ci = run[Nested(c)].ci
      /\ run'[Nested(c)].override = run[Nested(c)].override
  BY <1>1, <1>2
<1> QED
  BY <1>3, <1>4 DEF CleanRun, SuiteInv

\* A run at a stage is the one of the two that goes on.
LEMMA Alone ==
    ASSUME PipelineInv, NEW c \in Command, NEW p \in Pair(c), Executing(p)
    PROVE  Active(p) /\ (p = Outer(c) => ~ Active(Nested(c)))
BY NestedSuite DEF Executing

\* A stage that looks at the tree: it records what is due of the tree there
\* is now.
LEMMA TreeStageKeepsClean ==
    ASSUME PipelineInv, NEW c \in Command, CleanRun(c),
           NEW p \in Pair(c), NEW s \in TreeStages, AtStage(p, s),
           s = "gates" => run[p].open = "seen",
           NEW g, g \in BOOLEAN,
           IF s = "gates" THEN g <=> EnsurePolicy(tree).policy = "full"
           ELSE g = run[p].gated,
           NEW x, x = Moved([run[p] EXCEPT !.gated = g], s,
                            Due(Role(p), run[p].version, run[p].ci, tree, s)),
           run' = [run EXCEPT ![p] = x],
           tree' = tree, Manifested(s),
           start' = start, suite' = suite,
           Releasable(start[c], run[Outer(c)].version, run[Outer(c)].ci) =>
              GoodWrites(p, s)
    PROVE  CleanRun(c)'
<1> DEFINE r == run[p]
<1>1. TreeStages \subseteq Stage /\ s \in Stage /\ "gates" \in Stage
      /\ s # "verdict"
  BY DEF TreeStages, Stage, ProposalStages
<1>2. Active(p) /\ (p = Outer(c) => ~ Active(Nested(c)))
  BY Alone DEF AtStage
<1>3. /\ r \in RunRecord
      /\ r.at \in 1 .. Len(Stages(r.version))
      /\ Stages(r.version)[r.at] = s
      /\ Reached(r) /\ ResultsDue(Role(p), r, StartOf(c, p))
      /\ start[c] \in Tree /\ Role(p) \in Roles
  BY <1>2, PairRecords, PairFacts DEF AtStage
<1>4. /\ Due(Role(p), r.version, r.ci, tree, s) =
            Due(Role(p), r.version, r.ci, StartOf(c, p), s)
      /\ EnsurePolicy(tree) = EnsurePolicy(start[c])
  BY DueNow
<1>5. EnsurePolicy(StartOf(c, p)) = EnsurePolicy(tree)
  BY <1>3, <1>4, PolicyOnce DEF StartOf
<1>6. IF s = "gates" THEN g <=> EnsurePolicy(StartOf(c, p)).policy = "full"
      ELSE g = r.gated
  BY <1>5
<1>7. x = Moved([r EXCEPT !.gated = g], s,
                Due(Role(p), r.version, r.ci, StartOf(c, p), s))
  BY <1>4
<1>8. /\ x \in RunRecord
      /\ x.at = r.at + 1 /\ x.version = r.version /\ x.open = "no"
      /\ x.ci = r.ci /\ x.override = r.override
      /\ x.got[s] = Due(Role(p), r.version, r.ci, StartOf(c, p), s)
      /\ \A u \in Stage \ {s} : x.got[u] = r.got[u]
      /\ Reached(x)
      /\ ResultsDue(Role(p), x, StartOf(c, p))
  <2>1. s = Stages(r.version)[r.at]
    BY <1>3
  <2> HIDE DEF r
  <2> QED
    BY <1>3, <1>6, <1>7, <2>1, DueStep
<1>9. x.got[s] # "none"
  BY <1>8, DueStatus
<1>10. x.got["gates"] = "none" <=> s # "gates" /\ r.got["gates"] = "none"
  BY <1>1, <1>8, <1>9
<1>11. SuiteInv(c)'
  BY <1>2, <1>8, StageKeepsSuite
<1> QED
  BY <1>1, <1>2, <1>3, <1>8, <1>10, <1>11, StageKeepsClean

\* What passes before the suite, and in the outer run altogether, when the
\* release is deserved.
LEMMA DuePasses ==
    ASSUME PipelineInv, NEW c \in Command, CleanRun(c),
           Releasable(start[c], run[Outer(c)].version, run[Outer(c)].ci),
           NEW p \in Pair(c), NEW s \in TreeStages, Active(p),
           IsNested(p) => s \in PreTests
    PROVE  Passed(Due(Role(p), run[p].version, run[p].ci, StartOf(c, p), s))
<1>1. /\ start[c] \in Tree
      /\ run[Outer(c)].version \in Version /\ run[Outer(c)].ci \in BOOLEAN
  BY PairRecords DEF Pair, CleanRun
<1>2. CASE p = Outer(c)
  BY <1>1, <1>2, ReleasableDue, PairFacts DEF StartOf
<1>3. CASE p = Nested(c)
  <2>1. StartOf(c, p) = start[c] /\ Role(p) = "nested" /\ IsNested(p)
    BY <1>1, <1>3, PolicyOnce, PairFacts DEF StartOf, Releasable
  <2>2. suite[c].next \in 1 .. Len(SuiteRuns)
    BY <1>3, NestedSuite
  <2>3. run[p].version = SuiteRuns[suite[c].next].version
        /\ run[p].ci = SuiteRuns[suite[c].next].ci
    BY <1>3 DEF CleanRun, SuiteInv
  <2> QED
    BY <1>1, <2>1, <2>2, <2>3, NestedDue
<1> QED
  BY <1>2, <1>3, PairFacts

\* One artifact written by a stage.
LEMMA WriteIsGood ==
    ASSUME PipelineInv, NEW p \in Proc, NEW s \in Stage, NEW status,
           Write(run[p].version, s, status),
           Passed(status) \/ (IsNested(p) /\ s \notin PreTests)
    PROVE  GoodWrites(p, s)
<1>1. /\ run[p].version \in Version
      /\ disk \in [Version -> [Stage -> ArtifactStatus]]
  BY DEF PipelineInv, TypeOK, RunOK, RunRecord, DiskOK
<1>2. \A w \in Version, u \in Stage :
         disk'[w][u] = IF w = run[p].version /\ u = s THEN status ELSE disk[w][u]
  BY <1>1 DEF Write
<1>3. ~ IsNested(p) => Passed(status)
  OBVIOUS
<1> QED
  BY <1>1, <1>2, <1>3 DEF GoodWrites

\* The common case: a stage writes the status it records, or, in a nested
\* run's skipped tests, another one.
LEMMA ReportKeepsClean ==
    ASSUME PipelineInv, NEW c \in Command, CleanRun(c),
           NEW p \in Pair(c), NEW s \in TreeStages, AtStage(p, s),
           s # "gates",
           Advance(p, s, Due(Role(p), run[p].version, run[p].ci, tree, s)),
           NEW status, Write(run[p].version, s, status),
           \/ status = Due(Role(p), run[p].version, run[p].ci, tree, s)
           \/ IsNested(p) /\ s \notin PreTests,
           tree' = tree, start' = start, suite' = suite
    PROVE  CleanRun(c)'
<1> DEFINE r == run[p]
           x == Moved([r EXCEPT !.gated = r.gated], s,
                      Due(Role(p), r.version, r.ci, tree, s))
<1>1. /\ s \in Stage /\ "proposal" \in Stage /\ "v11" \in Version
  BY DEF TreeStages, Stage, ProposalStages, Version
<1>2. Active(p) /\ Stages(r.version)[r.at] = s /\ p \in Proc
  BY PairFacts DEF AtStage, Executing
<1>3. /\ r \in RunRecord /\ r.version \in Version /\ r.gated \in BOOLEAN
      /\ r.at \in 1 .. Len(Stages(r.version))
      /\ start[c] \in Tree
  BY <1>2, PairRecords
<1>4. run' = [run EXCEPT ![p] = x]
  <2>1. [r EXCEPT !.gated = r.gated] = r
    BY <1>3 DEF RunRecord
  <2>2. run' = [run EXCEPT ![p] = Moved(run[p], s,
                   Due(Role(p), run[p].version, run[p].ci, tree, s))]
    BY DEF Advance, PipelineInv, TypeOK, RunOK
  <2> QED
    BY <2>1, <2>2
<1>5. Due(Role(p), r.version, r.ci, tree, s) =
         Due(Role(p), r.version, r.ci, StartOf(c, p), s)
  BY DueNow
<1>6. ASSUME Releasable(start[c], run[Outer(c)].version, run[Outer(c)].ci)
      PROVE  GoodWrites(p, s)
  <2>1. Passed(status) \/ (IsNested(p) /\ s \notin PreTests)
    BY <1>2, <1>5, <1>6, DuePasses
  <2> QED
    BY <1>1, <1>2, <2>1, WriteIsGood
<1>7. Manifested(s)
  <2>1. disk \in [Version -> [Stage -> ArtifactStatus]]
    BY DEF PipelineInv, TypeOK, DiskOK
  <2>2. SUFFICES ASSUME s = "proposal"
                 PROVE  disk'["v11"]["proposal"] = "PASS"
    BY DEF Manifested
  <2>3. r.version = "v11"
    BY <1>2, <1>3, <2>2, ProposalIsV11
  <2>4. s \in PreTests
    BY <2>2 DEF PreTests, ProposalStages
  <2>5. status = "PASS"
    BY <2>2, <2>4 DEF Due, ProposalStages
  <2> QED
    BY <1>1, <2>1, <2>2, <2>3, <2>5 DEF Write
<1> HIDE DEF x
<1>8. x = Moved([r EXCEPT !.gated = r.gated], s,
                Due(Role(p), r.version, r.ci, tree, s))
  BY DEF x
<1> QED
  BY <1>3, <1>4, <1>6, <1>7, <1>8, TreeStageKeepsClean


\* A step inside the gates or the proposal stage keeps what an undisturbed run
\* counts on: of the artifacts it may only empty the manifest it is to write.
LEMMA HandleKeepsClean ==
    ASSUME PipelineInv, NEW c \in Command, CleanRun(c),
           NEW p \in Pair(c), NEW s \in {"gates", "proposal"}, NEW from,
           NEW to \in {"missed", "opened", "seen"}, Handle(p, s, from, to),
           p = Nested(c) => from # "opened",
           \/ disk' = disk
           \/ s = "proposal" /\ to = "opened" /\ Write("v11", "proposal", "FAIL"),
           start' = start, suite' = suite,
           TreeInv(c)', FoundInv(c)'
    PROVE  CleanRun(c)'
<1> DEFINE x == [run[p] EXCEPT !.open = to]
<1>1. /\ AtStage(p, s) /\ Executing(p) /\ Active(p)
      /\ Stages(run[p].version)[run[p].at] = s
      /\ run[p].open = from
      /\ run' = [run EXCEPT ![p] = x]
      /\ p \in Proc /\ run \in [Proc -> RunRecord]
  BY PairFacts DEF Handle, AtStage, Executing, PipelineInv, TypeOK, RunOK
<1>2. /\ run[p] \in RunRecord /\ run[p].version \in Version
      /\ Reached(run[p]) /\ ResultsDue(Role(p), run[p], StartOf(c, p))
      /\ run[p].at \in 1 .. Len(Stages(run[p].version))
  BY <1>1, PairRecords
<1>3. /\ x.at = run[p].at /\ x.version = run[p].version
      /\ x.ci = run[p].ci /\ x.override = run[p].override
      /\ x.got = run[p].got /\ x.gated = run[p].gated /\ x.open = to
  BY <1>2 DEF RunRecord
<1> HIDE DEF x
<1>4. run'[p] = x /\ \A q \in Proc \ {p} : run'[q] = run[q]
  BY <1>1
<1>5. /\ Outer(c) \in Proc /\ Nested(c) \in Proc /\ Outer(c) # Nested(c)
      /\ ~ IsNested(Outer(c)) /\ Owner(Outer(c)) = c
  BY ProcFacts
<1>6. \A q \in Proc : /\ run'[q].at = run[q].at /\ run'[q].ci = run[q].ci
                      /\ run'[q].version = run[q].version
                      /\ run'[q].override = run[q].override
                      /\ Active(q)' <=> Active(q)
  BY <1>3, <1>4 DEF Active
<1>7. Active(Outer(c))' /\ ~ run'[Outer(c)].override
  BY <1>5, <1>6 DEF CleanRun
<1>8. RunsInv(c)'
  <2>1. ASSUME NEW q \in Pair(c), Active(q)'
        PROVE  /\ Reached(run'[q])
               /\ ResultsDue(Role(q), run'[q], StartOf(c, q)')
    <3>1. StartOf(c, q)' = StartOf(c, q)
      BY DEF StartOf
    <3>2. CASE q = p
      <4>1. Reached(x)
        BY <1>2, <1>3 DEF Reached
      <4>2. ResultsDue(Role(p), x, StartOf(c, p))
        BY <1>2, <1>3 DEF ResultsDue
      <4> QED
        BY <1>4, <3>1, <3>2, <4>1, <4>2
    <3>3. CASE q # p
      BY <1>4, <1>6, <2>1, <3>1, <3>3, PairFacts DEF CleanRun, RunsInv
    <3> QED
      BY <3>2, <3>3
  <2> QED
    BY <2>1 DEF RunsInv
<1>9. ManifestInv(c)'
  <2>1. ASSUME NEW q \in Pair(c), AtStage(q, "validation")'
        PROVE  FALSE
    <3>1. q \in Proc /\ Executing(q)'
      BY <2>1, PairFacts DEF AtStage
    <3>2. Stages(run[q].version)[run[q].at] = "validation"
      BY <1>6, <2>1, <3>1 DEF AtStage
    <3>3. q # p
      BY <1>1, <3>2
    <3>4. Executing(q)
      BY <1>6, <3>1 DEF Executing
    <3> QED
      BY <1>1, <3>3, <3>4, Alone, PairFacts, NestedSuite
  <2> QED
    BY <2>1 DEF ManifestInv
<1>10. SuiteInv(c)'
  BY <1>1, <1>3, StageKeepsSuite
<1>11. ArtifactsInv(c)'
  <2> DEFINE r == run[Outer(c)]
             v == r.version
  <2>1. /\ run'[Outer(c)].version = v /\ run'[Outer(c)].ci = r.ci
        /\ run'[Outer(c)].at = r.at
    BY <1>5, <1>6
  <2>2. SUFFICES ASSUME Releasable(start[c], v, r.ci), NEW i \in 1 .. r.at - 1
                 PROVE  \/ Passed(disk'[v][Stages(v)[i]])
                        \/ Stages(v)[i] = "proposal" /\ Rewriting(c)'
    BY <2>1 DEF ArtifactsInv
  <2>3. \/ Passed(disk[v][Stages(v)[i]])
        \/ Stages(v)[i] = "proposal" /\ Rewriting(c)
    BY <2>2 DEF CleanRun, ArtifactsInv
  <2>4. CASE p = Nested(c)
    <3>1. ~ Rewriting(c)
      BY <1>1, <2>4 DEF Rewriting
    <3>2. Passed(disk[v][Stages(v)[i]])
      BY <2>3, <3>1
    <3>3. CASE disk' = disk
      BY <3>2, <3>3
    <3>4. CASE to = "opened" /\ Write("v11", "proposal", "FAIL")
      <4>1. Rewriting(c)'
        BY <1>1, <1>3, <1>4, <1>6, <2>4, <3>4 DEF Rewriting
      <4>2. Stages(v)[i] # "proposal" =>
               disk'[v][Stages(v)[i]] = disk[v][Stages(v)[i]]
        <5>1. /\ v \in Version /\ Stages(v)[i] \in PreTests
          BY <2>2, <2>4, <1>1, NestedSuite, NestedTree, PairRecords
          DEF Pair, CleanRun
        <5>2. Stages(v)[i] \in Stage
          BY <5>1 DEF PreTests, Stage
        <5> QED
          BY <3>4, <5>1, <5>2 DEF Write, PipelineInv, TypeOK, DiskOK
      <4> QED
        BY <3>2, <4>1, <4>2
    <3> QED
      BY <3>3, <3>4
  <2>5. CASE p = Outer(c)
    <3>1. ~ Rewriting(c) /\ Passed(disk[v][Stages(v)[i]])
      BY <1>1, <2>3, <2>5, Alone DEF Rewriting
    <3>2. CASE disk' = disk
      BY <3>1, <3>2
    <3>3. CASE s = "proposal" /\ Write("v11", "proposal", "FAIL")
      <4> DEFINE n == Len(Stages(v))
      <4>1. /\ v \in Version /\ n \in Nat /\ r.at \in 1 .. n
            /\ Stages(v)[r.at] = "proposal"
            /\ \A j, k \in 1 .. n : Stages(v)[j] = Stages(v)[k] => j = k
            /\ \A j \in 1 .. n : Stages(v)[j] \in Stage
        BY <1>1, <1>2, <2>5, <3>3, StageOrder, StageList
      <4> HIDE DEF n
      <4>2. i \in 1 .. n /\ i # r.at
        BY <2>2, <4>1
      <4>3. Stages(v)[i] \in Stage /\ Stages(v)[i] # "proposal"
        BY <4>1, <4>2
      <4>4. disk'[v][Stages(v)[i]] = disk[v][Stages(v)[i]]
        BY <3>3, <4>1, <4>3 DEF Write, PipelineInv, TypeOK, DiskOK
      <4> QED
        BY <3>1, <4>4
    <3> QED
      BY <3>2, <3>3
  <2> QED
    BY <2>4, <2>5, PairFacts
<1> QED
  BY <1>7, <1>8, <1>9, <1>10, <1>11 DEF CleanRun

\* The tree and a nested run's policy in these steps: while the outer run is at
\* its gates the tree is on the way to the repaired one, and a nested run finds
\* the policy there.
LEMMA HandleTree ==
    ASSUME PipelineInv, NEW c \in Command, CleanRun(c), NEW p \in Pair(c),
           NEW s \in {"gates", "proposal"}, NEW from,
           NEW to \in {"missed", "opened", "seen"}, Handle(p, s, from, to),
           s = "proposal" => to = "opened" /\ tree' = tree,
           s = "gates" => /\ p = Nested(c) => to = "seen" /\ tree' = tree
                          /\ p = Outer(c) => tree' = TreeDuring([run[p] EXCEPT !.open = to],
                                                        start[c])
                          /\ p = Outer(c) /\ to # "seen" => start[c].policy = "absent",
           start' = start
    PROVE  TreeInv(c)' /\ FoundInv(c)'
<1> DEFINE x == [run[p] EXCEPT !.open = to]
<1>1. /\ Active(p) /\ Stages(run[p].version)[run[p].at] = s
      /\ run' = [run EXCEPT ![p] = x]
      /\ p \in Proc /\ run \in [Proc -> RunRecord]
  BY PairFacts DEF Handle, AtStage, Executing, PipelineInv, TypeOK, RunOK
<1>2. /\ run[p] \in RunRecord /\ Reached(run[p])
      /\ run[p].at \in 1 .. Len(Stages(run[p].version))
  BY <1>1, PairRecords
<1>3. x.got = run[p].got /\ x.open = to /\ x.at = run[p].at
  BY <1>2 DEF RunRecord
<1>4. /\ s = "gates" => run[p].got["gates"] = "none"
      /\ s = "proposal" => run[p].got["gates"] # "none"
  BY <1>1, <1>2, GatesPlace
<1>5. run'[p] = x /\ \A q \in Proc \ {p} : run'[q] = run[q]
  BY <1>1
<1>6. Outer(c) \in Proc /\ Nested(c) \in Proc /\ Outer(c) # Nested(c)
  BY ProcFacts
<1>7. CASE p = Outer(c)
  <2>1. TreeInv(c)'
    <3>1. CASE s = "gates"
      <4>1. tree' = TreeDuring(x, start[c])
        BY <1>7, <3>1
      <4>2. to # "seen" => start[c].policy = "absent"
        BY <1>7, <3>1
      <4> HIDE DEF x
      <4> QED
        BY <1>3, <1>5, <1>7, <4>1, <4>2 DEF TreeInv
    <3>2. CASE s = "proposal"
      <4>1. tree = EnsurePolicy(start[c])
        BY <1>1, <1>4, <1>7, <3>2, OuterTree
      <4> HIDE DEF x
      <4> QED
        BY <1>3, <1>4, <1>5, <1>7, <3>2, <4>1 DEF TreeInv, TreeDuring
    <3> QED
      BY <3>1, <3>2
  <2>2. FoundInv(c)'
    BY <1>5, <1>6, <1>7 DEF CleanRun, FoundInv, Active
  <2> QED
    BY <2>1, <2>2
<1>8. CASE p = Nested(c)
  <2>1. TreeInv(c)'
    BY <1>5, <1>6, <1>8 DEF CleanRun, TreeInv
  <2>2. FoundInv(c)'
    <3> HIDE DEF x
    <3> QED
      BY <1>3, <1>4, <1>5, <1>8 DEF FoundInv
  <2> QED
    BY <2>1, <2>2
<1> QED
  BY <1>7, <1>8, PairFacts

\* The steps that see to the policy, and the one that empties the manifest.
LEMMA HandleStepKeepsClean ==
    ASSUME PipelineInv, NEW c \in Command, CleanRun(c), NEW p \in Pair(c),
           \/ FindPolicy(p) \/ OpenPolicy(p) \/ WritePolicy(p)
           \/ OpenProposal(p)
    PROVE  CleanRun(c)'
<1> DEFINE r == run[p]
<1>1. Active(p) /\ start' = start /\ suite' = suite
  BY DEF FindPolicy, OpenPolicy, WritePolicy, OpenProposal, Handle, AtStage,
         Executing, history
<1>2. /\ r \in RunRecord /\ Reached(r)
      /\ r.at \in 1 .. Len(Stages(r.version))
      /\ start[c] \in Tree
  BY <1>1, PairRecords
<1>3. Stages(r.version)[r.at] = "gates" => r.got["gates"] = "none"
  BY <1>2, GatesPlace
<1>4. p = Nested(c) =>
         /\ tree = EnsurePolicy(start[c]) /\ tree.policy # "absent"
         /\ r.got["gates"] = "none" => r.open \in {"no", "seen"}
  <2> SUFFICES ASSUME p = Nested(c)
               PROVE  /\ tree = EnsurePolicy(start[c]) /\ tree.policy # "absent"
                      /\ r.got["gates"] = "none" => r.open \in {"no", "seen"}
    OBVIOUS
  <2>1. tree = EnsurePolicy(start[c])
    BY <1>1, NestedSuite, NestedTree
  <2> QED
    BY <1>1, <1>2, <2>1, PolicyOnce DEF CleanRun, FoundInv
<1>5. p = Outer(c) =>
         /\ tree = TreeDuring(r, start[c])
         /\ r.got["gates"] = "none" /\ r.open \in {"missed", "opened"} =>
               start[c].policy = "absent"
  BY DEF CleanRun, TreeInv
<1>6. \A to \in {"missed", "opened", "seen"} :
         /\ [r EXCEPT !.open = to].got = r.got
         /\ [r EXCEPT !.open = to].open = to
  BY <1>2 DEF RunRecord
<1>7. CASE FindPolicy(p)
  <2> DEFINE to == IF tree.policy = "absent" THEN "missed" ELSE "seen"
  <2>1. /\ Handle(p, "gates", "no", to) /\ tree' = tree /\ disk' = disk
        /\ r.open = "no" /\ Stages(r.version)[r.at] = "gates"
    BY <1>7 DEF FindPolicy, Handle, AtStage
  <2>2. p = Outer(c) => tree = start[c]
    BY <1>3, <1>5, <2>1 DEF TreeDuring
  <2>3. p = Outer(c) => tree' = TreeDuring([r EXCEPT !.open = to], start[c])
    BY <1>2, <1>3, <1>6, <2>1, <2>2, PolicyOnce DEF TreeDuring
  <2>4. p = Outer(c) /\ to # "seen" => start[c].policy = "absent"
    BY <2>2
  <2>5. p = Nested(c) => to = "seen"
    BY <1>4
  <2>6. to \in {"missed", "opened", "seen"}
    OBVIOUS
  <2> HIDE DEF to
  <2>7. TreeInv(c)' /\ FoundInv(c)'
    BY <1>1, <2>1, <2>3, <2>4, <2>5, <2>6, HandleTree
  <2> QED
    BY <1>1, <2>1, <2>6, <2>7, HandleKeepsClean
<1>8. CASE OpenPolicy(p)
  <2>1. /\ Handle(p, "gates", "missed", "opened") /\ disk' = disk
        /\ tree' = [tree EXCEPT !.policy = "empty"]
        /\ r.open = "missed" /\ Stages(r.version)[r.at] = "gates"
    BY <1>8 DEF OpenPolicy, Handle, AtStage
  <2>2. p = Outer(c)
    BY <1>3, <1>4, <2>1, PairFacts
  <2>3. tree = start[c] /\ start[c].policy = "absent"
    BY <1>3, <1>5, <2>1, <2>2 DEF TreeDuring
  <2>4. tree' = TreeDuring([r EXCEPT !.open = "opened"], start[c])
    BY <1>3, <1>6, <2>1, <2>3 DEF TreeDuring
  <2>5. p # Nested(c)
    BY <2>2, PairFacts
  <2>6. TreeInv(c)' /\ FoundInv(c)'
    BY <1>1, <2>1, <2>3, <2>4, <2>5, HandleTree
  <2> QED
    BY <1>1, <2>1, <2>5, <2>6, HandleKeepsClean
<1>9. CASE WritePolicy(p)
  <2>1. /\ Handle(p, "gates", "opened", "seen") /\ disk' = disk
        /\ tree' = [tree EXCEPT !.policy = "full"]
        /\ r.open = "opened" /\ Stages(r.version)[r.at] = "gates"
    BY <1>9 DEF WritePolicy, Handle, AtStage
  <2>2. p = Outer(c)
    BY <1>3, <1>4, <2>1, PairFacts
  <2>3. tree = [start[c] EXCEPT !.policy = "empty"] /\ start[c].policy = "absent"
    BY <1>3, <1>5, <2>1, <2>2 DEF TreeDuring
  <2>4. tree' = EnsurePolicy(start[c])
    BY <1>2, <2>1, <2>3 DEF EnsurePolicy, Tree
  <2>5. tree' = TreeDuring([r EXCEPT !.open = "seen"], start[c])
    BY <1>6, <2>4 DEF TreeDuring
  <2>6. p # Nested(c)
    BY <2>2, PairFacts
  <2>7. TreeInv(c)' /\ FoundInv(c)'
    BY <1>1, <2>1, <2>5, <2>6, HandleTree
  <2> QED
    BY <1>1, <2>1, <2>6, <2>7, HandleKeepsClean
<1>10. CASE OpenProposal(p)
  <2>1. /\ Handle(p, "proposal", "no", "opened") /\ tree' = tree
        /\ Write("v11", "proposal", "FAIL")
    BY <1>10 DEF OpenProposal
  <2>2. TreeInv(c)' /\ FoundInv(c)'
    BY <1>1, <2>1, HandleTree
  <2> QED
    BY <1>1, <2>1, <2>2, HandleKeepsClean
<1> QED
  BY <1>7, <1>8, <1>9, <1>10

\* The gates stage reads the policy it has seen to.
LEMMA GatesKeepClean ==
    ASSUME PipelineInv, NEW c \in Command, CleanRun(c), NEW p \in Pair(c),
           CheckGates(p)
    PROVE  CleanRun(c)'
<1> DEFINE r == run[p]
           g == EnsurePolicy(tree).policy = "full"
           x == Moved([r EXCEPT !.gated = g], "gates",
                      Due(Role(p), r.version, r.ci, tree, "gates"))
<1>1. "gates" \in TreeStages /\ "gates" \in Stage
  BY DEF TreeStages, Stage
<1>2. /\ AtStage(p, "gates") /\ Active(p) /\ r.open = "seen"
      /\ Stages(r.version)[r.at] = "gates"
      /\ tree' = tree /\ start' = start /\ suite' = suite
      /\ p \in Proc
  BY PairFacts DEF CheckGates, AtStage, Executing, history
<1>3. start[c] \in Tree /\ r \in RunRecord
  BY <1>2, PairRecords
<1>4. tree = EnsurePolicy(start[c])
  <2>1. CASE p = Outer(c)
    BY <1>2, <2>1, OuterTree
  <2>2. CASE p = Nested(c)
    BY <1>2, <2>2, NestedSuite, NestedTree
  <2> QED
    BY <2>1, <2>2, PairFacts
<1>5. tree.policy # "absent" /\ EnsurePolicy(tree) = tree
  BY <1>3, <1>4, PolicyOnce
<1>6. Due(Role(p), r.version, r.ci, tree, "gates") = "PASS"
  BY DueOf
<1>7. /\ Write(r.version, "gates", "PASS")
      /\ run' = [run EXCEPT ![p] = x]
  BY <1>5, <1>6 DEF CheckGates, PassIf
<1>8. GoodWrites(p, "gates")
  BY <1>1, <1>2, <1>7, WriteIsGood DEF Passed
<1>9. Manifested("gates")
  BY DEF Manifested
<1>10. g \in BOOLEAN /\ (g <=> EnsurePolicy(tree).policy = "full")
  OBVIOUS
<1>11. x = Moved([r EXCEPT !.gated = g], "gates",
                 Due(Role(p), r.version, r.ci, tree, "gates"))
  OBVIOUS
<1> HIDE DEF x, g
<1> QED
  BY <1>1, <1>2, <1>7, <1>8, <1>9, <1>10, <1>11, TreeStageKeepsClean

\* The smoke stage and its children, which write the identity, gates and
\* audit of the local-rc pipeline.
LEMMA SmokeKeepsClean ==
    ASSUME PipelineInv, NEW c \in Command, CleanRun(c), NEW p \in Pair(c),
           SmokeTests(p)
    PROVE  CleanRun(c)'
<1> DEFINE r == run[p]
           who == IdentityStatus(Identity(p), SmokeCi(p))
           audit == AuditStatus(EnsurePolicy(tree))
           status == PassIf(tree.package /\ Passed(who) /\ audit = "PASS")
           v1 == IF tree.package
                 THEN [disk["v1"] EXCEPT !["identity"] = who,
                          !["gates"] = "PASS", !["audit"] = audit]
                 ELSE disk["v1"]
<1>1. /\ AtStage(p, "smoke") /\ Active(p)
      /\ start' = start /\ suite' = suite
      /\ start[c] \in Tree
  BY DEF SmokeTests, AtStage, Executing, history, PipelineInv, TypeOK
<1>2. "smoke" \in TreeStages /\ "smoke" \in Stage
  BY DEF TreeStages, Stage
<1>3. /\ r \in RunRecord /\ r.version \in Version
      /\ r.gated \in BOOLEAN /\ r.ci \in BOOLEAN
  BY <1>1, PairRecords
<1>4. /\ EnsurePolicy(tree) = tree
      /\ Due(Role(p), r.version, r.ci, tree, "smoke") =
            Due(Role(p), r.version, r.ci, StartOf(c, p), "smoke")
      /\ EnsurePolicy(tree) = EnsurePolicy(start[c])
  BY <1>1, <1>2, DueNow
<1>5. tree' = tree
  BY <1>4 DEF SmokeTests
<1>6. Identity(p) = Who(Role(p), r.version, tree)
  BY DEF Identity, Who, Role, IsNested
<1>7. status = Due(Role(p), r.version, r.ci, tree, "smoke")
  <2>1. SmokeCi(p) = (r.version = "v1" /\ r.ci)
    BY DEF SmokeCi
  <2>2. Passed(who) <=> Passed(IdentityStatus(Who(Role(p), r.version, tree), r.version = "v1" /\ r.ci))
    BY <1>6, <2>1
  <2>3. status = SmokeDue(Role(p), r.version, r.ci, tree)
    BY <2>2 DEF SmokeDue, PassIf
  <2> QED
    BY <2>3, DueOf
<1>8. /\ run' = [run EXCEPT ![p] = Moved(@, "smoke", status)]
      /\ disk' = [[disk EXCEPT !["v1"] = v1] EXCEPT ![r.version]["smoke"] = status]
  BY DEF SmokeTests, Advance
<1>9. disk \in [Version -> [Stage -> ArtifactStatus]] /\ "v1" \in Version
  BY DEF PipelineInv, TypeOK, DiskOK, Version
<1>10. ASSUME NEW w \in Version, NEW u \in Stage
       PROVE  disk'[w][u] = IF w = r.version /\ u = "smoke" THEN status
                            ELSE IF w = "v1" /\ tree.package /\ u \in {"identity", "gates", "audit"}
                            THEN CASE u = "identity" -> who
                                   [] u = "gates" -> "PASS"
                                   [] u = "audit" -> audit
                            ELSE disk[w][u]
  <2> DEFINE half == [disk EXCEPT !["v1"] = v1]
  <2>1. v1 \in [Stage -> {v1[k] : k \in Stage}]
    BY <1>9
  <2>2. half[w] = IF w = "v1" THEN v1 ELSE disk[w]
    BY <1>9
  <2>3. v1[u] = IF tree.package /\ u \in {"identity", "gates", "audit"}
                THEN CASE u = "identity" -> who
                       [] u = "gates" -> "PASS"
                       [] u = "audit" -> audit
                ELSE disk["v1"][u]
    <3> HIDE DEF who, audit
    <3> QED
      BY <1>9
  <2>4. \A k \in Version : half[k] \in [Stage -> {half[k][l] : l \in Stage}]
    <3> HIDE DEF v1
    <3> QED
      BY <1>9, <2>1
  <2>5. disk' = [half EXCEPT ![r.version]["smoke"] = status] /\ DOMAIN half = Version
    BY <1>8, <1>9
  <2> HIDE DEF half, v1, who, audit, status
  <2>6. disk'[w][u] = IF w = r.version /\ u = "smoke" THEN status ELSE half[w][u]
    BY <1>2, <1>3, <2>4, <2>5
  <2> QED
    BY <2>2, <2>3, <2>6
<1>11. ASSUME Releasable(start[c], run[Outer(c)].version, run[Outer(c)].ci)
       PROVE  GoodWrites(p, "smoke")
  <2>1. start[c].policy = "full"
    BY <1>11 DEF Releasable
  <2>2. EnsurePolicy(start[c]) = start[c]
    BY <1>1, <2>1, PolicyOnce
  <2>3. tree = start[c]
    BY <1>4, <2>2
  <2>4. audit = "PASS"
    BY <1>11, <2>2, <2>3 DEF Releasable, Fit, AuditStatus, PassIf
  <2>5. Passed(who)
    <3>1. CASE p = Outer(c)
      <4>1. Due(Role(p), r.version, r.ci, start[c], "smoke") = "PASS"
        BY <1>1, <1>2, <1>3, <1>11, <3>1, ReleasableDue, PairFacts
      <4>2. status = "PASS"
        BY <1>7, <2>3, <3>1, <4>1, PairFacts
      <4> QED
        BY <4>2 DEF PassIf
    <3>2. CASE p = Nested(c)
      <4>1. suite[c].next \in 1 .. Len(SuiteRuns)
        BY <1>1, <3>2, NestedSuite
      <4>2. r.version = SuiteRuns[suite[c].next].version
            /\ r.ci = SuiteRuns[suite[c].next].ci
        BY <1>1, <3>2 DEF CleanRun, SuiteInv
      <4>3. run[Outer(c)].version \in Version /\ run[Outer(c)].ci \in BOOLEAN
        BY PairRecords DEF Pair, CleanRun
      <4>4. Passed(IdentityStatus(Who("nested", r.version, start[c]),
                                  r.version = "v1" /\ r.ci))
        BY <1>1, <1>11, <4>1, <4>2, <4>3, NestedDue
      <4>5. SmokeCi(p) = (r.version = "v1" /\ r.ci)
        BY DEF SmokeCi
      <4> QED
        BY <1>6, <2>3, <3>2, <4>4, <4>5, PairFacts
    <3> QED
      BY <3>1, <3>2, PairFacts
  <2>6. ~ IsNested(p) => Passed(status)
    BY <1>7, <1>1, <1>2, <1>4, <1>11, DuePasses
  <2>7. "smoke" \notin PreTests
    BY DEF PreTests, ProposalStages
  <2> HIDE DEF who, audit, status, v1
  <2>8. ASSUME NEW w \in Version, NEW u \in Stage,
               Passed(disk[w][u]), IsNested(p) => u \in PreTests
        PROVE  Passed(disk'[w][u])
    <3>1. CASE u = "smoke"
      <4>1. ~ IsNested(p)
        BY <2>7, <2>8, <3>1
      <4>2. disk'[w][u] \in {status, disk[w][u]}
        BY <1>10, <3>1
      <4> QED
        BY <2>6, <2>8, <4>1, <4>2
    <3>2. CASE u # "smoke"
      <4>1. disk'[w][u] \in {who, "PASS", audit, disk[w][u]}
        BY <1>10, <3>2
      <4> QED
        BY <2>4, <2>5, <2>8, <4>1 DEF Passed
    <3> QED
      BY <3>1, <3>2
  <2>9. ~ IsNested(p) => Passed(disk'[r.version]["smoke"])
    BY <1>2, <1>3, <1>10, <2>6
  <2> QED
    BY <2>8, <2>9 DEF GoodWrites
<1>12. Manifested("smoke") /\ "smoke" # "gates"
  BY DEF Manifested
<1> DEFINE x == Moved([r EXCEPT !.gated = r.gated], "smoke",
                      Due(Role(p), r.version, r.ci, tree, "smoke"))
<1>13. run' = [run EXCEPT ![p] = x]
  <2>1. [r EXCEPT !.gated = r.gated] = r
    BY <1>3 DEF RunRecord
  <2> HIDE DEF status
  <2> QED
    BY <1>7, <1>8, <2>1 DEF PipelineInv, TypeOK, RunOK
<1> HIDE DEF x, status, who, audit, v1
<1>14. x = Moved([r EXCEPT !.gated = r.gated], "smoke",
                 Due(Role(p), r.version, r.ci, tree, "smoke"))
  BY DEF x
<1> QED
  BY <1>1, <1>2, <1>3, <1>5, <1>11, <1>12, <1>13, <1>14, TreeStageKeepsClean

\* When the release is deserved, the results the evidence and the state of
\* the outer run look at pass.
LEMMA ResultsPass ==
    ASSUME PipelineInv, NEW c \in Command, CleanRun(c),
           LET r == run[Outer(c)]
           IN  /\ Releasable(start[c], r.version, r.ci)
               /\ Stages(r.version)[r.at] \in {"evidence", "state"}
    PROVE  /\ Passed(run[Outer(c)].got["identity"])
           /\ \A s \in Needed(run[Outer(c)].version) \ {"identity", "leak"} :
                 run[Outer(c)].got[s] = "PASS"
           /\ run[Outer(c)].got["leak"] = "PASS"
<1> DEFINE r == run[Outer(c)]
<1>1. Outer(c) \in Pair(c) /\ Active(Outer(c)) /\ Role(Outer(c)) = "outer"
  BY PairFacts DEF Pair, CleanRun
<1>2. /\ r \in RunRecord /\ r.version \in Version /\ r.ci \in BOOLEAN
      /\ r.at \in 1 .. Len(Stages(r.version))
      /\ Reached(r) /\ ResultsDue(Role(Outer(c)), r, StartOf(c, Outer(c)))
      /\ start[c] \in Tree
  BY <1>1, PairRecords
<1>3. ResultsDue("outer", r, start[c]) /\ ~ r.override
  BY <1>1, <1>2 DEF CleanRun, StartOf
<1>4. \A u \in Needed(r.version) : r.got[u] # "none"
  BY <1>2, StagePlace
<1>5. Needed(r.version) \subseteq TreeStages
      /\ "leak" \in Needed(r.version) /\ "identity" \in Needed(r.version)
  BY DEF Needed, TreeStages
<1>6. \A u \in Needed(r.version) :
         r.got[u] = Due("outer", r.version, r.ci, start[c], u)
  BY <1>3, <1>4, <1>5 DEF ResultsDue
<1>7. \A u \in TreeStages :
         /\ Passed(Due("outer", r.version, r.ci, start[c], u))
         /\ u # "identity" => Due("outer", r.version, r.ci, start[c], u) = "PASS"
  BY <1>2, ReleasableDue
<1> QED
  BY <1>5, <1>6, <1>7

\* The evidence stage.
LEMMA EvidenceKeepsClean ==
    ASSUME PipelineInv, NEW c \in Command, CleanRun(c), NEW p \in Pair(c),
           WriteEvidence(p)
    PROVE  CleanRun(c)'
<1> DEFINE r == run[p]
           y == Overridden(r)
           status == EvidenceStatus(y.got)
           x == Moved(y, "evidence", status)
<1>1. /\ "evidence" \in Stage /\ "evidence" \notin PreTests
      /\ "gates" \in Stage \ {"evidence", "leak"}
  BY DEF Stage, PreTests, ProposalStages
<1>2. /\ AtStage(p, "evidence") /\ Active(p)
      /\ start' = start /\ suite' = suite /\ tree' = tree
  BY DEF WriteEvidence, AtStage, Executing, history
<1>3. /\ r \in RunRecord /\ r.version \in Version
      /\ r.at \in 1 .. Len(Stages(r.version))
      /\ Stages(r.version)[r.at] = "evidence"
      /\ Role(p) \in Roles
  BY <1>1, <1>2, PairRecords, PairFacts DEF AtStage
<1>4. Reached(r) /\ ResultsDue(Role(p), r, StartOf(c, p))
  BY <1>2, PairRecords
<1>5. run' = [run EXCEPT ![p] = x] /\ Write(r.version, "evidence", status)
  BY DEF WriteEvidence
<1>6. /\ x \in RunRecord
      /\ x.at = r.at + 1 /\ x.version = r.version /\ x.open = "no"
      /\ x.ci = r.ci /\ x.override = r.override
      /\ \A u \in Stage \ {"evidence", "leak"} : x.got[u] = r.got[u]
      /\ Reached(x)
      /\ ResultsDue(Role(p), x, StartOf(c, p))
  <2> HIDE DEF r
  <2> QED
    BY <1>3, <1>4, EvidenceStep
<1>7. ASSUME Releasable(start[c], run[Outer(c)].version, run[Outer(c)].ci)
      PROVE  GoodWrites(p, "evidence")
  <2>1. ASSUME p = Outer(c)
        PROVE  status = "PASS"
    <3>1. ~ r.override
      BY <2>1 DEF CleanRun
    <3>2. y = r
      BY <3>1 DEF Overridden
    <3>3. /\ Passed(r.got["identity"])
          /\ \A s \in Needed(r.version) \ {"identity", "leak"} : r.got[s] = "PASS"
          /\ r.got["leak"] = "PASS"
      BY <1>2, <1>3, <1>7, <2>1, ResultsPass
    <3>4. {"git_state", "audit", "gates", "smoke", "tests"}
             \subseteq Needed(r.version) \ {"identity", "leak"}
      BY DEF Needed
    <3>5. \A s \in {"identity", "git_state", "audit", "gates", "smoke",
                    "tests", "leak"} : Passed(r.got[s])
      BY <3>3, <3>4 DEF Passed
    <3> QED
      BY <3>2, <3>5 DEF EvidenceStatus, PassIf
  <2>2. Passed(status) \/ IsNested(p)
    BY <2>1, PairFacts DEF Passed
  <2> HIDE DEF status
  <2> QED
    BY <1>1, <1>5, <2>2, WriteIsGood, PairFacts
<1>8. p = Outer(c) => ~ Active(Nested(c))
  BY <1>2, Alone DEF AtStage
<1> HIDE DEF x, y, status
<1>9. SuiteInv(c)'
  BY <1>2, <1>5, <1>6, StageKeepsSuite
<1>10. x.got["gates"] = r.got["gates"]
  BY <1>1, <1>6
<1>11. Manifested("evidence")
  BY DEF Manifested
<1> QED
  BY <1>1, <1>2, <1>3, <1>5, <1>6, <1>7, <1>8, <1>9, <1>10, <1>11,
     StageKeepsClean

\* The state stage.
LEMMA StateKeepsClean ==
    ASSUME PipelineInv, NEW c \in Command, CleanRun(c), NEW p \in Pair(c),
           WriteState(p)
    PROVE  CleanRun(c)'
<1> DEFINE r == run[p]
           status == StateStatus(r.version, r.got)
           x == Moved(r, "state", status)
<1>1. /\ "state" \in Stage /\ "state" \notin PreTests
      /\ "gates" \in Stage \ {"state"}
  BY DEF Stage, PreTests, ProposalStages
<1>2. /\ AtStage(p, "state") /\ Active(p)
      /\ start' = start /\ suite' = suite /\ tree' = tree
  BY DEF WriteState, AtStage, Executing, history
<1>3. /\ r \in RunRecord /\ r.version \in Version
      /\ r.at \in 1 .. Len(Stages(r.version))
      /\ Stages(r.version)[r.at] = "state"
      /\ Role(p) \in Roles
  BY <1>1, <1>2, PairRecords, PairFacts DEF AtStage
<1>4. Reached(r) /\ ResultsDue(Role(p), r, StartOf(c, p))
  BY <1>2, PairRecords
<1>5. run' = [run EXCEPT ![p] = x] /\ Write(r.version, "state", status)
  BY DEF WriteState, Advance, PipelineInv, TypeOK, RunOK
<1>6. /\ x \in RunRecord
      /\ x.at = r.at + 1 /\ x.version = r.version /\ x.open = "no"
      /\ x.ci = r.ci /\ x.override = r.override
      /\ \A u \in Stage \ {"state"} : x.got[u] = r.got[u]
      /\ Reached(x)
      /\ ResultsDue(Role(p), x, StartOf(c, p))
  <2>1. status \in {"PASS", "WARN", "FAIL"}
    BY DEF StateStatus, PassIf
  <2> HIDE DEF r, status
  <2> QED
    BY <1>3, <1>4, <2>1, StateStep
<1>7. ASSUME Releasable(start[c], run[Outer(c)].version, run[Outer(c)].ci)
      PROVE  GoodWrites(p, "state")
  <2>1. ASSUME p = Outer(c)
        PROVE  status = "PASS"
    <3>1. /\ Passed(r.got["identity"])
          /\ \A s \in Needed(r.version) \ {"identity", "leak"} : r.got[s] = "PASS"
          /\ r.got["leak"] = "PASS"
      BY <1>2, <1>3, <1>7, <2>1, ResultsPass
    <3>2. /\ {"smoke", "tests"} \subseteq Needed(r.version) \ {"identity", "leak"}
          /\ r.version = "v11" =>
                ProposalStages \subseteq Needed(r.version) \ {"identity", "leak"}
      BY DEF Needed, ProposalStages
    <3>3. /\ \A s \in {"tests", "smoke", "leak"} : r.got[s] = "PASS"
          /\ r.version = "v11" => \A s \in ProposalStages : r.got[s] = "PASS"
      BY <3>1, <3>2
    <3> QED
      BY <3>1, <3>3 DEF StateStatus, PassIf
  <2>2. Passed(status) \/ IsNested(p)
    BY <2>1, PairFacts DEF Passed
  <2> HIDE DEF status
  <2> QED
    BY <1>1, <1>5, <2>2, WriteIsGood, PairFacts
<1>8. p = Outer(c) => ~ Active(Nested(c))
  BY <1>2, Alone DEF AtStage
<1> HIDE DEF x, status
<1>9. SuiteInv(c)'
  BY <1>2, <1>5, <1>6, StageKeepsSuite
<1>10. x.got["gates"] = r.got["gates"]
  BY <1>1, <1>6
<1>11. Manifested("state")
  BY DEF Manifested
<1> QED
  BY <1>1, <1>2, <1>3, <1>5, <1>6, <1>7, <1>8, <1>9, <1>10, <1>11,
     StageKeepsClean

\* The tests stage starts pytest.
LEMMA StartSuiteKeepsClean ==
    ASSUME PipelineInv, NEW c \in Command, CleanRun(c), NEW p \in Pair(c),
           StartSuite(p)
    PROVE  CleanRun(c)'
<1>1. p = Outer(c) /\ Owner(p) = c /\ ~ Active(Nested(c))
  BY PairFacts, Alone DEF StartSuite, Guarded, AtStage
<1>2. /\ suite'[c] = [next |-> 1, ok |-> TRUE]
      /\ tree' = tree /\ disk' = disk /\ run' = run /\ start' = start
  BY <1>1 DEF StartSuite, history, PipelineInv, TypeOK
<1>3. SuiteInv(c)'
  <2>1. SuitePasses(EnsurePolicy(start[c]), 0)
    BY DEF SuitePasses
  <2> QED
    BY <1>1, <1>2, <2>1 DEF SuiteInv, Active
<1>4. ManifestInv(c)'
  <2>1. ASSUME NEW q \in Pair(c), AtStage(q, "validation")'
        PROVE  FALSE
    <3>1. q = Outer(c)
      BY <1>1, <1>2, <2>1, PairFacts DEF AtStage, Executing, Active
    <3>2. suite'[c].next = 0
      BY <2>1, <3>1, PairFacts DEF AtStage, Executing
    <3> QED
      BY <1>2, <3>2
  <2> QED
    BY <2>1 DEF ManifestInv
<1>5. RunsInv(c)' /\ TreeInv(c)' /\ FoundInv(c)' /\ ArtifactsInv(c)'
  BY <1>2 DEF CleanRun, RunsInv, StartOf, TreeInv, FoundInv, ArtifactsInv,
              Rewriting, Active
<1> QED
  BY <1>2, <1>3, <1>4, <1>5 DEF CleanRun, Active

\* Every stage of an undisturbed run but its verdict.
LEMMA RunStepKeepsClean ==
    ASSUME PipelineInv, NEW c \in Command, CleanRun(c), NEW p \in Pair(c),
           RunStep(p), ~ Verdict(p)
    PROVE  CleanRun(c)'
<1> DEFINE r == run[p]
<1>1. ASSUME NEW s \in ObservingStage, Observe(p, s)
      PROVE  CleanRun(c)'
  <2>1. s \in TreeStages /\ s # "gates"
    BY DEF ObservingStage, TreeStages, ProposalStages
  <2>2. Identity(p) = Who(Role(p), r.version, tree)
    BY DEF Identity, Who, Role, IsNested
  <2>3. Observed(p, s) = Due(Role(p), r.version, r.ci, tree, s)
    BY <2>2 DEF Observed, Due, ObservingStage, ProposalStages
  <2>4. /\ AtStage(p, s) /\ Advance(p, s, Observed(p, s))
        /\ Write(r.version, s, Observed(p, s))
        /\ tree' = tree /\ start' = start /\ suite' = suite
    BY <1>1 DEF Observe, history
  <2> QED
    BY <2>1, <2>3, <2>4, ReportKeepsClean
<1>2. CASE FindPolicy(p) \/ OpenPolicy(p) \/ WritePolicy(p) \/ OpenProposal(p)
  BY <1>2, HandleStepKeepsClean
<1>3. CASE CheckGates(p)
  BY <1>3, GatesKeepClean
<1>4. CASE CreateProposal(p)
  <2>1. "proposal" \in TreeStages /\ "proposal" \in Stage
    BY DEF TreeStages, Stage, ProposalStages
  <2>2. r.version = "v11"
    BY <1>4, <2>1, AtStageFacts, ProposalIsV11, PairFacts
    DEF CreateProposal, PipelineInv
  <2>3. Due(Role(p), r.version, r.ci, tree, "proposal") = "PASS"
    BY DEF Due, ProposalStages
  <2> QED
    BY <1>4, <2>1, <2>2, <2>3, ReportKeepsClean DEF CreateProposal, history
<1>5. CASE ValidateProposal(p)
  <2>1. "validation" \in TreeStages /\ "validation" \in Stage
    BY DEF TreeStages, Stage, ProposalStages
  <2>2. r.version = "v11"
    BY <1>5, <2>1, AtStageFacts, ProposalIsV11, PairFacts
    DEF ValidateProposal, PipelineInv
  <2>3. Due(Role(p), r.version, r.ci, tree, "validation") = "PASS"
    BY DEF Due, ProposalStages
  <2>4. disk["v11"]["proposal"] = "PASS"
    BY <1>5 DEF ValidateProposal, CleanRun, ManifestInv
  <2>5. /\ AtStage(p, "validation") /\ Advance(p, "validation", "PASS")
        /\ Write("v11", "validation", "PASS")
        /\ tree' = tree /\ start' = start /\ suite' = suite
    BY <1>5, <2>4 DEF ValidateProposal, PassIf, history
  <2> QED
    BY <2>1, <2>2, <2>3, <2>5, ReportKeepsClean
<1>6. CASE SkipTests(p)
  <2>1. "tests" \in TreeStages /\ "tests" \notin PreTests /\ IsNested(p)
    BY <1>6 DEF TreeStages, PreTests, ProposalStages, SkipTests, Guarded
  <2>2. Due(Role(p), r.version, r.ci, tree, "tests") = "PASS"
    BY <2>1, DueOf DEF PassIf, IsNested, Role
  <2>3. /\ AtStage(p, "tests") /\ Advance(p, "tests", "PASS")
        /\ Write(r.version, "tests", "SKIPPED")
        /\ tree' = tree /\ start' = start /\ suite' = suite
    BY <1>6 DEF SkipTests, history
  <2> QED
    BY <2>1, <2>2, <2>3, ReportKeepsClean
<1>7. CASE StartSuite(p)
  BY <1>7, StartSuiteKeepsClean
<1>8. CASE SmokeTests(p)
  BY <1>8, SmokeKeepsClean
<1>9. CASE WriteEvidence(p)
  BY <1>9, EvidenceKeepsClean
<1>10. CASE WriteState(p)
  BY <1>10, StateKeepsClean
<1> QED
  BY <1>1, <1>2, <1>3, <1>4, <1>5, <1>6, <1>7, <1>8, <1>9, <1>10 DEF RunStep

\* A record that is fresh has no results, so that all of them are due.
LEMMA FreshResults ==
    ASSUME NEW v \in Version, NEW ci \in BOOLEAN, NEW override \in BOOLEAN,
           NEW p, NEW t
    PROVE  LET r == NewRun(v, ci, override)
           IN  /\ r.version = v /\ r.ci = ci /\ r.override = override
               /\ r.at = 1 /\ r.open = "no"
               /\ \A s \in Stage : r.got[s] = "none"
               /\ Reached(r) /\ ResultsDue(p, r, t)
<1> DEFINE r == NewRun(v, ci, override)
<1>1. /\ r.version = v /\ r.ci = ci /\ r.override = override /\ r.at = 1
      /\ r.open = "no"
      /\ \A s \in Stage : r.got[s] = "none"
  BY DEF NewRun
<1> HIDE DEF r
<1>2. \A i \in 1 .. Len(Stages(v)) : Stages(v)[i] \in Stage
  BY StageList
<1>3. Reached(r)
  BY <1>1, <1>2 DEF Reached
<1>4. TreeStages \subseteq Stage /\ "evidence" \in Stage
      /\ "leak" \in TreeStages /\ "gates" \in TreeStages
  BY DEF TreeStages, Stage
<1>5. ResultsDue(p, r, t)
  BY <1>1, <1>4 DEF ResultsDue
<1> QED
  BY <1>1, <1>3, <1>5 DEF r

\* The suite starts its next nested run.
LEMMA StartNestedKeepsClean ==
    ASSUME PipelineInv, NEW c \in Command, CleanRun(c), StartNested(c)
    PROVE  CleanRun(c)'
<1> DEFINE n == SuiteRuns[suite[c].next]
           x == NewRun(n.version, n.ci, n.override)
<1>1. /\ suite[c].next \in 1 .. Len(SuiteRuns) /\ ~ Active(Nested(c))
      /\ run' = [run EXCEPT ![Nested(c)] = x]
      /\ tree' = tree /\ disk' = disk /\ suite' = suite /\ start' = start
  BY DEF StartNested, history
<1>2. n.version \in Version /\ n.ci \in BOOLEAN /\ n.override \in BOOLEAN
  <2>1. n \in SuiteRun
    BY <1>1, PipelineAssumption
  <2> HIDE DEF n
  <2> QED
    BY <2>1 DEF SuiteRun
<1>3. /\ x.version = n.version /\ x.ci = n.ci /\ x.override = n.override
      /\ x.open = "no" /\ x.at = 1
      /\ Reached(x) /\ ResultsDue("nested", x, EnsurePolicy(start[c]))
  <2> HIDE DEF n
  <2> QED
    BY <1>2, FreshResults
<1> HIDE DEF x
<1>4. /\ Outer(c) \in Proc /\ Nested(c) \in Proc /\ Outer(c) # Nested(c)
      /\ ~ IsNested(Outer(c)) /\ Owner(Outer(c)) = c
  BY ProcFacts
<1>5. run'[Nested(c)] = x /\ run'[Outer(c)] = run[Outer(c)]
  BY <1>1, <1>4 DEF PipelineInv, TypeOK, RunOK
<1>6. Active(Outer(c))' /\ ~ run'[Outer(c)].override
  BY <1>5 DEF CleanRun, Active
<1>7. RunsInv(c)'
  <2>1. ASSUME NEW q \in Pair(c), Active(q)'
        PROVE  /\ Reached(run'[q])
               /\ ResultsDue(Role(q), run'[q], StartOf(c, q)')
    <3>1. CASE q = Nested(c)
      BY <1>1, <1>3, <1>5, <3>1, PairFacts DEF StartOf
    <3>2. CASE q = Outer(c)
      BY <1>1, <1>5, <3>2, PairFacts DEF CleanRun, RunsInv, StartOf, Active
    <3> QED
      BY <3>1, <3>2, PairFacts
  <2> QED
    BY <2>1 DEF RunsInv
<1>8. ManifestInv(c)'
  <2>1. ASSUME NEW q \in Pair(c), AtStage(q, "validation")'
        PROVE  FALSE
    <3>1. Stages(run'[q].version)[run'[q].at] = "validation" /\ Executing(q)'
      BY <2>1 DEF AtStage
    <3>2. q # Outer(c)
      BY <1>1, <1>4, <3>1, PipelineAssumption DEF Executing
    <3>3. Stages(x.version)[1] = "validation"
      BY <1>3, <1>5, <3>1, <3>2, PairFacts
    <3>4. \A v \in Version : Stages(v)[1] # "validation"
      BY DEF Stages
    <3> QED
      BY <1>2, <1>3, <3>3, <3>4
  <2> QED
    BY <2>1 DEF ManifestInv
<1>9. TreeInv(c)'
  BY <1>1, <1>5 DEF CleanRun, TreeInv
<1>10. ArtifactsInv(c)'
  BY <1>1, <1>5 DEF CleanRun, ArtifactsInv, Rewriting
<1>11. SuiteInv(c)'
  BY <1>1, <1>3, <1>5 DEF CleanRun, SuiteInv
<1>12. FoundInv(c)'
  BY <1>3, <1>5 DEF FoundInv
<1> QED
  BY <1>6, <1>7, <1>8, <1>9, <1>10, <1>11, <1>12 DEF CleanRun

\* A nested run ends: its test passes or fails as it has to.
LEMMA NestedVerdictKeepsClean ==
    ASSUME PipelineInv, NEW c \in Command, CleanRun(c), Verdict(Nested(c))
    PROVE  CleanRun(c)'
<1> DEFINE r == run[Nested(c)]
           t == EnsurePolicy(start[c])
           status == PassIf(~ Blocked(r.version, r.got))
<1>1. /\ Outer(c) \in Proc /\ Nested(c) \in Proc /\ Outer(c) # Nested(c)
      /\ ~ IsNested(Outer(c)) /\ Owner(Outer(c)) = c
      /\ IsNested(Nested(c)) /\ Owner(Nested(c)) = c
      /\ Nested(c) \in Pair(c) /\ Role(Nested(c)) = "nested"
  BY ProcFacts, PairFacts DEF Pair
<1>2. /\ AtStage(Nested(c), "verdict") /\ Active(Nested(c))
      /\ tree' = tree /\ start' = start
      /\ run' = [run EXCEPT ![Nested(c)] = NoRun]
      /\ Write(r.version, "verdict", status)
      /\ suite' = [suite EXCEPT ![c] =
                      [next |-> @.next + 1,
                       ok |-> @.ok /\ AsExpected(r, ExitCode(r.version, r.got))]]
  BY <1>1 DEF Verdict, AtStage, Executing
<1> HIDE DEF status
<1>3. /\ suite'[c].next = suite[c].next + 1
      /\ suite'[c].ok <=> suite[c].ok /\ AsExpected(r, ExitCode(r.version, r.got))
  BY <1>2 DEF PipelineInv, TypeOK
<1>4. "verdict" \in Stage /\ "verdict" \notin PreTests
  BY DEF Stage, PreTests, ProposalStages
<1>5. /\ r \in RunRecord /\ r.version \in Version
      /\ r.at \in 1 .. Len(Stages(r.version))
      /\ Stages(r.version)[r.at] = "verdict"
      /\ Reached(r) /\ ResultsDue(Role(Nested(c)), r, StartOf(c, Nested(c)))
      /\ start[c] \in Tree
  BY <1>1, <1>2, PairRecords DEF AtStage
<1>6. r.at = Len(Stages(r.version))
  BY <1>5, StageList
<1>7. suite[c].next \in 1 .. Len(SuiteRuns) /\ suite[c].next > 0
  BY <1>2, NestedSuite
<1>8. t \in Tree /\ EnsurePolicy(t) = t
  BY <1>5, PolicyOnce, PolicyKept
<1>9. ResultsDue("nested", r, t)
  BY <1>1, <1>5 DEF StartOf
<1>10. AsExpected(r, ExitCode(r.version, r.got)) <=> NestedPasses(r, t)
  <2> HIDE DEF r, t
  <2> QED
    BY <1>5, <1>6, <1>8, <1>9, NestedVerdict
<1>11. NestedPasses(r, t) <=> NestedPasses(SuiteRuns[suite[c].next], t)
  <2>1. /\ r.version = SuiteRuns[suite[c].next].version
        /\ r.ci = SuiteRuns[suite[c].next].ci
        /\ r.override = SuiteRuns[suite[c].next].override
    BY <1>2 DEF CleanRun, SuiteInv
  <2> HIDE DEF r, t
  <2> QED
    BY <2>1 DEF NestedPasses
<1>12. run'[Nested(c)] = NoRun /\ run'[Outer(c)] = run[Outer(c)]
  BY <1>1, <1>2 DEF PipelineInv, TypeOK, RunOK
<1>13. /\ ~ Active(Nested(c))' /\ Active(Outer(c))'
       /\ ~ run'[Outer(c)].override
  BY <1>12, FreshRecords DEF Active, CleanRun
<1>14. SuiteInv(c)'
  <2>1. suite[c].ok <=> SuitePasses(t, suite[c].next - 1)
    BY <1>7 DEF CleanRun, SuiteInv
  <2>2. SuitePasses(t, suite[c].next) <=>
           /\ SuitePasses(t, suite[c].next - 1)
           /\ NestedPasses(SuiteRuns[suite[c].next], t)
    <3> HIDE DEF t
    <3>1. \A i : i \in 1 .. suite[c].next <=>
                    i \in 1 .. suite[c].next - 1 \/ i = suite[c].next
      BY <1>7, PipelineAssumption
    <3> QED
      BY <3>1 DEF SuitePasses
  <2>3. suite'[c].next - 1 = suite[c].next
    BY <1>3, <1>7, PipelineAssumption
  <2>4. suite'[c].ok <=> SuitePasses(t, suite'[c].next - 1)
    BY <1>3, <1>10, <1>11, <2>1, <2>2, <2>3
  <2> QED
    BY <1>2, <1>13, <2>4 DEF SuiteInv
<1>15. RunsInv(c)'
  <2>1. ASSUME NEW q \in Pair(c), Active(q)'
        PROVE  /\ Reached(run'[q])
               /\ ResultsDue(Role(q), run'[q], StartOf(c, q)')
    <3>1. q = Outer(c)
      BY <1>13, <2>1, PairFacts
    <3> QED
      BY <1>2, <1>12, <3>1, PairFacts DEF CleanRun, RunsInv, StartOf, Active
  <2> QED
    BY <2>1 DEF RunsInv
<1>16. ManifestInv(c)'
  <2>1. ASSUME NEW q \in Pair(c), AtStage(q, "validation")'
        PROVE  FALSE
    <3>1. Executing(q)' /\ q = Outer(c)
      BY <1>13, <2>1, PairFacts DEF AtStage, Executing
    <3>2. suite'[c].next = 0
      BY <1>1, <3>1 DEF Executing
    <3> QED
      BY <1>3, <1>7, <3>2, PipelineAssumption
  <2> QED
    BY <2>1 DEF ManifestInv
<1>17. TreeInv(c)' /\ FoundInv(c)'
  BY <1>2, <1>12, <1>13 DEF CleanRun, TreeInv, FoundInv
<1>18. ArtifactsInv(c)'
  <2> DEFINE v == run[Outer(c)].version
  <2>1. v \in Version
    BY PairRecords DEF Pair, CleanRun
  <2>2. \A j \in 1 .. run[Outer(c)].at - 1 : Stages(v)[j] \in PreTests
    BY <1>7, NestedTree
  <2>3. \A u \in Stage : u # "verdict" => disk'[v][u] = disk[v][u]
    BY <1>2, <1>4, <1>5, <2>1 DEF Write, PipelineInv, TypeOK, DiskOK
  <2>4. PreTests \subseteq Stage
    BY DEF PreTests, Stage
  <2>5. \A j \in 1 .. run[Outer(c)].at - 1 :
           disk'[v][Stages(v)[j]] = disk[v][Stages(v)[j]]
    BY <1>4, <2>2, <2>3, <2>4
  <2>6. ~ Rewriting(c)
    <3>1. run[Nested(c)].open # "no" =>
             Stages(r.version)[r.at] \in {"gates", "proposal"}
      BY <1>1 DEF PipelineInv, RecordInv
    <3> QED
      BY <1>5, <3>1 DEF Rewriting
  <2> QED
    BY <1>2, <1>12, <2>5, <2>6 DEF CleanRun, ArtifactsInv
<1> QED
  BY <1>13, <1>14, <1>15, <1>16, <1>17, <1>18 DEF CleanRun

\* pytest ends: the tests stage returns what is due of the suite.
LEMMA FinishSuiteKeepsClean ==
    ASSUME PipelineInv, NEW c \in Command, CleanRun(c), FinishSuite(c)
    PROVE  CleanRun(c)'
<1> DEFINE r == run[Outer(c)]
           status == PassIf(suite[c].ok /\ tree.tests)
           y == [r EXCEPT !.gated = r.gated]
           x == Moved(y, "tests", Due("outer", r.version, r.ci, start[c], "tests"))
<1>1. /\ "tests" \in TreeStages /\ "tests" \in Stage /\ "gates" \in Stage
      /\ "tests" \notin {"verdict", "gates"}
  BY DEF TreeStages, Stage
<1>2. /\ Outer(c) \in Proc /\ Nested(c) \in Proc /\ Outer(c) # Nested(c)
      /\ Outer(c) \in Pair(c) /\ Role(Outer(c)) = "outer" /\ "outer" \in Roles
      /\ ~ IsNested(Outer(c))
  BY ProcFacts, PairFacts DEF Pair, Roles
<1>3. /\ Active(Outer(c))
      /\ suite[c].next = Len(SuiteRuns) + 1 /\ Len(SuiteRuns) \in Nat
      /\ Write(r.version, "tests", status)
      /\ run' = [run EXCEPT ![Outer(c)] = Moved(r, "tests", status)]
      /\ suite'[c] = NoSuite
      /\ tree' = tree /\ start' = start
  BY <1>2, PipelineAssumption
  DEF FinishSuite, Advance, history, PipelineInv, TypeOK, RunOK
<1>4. suite[c].next > 0 /\ suite[c].next - 1 = Len(SuiteRuns)
  BY <1>3
<1>5. ~ Active(Nested(c))
  BY <1>3 DEF PipelineInv, Nesting
<1>6. Stages(r.version)[r.at] = "tests"
  BY <1>3, <1>4 DEF PipelineInv, Nesting
<1>7. /\ r \in RunRecord /\ r.version \in Version /\ r.ci \in BOOLEAN
      /\ r.gated \in BOOLEAN
      /\ r.at \in 1 .. Len(Stages(r.version))
      /\ Reached(r) /\ ResultsDue(Role(Outer(c)), r, StartOf(c, Outer(c)))
      /\ start[c] \in Tree
  BY <1>2, <1>3, PairRecords
<1>8. ResultsDue("outer", r, start[c]) /\ StartOf(c, Outer(c)) = start[c]
  BY <1>2, <1>7 DEF StartOf
<1>9. tree = EnsurePolicy(start[c])
  BY <1>4, NestedTree
<1>10. status = Due("outer", r.version, r.ci, start[c], "tests")
  <2>1. suite[c].ok <=> SuitePasses(EnsurePolicy(start[c]), Len(SuiteRuns))
    BY <1>4 DEF CleanRun, SuiteInv
  <2>2. tree.tests = start[c].tests
    BY <1>7, <1>9, PolicyOnce
  <2>3. Due("outer", r.version, r.ci, start[c], "tests") =
           PassIf("outer" = "nested" \/ (start[c].tests /\
                     SuitePasses(EnsurePolicy(start[c]), Len(SuiteRuns))))
    BY DueOf
  <2> QED
    BY <2>1, <2>2, <2>3 DEF PassIf
<1>11. run' = [run EXCEPT ![Outer(c)] = x]
  <2>1. y = r
    BY <1>7 DEF RunRecord
  <2> HIDE DEF status, y
  <2> QED
    BY <1>3, <1>10, <2>1
<1>12. /\ x \in RunRecord
       /\ x.at = r.at + 1 /\ x.version = r.version /\ x.open = "no"
       /\ x.ci = r.ci /\ x.override = r.override
       /\ \A u \in Stage \ {"tests"} : x.got[u] = r.got[u]
       /\ Reached(x)
       /\ ResultsDue("outer", x, start[c])
  <2>1. "tests" = Stages(r.version)[r.at]
    BY <1>6
  <2>2. x = Moved([r EXCEPT !.gated = r.gated], "tests",
                  Due("outer", r.version, r.ci, start[c], "tests"))
    OBVIOUS
  <2> HIDE DEF r, x, y
  <2> QED
    BY <1>1, <1>2, <1>7, <1>8, <2>1, <2>2, DueStep
<1>13. ASSUME Releasable(start[c], run[Outer(c)].version, run[Outer(c)].ci)
       PROVE  GoodWrites(Outer(c), "tests")
  <2>1. Passed(Due("outer", r.version, r.ci, start[c], "tests"))
    BY <1>1, <1>7, <1>13, ReleasableDue
  <2> HIDE DEF status
  <2> QED
    BY <1>1, <1>2, <1>3, <1>10, <2>1, WriteIsGood
<1> HIDE DEF x, status
<1>14. SuiteInv(c)'
  <2>1. run'[Nested(c)] = run[Nested(c)]
    BY <1>2, <1>11 DEF PipelineInv, TypeOK, RunOK
  <2>2. ~ Active(Nested(c))'
    BY <1>5, <2>1 DEF Active
  <2> QED
    BY <1>3, <2>2 DEF SuiteInv, NoSuite
<1>15. x.got["gates"] = r.got["gates"] /\ Manifested("tests")
  BY <1>1, <1>12 DEF Manifested
<1> QED
  BY <1>1, <1>2, <1>3, <1>5, <1>6, <1>8, <1>11, <1>12, <1>13, <1>14, <1>15,
     StageKeepsClean
-----------------------------------------------------------------------------
(* The invariant of undisturbed commands.                                  *)

\* What a step of the command c leaves of the others.
Others(c) ==
    \A d \in Command \ {c} :
        run'[Outer(d)] = run[Outer(d)] /\ run'[Nested(d)] = run[Nested(d)]
           /\ suite'[d] = suite[d]

LEMMA OthersKept ==
    ASSUME NEW c \in Command, Others(c), NEW d \in Command, d # c
    PROVE  /\ Active(Outer(d))' <=> Active(Outer(d))
           /\ suite'[d] = suite[d]
           /\ Busy(d)' <=> Busy(d)
BY DEF Others, Active, Busy

\* A command starts on a tree that is its own, undisturbed if it is alone.
LEMMA StartRunKeepsUndisturbed ==
    ASSUME PipelineInv, UndisturbedInv, NEW c \in Command,
           NEW v \in Version, NEW ci \in BOOLEAN, StartRun(c, v, ci)
    PROVE  UndisturbedInv'
<1> DEFINE x == NewRun(v, ci, FALSE)
<1>1. /\ ~ Busy(c)
      /\ run' = [run EXCEPT ![Outer(c)] = x]
      /\ start' = [start EXCEPT ![c] = tree]
      /\ clean' = [d \in Command |-> d = c /\ \A e \in Command : ~ Busy(e)]
      /\ tree' = tree /\ disk' = disk /\ suite' = suite
      /\ last' = last
  BY DEF StartRun
<1>2. /\ Outer(c) \in Proc /\ Nested(c) \in Proc /\ Outer(c) # Nested(c)
      /\ \A d \in Command : Outer(d) \in Proc /\ Nested(d) \in Proc
      /\ \A d \in Command : Outer(c) # Nested(d) /\ (Outer(c) = Outer(d) => c = d)
  BY ProcFacts
<1>3. suite[c].next = 0 /\ ~ Active(Nested(c)) /\ ~ Active(Outer(c))
  <2>1. suite[c].next \in Nat
    BY PipelineAssumption DEF PipelineInv, TypeOK
  <2>2. suite[c].next = 0 /\ ~ Active(Outer(c))
    BY <1>1, <2>1 DEF Busy
  <2> QED
    BY <2>2, NestedSuite
<1>4. /\ x.version = v /\ ~ x.override /\ x.at = 1 /\ x.open = "no"
      /\ \A s \in Stage : x.got[s] = "none"
      /\ Reached(x) /\ ResultsDue("outer", x, tree)
  <2>1. \E o \in BOOLEAN : o = FALSE
    OBVIOUS
  <2>2. PICK o \in BOOLEAN : o = FALSE
    BY <2>1
  <2>3. LET r == NewRun(v, ci, o)
        IN  /\ r.version = v /\ r.ci = ci /\ r.override = o
            /\ r.at = 1 /\ r.open = "no"
            /\ \A s \in Stage : r.got[s] = "none"
            /\ Reached(r) /\ ResultsDue("outer", r, tree)
    BY FreshResults
  <2> QED
    BY <2>2, <2>3
<1> HIDE DEF x
<1>5. /\ run'[Outer(c)] = x /\ run'[Nested(c)] = run[Nested(c)]
      /\ start'[c] = tree /\ Others(c)
  BY <1>1, <1>2 DEF PipelineInv, TypeOK, RunOK, Others
<1>6. Active(Outer(c))' /\ ~ Active(Nested(c))'
  BY <1>3, <1>4, <1>5 DEF Active
<1>7. CleanRun(c)'
  <2>1. RunsInv(c)'
    <3>1. ASSUME NEW q \in Pair(c), Active(q)'
          PROVE  /\ Reached(run'[q])
                 /\ ResultsDue(Role(q), run'[q], StartOf(c, q)')
      <4>1. q = Outer(c) /\ Role(q) = "outer"
        BY <1>6, <3>1, PairFacts
      <4> QED
        BY <1>4, <1>5, <4>1 DEF StartOf
    <3> QED
      BY <3>1 DEF RunsInv
  <2>2. TreeInv(c)'
    <3>1. x.got["gates"] = "none"
      BY <1>4 DEF Stage
    <3> QED
      BY <1>1, <1>4, <1>5, <3>1 DEF TreeInv, TreeDuring
  <2>3. ManifestInv(c)'
    <3>1. ASSUME NEW q \in Pair(c), AtStage(q, "validation")'
          PROVE  FALSE
      <4>1. q = Outer(c)
        BY <1>6, <3>1, PairFacts DEF AtStage, Executing
      <4>2. Stages(v)[1] = "validation"
        BY <1>4, <1>5, <3>1, <4>1 DEF AtStage
      <4> QED
        BY <4>2 DEF Stages
    <3> QED
      BY <3>1 DEF ManifestInv
  <2>4. SuiteInv(c)'
    BY <1>1, <1>3, <1>6 DEF SuiteInv
  <2>5. FoundInv(c)'
    BY <1>6 DEF FoundInv
  <2>6. ArtifactsInv(c)'
    BY <1>4, <1>5 DEF ArtifactsInv
  <2> QED
    BY <1>4, <1>5, <1>6, <2>1, <2>2, <2>3, <2>4, <2>5, <2>6 DEF CleanRun
<1>8. AloneInv'
  <2>1. ASSUME NEW d \in Command, clean'[d], NEW e \in Command, Busy(e)'
        PROVE  e = d
    <3>1. d = c /\ ~ Busy(e)
      BY <1>1, <2>1
    <3> QED
      BY <1>5, <2>1, <3>1, OthersKept
  <2>2. ASSUME last'.clean, NEW d \in Command, suite'[d].next > 0
        PROVE  Active(Outer(d))'
    <3>1. d # c
      BY <1>1, <1>3, <2>2
    <3>2. Active(Outer(d))
      BY <1>1, <2>2 DEF UndisturbedInv, AloneInv
    <3> QED
      BY <1>5, <3>1, <3>2, OthersKept
  <2> QED
    BY <2>1, <2>2 DEF AloneInv
<1>9. CleanInv'
  <2>1. \A d \in Command : clean'[d] => d = c
    BY <1>1
  <2> QED
    BY <1>7, <2>1 DEF CleanInv
<1>10. VerdictIsDeserved' /\ ReadyLeavesProof'
  <2>1. Busy(c)'
    BY <1>6 DEF Busy
  <2> QED
    BY <1>1, <2>1 DEF UndisturbedInv, VerdictIsDeserved, ReadyLeavesProof
<1> QED
  BY <1>8, <1>9, <1>10 DEF UndisturbedInv

\* Steps of a command that is not over leave the last verdict alone.
LEMMA GoesOnKeepsUndisturbed ==
    ASSUME UndisturbedInv, NEW c \in Command, Others(c),
           Busy(c), Busy(c)', Active(Outer(c))' <=> Active(Outer(c)),
           CleanRun(c) => CleanRun(c)',
           last' = last, clean' = clean
    PROVE  UndisturbedInv'
<1>1. \A d \in Command : /\ Active(Outer(d))' <=> Active(Outer(d))
                         /\ Busy(d)' <=> Busy(d)
  BY OthersKept
<1>2. AloneInv'
  <2>1. ASSUME last.clean, NEW d \in Command, suite'[d].next > 0
        PROVE  Active(Outer(d))'
    <3>1. CASE d = c
      BY <1>1, <2>1, <3>1 DEF UndisturbedInv, AloneInv, Busy
    <3>2. CASE d # c
      BY <1>1, <2>1, <3>2, OthersKept DEF UndisturbedInv, AloneInv
    <3> QED
      BY <3>1, <3>2
  <2>2. \A d \in Command : clean'[d] /\ Active(Outer(d))' =>
           \A e \in Command : Busy(e)' => e = d
    BY <1>1 DEF UndisturbedInv, AloneInv
  <2> QED
    BY <2>1, <2>2 DEF AloneInv
<1>3. CleanInv'
  <2>1. SUFFICES ASSUME NEW d \in Command, clean[d], Active(Outer(d))'
                 PROVE  CleanRun(d)'
    BY DEF CleanInv
  <2>2. d = c
    BY <1>1, <2>1 DEF UndisturbedInv, AloneInv
  <2>3. CleanRun(c)
    BY <1>1, <2>1, <2>2 DEF UndisturbedInv, CleanInv
  <2> QED
    BY <2>2, <2>3
<1> QED
  BY <1>2, <1>3 DEF UndisturbedInv, VerdictIsDeserved, ReadyLeavesProof

\* A stage that goes on leaves its run where it is, and the command busy.
Stays(c) ==
    /\ Others(c)
    /\ Busy(c) /\ Busy(c)'
    /\ Active(Outer(c))' <=> Active(Outer(c))

LEMMA MovedStays ==
    ASSUME PipelineInv, NEW c \in Command, NEW p \in Pair(c), Active(p),
           NEW x, x.at > 0, run' = [run EXCEPT ![p] = x], suite' = suite
    PROVE  Stays(c)
<1>1. p \in Proc /\ Outer(c) \in Proc /\ Nested(c) \in Proc
  BY PairFacts, ProcFacts
<1>2. run'[p] = x /\ \A q \in Proc \ {p} : run'[q] = run[q]
  BY <1>1 DEF PipelineInv, TypeOK, RunOK
<1>3. \A q \in Proc : Active(q)' <=> Active(q)
  BY <1>2 DEF Active
<1>4. Others(c)
  <2>1. ASSUME NEW d \in Command, d # c
        PROVE  /\ Outer(d) \in Proc /\ Nested(d) \in Proc
               /\ Outer(d) # p /\ Nested(d) # p
    BY <2>1, ProcFacts, PairFacts
  <2> QED
    BY <1>2, <2>1 DEF Others
<1>5. Busy(c)
  BY NestedSuite, PairFacts DEF Busy
<1> QED
  BY <1>1, <1>3, <1>4, <1>5 DEF Stays, Busy

\* An undisturbed command's own steps, up to its verdict.
LEMMA RunStepStays ==
    ASSUME PipelineInv, NEW c \in Command, NEW p \in Pair(c),
           RunStep(p), ~ Verdict(p)
    PROVE  Stays(c)
<1>1. /\ p \in Proc /\ run \in [Proc -> RunRecord] /\ run[p] \in RunRecord
  BY PairFacts DEF PipelineInv, TypeOK, RunOK
<1>2. ASSUME NEW s, AtStage(p, s), NEW y \in RunRecord, y.at = run[p].at,
             NEW status, run' = [run EXCEPT ![p] = Moved(y, s, status)],
             suite' = suite
      PROVE  Stays(c)
  <2> DEFINE x == Moved(y, s, status)
  <2>1. Active(p) /\ y.at > 0
    BY <1>2 DEF AtStage, Executing, Active
  <2>2. x.at = y.at + 1
    BY DEF Moved, RunRecord
  <2>3. y.at \in 0 .. 15
    BY DEF RunRecord
  <2>4. x.at > 0
    BY <2>1, <2>2, <2>3
  <2>5. run' = [run EXCEPT ![p] = x]
    BY <1>2
  <2> HIDE DEF x
  <2> QED
    BY <1>2, <2>1, <2>4, <2>5, MovedStays
<1>3. ASSUME NEW s, AtStage(p, s), NEW status, Advance(p, s, status),
             suite' = suite
      PROVE  Stays(c)
  BY <1>1, <1>2, <1>3 DEF Advance
<1>4. ASSUME NEW s, NEW from, NEW to, Handle(p, s, from, to), suite' = suite
      PROVE  Stays(c)
  <2> DEFINE x == [run[p] EXCEPT !.open = to]
  <2>1. Active(p) /\ run' = [run EXCEPT ![p] = x]
    BY <1>1, <1>4 DEF Handle, AtStage, Executing
  <2>2. x.at > 0
    BY <1>1, <2>1 DEF RunRecord, Active
  <2> HIDE DEF x
  <2> QED
    BY <1>4, <2>1, <2>2, MovedStays
<1>5. ASSUME NEW s \in ObservingStage, Observe(p, s)
      PROVE  Stays(c)
  BY <1>3, <1>5 DEF Observe
<1>6. CASE FindPolicy(p)
  BY <1>4, <1>6 DEF FindPolicy
<1>7. CASE OpenPolicy(p)
  BY <1>4, <1>7 DEF OpenPolicy
<1>8. CASE WritePolicy(p)
  BY <1>4, <1>8 DEF WritePolicy
<1>9. CASE CheckGates(p)
  <2> DEFINE listed == tree.policy = "full"
             y == [run[p] EXCEPT !.gated = listed]
             status == PassIf(tree.policy # "absent")
  <2>1. y \in RunRecord /\ y.at = run[p].at
    BY <1>1 DEF RunRecord
  <2>2. /\ AtStage(p, "gates") /\ suite' = suite
        /\ run' = [run EXCEPT ![p] = Moved(y, "gates", status)]
    BY <1>9 DEF CheckGates
  <2> HIDE DEF y, listed, status
  <2> QED
    BY <1>2, <2>1, <2>2
<1>10. CASE OpenProposal(p)
  BY <1>4, <1>10 DEF OpenProposal
<1>11. CASE CreateProposal(p)
  BY <1>3, <1>11 DEF CreateProposal
<1>12. CASE ValidateProposal(p)
  BY <1>3, <1>12 DEF ValidateProposal
<1>13. CASE SkipTests(p)
  BY <1>3, <1>13 DEF SkipTests
<1>14. CASE StartSuite(p)
  <2>1. /\ p = Outer(c) /\ Owner(p) = c /\ Active(Outer(c)) /\ run' = run
        /\ suite' = [suite EXCEPT ![c] = [next |-> 1, ok |-> TRUE]]
    BY <1>14, PairFacts DEF StartSuite, Guarded, AtStage, Executing
  <2>2. Others(c)
    BY <2>1 DEF Others, PipelineInv, TypeOK
  <2> QED
    BY <2>1, <2>2 DEF Stays, Busy, Active
<1>15. CASE SmokeTests(p)
  BY <1>3, <1>15 DEF SmokeTests
<1>16. CASE WriteEvidence(p)
  <2> DEFINE y == Overridden(run[p])
             status == EvidenceStatus(y.got)
  <2>1. y \in RunRecord /\ y.at = run[p].at
    BY <1>1 DEF Overridden, RunRecord, Results
  <2>2. /\ AtStage(p, "evidence") /\ suite' = suite
        /\ run' = [run EXCEPT ![p] = Moved(y, "evidence", status)]
    BY <1>16 DEF WriteEvidence
  <2> HIDE DEF y, status
  <2> QED
    BY <1>2, <2>1, <2>2
<1>17. CASE WriteState(p)
  BY <1>3, <1>17 DEF WriteState
<1> QED
  BY <1>5, <1>6, <1>7, <1>8, <1>9, <1>10, <1>11, <1>12, <1>13, <1>14, <1>15,
     <1>16, <1>17 DEF RunStep

\* So do the steps of its suite.
LEMMA SuiteStays ==
    ASSUME PipelineInv, NEW c \in Command,
           \/ StartNested(c) \/ FinishSuite(c) \/ Verdict(Nested(c))
    PROVE  Stays(c)
<1>1. /\ Outer(c) \in Proc /\ Nested(c) \in Proc /\ Outer(c) # Nested(c)
      /\ IsNested(Nested(c)) /\ Owner(Nested(c)) = c
      /\ \A d \in Command \ {c} :
            /\ Outer(d) \in Proc /\ Nested(d) \in Proc
            /\ Outer(c) # Outer(d) /\ Nested(c) # Nested(d)
            /\ Outer(c) # Nested(d) /\ Nested(c) # Outer(d)
  BY ProcFacts
<1>2. /\ run \in [Proc -> RunRecord]
      /\ suite \in [Command -> [next : 0 .. Len(SuiteRuns) + 1, ok : BOOLEAN]]
      /\ suite[c].next \in Nat
  BY PipelineAssumption DEF PipelineInv, TypeOK, RunOK
<1>3. CASE StartNested(c)
  <2> DEFINE n == SuiteRuns[suite[c].next]
             x == NewRun(n.version, n.ci, n.override)
  <2>1. /\ run' = [run EXCEPT ![Nested(c)] = x] /\ suite' = suite
        /\ suite[c].next \in 1 .. Len(SuiteRuns)
    BY <1>3 DEF StartNested
  <2> HIDE DEF n, x
  <2>2. run'[Outer(c)] = run[Outer(c)] /\ Others(c)
    BY <1>1, <1>2, <2>1 DEF Others
  <2>3. suite[c].next > 0
    BY <2>1, PipelineAssumption
  <2> QED
    BY <2>1, <2>2, <2>3 DEF Stays, Busy, Active
<1>4. CASE FinishSuite(c)
  <2> DEFINE x == Moved(run[Outer(c)], "tests", PassIf(suite[c].ok /\ tree.tests))
  <2>1. /\ Active(Outer(c))
        /\ run' = [run EXCEPT ![Outer(c)] = x]
        /\ suite' = [suite EXCEPT ![c] = NoSuite]
    BY <1>2, <1>4 DEF FinishSuite, Advance
  <2>2. x.at = run[Outer(c)].at + 1 /\ run[Outer(c)].at \in 0 .. 15
    BY <1>1, <1>2 DEF Moved, RunRecord
  <2> HIDE DEF x
  <2>3. /\ run'[Outer(c)] = x /\ Others(c)
    BY <1>1, <1>2, <2>1 DEF Others
  <2>4. Active(Outer(c))'
    BY <2>2, <2>3 DEF Active
  <2> QED
    BY <2>1, <2>3, <2>4 DEF Stays, Busy
<1>5. CASE Verdict(Nested(c))
  <2> DEFINE ok == suite[c].ok /\ AsExpected(run[Nested(c)],
                      ExitCode(run[Nested(c)].version, run[Nested(c)].got))
  <2>1. /\ Active(Nested(c))
        /\ run' = [run EXCEPT ![Nested(c)] = NoRun]
        /\ suite' = [suite EXCEPT ![c] = [next |-> suite[c].next + 1, ok |-> ok]]
    BY <1>1, <1>2, <1>5 DEF Verdict, AtStage, Executing
  <2> HIDE DEF ok
  <2>2. run'[Outer(c)] = run[Outer(c)] /\ Others(c)
    BY <1>1, <1>2, <2>1 DEF Others
  <2>3. suite[c].next > 0
    BY <2>1, NestedSuite
  <2>4. suite'[c].next > 0
    BY <1>2, <2>1, <2>3
  <2> QED
    BY <2>2, <2>3, <2>4 DEF Stays, Busy, Active
<1> QED
  BY <1>3, <1>4, <1>5

\* A suite that was left behind ends: there is no undisturbed verdict then.
LEMMA OrphanEndsKeepsUndisturbed ==
    ASSUME PipelineInv, UndisturbedInv, NEW c \in Command, OrphanEnds(c)
    PROVE  UndisturbedInv'
<1>1. /\ ~ Active(Outer(c)) /\ suite[c].next > 0
      /\ suite' = [suite EXCEPT ![c] = NoSuite]
      /\ run' = run /\ clean' = clean /\ last' = last
  BY DEF OrphanEnds, history
<1>2. /\ Others(c) /\ Busy(c) /\ ~ last.clean
      /\ \A d \in Command : Active(Outer(d))' <=> Active(Outer(d))
  BY <1>1 DEF Others, Busy, Active, PipelineInv, TypeOK, UndisturbedInv, AloneInv
<1>3. \A d \in Command : ~ (clean[d] /\ Active(Outer(d)))
  BY <1>1, <1>2 DEF UndisturbedInv, AloneInv
<1> QED
  BY <1>1, <1>2, <1>3 DEF UndisturbedInv, AloneInv, CleanInv,
                          VerdictIsDeserved, ReadyLeavesProof

\* The verdict of the outer run.
LEMMA OuterVerdictKeepsUndisturbed ==
    ASSUME PipelineInv, UndisturbedInv, NEW c \in Command, Verdict(Outer(c))
    PROVE  UndisturbedInv'
<1> DEFINE r == run[Outer(c)]
           v == r.version
           n == Len(Stages(v))
           status == PassIf(~ Blocked(v, r.got))
<1>1. /\ Outer(c) \in Proc /\ ~ IsNested(Outer(c)) /\ Owner(Outer(c)) = c
      /\ Outer(c) \in Pair(c) /\ Role(Outer(c)) = "outer"
      /\ \A d \in Command \ {c} :
            /\ Outer(d) \in Proc /\ Nested(d) \in Proc
            /\ Outer(c) # Outer(d) /\ Outer(c) # Nested(d)
  BY ProcFacts, PairFacts DEF Pair
<1>2. /\ AtStage(Outer(c), "verdict") /\ Active(Outer(c)) /\ suite[c].next = 0
      /\ run' = [run EXCEPT ![Outer(c)] = NoRun]
      /\ Write(v, "verdict", status)
      /\ last' = [version |-> v, ci |-> r.ci, exit |-> ExitCode(v, r.got),
                  start |-> start[c], clean |-> clean[c], edited |-> edited[c]]
      /\ suite' = suite /\ clean' = clean
  BY <1>1 DEF Verdict, AtStage, Executing
<1>3. "verdict" \in Stage
  BY DEF Stage
<1>4. /\ r \in RunRecord /\ v \in Version /\ r.ci \in BOOLEAN
      /\ r.at \in 1 .. n
      /\ Stages(v)[r.at] = "verdict"
      /\ start[c] \in Tree
  BY <1>1, <1>2, <1>3, AtStageFacts DEF PipelineInv, RunRecord, TypeOK
<1>5. r.at = n
  BY <1>4, StageList
<1>6. /\ ~ Active(Outer(c))' /\ Others(c)
  <2>1. run'[Outer(c)] = NoRun
    BY <1>1, <1>2 DEF PipelineInv, TypeOK, RunOK
  <2>2. Others(c)
    BY <1>1, <1>2 DEF Others, PipelineInv, TypeOK, RunOK
  <2> QED
    BY <2>1, <2>2, FreshRecords DEF Active
<1>7. ASSUME clean[c]
      PROVE  /\ ExitCode(v, r.got) = "ok" <=> Releasable(start[c], v, r.ci)
             /\ Releasable(start[c], v, r.ci) =>
                   \A i \in 1 .. n : Passed(disk'[v][Stages(v)[i]])
  <2>1. CleanRun(c)
    BY <1>2, <1>7 DEF UndisturbedInv, CleanInv
  <2>2. Reached(r) /\ ResultsDue("outer", r, start[c]) /\ ~ r.override
    BY <1>1, <1>2, <2>1 DEF CleanRun, RunsInv, StartOf
  <2>3. Blocked(v, r.got) <=> ~ Deserving(v, r.ci, start[c])
    <3> HIDE DEF r
    <3> QED
      BY <1>4, <1>5, <2>2, OuterVerdict
  <2>4. Deserving(v, r.ci, start[c]) <=> Releasable(start[c], v, r.ci)
    BY <1>4, DeservingIsReleasable
  <2>5. ExitCode(v, r.got) = "ok" <=> ~ Blocked(v, r.got)
    BY ExitAgrees
  <2>6. ASSUME Releasable(start[c], v, r.ci), NEW i \in 1 .. n
        PROVE  Passed(disk'[v][Stages(v)[i]])
    <3>1. status = "PASS"
      BY <2>3, <2>4, <2>6 DEF PassIf
    <3>2. \A j \in 1 .. n : Stages(v)[j] \in Stage
      BY <1>4, StageList
    <3>3. disk'[v][Stages(v)[i]] =
             IF Stages(v)[i] = "verdict" THEN "PASS" ELSE disk[v][Stages(v)[i]]
      <4> HIDE DEF status, n
      <4> QED
        BY <1>2, <1>3, <1>4, <2>6, <3>1, <3>2
        DEF Write, PipelineInv, TypeOK, DiskOK
    <3>4. Stages(v)[i] # "verdict" => i \in 1 .. r.at - 1
      <4>1. i # n \/ Stages(v)[i] = "verdict"
        BY <1>4, <1>5
      <4>2. n \in Nat
        BY <1>4, StageList
      <4> HIDE DEF n
      <4> QED
        BY <1>5, <2>6, <4>1, <4>2
    <3>5. ~ Rewriting(c)
      <4>1. ~ Active(Nested(c))
        BY <1>2, NestedSuite
      <4> QED
        BY <4>1 DEF Rewriting
    <3>6. \A j \in 1 .. r.at - 1 : Passed(disk[v][Stages(v)[j]])
      BY <2>1, <2>6, <3>5 DEF CleanRun, ArtifactsInv
    <3> QED
      BY <3>3, <3>4, <3>6 DEF Passed
  <2> QED
    BY <2>3, <2>4, <2>5, <2>6
<1> HIDE DEF status
<1>8. /\ last'.clean = clean[c] /\ last'.exit = ExitCode(v, r.got)
      /\ last'.start = start[c] /\ last'.version = v /\ last'.ci = r.ci
  BY <1>2
<1>9. VerdictIsDeserved'
  BY <1>7, <1>8 DEF VerdictIsDeserved
<1>10. ReadyLeavesProof'
  BY <1>7, <1>8 DEF ReadyLeavesProof
<1>11. \A d \in Command : ~ (clean'[d] /\ Active(Outer(d))')
  <2>1. SUFFICES ASSUME NEW d \in Command, clean[d], Active(Outer(d))'
                 PROVE  FALSE
    BY <1>2
  <2>2. d # c /\ Active(Outer(d))
    BY <1>6, <2>1, OthersKept
  <2>3. Busy(c)
    BY <1>2 DEF Busy
  <2> QED
    BY <2>1, <2>2, <2>3 DEF UndisturbedInv, AloneInv
<1>12. last'.clean => \A d \in Command : ~ (suite'[d].next > 0)
  <2>1. SUFFICES ASSUME clean[c], NEW d \in Command, suite[d].next > 0
                 PROVE  FALSE
    BY <1>2, <1>8
  <2>2. d = c
    BY <1>2, <2>1 DEF UndisturbedInv, AloneInv, Busy
  <2> QED
    BY <1>2, <2>1, <2>2
<1> QED
  BY <1>9, <1>10, <1>11, <1>12 DEF UndisturbedInv, AloneInv, CleanInv

\* A disturbance leaves no command and no verdict undisturbed.
LEMMA DisturbanceKeepsUndisturbed ==
    ASSUME PipelineInv, Disturbance
    PROVE  UndisturbedInv'
<1>1. /\ clean' = [c \in Command |-> FALSE]
      /\ last' = [last EXCEPT !.clean = FALSE]
  BY DEF Disturbance, EditTree, EditManifest, Raise, Kill, Interrupt,
         LocateEvidence, CurrentState, Disturb
<1>2. last'.clean = FALSE
  BY <1>1 DEF PipelineInv, TypeOK, VerdictRecord
<1> QED
  BY <1>1, <1>2 DEF UndisturbedInv, AloneInv, CleanInv, VerdictIsDeserved,
                    ReadyLeavesProof

\* UndisturbedInv is inductive, given PipelineInv.
LEMMA UndisturbedNext ==
    ASSUME PipelineInv, UndisturbedInv, [Next]_vars
    PROVE  UndisturbedInv'
<1>1. ASSUME NEW c \in Command, NEW v \in Version, NEW ci \in BOOLEAN,
             StartRun(c, v, ci)
      PROVE  UndisturbedInv'
  BY <1>1, StartRunKeepsUndisturbed
<1>2. ASSUME NEW c \in Command, NEW p \in Pair(c), RunStep(p), ~ Verdict(p)
      PROVE  UndisturbedInv'
  <2>1. Stays(c)
    BY <1>2, RunStepStays
  <2>2. CleanRun(c) => CleanRun(c)'
    BY <1>2, RunStepKeepsClean
  <2>3. last' = last /\ clean' = clean
    BY <1>2 DEF RunStep, Observe, FindPolicy, OpenPolicy, WritePolicy,
                CheckGates, OpenProposal, CreateProposal, ValidateProposal,
                SkipTests, StartSuite, SmokeTests, WriteEvidence, WriteState,
                history
  <2> QED
    BY <2>1, <2>2, <2>3, GoesOnKeepsUndisturbed DEF Stays
<1>3. ASSUME NEW c \in Command, Verdict(Outer(c))
      PROVE  UndisturbedInv'
  BY <1>3, OuterVerdictKeepsUndisturbed
<1>4. ASSUME NEW c \in Command,
             \/ StartNested(c) \/ FinishSuite(c) \/ Verdict(Nested(c))
      PROVE  UndisturbedInv'
  <2>1. Stays(c)
    BY <1>4, SuiteStays
  <2>2. CleanRun(c) => CleanRun(c)'
    BY <1>4, StartNestedKeepsClean, FinishSuiteKeepsClean,
       NestedVerdictKeepsClean
  <2>3. last' = last /\ clean' = clean
    BY <1>4, ProcFacts DEF StartNested, FinishSuite, Verdict, history
  <2> QED
    BY <2>1, <2>2, <2>3, GoesOnKeepsUndisturbed DEF Stays
<1>5. ASSUME NEW c \in Command, OrphanEnds(c)
      PROVE  UndisturbedInv'
  BY <1>5, OrphanEndsKeepsUndisturbed
<1>6. CASE Disturbance
  BY <1>6, DisturbanceKeepsUndisturbed
<1>7. CASE UNCHANGED vars
  BY <1>7 DEF vars, UndisturbedInv, AloneInv, CleanInv, CleanRun, RunsInv,
              TreeInv, ManifestInv, SuiteInv, FoundInv, ArtifactsInv,
              Rewriting, StartOf, AtStage, Executing, Active, Busy,
              VerdictIsDeserved, ReadyLeavesProof
<1>8. ASSUME NEW c \in Command, Progress(c)
      PROVE  UndisturbedInv'
  <2>1. Outer(c) \in Pair(c) /\ Nested(c) \in Pair(c)
    BY DEF Pair
  <2> QED
    BY <1>2, <1>3, <1>4, <1>5, <1>8, <2>1 DEF Progress
<1> QED
  BY <1>1, <1>6, <1>7, <1>8 DEF Next

LEMMA UndisturbedInit == Init => UndisturbedInv
<1> SUFFICES ASSUME Init PROVE UndisturbedInv
  OBVIOUS
<1>1. (\A c \in Command : ~ clean[c]) /\ ~ last.clean
  BY DEF Init, NoVerdict
<1> QED
  BY <1>1 DEF UndisturbedInv, AloneInv, CleanInv, VerdictIsDeserved,
              ReadyLeavesProof

LEMMA UndisturbedCorrect == Spec => []UndisturbedInv
<1>1. Init => UndisturbedInv
  BY UndisturbedInit
<1>2. PipelineInv /\ UndisturbedInv /\ [Next]_vars => UndisturbedInv'
  BY UndisturbedNext
<1> QED
  BY <1>1, <1>2, PipelineCorrect, PTL DEF Spec
-----------------------------------------------------------------------------
\* An undisturbed run exits with 0 exactly when the tree it was started on
\* can be released, whatever its nested runs wrote and repaired meanwhile:
\* for every tree and every suite that runs the v1.1 pipeline and gives
\* local-rc its --ci.
THEOREM VerdictsAreDeserved == Spec => []VerdictIsDeserved
<1>1. UndisturbedInv => VerdictIsDeserved
  BY DEF UndisturbedInv
<1> QED
  BY <1>1, UndisturbedCorrect, PTL

\* Every artifact such a ready run lists says so: none of a nested run's or a
\* smoke child's is left that does not.
THEOREM ReadyVerdictsLeaveProof == Spec => []ReadyLeavesProof
<1>1. UndisturbedInv => ReadyLeavesProof
  BY DEF UndisturbedInv
<1> QED
  BY <1>1, UndisturbedCorrect, PTL
=============================================================================
