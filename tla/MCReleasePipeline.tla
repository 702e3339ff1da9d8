-------------------------- MODULE MCReleasePipeline --------------------------
(***************************************************************************)
(* Instances of ReleasePipeline for TLC.                                   *)
(***************************************************************************)
EXTENDS ReleasePipeline, TLC

\* The nested runs of tests/test_pipeline.py and tests/test_v1_1_commands.py,
\* without the repetitions.
MCSuiteRuns ==
    <<[version |-> "v1",  ci |-> TRUE,  override |-> FALSE],
      [version |-> "v1",  ci |-> TRUE,  override |-> TRUE],
      [version |-> "v1",  ci |-> TRUE,  override |-> FALSE],
      [version |-> "v11", ci |-> FALSE, override |-> FALSE]>>

\* A suite with one nested run of each pipeline.
ShortSuiteRuns == <<MCSuiteRuns[1], MCSuiteRuns[4]>>

AllRequests == [version : Version, ci : BOOLEAN]

AllTrees == Tree

GoodTree ==
    [identity |-> "owner", surface |-> TRUE, policy |-> "full",
     templates |-> "valid", tests |-> TRUE, package |-> TRUE,
     leakfree |-> TRUE]

\* A releasable tree and trees with one thing wrong.
NearlyGoodTrees ==
    {GoodTree, [GoodTree EXCEPT !.identity = "bot"],
     [GoodTree EXCEPT !.policy = "absent"], [GoodTree EXCEPT !.tests = FALSE],
     [GoodTree EXCEPT !.leakfree = FALSE], [GoodTree EXCEPT !.surface = FALSE]}

\* A tree that is fit once one of the commands has written its policy, and one
\* whose tests fail.
ContestedTrees ==
    {[GoodTree EXCEPT !.policy = "absent"], [GoodTree EXCEPT !.tests = FALSE]}

\* v1.1-rc alone, and a suite that runs it once.
OneRequest == {[version |-> "v11", ci |-> FALSE]}
NewestSuiteRuns == <<MCSuiteRuns[4]>>

\* No action tells one terminal from another.
Terminals == Permutations(Command)
=============================================================================
