---------------------------- MODULE MCPushRetry ----------------------------
(***************************************************************************)
(* Three bump jobs and a maintainer push one branch.                       *)
(***************************************************************************)
EXTENDS PushRetry, TLC

CONSTANTS j1, j2, j3

ThreeJobs == {j1, j2, j3}
AnyOrder == Permutations(ThreeJobs)

=============================================================================
