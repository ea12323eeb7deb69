---------------------------- MODULE MCRunnerDrain ----------------------------
(***************************************************************************)
(* RunnerDrain with the tiers controller beside the operator.              *)
(***************************************************************************)
EXTENDS RunnerDrain, TLC

CONSTANTS s1, s2, i1, i2, tiers
=============================================================================
