------------------------------ MODULE MCScaling ------------------------------
(***************************************************************************)
(* A burst for two repositories without a runner, while the second runner  *)
(* of a third one is idle.                                                 *)
(***************************************************************************)
EXTENDS Scaling

CONSTANTS h1, q1, q2, q3

NoHistory == [r \in Repos |-> 0]

Burst ==
    {[hosts |-> [h \in Hosts |-> "room"],
      fleet |-> [repo : {q3}, host : {h1}, n : 1..2],
      jobs |-> [r \in Repos |-> IF r = q3 THEN 0 ELSE 1],
      troubles |-> 0]}
=============================================================================
