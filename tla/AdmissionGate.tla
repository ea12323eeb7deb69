---------------------------- MODULE AdmissionGate ----------------------------
(***************************************************************************)
(* What admission control promises when FLEET_ADMIT_TIMEOUT_ACTION=hold:   *)
(* a gate that jobs pass one at a time, while there is room, in the order  *)
(* of their line.  There are no files, polls, mutex or dead processes      *)
(* here; Admission implements it.                                          *)
(***************************************************************************)
EXTENDS Naturals, FiniteSets

CONSTANTS
    Jobs,
    Sims,      \* the Simulator jobs
    SimMax     \* how many of them may be inside

VARIABLES
    policy,    \* the limits: in all, per line, and the line of each job
    waiting,   \* jobs that wait at the gate
    order,     \* the pairs <<k, j>> of waiting jobs with k before j
    urgent,    \* waiting jobs with priority
    inside     \* jobs that have passed and not given their place back

vars == <<policy, waiting, order, urgent, inside>>

Init ==
    /\ policy.total \in Nat
    /\ waiting = {} /\ order = {} /\ urgent = {} /\ inside = {}

SameLine(k, j) == policy.line[k] = policy.line[j]

SimsFull(S) == Cardinality(S \intersect Sims) >= SimMax

\* Room for j beside the jobs in S.
Fits(j, S) ==
    /\ Cardinality(S) < policy.total
    /\ Cardinality({k \in S : SameLine(k, j)}) < policy.room[policy.line[j]]
    /\ j \in Sims => ~SimsFull(S)

\* k is to pass before j: urgent jobs first, then by arrival.
Before(k, j) ==
    IF k \in urgent <=> j \in urgent THEN <<k, j>> \in order ELSE k \in urgent

Remain(S) ==
    /\ waiting' = S
    /\ order' = order \intersect (S \X S)
    /\ urgent' = urgent \intersect S

Arrive(j) ==
    /\ j \notin waiting
    /\ waiting' = waiting \union {j}
    /\ order' = order \union (waiting \X {j})
    /\ UNCHANGED <<policy, urgent, inside>>

Withdraw(j) ==
    /\ j \in waiting
    /\ Remain(waiting \ {j})
    /\ UNCHANGED <<policy, inside>>

Rank(j) ==
    /\ j \in waiting
    /\ urgent' \in {urgent \union {j}, urgent \ {j}}
    /\ UNCHANGED <<policy, waiting, order, inside>>

\* j passes.  Places given back may be noticed in the same step.  Only a
\* Simulator job that the Simulator limit holds is passed over.
Pass(j) ==
    /\ j \in waiting
    /\ \E stay \in SUBSET inside :
         /\ Fits(j, stay)
         /\ \A k \in waiting \ {j} :
              SameLine(k, j) /\ Before(k, j) => k \in Sims /\ SimsFull(stay)
         /\ inside' = stay \union {j}
    /\ Remain(waiting \ {j})
    /\ UNCHANGED policy

GiveBack ==
    /\ inside' \in SUBSET inside
    /\ UNCHANGED <<policy, waiting, order, urgent>>

Next ==
    \/ \E j \in Jobs : Arrive(j) \/ Withdraw(j) \/ Rank(j) \/ Pass(j)
    \/ GiveBack

Spec == Init /\ [][Next]_vars
=============================================================================
