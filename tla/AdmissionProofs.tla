--------------------------- MODULE AdmissionProofs ---------------------------
(***************************************************************************)
(* What TLC checks of Admission on a few jobs, proved for any number of    *)
(* jobs and runners and any limits.                                        *)
(***************************************************************************)
EXTENDS Admission, Functions, FiniteSetTheorems, TLAPS

QueueOK ==
    /\ waiters \subseteq Jobs
    /\ ahead \in [Jobs -> SUBSET waiters]
    /\ mark \in [Jobs -> {"none", "label", "starved"}]
    /\ \A j \in Jobs \ waiters : ahead[j] = {} /\ mark[j] = "none"

\* Removing waiter files keeps the queue well-formed.
LEMMA LeaveQueue ==
    ASSUME NEW S, QueueOK, Leave(S)
    PROVE  QueueOK'
BY DEF QueueOK, Leave

\* So does joining it.
LEMMA JoinQueue ==
    ASSUME NEW j \in Jobs, QueueOK, Join(j)
    PROVE  QueueOK'
BY DEF QueueOK, Join

\* Reaping keeps the slots of live, recent workers and empties the rest.
LEMMA ReapedType ==
    ASSUME NEW s \in [Runners -> Jobs \union {None}]
    PROVE  Reaped(s) \in [Runners -> Jobs \union {None}]
BY DEF Reaped

LEMMA SpendType ==
    ASSUME NEW fault \in Faults, spent \in [Faults -> Nat], Spend(fault)
    PROVE  spent' \in [Faults -> Nat]
BY DEF Spend

\* Type correctness is inductive by itself.
LEMMA TypeStep ==
    ASSUME TypeOK, [Next]_vars
    PROVE  TypeOK'
<1> USE AdmissionAssumption
<1>0. QueueOK
  BY DEF QueueOK, TypeOK
<1> USE DEF files, hooks, env, Phases, Waiting, Goto, Forget, AfterHook
<1>1. ASSUME NEW j \in Jobs, StartJob(j) PROVE TypeOK'
  BY <1>1 DEF StartJob, TypeOK
<1>2. ASSUME NEW j \in Jobs, ObserveLock(j) PROVE TypeOK'
  BY <1>2 DEF ObserveLock, TypeOK
<1>3. ASSUME NEW j \in Jobs, ObserveClaim(j) PROVE TypeOK'
  BY <1>3, ReapedType DEF ObserveClaim, TypeOK
<1>4. ASSUME NEW j \in Jobs, Orphaned(j) PROVE TypeOK'
  <2>1. QueueOK'
    BY <1>0, <1>4, LeaveQueue DEF Orphaned
  <2> QED BY <1>4, <2>1 DEF Orphaned, TypeOK, QueueOK
<1>5. ASSUME NEW j \in Jobs, Cancelled(j) PROVE TypeOK'
  <2>1. QueueOK'
    BY <1>0, <1>5, LeaveQueue DEF Cancelled
  <2> QED BY <1>5, <2>1 DEF Cancelled, TypeOK, QueueOK
<1>6. ASSUME NEW j \in Jobs, Poll(j) PROVE TypeOK'
  BY <1>6 DEF Poll, TypeOK
<1>7. ASSUME NEW j \in Jobs, Lock(j) PROVE TypeOK'
  <2>1. QueueOK'
    BY <1>0, <1>7, JoinQueue DEF Lock
  <2> QED BY <1>7, <2>1 DEF Lock, TypeOK, QueueOK
<1>8. ASSUME NEW j \in Jobs, Contended(j) PROVE TypeOK'
  BY <1>8 DEF Contended, TypeOK
<1>9. ASSUME NEW j \in Jobs, Decide(j) PROVE TypeOK'
  <2>1. QueueOK'
    BY <1>0, <1>9, LeaveQueue DEF Decide, QueueOK
  <2>2. slots' \in [Runners -> Jobs \union {None}]
    BY <1>9, ReapedType DEF Decide, TypeOK
  <2>3. pc' \in [Jobs -> Phases] /\ mutex' \in Jobs \union {None} /\ yields' \subseteq Jobs
    BY <1>9 DEF Decide, TypeOK
  <2> QED BY <1>9, <2>1, <2>2, <2>3 DEF Decide, TypeOK, QueueOK
<1>10. ASSUME NEW j \in Jobs, Claim(j) PROVE TypeOK'
  <2>1. QueueOK'
    BY <1>0, <1>10, LeaveQueue DEF Claim
  <2> QED BY <1>10, <2>1 DEF Claim, TypeOK, QueueOK
<1>11. ASSUME NEW j \in Jobs, FailOpen(j) PROVE TypeOK'
  <2>1. QueueOK'
    BY <1>0, <1>11, LeaveQueue DEF FailOpen
  <2> QED BY <1>11, <2>1 DEF FailOpen, TypeOK, QueueOK
<1>12. ASSUME NEW j \in Jobs, Sleep(j) PROVE TypeOK'
  <2>1. PICK answer \in Answers(j) :
          LET asked == Refreshed(j, answer)
              promoted == asked = "none" /\ j \in starving /\ j \in yields \intersect waiters IN
          /\ IF asked = mark[j] THEN UNCHANGED spent ELSE Spend("labels")
          /\ mark' = [mark EXCEPT ![j] = IF promoted THEN "starved" ELSE asked]
    BY <1>12 DEF Sleep
  <2>2. spent' \in [Faults -> Nat]
    BY <2>1, SpendType DEF TypeOK, Faults
  <2>3. Refreshed(j, answer) \in {"none", "label", "starved"}
    BY DEF Refreshed, TypeOK
  <2>4. mark' \in [Jobs -> {"none", "label", "starved"}]
    BY <2>1, <2>3 DEF TypeOK
  <2>5. ASSUME j \notin waiters PROVE mark'[j] = "none"
    BY <2>1, <2>5 DEF Refreshed, Answers, TypeOK
  <2> QED BY <1>12, <2>2, <2>4, <2>5 DEF Sleep, TimePasses, TypeOK
<1>13. ASSUME NEW j \in Jobs, FinishSteps(j) PROVE TypeOK'
  BY <1>13 DEF FinishSteps, TypeOK
<1>14. ASSUME NEW j \in Jobs, FreeSlot(j) PROVE TypeOK'
  BY <1>14 DEF FreeSlot, TypeOK
<1>15. ASSUME NEW j \in Jobs, Report(j) PROVE TypeOK'
  BY <1>15, ReapedType DEF Report, TypeOK
<1>16. ASSUME NEW j \in Jobs, KillWorker(j) PROVE TypeOK'
  <2>1. spent' \in [Faults -> Nat]
    BY <1>16, SpendType DEF KillWorker, TypeOK, Faults
  <2> QED BY <1>16, <2>1 DEF KillWorker, TypeOK
<1>17. ASSUME NEW j \in Jobs, KillHook(j) PROVE TypeOK'
  <2>1. spent' \in [Faults -> Nat]
    BY <1>17, SpendType DEF KillHook, TypeOK, Faults
  <2> QED BY <1>17, <2>1 DEF KillHook, TypeOK
<1>18. ASSUME NEW j \in Jobs, Expire(j) PROVE TypeOK'
  <2>1. spent' \in [Faults -> Nat]
    BY <1>18, SpendType DEF Expire, TypeOK, Faults
  <2> QED BY <1>18, <2>1 DEF Expire, TypeOK
<1>19. ASSUME FloorDrops PROVE TypeOK'
  <2>1. spent' \in [Faults -> Nat]
    BY <1>19, SpendType DEF FloorDrops, TypeOK, Faults
  <2> QED BY <1>19, <2>1 DEF FloorDrops, TypeOK
<1>20. ASSUME FloorClears PROVE TypeOK'
  BY <1>20 DEF FloorClears, TypeOK
<1>21. ASSUME UNCHANGED vars PROVE TypeOK'
  BY <1>21 DEF vars, TypeOK
<1> QED
  BY <1>1, <1>2, <1>3, <1>4, <1>5, <1>6, <1>7, <1>8, <1>9, <1>10, <1>11, <1>12,
     <1>13, <1>14, <1>15, <1>16, <1>17, <1>18, <1>19, <1>20, <1>21
  DEF Next, Hook, Finished

LEMMA TypeInit == Init => TypeOK
BY AdmissionAssumption DEF Init, TypeOK, Phases, Waiting, Faults

\* Every reachable state is well-typed, and only waiters have a place or mark.
THEOREM TypeCorrect == Spec => []TypeOK
BY TypeInit, TypeStep, PTL DEF Spec

------------------------------------------------------------------------------
(* The cap.  A hook that has decided to claim holds the mutex, and still    *)
(* has room: whatever else happens to the slots meanwhile only empties them *)
(* or fills them with jobs that are late.                                   *)

Holder ==
    /\ \A j \in Jobs : pc[j] \in Critical => mutex = j
    /\ conf.mode = "enforce" => \A j \in Jobs : pc[j] \notin {"observe", "count"}

Room ==
    conf.mode = "enforce" =>
        \A j \in Jobs : pc[j] = "claim" => Cardinality(OnTime(Occupied(slots))) < Cap

CapInv == TypeOK /\ Holder /\ Room /\ SlotCap

LEMMA HolderStep ==
    ASSUME TypeOK, Holder, [Next]_vars
    PROVE  Holder'
<1> USE AdmissionAssumption DEF Holder, TypeOK, Critical, Waiting, Phases,
        files, hooks, env, Goto, AfterHook, MutexHeld
<1>1. ASSUME NEW j \in Jobs, StartJob(j) PROVE Holder'
  BY <1>1 DEF StartJob
<1>2. ASSUME NEW j \in Jobs, ObserveLock(j) PROVE Holder'
  BY <1>2 DEF ObserveLock
<1>3. ASSUME NEW j \in Jobs, ObserveClaim(j) PROVE Holder'
  BY <1>3 DEF ObserveClaim
<1>4. ASSUME NEW j \in Jobs, Orphaned(j) \/ Cancelled(j) \/ Poll(j) PROVE Holder'
  BY <1>4 DEF Orphaned, Cancelled, Poll
<1>5. ASSUME NEW j \in Jobs, Lock(j) PROVE Holder'
  BY <1>5 DEF Lock
<1>6. ASSUME NEW j \in Jobs, Contended(j) \/ Sleep(j) \/ FailOpen(j) PROVE Holder'
  BY <1>6 DEF Contended, Sleep, FailOpen
<1>7. ASSUME NEW j \in Jobs, Decide(j) PROVE Holder'
  BY <1>7 DEF Decide
<1>8. ASSUME NEW j \in Jobs, Claim(j) PROVE Holder'
  BY <1>8 DEF Claim
<1>9. ASSUME NEW j \in Jobs, FinishSteps(j) \/ FreeSlot(j) \/ Report(j) PROVE Holder'
  BY <1>9 DEF FinishSteps, FreeSlot, Report
<1>10. ASSUME NEW j \in Jobs, KillWorker(j) \/ KillHook(j) \/ Expire(j) PROVE Holder'
  BY <1>10 DEF KillWorker, KillHook, Expire
<1>11. ASSUME FloorDrops \/ FloorClears \/ UNCHANGED vars PROVE Holder'
  BY <1>11 DEF FloorDrops, FloorClears, vars
<1> QED
  BY <1>1, <1>2, <1>3, <1>4, <1>5, <1>6, <1>7, <1>8, <1>9, <1>10, <1>11
  DEF Next, Hook, Finished

Counted == OnTime(Occupied(slots))

LEMMA CountType ==
    ASSUME NEW S, S \subseteq Runners
    PROVE  /\ IsFiniteSet(S) /\ Cardinality(S) \in Nat
           /\ \A T \in SUBSET S : Cardinality(T) \in Nat /\ Cardinality(T) <= Cardinality(S)
BY AdmissionAssumption, FS_Subset, FS_CardinalityType DEF AdmissionAssumption

LEMMA CapType == TypeOK => Cap \in Nat
BY AdmissionAssumption DEF Cap, AdmissionAssumption

\* A step that counts no new slot and sends no hook to claim.
LEMMA RoomKept ==
    ASSUME TypeOK, Room, SlotCap, conf' = conf,
           Counted' \subseteq Counted,
           \A j \in Jobs : pc'[j] = "claim" => pc[j] = "claim"
    PROVE  Room' /\ SlotCap'
<1>1. Counted \subseteq Runners
  BY DEF Counted, OnTime, Occupied
<1>2. /\ Cardinality(Counted') \in Nat /\ Cardinality(Counted) \in Nat
      /\ Cardinality(Counted') <= Cardinality(Counted)
  BY <1>1, CountType
<1>3. Cap' = Cap /\ Cap \in Nat
  BY CapType DEF Cap
<1> QED
  BY <1>2, <1>3 DEF Room, SlotCap, Counted

LEMMA CapStep ==
    ASSUME CapInv, [Next]_vars
    PROVE  CapInv'
<1>0. TypeOK' /\ Holder' /\ TypeOK /\ Holder /\ Room /\ SlotCap
  BY TypeStep, HolderStep DEF CapInv
<1> SUFFICES Room' /\ SlotCap'
  BY <1>0 DEF CapInv
<1> USE AdmissionAssumption, <1>0
<1>1. ASSUME NEW j \in Jobs,
             \/ StartJob(j) \/ Orphaned(j) \/ Cancelled(j) \/ Poll(j) \/ Lock(j)
             \/ Contended(j) \/ Sleep(j) \/ FinishSteps(j)
             \/ KillWorker(j) \/ KillHook(j) \/ Expire(j)
      PROVE  Room' /\ SlotCap'
  <2>1. conf' = conf /\ slots' = slots /\ overdue \subseteq overdue'
    BY <1>1 DEF StartJob, Orphaned, Cancelled, Poll, Lock, Contended, Sleep, TimePasses,
       FinishSteps, KillWorker, KillHook, Expire, files, hooks, env
  <2>2. \A k \in Jobs : pc'[k] = "claim" => pc[k] = "claim"
    BY <1>1 DEF StartJob, Orphaned, Cancelled, Poll, Lock, Contended, Sleep,
       FinishSteps, KillWorker, KillHook, Expire, Goto, AfterHook, TypeOK
  <2>3. Counted' \subseteq Counted
    BY <2>1 DEF Counted, OnTime, Occupied
  <2> QED BY <2>1, <2>2, <2>3, RoomKept
<1>2. ASSUME NEW j \in Jobs, ObserveLock(j) \/ ObserveClaim(j)
      PROVE  Room' /\ SlotCap'
  <2>1. conf' = conf /\ pc[j] \in {"observe", "count"}
    BY <1>2 DEF ObserveLock, ObserveClaim, env
  <2> QED BY <2>1 DEF Holder, Room, SlotCap
<1>3. ASSUME NEW j \in Jobs, FreeSlot(j) \/ Report(j)
      PROVE  Room' /\ SlotCap'
  <2>1. conf' = conf /\ overdue' = overdue
    BY <1>3 DEF FreeSlot, Report, hooks, env
  <2>2. \A k \in Jobs : pc'[k] = "claim" => pc[k] = "claim"
    BY <1>3 DEF FreeSlot, Report, Goto, TypeOK
  <2>3. \A r \in Runners : slots'[r] \in {slots[r], None}
    BY <1>3 DEF FreeSlot, Report, Reaped, TypeOK
  <2>4. Counted' \subseteq Counted
    BY <2>1, <2>3 DEF Counted, OnTime, Occupied
  <2> QED BY <2>1, <2>2, <2>4, RoomKept
<1>4. ASSUME NEW j \in Jobs, FailOpen(j)
      PROVE  Room' /\ SlotCap'
  <2>1. conf' = conf /\ overdue' = overdue /\ j \in overdue
    BY <1>4 DEF FailOpen, TimedOut, hooks, env
  <2>2. \A k \in Jobs : pc'[k] = "claim" => pc[k] = "claim"
    BY <1>4 DEF FailOpen, Goto, AfterHook, TypeOK
  <2>3. \A r \in Runners : slots'[r] \in {slots[r], j}
    BY <1>4 DEF FailOpen, TypeOK
  <2>4. Counted' \subseteq Counted
    BY <2>1, <2>3 DEF Counted, OnTime, Occupied
  <2> QED BY <2>1, <2>2, <2>4, RoomKept
<1>5. ASSUME NEW j \in Jobs, Decide(j)
      PROVE  Room' /\ SlotCap'
  <2>1. conf' = conf /\ overdue' = overdue /\ slots' = Reaped(slots)
    BY <1>5 DEF Decide, env
  <2>2. Counted' \subseteq Counted
    BY <2>1 DEF Counted, OnTime, Occupied, Reaped, TypeOK
  <2>3. CASE pc'[j] # "claim"
    <3>1. \A k \in Jobs : pc'[k] = "claim" => pc[k] = "claim"
      BY <1>5, <2>3 DEF Decide, Goto, TypeOK
    <3> QED BY <2>1, <2>2, <3>1, RoomKept
  <2>4. CASE pc'[j] = "claim"
    <3>1. ~Full(j, slots')
      BY <1>5, <2>4 DEF Decide, Goto, TypeOK, Blocked
    <3>2. ~(Cardinality(Occupied(slots')) >= Cap)
      BY <3>1 DEF Full
    <3>3. Counted' \subseteq Occupied(slots') /\ Occupied(slots') \subseteq Runners
      BY DEF Counted, OnTime, Occupied
    <3>4. /\ Cardinality(Counted') \in Nat /\ Cardinality(Occupied(slots')) \in Nat
          /\ Cardinality(Counted') <= Cardinality(Occupied(slots'))
      BY <3>3, CountType
    <3>5. Cap' = Cap /\ Cap \in Nat
      BY <2>1, CapType DEF Cap
    <3>6. Cardinality(Counted') < Cap'
      BY <3>2, <3>4, <3>5
    <3> QED BY <3>4, <3>5, <3>6 DEF Room, SlotCap, Counted
  <2> QED BY <2>3, <2>4
<1>6. ASSUME NEW j \in Jobs, Claim(j)
      PROVE  Room' /\ SlotCap'
  <2>1. SUFFICES ASSUME conf.mode = "enforce" PROVE Room' /\ SlotCap'
    BY <1>6 DEF Claim, env, Room, SlotCap
  <2>2. conf' = conf /\ overdue' = overdue /\ pc[j] = "claim" /\ RunnerOf[j] \in Runners
    BY <1>6 DEF Claim, env, AdmissionAssumption
  <2>3. \A k \in Jobs : pc'[k] # "claim"
    \* any other hook in its claim would hold the mutex too
    BY <1>6 DEF Claim, Goto, AfterHook, TypeOK, Holder, Critical
  <2>4. Counted' \subseteq Counted \union {RunnerOf[j]}
    BY <1>6, <2>2 DEF Claim, Counted, OnTime, Occupied, TypeOK
  <2>5. Cardinality(Counted) < Cap
    BY <2>1, <2>2 DEF Room, Counted
  <2>6. Counted \subseteq Runners
    BY DEF Counted, OnTime, Occupied
  <2>7. Cardinality(Counted \union {RunnerOf[j]}) <= Cardinality(Counted) + 1
    BY <2>6, CountType, FS_AddElement
  <2>8. /\ Cardinality(Counted') \in Nat /\ Cardinality(Counted \union {RunnerOf[j]}) \in Nat
        /\ Cardinality(Counted') <= Cardinality(Counted \union {RunnerOf[j]})
    BY <2>2, <2>4, <2>6, CountType
  <2>9. Cap' = Cap /\ Cap \in Nat /\ Cardinality(Counted) \in Nat
    BY <2>2, <2>6, CapType, CountType DEF Cap
  <2>10. Cardinality(Counted') <= Cap'
    BY <2>5, <2>7, <2>8, <2>9
  <2> QED BY <2>3, <2>10 DEF Room, SlotCap, Counted
<1>7. ASSUME FloorDrops \/ FloorClears \/ UNCHANGED vars
      PROVE  Room' /\ SlotCap'
  <2>1. conf' = conf /\ slots' = slots /\ overdue' = overdue /\ pc' = pc
    BY <1>7 DEF FloorDrops, FloorClears, vars, files, hooks
  <2>2. Counted' \subseteq Counted
    BY <2>1 DEF Counted, OnTime, Occupied
  <2> QED BY <2>1, <2>2, RoomKept
<1> QED
  BY <1>1, <1>2, <1>3, <1>4, <1>5, <1>6, <1>7 DEF CapInv, Next, Hook, Finished

LEMMA CapInit == Init => CapInv
<1> SUFFICES ASSUME Init PROVE CapInv
  OBVIOUS
<1>1. TypeOK
  BY TypeInit
<1>2. Holder /\ Room
  BY DEF Init, Holder, Room, Critical
<1>3. OnTime(Occupied(slots)) = {}
  BY DEF Init, OnTime, Occupied
<1>4. SlotCap
  BY <1>1, <1>3, CapType, FS_EmptySet DEF SlotCap
<1> QED BY <1>1, <1>2, <1>4 DEF CapInv

\* The jobs admitted in time never hold more slots than the limit, however
\* many hooks, kills, dead workers, expired slots and late jobs there are.
THEOREM CapHolds == Spec => []SlotCap
<1>1. CapInv => SlotCap
  BY DEF CapInv
<1> QED BY <1>1, CapInit, CapStep, PTL DEF Spec

------------------------------------------------------------------------------
(* The lanes and the Simulator limit.  Each counts the slots of one kind; the   *)
(* argument is that of the cap, for the kinds of the hook that claims.          *)

Kinds == {"sim", "light", "heavy"}

\* The slot of job j on runner r is of this kind.
OfKind(kind, r, j) ==
    \/ kind = "sim" /\ r \in SimRunners
    \/ kind = "light" /\ IsLight(j)
    \/ kind = "heavy" /\ ~IsLight(j)

KindMax(kind) == IF kind = "sim" THEN SimMax ELSE IF kind = "light" THEN LightMax ELSE HeavyMax
KindLimited(kind) == IF kind = "sim" THEN SimMax > 0 ELSE conf.lanes = "enforce"

KindSlots(kind, s) == {r \in Occupied(s) : OfKind(kind, r, s[r])}
KindCounted(kind) == OnTime(KindSlots(kind, slots))

KindCaps ==
    conf.mode = "enforce" =>
        \A kind \in Kinds :
            KindLimited(kind) => Cardinality(KindCounted(kind)) <= KindMax(kind)

\* A hook that has decided to claim has room in every kind its slot is of.
KindRoom ==
    conf.mode = "enforce" =>
        \A kind \in Kinds, j \in Jobs :
            KindLimited(kind) /\ pc[j] = "claim" /\ OfKind(kind, RunnerOf[j], j)
                => Cardinality(KindCounted(kind)) < KindMax(kind)

LaneInv == TypeOK /\ Holder /\ KindRoom /\ KindCaps

\* A kind's slots are those that LaneCaps counts.
LEMMA KindsAreLanes ==
    ASSUME NEW s
    PROVE  /\ KindSlots("sim", s) = SimSlots(s)
           /\ KindSlots("light", s) = LightSlots(s)
           /\ KindSlots("heavy", s) = HeavySlots(s)
BY DEF KindSlots, OfKind, SimSlots, LightSlots, HeavySlots, Occupied

\* The bounds of the kinds are LaneCaps.
LEMMA KindCapsAreLaneCaps == KindCaps => LaneCaps
<1> SUFFICES ASSUME KindCaps, conf.mode = "enforce"
             PROVE  /\ SimMax > 0 => Cardinality(OnTime(SimSlots(slots))) <= SimMax
                    /\ conf.lanes = "enforce" =>
                          /\ Cardinality(OnTime(LightSlots(slots))) <= LightMax
                          /\ Cardinality(OnTime(HeavySlots(slots))) <= HeavyMax
  BY DEF LaneCaps
<1>1. \A kind \in Kinds :
          KindLimited(kind) => Cardinality(OnTime(KindSlots(kind, slots))) <= KindMax(kind)
  BY DEF KindCaps, KindCounted
<1>2. SimMax > 0 => Cardinality(OnTime(KindSlots("sim", slots))) <= SimMax
  BY <1>1 DEF Kinds, KindLimited, KindMax
<1>3. conf.lanes = "enforce" => Cardinality(OnTime(KindSlots("light", slots))) <= LightMax
  BY <1>1 DEF Kinds, KindLimited, KindMax
<1>4. conf.lanes = "enforce" => Cardinality(OnTime(KindSlots("heavy", slots))) <= HeavyMax
  BY <1>1 DEF Kinds, KindLimited, KindMax
<1> QED BY <1>2, <1>3, <1>4, KindsAreLanes

\* Nothing happens to the slots but that some are emptied or filled with late jobs,
\* and nobody goes on to claim.
Quiet ==
    /\ overdue \subseteq overdue'
    /\ \A j \in Jobs : pc'[j] = "claim" => pc[j] = "claim"
    /\ \A r \in Runners : slots'[r] \in {slots[r], None} \union overdue'

\* Under enforce a step is quiet, or a decision to claim, or a claim.
LEMMA SlotStep ==
    ASSUME TypeOK, Holder, [Next]_vars, conf.mode = "enforce"
    PROVE  /\ conf' = conf
           /\ \/ Quiet
              \/ \E j \in Jobs : Claim(j) \/ (Decide(j) /\ pc'[j] = "claim")
<1>1. ASSUME NEW j \in Jobs,
             \/ StartJob(j) \/ Orphaned(j) \/ Cancelled(j) \/ Poll(j) \/ Lock(j)
             \/ Contended(j) \/ Sleep(j) \/ FinishSteps(j)
             \/ KillWorker(j) \/ KillHook(j) \/ Expire(j)
      PROVE  conf' = conf /\ Quiet
  <2>1. conf' = conf /\ slots' = slots /\ overdue \subseteq overdue'
    BY <1>1 DEF StartJob, Orphaned, Cancelled, Poll, Lock, Contended, Sleep, TimePasses,
       FinishSteps, KillWorker, KillHook, Expire, files, hooks, env
  <2>2. \A k \in Jobs : pc'[k] = "claim" => pc[k] = "claim"
    BY <1>1 DEF StartJob, Orphaned, Cancelled, Poll, Lock, Contended, Sleep,
       FinishSteps, KillWorker, KillHook, Expire, Goto, AfterHook, TypeOK
  <2> QED BY <2>1, <2>2 DEF Quiet
<1>2. ASSUME NEW j \in Jobs, ObserveLock(j) \/ ObserveClaim(j)
      PROVE  FALSE
  BY <1>2 DEF ObserveLock, ObserveClaim, Holder
<1>3. ASSUME NEW j \in Jobs, FreeSlot(j) \/ Report(j)
      PROVE  conf' = conf /\ Quiet
  <2>1. conf' = conf /\ overdue' = overdue
    BY <1>3 DEF FreeSlot, Report, hooks, env
  <2>2. \A k \in Jobs : pc'[k] = "claim" => pc[k] = "claim"
    BY <1>3 DEF FreeSlot, Report, Goto, TypeOK
  <2>3. \A r \in Runners : slots'[r] \in {slots[r], None}
    BY <1>3 DEF FreeSlot, Report, Reaped, TypeOK
  <2> QED BY <2>1, <2>2, <2>3 DEF Quiet
<1>4. ASSUME NEW j \in Jobs, FailOpen(j)
      PROVE  conf' = conf /\ Quiet
  <2>1. conf' = conf /\ overdue' = overdue /\ j \in overdue
    BY <1>4 DEF FailOpen, TimedOut, hooks, env
  <2>2. \A k \in Jobs : pc'[k] = "claim" => pc[k] = "claim"
    BY <1>4 DEF FailOpen, Goto, AfterHook, TypeOK
  <2>3. \A r \in Runners : slots'[r] \in {slots[r], j}
    BY <1>4 DEF FailOpen, TypeOK
  <2> QED BY <2>1, <2>2, <2>3 DEF Quiet
<1>5. ASSUME NEW j \in Jobs, Decide(j), pc'[j] # "claim"
      PROVE  conf' = conf /\ Quiet
  <2>1. conf' = conf /\ overdue' = overdue /\ slots' = Reaped(slots)
    BY <1>5 DEF Decide, env
  <2>2. \A k \in Jobs : pc'[k] = "claim" => pc[k] = "claim"
    BY <1>5 DEF Decide, Goto, TypeOK
  <2>3. \A r \in Runners : slots'[r] \in {slots[r], None}
    BY <2>1 DEF Reaped, TypeOK
  <2> QED BY <2>1, <2>2, <2>3 DEF Quiet
<1>6. ASSUME NEW j \in Jobs, Decide(j) \/ Claim(j) PROVE conf' = conf
  BY <1>6 DEF Decide, Claim, env
<1>7. ASSUME FloorDrops \/ FloorClears \/ UNCHANGED vars
      PROVE  conf' = conf /\ Quiet
  <2>1. conf' = conf /\ slots' = slots /\ overdue' = overdue /\ pc' = pc
    BY <1>7 DEF FloorDrops, FloorClears, vars, files, hooks
  <2> QED BY <2>1 DEF Quiet
<1> QED BY <1>1, <1>2, <1>3, <1>4, <1>5, <1>6, <1>7 DEF Next, Hook, Finished

\* Counts and limits are naturals.
LEMMA KindType ==
    ASSUME TypeOK, NEW kind \in Kinds
    PROVE  /\ KindMax(kind) \in Nat
           /\ KindCounted(kind) \subseteq Runners /\ Cardinality(KindCounted(kind)) \in Nat
<1>1. KindMax(kind) \in Nat
  BY AdmissionAssumption DEF KindMax, AdmissionAssumption
<1>2. KindCounted(kind) \subseteq Runners
  BY DEF KindCounted, KindSlots, OnTime, Occupied
<1> QED BY <1>1, <1>2, CountType

\* A decision to claim has counted what may still be there.
LEMMA DecidedHasRoom ==
    ASSUME TypeOK, TypeOK', Holder', conf.mode = "enforce",
           NEW j \in Jobs, Decide(j), pc'[j] = "claim",
           NEW kind \in Kinds, KindLimited(kind), OfKind(kind, RunnerOf[j], j)
    PROVE  Cardinality(KindCounted(kind)') < KindMax(kind)
<1>1. conf' = conf /\ ~Full(j, slots')
  BY DEF Decide, Goto, TypeOK, Blocked, env
<1>2. ~(Cardinality(KindSlots(kind, slots')) >= KindMax(kind))
  <2>1. CASE kind = "sim"
    BY <1>1, <2>1, KindsAreLanes DEF Full, SimBlocked, IsSim, KindMax, KindLimited, OfKind
  <2>2. CASE kind = "light"
    BY <1>1, <2>2, KindsAreLanes DEF Full, KindMax, KindLimited, OfKind
  <2>3. CASE kind = "heavy"
    BY <1>1, <2>3, KindsAreLanes DEF Full, KindMax, KindLimited, OfKind
  <2> QED BY <2>1, <2>2, <2>3 DEF Kinds
<1>3. KindCounted(kind)' \subseteq KindSlots(kind, slots')
  BY <1>1 DEF KindCounted, OnTime, KindSlots, OfKind, IsLight, Occupied
<1>4. KindSlots(kind, slots') \subseteq Runners
  BY DEF KindSlots, Occupied
<1>5. /\ Cardinality(KindCounted(kind)') \in Nat /\ Cardinality(KindSlots(kind, slots')) \in Nat
      /\ Cardinality(KindCounted(kind)') <= Cardinality(KindSlots(kind, slots'))
  BY <1>3, <1>4, CountType
<1>6. KindMax(kind) \in Nat
  BY KindType
<1> QED BY <1>2, <1>5, <1>6

\* Every step keeps the limits of the lanes.
LEMMA LaneStep ==
    ASSUME LaneInv, [Next]_vars
    PROVE  LaneInv'
<1>0. TypeOK' /\ Holder' /\ TypeOK /\ Holder /\ KindRoom /\ KindCaps
  BY TypeStep, HolderStep DEF LaneInv
<1>1. (conf.mode = "enforce" /\ conf' = conf) \/ conf'.mode # "enforce"
  <2>1. conf' = conf
    BY DEF Next, Hook, Finished, StartJob, ObserveLock, ObserveClaim, Orphaned, Cancelled, Poll,
       Lock, Contended, Decide, Claim, FailOpen, Sleep, FinishSteps, FreeSlot, Report,
       KillWorker, KillHook, Expire, FloorDrops, FloorClears, vars, env
  <2> QED BY <2>1
<1> SUFFICES ASSUME conf.mode = "enforce", conf' = conf,
                    NEW kind \in Kinds, KindLimited(kind)
             PROVE  /\ Cardinality(KindCounted(kind)') <= KindMax(kind)
                    /\ \A k \in Jobs : pc'[k] = "claim" /\ OfKind(kind, RunnerOf[k], k) =>
                           Cardinality(KindCounted(kind)') < KindMax(kind)
  BY <1>0, <1>1 DEF LaneInv, KindRoom, KindCaps, KindLimited, KindMax, OfKind, IsLight
<1>2. /\ KindMax(kind) \in Nat
      /\ KindCounted(kind) \subseteq Runners /\ Cardinality(KindCounted(kind)) \in Nat
  BY <1>0, KindType
<1>3. KindCounted(kind)' \subseteq Runners /\ Cardinality(KindCounted(kind)') \in Nat
  <2>1. KindCounted(kind)' \subseteq Runners
    BY DEF KindCounted, KindSlots, OnTime, Occupied
  <2> QED BY <2>1, CountType
<1>4. /\ Cardinality(KindCounted(kind)) <= KindMax(kind)
      /\ \A k \in Jobs : pc[k] = "claim" /\ OfKind(kind, RunnerOf[k], k) =>
             Cardinality(KindCounted(kind)) < KindMax(kind)
  BY <1>0 DEF KindRoom, KindCaps
<1>5. CASE Quiet
  <2>1. KindCounted(kind)' \subseteq KindCounted(kind)
    BY <1>5 DEF Quiet, KindCounted, KindSlots, OnTime, Occupied, OfKind, IsLight
  <2>2. Cardinality(KindCounted(kind)') <= Cardinality(KindCounted(kind))
    BY <1>2, <2>1, CountType
  <2> QED BY <1>2, <1>3, <1>4, <1>5, <2>2 DEF Quiet
<1>6. ASSUME NEW j \in Jobs, Decide(j), pc'[j] = "claim"
      PROVE  /\ Cardinality(KindCounted(kind)') <= KindMax(kind)
             /\ \A k \in Jobs : pc'[k] = "claim" /\ OfKind(kind, RunnerOf[k], k) =>
                    Cardinality(KindCounted(kind)') < KindMax(kind)
  <2>1. \A k \in Jobs : pc'[k] = "claim" => k = j
    BY <1>0, <1>6 DEF Holder, Critical
  <2>2. KindCounted(kind)' \subseteq KindCounted(kind)
    <3>1. overdue' = overdue /\ slots' = Reaped(slots)
      BY <1>6 DEF Decide, env
    <3>2. \A r \in Runners : slots'[r] \in {slots[r], None}
      BY <3>1 DEF Reaped
    <3> QED BY <3>1, <3>2 DEF KindCounted, KindSlots, OnTime, Occupied, OfKind, IsLight
  <2>3. Cardinality(KindCounted(kind)') <= Cardinality(KindCounted(kind))
    BY <1>2, <2>2, CountType
  <2>4. OfKind(kind, RunnerOf[j], j) => Cardinality(KindCounted(kind)') < KindMax(kind)
    BY <1>0, <1>6, DecidedHasRoom
  <2> QED BY <1>2, <1>3, <1>4, <2>1, <2>3, <2>4
<1>7. ASSUME NEW j \in Jobs, Claim(j)
      PROVE  /\ Cardinality(KindCounted(kind)') <= KindMax(kind)
             /\ \A k \in Jobs : pc'[k] = "claim" /\ OfKind(kind, RunnerOf[k], k) =>
                    Cardinality(KindCounted(kind)') < KindMax(kind)
  <2>1. /\ overdue' = overdue /\ pc[j] = "claim" /\ RunnerOf[j] \in Runners
        /\ slots' = [slots EXCEPT ![RunnerOf[j]] = j]
    BY <1>7, AdmissionAssumption DEF Claim, env, AdmissionAssumption
  <2>2. \A k \in Jobs : pc'[k] # "claim"
    BY <1>0, <1>7 DEF Claim, Goto, AfterHook, TypeOK, Holder, Critical
  <2>3. \A r \in Runners : slots'[r] = IF r = RunnerOf[j] THEN j ELSE slots[r]
    BY <1>0, <2>1 DEF TypeOK
  <2>4. CASE OfKind(kind, RunnerOf[j], j)
    <3>1. KindCounted(kind)' \subseteq KindCounted(kind) \union {RunnerOf[j]}
      BY <2>1, <2>3 DEF KindCounted, KindSlots, OnTime, Occupied, OfKind, IsLight
    <3>2. Cardinality(KindCounted(kind) \union {RunnerOf[j]}) <= Cardinality(KindCounted(kind)) + 1
      BY <1>2, CountType, FS_AddElement
    <3>3. /\ Cardinality(KindCounted(kind) \union {RunnerOf[j]}) \in Nat
          /\ Cardinality(KindCounted(kind)') <= Cardinality(KindCounted(kind) \union {RunnerOf[j]})
      BY <1>2, <2>1, <3>1, CountType
    <3>4. Cardinality(KindCounted(kind)) < KindMax(kind)
      BY <1>4, <2>1, <2>4
    <3> QED BY <1>2, <1>3, <2>2, <3>2, <3>3, <3>4
  <2>5. CASE ~OfKind(kind, RunnerOf[j], j)
    <3>1. KindCounted(kind)' \subseteq KindCounted(kind)
      BY <2>1, <2>3, <2>5 DEF KindCounted, KindSlots, OnTime, Occupied, OfKind, IsLight
    <3>2. Cardinality(KindCounted(kind)') <= Cardinality(KindCounted(kind))
      BY <1>2, <3>1, CountType
    <3> QED BY <1>2, <1>3, <1>4, <2>2, <3>2
  <2> QED BY <2>4, <2>5
<1> QED BY <1>0, <1>5, <1>6, <1>7, SlotStep

\* Initially no slot is taken.
LEMMA LaneInit == Init => LaneInv
<1> SUFFICES ASSUME Init PROVE LaneInv
  OBVIOUS
<1>1. TypeOK
  BY TypeInit
<1>2. Holder /\ KindRoom
  BY DEF Init, Holder, KindRoom, Critical
<1>3. ASSUME NEW kind \in Kinds PROVE Cardinality(KindCounted(kind)) <= KindMax(kind)
  <2>1. KindCounted(kind) = {}
    BY DEF Init, KindCounted, KindSlots, OnTime, Occupied
  <2>2. KindMax(kind) \in Nat
    BY <1>1, KindType
  <2> QED BY <2>1, <2>2, FS_EmptySet
<1> QED BY <1>1, <1>2, <1>3 DEF LaneInv, KindCaps

\* The jobs admitted in time never hold more slots of a lane, or on Simulator
\* runners, than that lane's limit or the Simulator limit, whichever jobs and kills
\* there are.
THEOREM LanesHold == Spec => []LaneCaps
<1>1. LaneInv => LaneCaps
  BY KindCapsAreLaneCaps DEF LaneInv
<1> QED BY <1>1, LaneInit, LaneStep, PTL DEF Spec

------------------------------------------------------------------------------
(* Running jobs and their slots.  The slot file is named after the runner,  *)
(* so it says something about a job only because a runner has one worker.   *)

OneWorker ==
    \A j, k \in working : RunnerOf[j] = RunnerOf[k] => j = k

Attended ==
    spent["workers"] = 0 =>
        \A j \in Jobs : pc[j] \notin {"queued", "gone"} => j \in working

OwnerInv == TypeOK /\ OneWorker /\ Attended /\ RunningHasSlot

\* Nothing forgets a worker's death or makes an old slot young.
LEMMA FaultsRemain ==
    ASSUME TypeOK, [Next]_vars
    PROVE  /\ spent'["workers"] = 0 => spent["workers"] = 0
           /\ old \subseteq old'
<1>1. ASSUME NEW fault \in Faults, Spend(fault)
      PROVE  spent'["workers"] = 0 => spent["workers"] = 0
  BY <1>1 DEF Spend, TypeOK, Faults
<1>2. ASSUME NEW j \in Jobs, Sleep(j)
      PROVE  (spent'["workers"] = 0 => spent["workers"] = 0) /\ old \subseteq old'
  BY <1>1, <1>2 DEF Sleep, Faults
<1>3. ASSUME NEW j \in Jobs, KillWorker(j) \/ KillHook(j) \/ Expire(j)
      PROVE  (spent'["workers"] = 0 => spent["workers"] = 0) /\ old \subseteq old'
  BY <1>1, <1>3 DEF KillWorker, KillHook, Expire, Faults
<1>4. ASSUME FloorDrops \/ FloorClears \/ UNCHANGED vars
      PROVE  (spent'["workers"] = 0 => spent["workers"] = 0) /\ old \subseteq old'
  BY <1>1, <1>4 DEF FloorDrops, FloorClears, vars, Faults
<1>5. ASSUME NEW j \in Jobs,
             \/ StartJob(j) \/ ObserveLock(j) \/ ObserveClaim(j) \/ Orphaned(j)
             \/ Cancelled(j) \/ Poll(j) \/ Lock(j) \/ Contended(j) \/ Decide(j)
             \/ Claim(j) \/ FailOpen(j) \/ FinishSteps(j) \/ FreeSlot(j) \/ Report(j)
      PROVE  spent' = spent /\ old' = old
  BY <1>5 DEF StartJob, ObserveLock, ObserveClaim, Orphaned, Cancelled, Poll, Lock,
     Contended, Decide, Claim, FailOpen, FinishSteps, FreeSlot, Report, env
<1> QED
  BY <1>2, <1>3, <1>4, <1>5 DEF Next, Hook, Finished

LEMMA WorkerStep ==
    ASSUME TypeOK, OneWorker, Attended, [Next]_vars
    PROVE  OneWorker' /\ Attended'
<1> USE AdmissionAssumption DEF OneWorker, Attended, TypeOK, Waiting, Phases,
        files, hooks, env, Goto, AfterHook
<1>0. spent'["workers"] = 0 => spent["workers"] = 0
  BY FaultsRemain
<1>1. ASSUME NEW j \in Jobs, StartJob(j) PROVE OneWorker' /\ Attended'
  BY <1>1 DEF StartJob
<1>2. ASSUME NEW j \in Jobs, ObserveLock(j) \/ ObserveClaim(j) PROVE OneWorker' /\ Attended'
  BY <1>2 DEF ObserveLock, ObserveClaim
<1>3. ASSUME NEW j \in Jobs, Orphaned(j) \/ Cancelled(j) PROVE OneWorker' /\ Attended'
  BY <1>3 DEF Orphaned, Cancelled
<1>4. ASSUME NEW j \in Jobs, Poll(j) \/ Lock(j) \/ Contended(j) PROVE OneWorker' /\ Attended'
  BY <1>4 DEF Poll, Lock, Contended
<1>5. ASSUME NEW j \in Jobs, Decide(j) PROVE OneWorker' /\ Attended'
  BY <1>5 DEF Decide
<1>6. ASSUME NEW j \in Jobs, Claim(j) \/ FailOpen(j) PROVE OneWorker' /\ Attended'
  BY <1>6 DEF Claim, FailOpen
<1>7. ASSUME NEW j \in Jobs, Sleep(j) PROVE OneWorker' /\ Attended'
  BY <1>0, <1>7 DEF Sleep
<1>8. ASSUME NEW j \in Jobs, FinishSteps(j) \/ FreeSlot(j) PROVE OneWorker' /\ Attended'
  BY <1>8 DEF FinishSteps, FreeSlot
<1>9. ASSUME NEW j \in Jobs, Report(j) PROVE OneWorker' /\ Attended'
  BY <1>9 DEF Report
<1>10. ASSUME NEW j \in Jobs, KillWorker(j) PROVE OneWorker' /\ Attended'
  BY <1>10 DEF KillWorker, Spend, Faults
<1>11. ASSUME NEW j \in Jobs, KillHook(j) PROVE OneWorker' /\ Attended'
  BY <1>0, <1>11 DEF KillHook
<1>12. ASSUME NEW j \in Jobs, Expire(j) PROVE OneWorker' /\ Attended'
  BY <1>0, <1>12 DEF Expire
<1>13. ASSUME FloorDrops \/ FloorClears \/ UNCHANGED vars PROVE OneWorker' /\ Attended'
  BY <1>0, <1>13 DEF FloorDrops, FloorClears, vars
<1> QED
  BY <1>1, <1>2, <1>3, <1>4, <1>5, <1>6, <1>7, <1>8, <1>9, <1>10, <1>11, <1>12, <1>13
  DEF Next, Hook, Finished

LEMMA OwnerStep ==
    ASSUME OwnerInv, [Next]_vars
    PROVE  OwnerInv'
<1>0. TypeOK /\ OneWorker /\ Attended /\ RunningHasSlot /\ TypeOK' /\ OneWorker' /\ Attended'
  BY TypeStep, WorkerStep DEF OwnerInv
<1> SUFFICES ASSUME spent'["workers"] = 0, old' = {} PROVE \A k \in Jobs :
                 pc'[k] = "run" => slots'[RunnerOf[k]] = k
  BY <1>0 DEF OwnerInv, RunningHasSlot
<1>1. /\ spent["workers"] = 0 /\ old = {}
      /\ \A k \in Jobs : pc[k] = "run" => slots[RunnerOf[k]] = k
      /\ \A k \in Jobs : pc[k] \notin {"queued", "gone"} => k \in working
  BY <1>0, FaultsRemain DEF RunningHasSlot, Attended
\* Two jobs that are both at work do not share a slot.
<1>2. \A j, k \in Jobs :
         pc[j] \notin {"queued", "gone"} /\ pc[k] = "run" /\ j # k => RunnerOf[j] # RunnerOf[k]
  BY <1>0, <1>1 DEF OneWorker
<1>3. \A k \in Jobs : pc[k] = "run" => Reaped(slots)[RunnerOf[k]] = k
  BY <1>1, AdmissionAssumption DEF Reaped, AdmissionAssumption
<1> USE <1>0, AdmissionAssumption DEF TypeOK, Waiting, Phases, files, hooks, env,
        Goto, AfterHook, AdmissionAssumption
<1>4. ASSUME NEW j \in Jobs, StartJob(j) \/ ObserveLock(j)
      PROVE  \A k \in Jobs : pc'[k] = "run" => slots'[RunnerOf[k]] = k
  BY <1>1, <1>4 DEF StartJob, ObserveLock
<1>5. ASSUME NEW j \in Jobs, ObserveClaim(j)
      PROVE  \A k \in Jobs : pc'[k] = "run" => slots'[RunnerOf[k]] = k
  BY <1>1, <1>2, <1>3, <1>5, ReapedType DEF ObserveClaim
<1>6. ASSUME NEW j \in Jobs, Orphaned(j) \/ Cancelled(j) \/ Poll(j) \/ Lock(j) \/ Contended(j)
      PROVE  \A k \in Jobs : pc'[k] = "run" => slots'[RunnerOf[k]] = k
  BY <1>1, <1>6 DEF Orphaned, Cancelled, Poll, Lock, Contended
<1>7. ASSUME NEW j \in Jobs, Decide(j)
      PROVE  \A k \in Jobs : pc'[k] = "run" => slots'[RunnerOf[k]] = k
  BY <1>3, <1>7 DEF Decide
<1>8. ASSUME NEW j \in Jobs, Claim(j) \/ FailOpen(j)
      PROVE  \A k \in Jobs : pc'[k] = "run" => slots'[RunnerOf[k]] = k
  BY <1>1, <1>2, <1>8 DEF Claim, FailOpen
<1>9. ASSUME NEW j \in Jobs, Sleep(j) \/ FinishSteps(j)
      PROVE  \A k \in Jobs : pc'[k] = "run" => slots'[RunnerOf[k]] = k
  BY <1>1, <1>9 DEF Sleep, FinishSteps
<1>10. ASSUME NEW j \in Jobs, FreeSlot(j)
      PROVE  \A k \in Jobs : pc'[k] = "run" => slots'[RunnerOf[k]] = k
  BY <1>1, <1>2, <1>10 DEF FreeSlot
<1>11. ASSUME NEW j \in Jobs, Report(j)
      PROVE  \A k \in Jobs : pc'[k] = "run" => slots'[RunnerOf[k]] = k
  BY <1>1, <1>3, <1>11 DEF Report
<1>12. ASSUME NEW j \in Jobs, KillWorker(j) \/ KillHook(j) \/ Expire(j)
      PROVE  \A k \in Jobs : pc'[k] = "run" => slots'[RunnerOf[k]] = k
  BY <1>1, <1>12 DEF KillWorker, KillHook, Expire
<1>13. ASSUME FloorDrops \/ FloorClears \/ UNCHANGED vars
      PROVE  \A k \in Jobs : pc'[k] = "run" => slots'[RunnerOf[k]] = k
  BY <1>1, <1>13 DEF FloorDrops, FloorClears, vars
<1> QED
  BY <1>4, <1>5, <1>6, <1>7, <1>8, <1>9, <1>10, <1>11, <1>12, <1>13
  DEF OwnerInv, Next, Hook, Finished

\* Until a worker dies or a slot outlives its TTL, every running job holds the
\* slot of its runner: the hooks' count of slots covers every running job.
THEOREM RunningJobsHoldSlots == Spec => []RunningHasSlot
<1>1. Init => OwnerInv
  BY TypeInit DEF Init, OwnerInv, OneWorker, Attended, RunningHasSlot
<1>2. OwnerInv => RunningHasSlot
  BY DEF OwnerInv
<1> QED BY <1>1, <1>2, OwnerStep, PTL DEF Spec

------------------------------------------------------------------------------
(* The refinement.  The files of hooks/common.sh implement the gate of          *)
(* AdmissionGate under FLEET_ADMIT_TIMEOUT_ACTION=hold.  The gate's variables   *)
(* are those of the mapping in Admission; they have names of their own here.    *)

GateSims == {j \in Jobs : IsSim(j)}
LineOf(j) == conf.lanes = "enforce" /\ IsLight(j)
RoomOf(l) == IF conf.lanes = "enforce" THEN IF l THEN LightMax ELSE HeavyMax ELSE Cap
Order == {e \in Queueing \X Queueing : e[1] \in ahead[e[2]]}
Urgent == {j \in Queueing : conf.priority /\ mark[j] # "none"}
Owners(s) == {j \in Jobs : s[RunnerOf[j]] = j}
Inside == {j \in Jobs : slots[RunnerOf[j]] = j \/ pc[j] = "claim"}

------------------------------------------------------------------------------
(* The invariant of the files that the refinement needs.                    *)

\* A slot file names a job of its own runner.
SlotOwner == \A r \in Runners : slots[r] # None => RunnerOf[slots[r]] = r

\* A job whose hook has not started has left no file; one that decides has.
Entered ==
    \A j \in Jobs :
        /\ pc[j] = "queued" => j \notin waiters
        /\ pc[j] = "decide" => j \in waiters

\* Every set of waiters has a first one: whoever admit_priority_head or the
\* locked check looks for by the sort order of the files, there is one.
WellOrdered ==
    \A S \in SUBSET waiters : S # {} => \E k \in S : ahead[k] \intersect S = {}

GateInv == TypeOK /\ Holder /\ Held /\ SlotOwner /\ Entered /\ WellOrdered

\* Joining at the end of the line keeps it in order.
LEMMA JoinOrdered ==
    ASSUME NEW j \in Jobs, QueueOK, WellOrdered, Join(j)
    PROVE  WellOrdered'
<1> SUFFICES ASSUME NEW S \in SUBSET waiters', S # {}
             PROVE  \E k \in S : ahead'[k] \intersect S = {}
  BY DEF WellOrdered
<1>1. CASE j \in waiters
  BY <1>1 DEF Join, WellOrdered
<1>2. CASE j \notin waiters
  <2>1. /\ \A k \in Jobs : ahead'[k] = IF k = j THEN waiters ELSE ahead[k]
        /\ \A k \in Jobs : ahead[k] \subseteq waiters
        /\ waiters \subseteq Jobs /\ S \subseteq Jobs
    BY <1>2 DEF Join, QueueOK
  <2>2. CASE S \ {j} = {}
    BY <1>2, <2>1, <2>2
  <2>3. CASE S \ {j} # {}
    <3>1. S \ {j} \in SUBSET waiters
      BY DEF Join
    <3>2. PICK k \in S \ {j} : ahead[k] \intersect (S \ {j}) = {}
      BY <2>3, <3>1 DEF WellOrdered
    <3> QED BY <1>2, <2>1, <3>2
  <2> QED BY <2>2, <2>3
<1> QED BY <1>1, <1>2

\* So does removing files.
LEMMA LeaveOrdered ==
    ASSUME NEW S, QueueOK, WellOrdered, Leave(S)
    PROVE  WellOrdered'
<1> SUFFICES ASSUME NEW T \in SUBSET waiters', T # {}
             PROVE  \E k \in T : ahead'[k] \intersect T = {}
  BY DEF WellOrdered
<1>1. T \in SUBSET waiters /\ T \subseteq Jobs
  BY DEF Leave, QueueOK
<1>2. PICK k \in T : ahead[k] \intersect T = {}
  BY <1>1 DEF WellOrdered
<1>3. ahead'[k] \subseteq ahead[k]
  BY <1>1 DEF Leave
<1> QED BY <1>2, <1>3

\* The settings are read once.
LEMMA ConfKept == ASSUME [Next]_vars PROVE conf' = conf
BY DEF Next, Hook, Finished, StartJob, ObserveLock, ObserveClaim, Orphaned, Cancelled, Poll,
   Lock, Contended, Decide, Claim, FailOpen, Sleep, FinishSteps, FreeSlot, Report,
   KillWorker, KillHook, Expire, FloorDrops, FloorClears, vars, env

\* Under hold no hook passes without the mutex.
LEMMA NobodyFailsOpen ==
    ASSUME TypeOK, Holder, Held, NEW j \in Jobs
    PROVE  ~ObserveLock(j) /\ ~ObserveClaim(j) /\ ~FailOpen(j)
BY DEF Holder, Held, ObserveLock, ObserveClaim, FailOpen, TimedOut

\* Slots are taken by their runner's job only, and emptied by anybody.
LEMMA SlotOwnerStep ==
    ASSUME GateInv, [Next]_vars
    PROVE  SlotOwner'
<1> USE AdmissionAssumption DEF GateInv, AdmissionAssumption
<1>1. \/ \A r \in Runners : slots'[r] \in {slots[r], None}
      \/ \E j \in Jobs : Claim(j)
  <2>1. ASSUME NEW j \in Jobs,
               \/ StartJob(j) \/ Orphaned(j) \/ Cancelled(j) \/ Poll(j) \/ Lock(j)
               \/ Contended(j) \/ Sleep(j) \/ FinishSteps(j)
               \/ KillWorker(j) \/ KillHook(j) \/ Expire(j)
        PROVE  slots' = slots
    BY <2>1 DEF StartJob, Orphaned, Cancelled, Poll, Lock, Contended, Sleep,
       FinishSteps, KillWorker, KillHook, Expire, files
  <2>2. ASSUME NEW j \in Jobs, Decide(j) \/ FreeSlot(j) \/ Report(j)
        PROVE  \A r \in Runners : slots'[r] \in {slots[r], None}
    BY <2>2 DEF Decide, FreeSlot, Report, Reaped, TypeOK
  <2>3. ASSUME FloorDrops \/ FloorClears \/ UNCHANGED vars
        PROVE  slots' = slots
    BY <2>3 DEF FloorDrops, FloorClears, vars, files
  <2> QED BY <2>1, <2>2, <2>3, NobodyFailsOpen DEF Next, Hook, Finished
<1>2. CASE \A r \in Runners : slots'[r] \in {slots[r], None}
  BY <1>2 DEF SlotOwner
<1>3. ASSUME NEW j \in Jobs, Claim(j) PROVE SlotOwner'
  BY <1>3 DEF Claim, SlotOwner, TypeOK
<1> QED BY <1>1, <1>2, <1>3

LEMMA EnteredStep ==
    ASSUME GateInv, [Next]_vars
    PROVE  Entered'
<1> USE AdmissionAssumption DEF GateInv, Entered, TypeOK, Holder, Critical, Waiting, Phases,
        files, hooks, env, Goto, AfterHook, HookAlive
<1>1. ASSUME NEW j \in Jobs, StartJob(j) \/ Poll(j) \/ Contended(j) \/ FinishSteps(j)
                             \/ FreeSlot(j) \/ Report(j)
      PROVE  Entered'
  BY <1>1 DEF StartJob, Poll, Contended, FinishSteps, FreeSlot, Report
<1>2. ASSUME NEW j \in Jobs, Orphaned(j) \/ Cancelled(j) \/ Claim(j) PROVE Entered'
  BY <1>2 DEF Orphaned, Cancelled, Claim, Leave
<1>3. ASSUME NEW j \in Jobs, Lock(j) PROVE Entered'
  BY <1>3 DEF Lock, Join
<1>4. ASSUME NEW j \in Jobs, Decide(j) PROVE Entered'
  \* no other hook decides: it would hold the mutex
  <2>1. /\ pc[j] = "decide" /\ \A k \in Jobs : pc[k] = "decide" => k = j
        /\ pc'[j] \notin {"decide", "queued"} /\ \A k \in Jobs \ {j} : pc'[k] = pc[k]
        /\ waiters' \subseteq waiters
    BY <1>4 DEF Decide, Leave
  <2> QED BY <2>1
<1>5. ASSUME NEW j \in Jobs, Sleep(j) PROVE Entered'
  BY <1>5 DEF Sleep
<1>6. ASSUME NEW j \in Jobs, KillWorker(j) \/ KillHook(j) \/ Expire(j) PROVE Entered'
  BY <1>6 DEF KillWorker, KillHook, Expire
<1>7. ASSUME FloorDrops \/ FloorClears \/ UNCHANGED vars PROVE Entered'
  BY <1>7 DEF FloorDrops, FloorClears, vars
<1> QED
  BY <1>1, <1>2, <1>3, <1>4, <1>5, <1>6, <1>7, NobodyFailsOpen DEF Next, Hook, Finished

LEMMA OrderStep ==
    ASSUME GateInv, [Next]_vars
    PROVE  WellOrdered'
<1>0. QueueOK /\ WellOrdered /\ TypeOK
  BY DEF GateInv, TypeOK, QueueOK
<1>1. ASSUME NEW j \in Jobs,
             \/ StartJob(j) \/ Poll(j) \/ Contended(j) \/ Sleep(j) \/ FinishSteps(j)
             \/ FreeSlot(j) \/ Report(j) \/ KillWorker(j) \/ KillHook(j) \/ Expire(j)
      PROVE  WellOrdered'
  <2>1. waiters' = waiters /\ ahead' = ahead
    BY <1>1 DEF StartJob, Poll, Contended, Sleep, FinishSteps, FreeSlot, Report,
       KillWorker, KillHook, Expire, files
  <2> QED BY <1>0, <2>1 DEF WellOrdered
<1>2. ASSUME NEW j \in Jobs, Orphaned(j) \/ Cancelled(j) \/ Claim(j) PROVE WellOrdered'
  BY <1>0, <1>2, LeaveOrdered DEF Orphaned, Cancelled, Claim
<1>3. ASSUME NEW j \in Jobs, Lock(j) PROVE WellOrdered'
  BY <1>0, <1>3, JoinOrdered DEF Lock
<1>4. ASSUME NEW j \in Jobs, Decide(j) PROVE WellOrdered'
  <2>1. CASE Leave({k \in waiters : ~HookAlive(k)})
    BY <1>0, <2>1, LeaveOrdered
  <2>2. CASE UNCHANGED <<waiters, ahead>>
    BY <1>0, <2>2 DEF WellOrdered
  <2> QED BY <1>4, <2>1, <2>2 DEF Decide
<1>5. ASSUME FloorDrops \/ FloorClears \/ UNCHANGED vars PROVE WellOrdered'
  <2>1. waiters' = waiters /\ ahead' = ahead
    BY <1>5 DEF FloorDrops, FloorClears, vars, files
  <2> QED BY <1>0, <2>1 DEF WellOrdered
<1> QED
  BY <1>1, <1>2, <1>3, <1>4, <1>5, NobodyFailsOpen DEF GateInv, Next, Hook, Finished

LEMMA GateInvStep == ASSUME GateInv, [Next]_vars PROVE GateInv'
BY TypeStep, HolderStep, SlotOwnerStep, EnteredStep, OrderStep, ConfKept DEF GateInv, Held

LEMMA GateInvInit == Init /\ Held => GateInv
<1> SUFFICES ASSUME Init, Held PROVE GateInv
  OBVIOUS
<1>1. TypeOK
  BY TypeInit
<1> QED
  BY <1>1 DEF Init, GateInv, Holder, SlotOwner, Entered, WellOrdered, Critical

------------------------------------------------------------------------------
(* The steps of the gate, in terms of the mapped variables.                 *)

\* The gate counts as the hooks do.
LEMMA GateCounts == \A S : Gate!Cardinality(S) = Cardinality(S)
BY DEF Gate!Cardinality, Cardinality

\* Two jobs are of one line of the gate when they are of one lane.
LEMMA GateLines ==
    ASSUME NEW k \in Jobs, NEW j \in Jobs
    PROVE  Gate!SameLine(k, j) <=> LineOf(k) = LineOf(j)
BY DEF Gate!SameLine, LineOf

LEMMA GateArrives ==
    ASSUME NEW j \in Jobs, conf' = conf, j \notin Queueing,
           Queueing' = Queueing \union {j}, Order' = Order \union (Queueing \X {j}),
           Urgent' = Urgent, Inside' = Inside
    PROVE  Gate!Next
BY DEF Gate!Next, Gate!Arrive, Order, Urgent, Inside, Cap, IsLight, IsSim

\* A step of the gate that lets the waiting jobs be.
LEMMA GateGivesBack ==
    ASSUME conf' = conf, Queueing' = Queueing, Order' = Order, Urgent' = Urgent,
           Inside' \subseteq Inside
    PROVE  Gate!Next
BY DEF Gate!Next, Gate!GiveBack, Order, Urgent, Inside, Cap, IsLight, IsSim

LEMMA GateWithdraws ==
    ASSUME NEW j \in Jobs, conf' = conf, j \in Queueing,
           Queueing' = Queueing \ {j}, Order' = Order \intersect (Queueing' \X Queueing'),
           Urgent' = Urgent \intersect Queueing', Inside' = Inside
    PROVE  Gate!Next
BY DEF Gate!Next, Gate!Withdraw, Gate!Remain, Order, Urgent, Inside, Cap, IsLight, IsSim

LEMMA GateRanks ==
    ASSUME NEW j \in Jobs, conf' = conf, j \in Queueing,
           Queueing' = Queueing, Order' = Order, Inside' = Inside,
           Urgent' \in {Urgent \union {j}, Urgent \ {j}}
    PROVE  Gate!Next
BY DEF Gate!Next, Gate!Rank, Order, Urgent, Inside, Cap, IsLight, IsSim

\* j passes beside the jobs of stay, which have left it room, and before all that
\* are ahead of it but are held by the Simulator limit.
LEMMA GatePasses ==
    ASSUME NEW j \in Jobs, conf' = conf, j \in Queueing, waiters \subseteq Jobs,
           NEW stay \in SUBSET Inside,
           Cardinality(stay) < Cap,
           Cardinality({k \in stay : LineOf(k) = LineOf(j)}) < RoomOf(LineOf(j)),
           IsSim(j) => ~(Cardinality(stay \intersect GateSims) >= SimMax),
           \A k \in Queueing \ {j} :
               /\ LineOf(k) = LineOf(j)
               /\ IF k \in Urgent <=> j \in Urgent THEN <<k, j>> \in Order ELSE k \in Urgent
               => IsSim(k) /\ Cardinality(stay \intersect GateSims) >= SimMax,
           Inside' = stay \union {j},
           Queueing' = Queueing \ {j}, Order' = Order \intersect (Queueing' \X Queueing'),
           Urgent' = Urgent \intersect Queueing'
    PROVE  Gate!Next
<1>1. Gate!Fits(j, stay)
  <2>1. stay \subseteq Jobs
    BY DEF Inside
  <2>2. {k \in stay : Gate!SameLine(k, j)} = {k \in stay : LineOf(k) = LineOf(j)}
    BY <2>1, GateLines
  <2>3. (IF conf.lanes = "enforce" THEN [l \in BOOLEAN |-> IF l THEN LightMax ELSE HeavyMax]
         ELSE [l \in BOOLEAN |-> Cap])[LineOf(j)] = RoomOf(LineOf(j))
    BY DEF RoomOf, LineOf
  <2> QED BY <2>2, <2>3, GateCounts DEF Gate!Fits, Gate!SimsFull, GateSims, LineOf
<1>2. \A k \in Queueing \ {j} :
        Gate!SameLine(k, j) /\ Gate!Before(k, j) => k \in GateSims /\ Gate!SimsFull(stay)
  <2> SUFFICES ASSUME NEW k \in Queueing \ {j}, Gate!SameLine(k, j), Gate!Before(k, j)
               PROVE  k \in GateSims /\ Gate!SimsFull(stay)
    OBVIOUS
  <2>1. k \in Jobs
    BY DEF Queueing
  <2> QED
    BY <2>1, GateLines, GateCounts DEF Gate!Before, Gate!SimsFull, GateSims, Order, Urgent
<1>3. Gate!Pass(j)
  BY <1>1, <1>2 DEF Gate!Pass, Gate!Remain, Order, Urgent, Inside, Cap, IsLight, IsSim, GateSims
<1> QED BY <1>3 DEF Gate!Next

------------------------------------------------------------------------------
(* Jobs and slots.  The gate counts jobs, the hooks count files.            *)

\* When every slot names a job of its own runner, the jobs that own a slot of R
\* are as many as the slots of R.
LEMMA OwnersCount ==
    ASSUME NEW s \in [Runners -> Jobs \union {None}],
           \A r \in Runners : s[r] # None => RunnerOf[s[r]] = r,
           NEW R \in SUBSET Occupied(s)
    PROVE  Cardinality({j \in Owners(s) : RunnerOf[j] \in R}) = Cardinality(R)
<1> DEFINE J == {j \in Owners(s) : RunnerOf[j] \in R}
           f == [r \in R |-> s[r]]
<1>1. R \subseteq Runners /\ IsFiniteSet(R)
  <2>1. R \subseteq Runners
    BY DEF Occupied
  <2> QED BY <2>1, CountType
<1>2. \A r \in R : s[r] \in Jobs /\ RunnerOf[s[r]] = r /\ s[r] \in J
  BY <1>1 DEF Occupied, Owners
<1>3. f \in [R -> J]
  BY <1>2
<1>4. \A a, b \in R : f[a] = f[b] => a = b
  BY <1>2
<1>5. \A j \in J : \E r \in R : f[r] = j
  <2> SUFFICES ASSUME NEW j \in J PROVE f[RunnerOf[j]] = j /\ RunnerOf[j] \in R
    OBVIOUS
  <2> QED BY DEF Owners
<1>6. f \in Bijection(R, J)
  BY <1>3, <1>4, <1>5 DEF Bijection, Injection, Surjection, IsInjective
<1>7. ExistsBijection(R, J)
  BY <1>6 DEF ExistsBijection
<1> QED BY <1>1, <1>7, FS_Bijection

\* Room in the count of slot files is room in the gate.
LEMMA NotFullFits ==
    ASSUME TypeOK, NEW j \in Jobs, NEW s \in [Runners -> Jobs \union {None}],
           \A r \in Runners : s[r] # None => RunnerOf[s[r]] = r,
           ~Full(j, s)
    PROVE  /\ Cardinality(Owners(s)) < Cap
           /\ Cardinality({k \in Owners(s) : LineOf(k) = LineOf(j)}) < RoomOf(LineOf(j))
<1> USE AdmissionAssumption DEF AdmissionAssumption
<1>0. \A k \in Owners(s) : k \in Jobs /\ RunnerOf[k] \in Occupied(s) /\ s[RunnerOf[k]] = k
  BY DEF Owners, Occupied
<1>1. Cardinality(Owners(s)) = Cardinality(Occupied(s))
  <2>1. {k \in Owners(s) : RunnerOf[k] \in Occupied(s)} = Owners(s)
    BY <1>0
  <2> QED BY <2>1, OwnersCount
<1>2. Cap \in Nat /\ LightMax \in Nat /\ HeavyMax \in Nat
  BY CapType
<1>3. Cardinality(Occupied(s)) \in Nat /\ ~(Cardinality(Occupied(s)) >= Cap)
  <2>1. Occupied(s) \subseteq Runners
    BY DEF Occupied
  <2> QED BY <2>1, CountType DEF Full
<1>4. CASE conf.lanes # "enforce"
  <2>1. {k \in Owners(s) : LineOf(k) = LineOf(j)} = Owners(s)
    BY <1>4 DEF LineOf
  <2>2. RoomOf(LineOf(j)) = Cap /\ Cardinality(Owners(s)) < Cap
    BY <1>1, <1>2, <1>3, <1>4 DEF RoomOf
  <2> QED BY <2>1, <2>2
<1>5. CASE conf.lanes = "enforce" /\ IsLight(j)
  <2>1. {k \in Owners(s) : LineOf(k) = LineOf(j)} = {k \in Owners(s) : RunnerOf[k] \in LightSlots(s)}
    BY <1>0, <1>5 DEF LineOf, LightSlots
  <2>2. LightSlots(s) \subseteq Occupied(s) /\ LightSlots(s) \subseteq Runners
    BY DEF LightSlots, Occupied
  <2>3. Cardinality(LightSlots(s)) \in Nat /\ ~(Cardinality(LightSlots(s)) >= LightMax)
    BY <1>5, <2>2, CountType DEF Full
  <2>4. Cardinality({k \in Owners(s) : LineOf(k) = LineOf(j)}) = Cardinality(LightSlots(s))
    BY <2>1, <2>2, OwnersCount
  <2> QED BY <1>1, <1>2, <1>3, <1>5, <2>3, <2>4 DEF RoomOf, LineOf
<1>6. CASE conf.lanes = "enforce" /\ ~IsLight(j)
  <2>1. {k \in Owners(s) : LineOf(k) = LineOf(j)} = {k \in Owners(s) : RunnerOf[k] \in HeavySlots(s)}
    BY <1>0, <1>6 DEF LineOf, HeavySlots, LightSlots
  <2>2. HeavySlots(s) \subseteq Occupied(s) /\ HeavySlots(s) \subseteq Runners
    BY DEF HeavySlots, Occupied
  <2>3. Cardinality(HeavySlots(s)) \in Nat /\ ~(Cardinality(HeavySlots(s)) >= HeavyMax)
    BY <1>6, <2>2, CountType DEF Full
  <2>4. Cardinality({k \in Owners(s) : LineOf(k) = LineOf(j)}) = Cardinality(HeavySlots(s))
    BY <2>1, <2>2, OwnersCount
  <2> QED BY <1>1, <1>2, <1>3, <1>6, <2>3, <2>4 DEF RoomOf, LineOf
<1> QED BY <1>4, <1>5, <1>6

\* The Simulator limit holds the same jobs at the gate and in the hooks.
LEMMA SimsCounted ==
    ASSUME TypeOK, NEW k \in Jobs, NEW s \in [Runners -> Jobs \union {None}],
           \A r \in Runners : s[r] # None => RunnerOf[s[r]] = r
    PROVE  SimBlocked(k, s) <=>
               IsSim(k) /\ Cardinality(Owners(s) \intersect GateSims) >= SimMax
<1>1. CASE ~IsSim(k)
  BY <1>1 DEF SimBlocked
<1>2. CASE IsSim(k)
  <2>1. SimMax > 0
    BY <1>2 DEF IsSim
  <2>2. Owners(s) \intersect GateSims = {j \in Owners(s) : RunnerOf[j] \in SimSlots(s)}
    <3>1. \A j \in Owners(s) : j \in Jobs /\ RunnerOf[j] \in Occupied(s)
      BY AdmissionAssumption DEF Owners, Occupied, AdmissionAssumption
    <3> QED BY <2>1, <3>1 DEF SimSlots, GateSims, IsSim, Owners
  <2>3. SimSlots(s) \subseteq Occupied(s)
    BY DEF SimSlots
  <2>4. Cardinality(Owners(s) \intersect GateSims) = Cardinality(SimSlots(s))
    BY <2>2, <2>3, OwnersCount
  <2> QED BY <1>2, <2>4 DEF SimBlocked
<1> QED BY <1>1, <1>2

------------------------------------------------------------------------------
(* Every step of the hooks is a step of the gate or does not move it.       *)

\* The order and the priority of the jobs that go on waiting.
LEMMA WaitersKept ==
    ASSUME conf' = conf, Queueing' \subseteq Queueing,
           \A k \in Queueing' : /\ ahead'[k] \intersect Queueing' = ahead[k] \intersect Queueing'
                                /\ mark'[k] = mark[k]
    PROVE  /\ Order' = Order \intersect (Queueing' \X Queueing')
           /\ Urgent' = Urgent \intersect Queueing'
<1> DEFINE Q == Queueing'
<1>1. Order' = {e \in Q \X Q : e[1] \in ahead'[e[2]]}
  BY DEF Order
<1>2. \A e \in Q \X Q : e[1] \in ahead'[e[2]] <=> e[1] \in ahead[e[2]]
  <2> HIDE DEF Q
  <2> SUFFICES ASSUME NEW a \in Q, NEW b \in Q
               PROVE  a \in ahead'[b] <=> a \in ahead[b]
    OBVIOUS
  <2> QED BY DEF Q
<1>3. Order \intersect (Q \X Q) = {e \in Q \X Q : e[1] \in ahead[e[2]]}
  BY DEF Order
<1>4. Order' = Order \intersect (Q \X Q)
  BY <1>1, <1>2, <1>3
<1>5. Urgent' = {k \in Q : conf.priority /\ mark'[k] # "none"}
  BY DEF Urgent
<1>6. Urgent' = Urgent \intersect Q
  BY <1>5 DEF Urgent
<1> QED BY <1>4, <1>6

LEMMA SameWaiters ==
    ASSUME conf' = conf, Queueing' = Queueing, Inside' \subseteq Inside,
           \A k \in Queueing : /\ ahead'[k] \intersect Queueing = ahead[k] \intersect Queueing
                               /\ mark'[k] = mark[k]
    PROVE  Gate!Next
<1>1. /\ Order' = Order \intersect (Queueing \X Queueing)
      /\ Urgent' = Urgent \intersect Queueing
  BY WaitersKept
<1>2. Order' = Order /\ Urgent' = Urgent
  BY <1>1 DEF Order, Urgent
<1> QED BY <1>2, GateGivesBack

LEMMA OneWithdraws ==
    ASSUME NEW j \in Jobs, conf' = conf, Queueing' = Queueing \ {j}, Inside' = Inside,
           \A k \in Queueing' : /\ ahead'[k] \intersect Queueing' = ahead[k] \intersect Queueing'
                                /\ mark'[k] = mark[k]
    PROVE  Gate!Next
<1>1. CASE j \in Queueing
  BY <1>1, WaitersKept, GateWithdraws
<1>2. CASE j \notin Queueing
  <2>1. Queueing' = Queueing
    BY <1>2
  <2> QED BY <2>1, SameWaiters
<1> QED BY <1>1, <1>2

\* Removing the files of jobs that do not queue changes no other place or mark.
LEMMA LeaveKeepsOthers ==
    ASSUME TypeOK, NEW S, Leave(S), NEW k \in Queueing, k \notin S,
           NEW Q, Q \intersect S = {}
    PROVE  ahead'[k] \intersect Q = ahead[k] \intersect Q /\ mark'[k] = mark[k]
BY DEF Leave, TypeOK, Queueing

LEMMA OrphanedStep == ASSUME GateInv, NEW j \in Jobs, Orphaned(j) \/ Cancelled(j) PROVE Gate!Next
<1>1. /\ conf' = conf /\ slots' = slots /\ Leave({j}) /\ pc[j] \in {"poll", "tail"}
      /\ \A k \in Jobs : pc'[k] = IF k = j THEN pc'[j] ELSE pc[k]
      /\ pc'[j] \in {"free", "gone"}
  BY DEF GateInv, TypeOK, Orphaned, Cancelled, Goto, AfterHook, env
<1>2. Queueing' = Queueing \ {j}
  BY <1>1 DEF GateInv, TypeOK, Leave, Queueing, HookAlive, Waiting
<1>3. Inside' = Inside
  BY <1>1 DEF Inside
<1>4. \A k \in Queueing' : ahead'[k] \intersect Queueing' = ahead[k] \intersect Queueing'
                           /\ mark'[k] = mark[k]
  BY <1>1, <1>2, LeaveKeepsOthers DEF GateInv
<1> QED BY <1>1, <1>2, <1>3, <1>4, OneWithdraws

LEMMA KillHookStep == ASSUME GateInv, NEW j \in Jobs, KillHook(j) PROVE Gate!Next
<1>1. /\ conf' = conf /\ slots' = slots /\ waiters' = waiters /\ ahead' = ahead /\ mark' = mark
      /\ \A k \in Jobs : pc'[k] = IF k = j THEN pc'[j] ELSE pc[k]
      /\ pc'[j] \in {"free", "gone"}
  BY DEF GateInv, TypeOK, KillHook, Goto, AfterHook, files
<1>2. Queueing' = Queueing \ {j}
  BY <1>1 DEF GateInv, TypeOK, Queueing, HookAlive, Waiting
<1>3. CASE pc[j] = "claim"
  <2>1. Queueing' = Queueing
    BY <1>2, <1>3 DEF Queueing
  <2>2. Inside' \subseteq Inside
    BY <1>1 DEF Inside
  <2> QED BY <1>1, <2>1, <2>2, SameWaiters
<1>4. CASE pc[j] # "claim"
  <2>1. Inside' = Inside
    BY <1>1, <1>4 DEF Inside
  <2> QED BY <1>1, <1>2, <2>1, OneWithdraws
<1> QED BY <1>3, <1>4

LEMMA LockStep == ASSUME GateInv, NEW j \in Jobs, Lock(j) PROVE Gate!Next
<1>1. /\ conf' = conf /\ slots' = slots /\ Join(j) /\ pc[j] = "lock"
      /\ pc' = [pc EXCEPT ![j] = "decide"] /\ waiters' = waiters \union {j} /\ mark' = mark
  BY DEF Lock, Goto, env, Join
<1>2. Inside' = Inside
  BY <1>1 DEF Inside, GateInv, TypeOK
<1>3. Queueing' = Queueing \union {j}
  BY <1>1 DEF GateInv, TypeOK, Queueing, HookAlive, Waiting
<1>4. CASE j \in waiters
  <2>1. j \in Queueing
    BY <1>1, <1>4 DEF Queueing, HookAlive, Waiting
  <2>2. ahead' = ahead
    BY <1>1, <1>4 DEF Join
  <2>3. Queueing' = Queueing
    BY <1>3, <2>1
  <2> QED BY <1>1, <1>2, <2>2, <2>3, SameWaiters
<1>5. CASE j \notin waiters
  <2>1. j \notin Queueing /\ Queueing \subseteq waiters /\ waiters \subseteq Jobs
    BY <1>5 DEF Queueing, GateInv, TypeOK
  <2>2. \A k \in Jobs : /\ ahead'[k] = IF k = j THEN waiters ELSE ahead[k]
                        /\ ahead[k] \subseteq waiters
    BY <1>1, <1>5 DEF Join, GateInv, TypeOK
  <2>3. Order' = Order \union (Queueing \X {j})
    <3>1. Order' = {e \in Queueing' \X Queueing' : e[1] \in ahead'[e[2]]}
      BY DEF Order
    <3>2. ASSUME NEW a, NEW b
          PROVE  <<a, b>> \in Order' <=> <<a, b>> \in Order \union (Queueing \X {j})
      BY <1>3, <1>5, <2>1, <2>2, <3>1 DEF Order
    <3>3. Order' \subseteq Queueing' \X Queueing' /\ Order \subseteq Queueing \X Queueing
      BY <3>1 DEF Order
    <3> QED BY <3>2, <3>3
  <2>4. mark[j] = "none"
    BY <1>5 DEF GateInv, TypeOK
  <2>5. Urgent' = Urgent
    BY <1>1, <1>3, <2>4 DEF Urgent
  <2> QED BY <1>1, <1>2, <1>3, <2>1, <2>3, <2>5, GateArrives
<1> QED BY <1>4, <1>5

\* A hook that claims has passed already: the slot file it overwrites, if any, is
\* that of a job that has died and whose place nobody gave back.
LEMMA ClaimStep == ASSUME GateInv, NEW j \in Jobs, Claim(j) PROVE Gate!Next
<1>1. /\ conf' = conf /\ Leave({j}) /\ pc[j] = "claim" /\ RunnerOf[j] \in Runners
      /\ slots' = [slots EXCEPT ![RunnerOf[j]] = j]
      /\ \A k \in Jobs : pc'[k] = IF k = j THEN pc'[j] ELSE pc[k]
      /\ pc'[j] \in {"run", "gone"}
  BY AdmissionAssumption DEF GateInv, TypeOK, Claim, Goto, AfterHook, env, AdmissionAssumption
<1>2. Queueing' = Queueing /\ j \notin Queueing
  BY <1>1 DEF GateInv, TypeOK, Leave, Queueing, HookAlive, Waiting
<1>3. Inside' \subseteq Inside
  <2> SUFFICES ASSUME NEW k \in Inside' PROVE k \in Inside
    OBVIOUS
  <2>1. CASE k = j
    BY <1>1, <2>1 DEF Inside
  <2>2. CASE k # j
    BY <1>1, <2>2, AdmissionAssumption DEF Inside, GateInv, TypeOK, AdmissionAssumption
  <2> QED BY <2>1, <2>2
<1>4. \A k \in Queueing : ahead'[k] \intersect Queueing = ahead[k] \intersect Queueing
                          /\ mark'[k] = mark[k]
  BY <1>1, <1>2, LeaveKeepsOthers DEF GateInv
<1> QED BY <1>1, <1>2, <1>3, <1>4, SameWaiters

LEMMA SleepStep == ASSUME GateInv, GateInv', NEW j \in Jobs, Sleep(j) PROVE Gate!Next
<1>1. /\ conf' = conf /\ slots' = slots /\ waiters' = waiters /\ ahead' = ahead
      /\ pc[j] = "tail" /\ pc' = [pc EXCEPT ![j] = "poll"]
      /\ \A k \in Jobs \ {j} : mark'[k] = mark[k]
  BY DEF Sleep, Goto, GateInv, TypeOK
<1>2. Queueing' = Queueing
  BY <1>1 DEF GateInv, TypeOK, Queueing, HookAlive, Waiting
<1>3. Inside' = Inside
  BY <1>1 DEF Inside, GateInv, TypeOK
<1>4. Order' = Order
  BY <1>1, <1>2 DEF Order
<1>5. CASE j \in waiters
  <2>1. j \in Queueing
    BY <1>1, <1>5 DEF Queueing, HookAlive, Waiting
  <2>2. Queueing \subseteq Jobs
    BY DEF Queueing, GateInv, TypeOK
  <2>3. Urgent' \in {Urgent \union {j}, Urgent \ {j}}
    BY <1>1, <1>2, <2>1, <2>2 DEF Urgent
  <2> QED BY <1>1, <1>2, <1>3, <1>4, <2>1, <2>3, GateRanks
<1>6. CASE j \notin waiters
  <2>1. mark'[j] = "none" /\ mark[j] = "none"
    BY <1>1, <1>6 DEF GateInv, TypeOK
  <2>2. \A k \in Queueing : mark'[k] = mark[k]
    BY <1>1, <2>1 DEF Queueing, GateInv, TypeOK
  <2> QED BY <1>1, <1>2, <1>3, <2>2, SameWaiters
<1> QED BY <1>5, <1>6

\* What happens to slots and jobs without touching a waiter.
LEMMA AsideStep ==
    ASSUME GateInv, NEW j \in Jobs,
           \/ StartJob(j) \/ Poll(j) \/ Contended(j) \/ FinishSteps(j)
           \/ FreeSlot(j) \/ Report(j) \/ KillWorker(j) \/ Expire(j)
    PROVE  Gate!Next
<1>1. /\ conf' = conf /\ waiters' = waiters /\ ahead' = ahead /\ mark' = mark
      /\ \A k \in Jobs : pc'[k] = "claim" <=> pc[k] = "claim"
  BY DEF StartJob, Poll, Contended, FinishSteps, FreeSlot, Report, KillWorker, Expire,
     Goto, env, files, GateInv, TypeOK
<1>2. \A k \in waiters : HookAlive(k)' <=> HookAlive(k)
  BY DEF StartJob, Poll, Contended, FinishSteps, FreeSlot, Report, KillWorker, Expire,
     Goto, GateInv, TypeOK, Entered, HookAlive, Waiting
<1>3. Queueing' = Queueing
  <2>1. waiters \subseteq Jobs
    BY DEF GateInv, TypeOK
  <2> QED BY <1>1, <1>2, <2>1 DEF Queueing
<1>4. \A r \in Runners : slots'[r] \in {slots[r], None}
  BY AdmissionAssumption DEF StartJob, Poll, Contended, FinishSteps, FreeSlot, Report,
     KillWorker, Expire, files, Reaped, GateInv, TypeOK, AdmissionAssumption
<1>5. Inside' \subseteq Inside
  BY <1>1, <1>4, AdmissionAssumption DEF Inside, AdmissionAssumption
<1> QED BY <1>1, <1>3, <1>5, SameWaiters

\* The jobs that own a slot after reaping owned it before.
LEMMA ReapedOwners ==
    ASSUME TypeOK
    PROVE  /\ Owners(Reaped(slots)) \subseteq Owners(slots)
           /\ \A r \in Runners : Reaped(slots)[r] \in {slots[r], None}
BY AdmissionAssumption DEF Owners, Reaped, TypeOK, AdmissionAssumption

\* The waiter that the locked check puts in front is before every other of the
\* waiters it looks at.
LEMMA FrontIsFirst ==
    ASSUME GateInv, NEW S \in SUBSET Queueing, NEW j \in S, Front(S) = j, NEW k \in S, k # j
    PROVE  ~(IF k \in Urgent <=> j \in Urgent THEN <<k, j>> \in Order ELSE k \in Urgent)
<1>0. S \subseteq waiters
  BY DEF Queueing
<1>1. \A T \in SUBSET S : T # {} => Oldest(T) \in T /\ ahead[Oldest(T)] \intersect T = {}
  <2> SUFFICES ASSUME NEW T \in SUBSET S, T # {}
               PROVE  Oldest(T) \in T /\ ahead[Oldest(T)] \intersect T = {}
    OBVIOUS
  <2>1. \E x \in T : ahead[x] \intersect T = {}
    BY <1>0 DEF GateInv, WellOrdered
  <2> QED BY <2>1 DEF Oldest
<1>2. Prioritised(S) = S \intersect Urgent
  BY DEF Prioritised, Urgent, Queueing
<1>3. CASE Prioritised(S) # {}
  <2>1. Prioritised(S) \in SUBSET S
    BY <1>2
  <2>2. j = Oldest(Prioritised(S))
    BY <1>3 DEF Front
  <2>3. j \in Prioritised(S) /\ ahead[j] \intersect Prioritised(S) = {}
    BY <1>1, <1>3, <2>1, <2>2
  <2> QED BY <1>2, <2>3 DEF Order
<1>4. CASE Prioritised(S) = {}
  <2>1. j = Oldest(S)
    BY <1>4 DEF Front
  <2>2. ahead[j] \intersect S = {}
    BY <1>1, <2>1
  <2> QED BY <1>2, <1>4, <2>2 DEF Order
<1> QED BY <1>3, <1>4

\* A decision lets the first job in, or leaves it waiting.
LEMMA DecideStep == ASSUME GateInv, GateInv', NEW j \in Jobs, Decide(j) PROVE Gate!Next
<1> DEFINE s == Reaped(slots)
<1>0. TypeOK /\ Holder /\ SlotOwner /\ waiters \subseteq Jobs
  BY DEF GateInv, TypeOK
<1>1. /\ conf' = conf /\ slots' = s /\ pc[j] = "decide" /\ j \in waiters /\ j \in Queueing
      /\ pc' = [pc EXCEPT ![j] = pc'[j]] /\ pc'[j] \in {"claim", "tail"}
  BY DEF Decide, Goto, env, GateInv, Entered, TypeOK, Queueing, HookAlive, Waiting
<1>2. \A k \in Jobs : pc[k] # "claim"
  \* it would hold the mutex that j holds
  BY <1>0, <1>1 DEF Holder, Critical, TypeOK
<1>3. Inside = Owners(slots) /\ Owners(s) \subseteq Inside
  BY <1>0, <1>2, ReapedOwners DEF Inside, Owners
<1>4. \A k \in Queueing : k # j => k \in waiters' /\ ahead'[k] \intersect Queueing = ahead[k] \intersect Queueing
                                   /\ mark'[k] = mark[k]
  <2>1. CASE UNCHANGED <<waiters, ahead, mark>>
    BY <2>1 DEF Queueing
  <2>2. CASE Leave({k \in waiters : ~HookAlive(k)})
    <3> DEFINE S == {k \in waiters : ~HookAlive(k)}
    <3>1. Queueing \intersect S = {}
      BY DEF Queueing
    <3>2. waiters' = waiters \ S
      BY <2>2 DEF Leave
    <3> HIDE DEF S
    <3>3. ASSUME NEW k \in Queueing
          PROVE  ahead'[k] \intersect Queueing = ahead[k] \intersect Queueing /\ mark'[k] = mark[k]
      BY <1>0, <2>2, <3>1, LeaveKeepsOthers DEF S
    <3> QED BY <3>1, <3>2, <3>3 DEF Queueing
  <2> QED BY <2>1, <2>2 DEF Decide
<1>5. j \in waiters' /\ ahead'[j] \intersect Queueing = ahead[j] \intersect Queueing /\ mark'[j] = mark[j]
  <2>1. HookAlive(j)
    BY <1>1 DEF HookAlive, Waiting
  <2>2. CASE UNCHANGED <<waiters, ahead, mark>>
    BY <1>1, <2>2
  <2>3. CASE Leave({k \in waiters : ~HookAlive(k)})
    BY <1>0, <1>1, <2>1, <2>3 DEF Leave, TypeOK, Queueing
  <2> QED BY <2>2, <2>3 DEF Decide
<1>6. waiters' \subseteq waiters
  BY DEF Decide, Leave
<1>7. CASE pc'[j] = "tail"
  <2>1. Queueing' = Queueing
    BY <1>0, <1>1, <1>4, <1>5, <1>6, <1>7 DEF Queueing, HookAlive, Waiting, TypeOK
  <2>2. Inside' = Owners(s)
    BY <1>0, <1>1, <1>2, <1>7 DEF Inside, Owners, TypeOK
  <2> QED BY <1>1, <1>3, <1>4, <1>5, <2>1, <2>2, SameWaiters
<1>8. CASE pc'[j] = "claim"
  <2>1. Queueing' = Queueing \ {j}
    BY <1>0, <1>1, <1>4, <1>6, <1>8 DEF Queueing, HookAlive, Waiting, TypeOK
  <2>2. Inside' = Owners(s) \union {j}
    BY <1>0, <1>1, <1>2, <1>8 DEF Inside, Owners, TypeOK
  <2>3. ~Blocked(j, s) /\ Front(Eligible(j, s)) = j
    BY <1>0, <1>1, <1>8 DEF Decide, Goto, TypeOK
  <2>4. /\ s \in [Runners -> Jobs \union {None}]
        /\ \A r \in Runners : s[r] # None => RunnerOf[s[r]] = r
    BY <1>0, ReapedOwners, ReapedType DEF SlotOwner, TypeOK
  <2>5. ~Full(j, s) /\ ~SimBlocked(j, s)
    BY <2>3 DEF Blocked, Full
  <2>6. /\ Cardinality(Owners(s)) < Cap
        /\ Cardinality({k \in Owners(s) : LineOf(k) = LineOf(j)}) < RoomOf(LineOf(j))
    BY <1>0, <2>4, <2>5, NotFullFits
  <2>7. IsSim(j) => ~(Cardinality(Owners(s) \intersect GateSims) >= SimMax)
    BY <1>0, <2>4, <2>5, SimsCounted
  <2>8. ASSUME NEW k \in Queueing \ {j}, LineOf(k) = LineOf(j),
               IF k \in Urgent <=> j \in Urgent THEN <<k, j>> \in Order ELSE k \in Urgent
        PROVE  IsSim(k) /\ Cardinality(Owners(s) \intersect GateSims) >= SimMax
    <3> DEFINE S == {i \in Queueing : LineOf(i) = LineOf(j) /\ ~SimBlocked(i, s)}
    <3>1. Eligible(j, s) = S
      BY <1>2, <1>0 DEF Eligible, Line, Queueing, LineOf
    <3>2. S \in SUBSET Queueing /\ j \in S /\ Front(S) = j
      BY <1>1, <2>3, <2>5, <3>1
    <3> HIDE DEF S
    <3>3. k \notin S
      BY <2>8, <3>2, FrontIsFirst
    <3>4. SimBlocked(k, s)
      BY <2>8, <3>3 DEF S
    <3>5. k \in Jobs
      BY <1>0 DEF Queueing
    <3> QED BY <1>0, <2>4, <3>4, <3>5, SimsCounted
  <2>9. \A k \in Queueing' : ahead'[k] \intersect Queueing' = ahead[k] \intersect Queueing'
                             /\ mark'[k] = mark[k]
    BY <1>4, <2>1
  <2>10. /\ Order' = Order \intersect (Queueing' \X Queueing')
         /\ Urgent' = Urgent \intersect Queueing'
    BY <1>1, <2>1, <2>9, WaitersKept
  <2> HIDE DEF s
  <2> QED BY <1>0, <1>1, <1>3, <2>1, <2>2, <2>6, <2>7, <2>8, <2>10, GatePasses
<1> QED BY <1>1, <1>7, <1>8

LEMMA GateStep == ASSUME GateInv, [Next]_vars PROVE [Gate!Next]_(Gate!vars)
<1>0. GateInv'
  BY GateInvStep
<1>1. ASSUME NEW j \in Jobs, Orphaned(j) \/ Cancelled(j) PROVE Gate!Next
  BY <1>1, OrphanedStep
<1>2. ASSUME FloorDrops \/ FloorClears \/ UNCHANGED vars PROVE Gate!Next
  <2>1. /\ conf' = conf /\ slots' = slots /\ waiters' = waiters /\ ahead' = ahead
        /\ mark' = mark /\ pc' = pc
    BY <1>2 DEF FloorDrops, FloorClears, vars, files
  <2>2. Queueing' = Queueing /\ Inside' = Inside
    BY <2>1 DEF Queueing, Inside, HookAlive
  <2> QED BY <2>1, <2>2, SameWaiters
<1> QED
  BY <1>0, <1>1, <1>2, KillHookStep, LockStep, ClaimStep, SleepStep, AsideStep, DecideStep,
     NobodyFailsOpen DEF GateInv, Next, Hook, Finished

LEMMA GateInitially == Init => Gate!Init
<1> SUFFICES ASSUME Init PROVE Gate!Init
  OBVIOUS
<1>1. Cap \in Nat
  BY TypeInit, CapType
<1>2. Queueing = {} /\ Inside = {}
  BY AdmissionAssumption DEF Init, Queueing, Inside, AdmissionAssumption
<1> QED BY <1>1, <1>2 DEF Gate!Init, Order, Urgent, Inside

\* Under FLEET_ADMIT_TIMEOUT_ACTION=hold the slot, waiter and priority files are a
\* gate: no job passes out of turn or without room, whatever is left behind by dead
\* hooks and workers and however polls, decisions and claims interleave.
THEOREM HoldImplementsGate == Spec => GateSpec
<1> DEFINE HeldInv == Held => GateInv
<1>1. Init => HeldInv /\ (Held => Gate!Init)
  BY GateInvInit, GateInitially
<1>2. HeldInv /\ [Next]_vars => HeldInv'
  <2> SUFFICES ASSUME HeldInv, [Next]_vars, Held' PROVE GateInv'
    OBVIOUS
  <2>1. Held
    BY ConfKept DEF Held
  <2> QED BY <2>1, GateInvStep
<1>3. HeldInv /\ [Next]_vars => [Held => Gate!Next]_(Gate!vars)
  BY GateStep
<1> HIDE DEF HeldInv
<1> QED BY <1>1, <1>2, <1>3, PTL DEF Spec, GateSpec

\* A host that holds its jobs behaves as the gate does, from its first state on.
THEOREM HeldHostIsAGate == Held /\ Spec => Gate!Spec
<1>1. [Next]_vars /\ Held => Held'
  BY ConfKept DEF Held
<1>2. (Held => Gate!Init) /\ Held => Gate!Init
  OBVIOUS
<1>3. Held /\ [Held => Gate!Next]_(Gate!vars) => [Gate!Next]_(Gate!vars)
  OBVIOUS
<1> QED BY <1>1, <1>2, <1>3, HoldImplementsGate, PTL DEF Spec, GateSpec, Gate!Spec
=============================================================================
