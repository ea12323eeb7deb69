------------------------------ MODULE Admission ------------------------------
(***************************************************************************)
(* Admission control of one host: hooks/job-started.sh and                 *)
(* hooks/job-completed.sh over the slot, waiter and priority files that    *)
(* hooks/common.sh keeps under .admission.                                 *)
(*                                                                         *)
(* A job runs on a runner.  Its started hook waits in a poll loop until    *)
(* the host has room, writes a slot file named after the runner and exits; *)
(* its completed hook removes that file.  Hooks share nothing but files,   *)
(* a directory mutex and process liveness: a slot is owned by the job's    *)
(* Runner.Worker, a waiter file by the started hook.                       *)
(*                                                                         *)
(* One action is one stretch of a hook that no other hook can see half     *)
(* done, or that reads one directory listing.  The mutex is taken to be    *)
(* atomic here; AdmissionMutex says when it is.                            *)
(***************************************************************************)
EXTENDS Naturals, FiniteSets

CONSTANTS
    Jobs,        \* the jobs GitHub hands to this host
    Runners,     \* the runners registered on it
    RunnerOf,    \* the runner each job is assigned to
    SimRunners,  \* FLEET_SIMULATOR_RUNNERS
    Light,       \* jobs that admit_classify finds light
    Confs,       \* the settings of fleet.env to check
    Max,         \* FLEET_ADMIT_MAX_CONCURRENT
    TotalMax,    \* FLEET_ADMIT_TOTAL_MAX_CONCURRENT
    HeavyMax,    \* FLEET_ADMIT_HEAVY_MAX_CONCURRENT
    LightMax,    \* FLEET_ADMIT_LIGHT_MAX_CONCURRENT
    SimMax,      \* FLEET_ADMIT_SIMULATOR_MAX_CONCURRENT, 0 = no limit
    Budgets,     \* Budgets[c]: bounds on how often each of Faults may happen together
                 \* under the settings c
    None

Settings == [mode: {"observe", "enforce"}, lanes: {"off", "observe", "enforce"},
             onTimeout: {"admit", "hold"}, priority: BOOLEAN]

\* How often a worker dies, a hook is killed, a slot outlives its TTL, the host
\* falls under its disk or memory floor, and a PR gains or loses the label.
Faults == {"workers", "hooks", "expiries", "floors", "labels"}

ASSUME AdmissionAssumption ==
    /\ IsFiniteSet(Runners)
    /\ RunnerOf \in [Jobs -> Runners]
    /\ SimRunners \subseteq Runners
    /\ Light \subseteq Jobs
    /\ Confs \subseteq Settings
    \* With both, the dry-run view of the lanes overwrites ADMIT_PRIORITY_HEAD.
    /\ \A c \in Confs : c.lanes = "observe" => ~c.priority
    /\ Max \in Nat \ {0} /\ TotalMax \in Nat \ {0}
    /\ HeavyMax \in Nat \ {0} /\ LightMax \in Nat \ {0}
    /\ SimMax \in Nat
    /\ Budgets \in [Confs -> SUBSET [Faults -> Nat]]
    /\ None \notin Jobs

VARIABLES
    conf,      \* fleet.env, read by every hook as it starts
    pc,        \* what each job is doing
    working,   \* jobs whose Runner.Worker is alive
    slots,     \* slots/<runner>: the job whose worker owns the file, or None
    old,       \* jobs whose slot file is older than ADMIT_SLOT_TTL
    waiters,   \* jobs with a file under waiters/
    ahead,     \* ahead[j]: the waiter files whose names sort before j's
    mark,      \* priority/<waiter>: "none", "label" or "starved"
    mutex,     \* the hook that made the mutex directory, or None
    strict,    \* hooks with STRICT_LIMIT=1 in this iteration
    yields,    \* hooks that saw a labelled job ahead in this iteration
    overdue,   \* hooks that have waited ADMIT_MAX_WAIT
    starving,  \* hooks that have waited ADMIT_PRIORITY_STARVE_S
    floor,     \* "none", or the floor the host is under
    spent      \* how often each of Faults has happened

hooks == <<strict, yields, overdue, starving>>
files == <<slots, waiters, ahead, mark>>
env == <<conf, old, floor, spent>>
vars == <<conf, pc, working, slots, old, waiters, ahead, mark, mutex, strict,
          yields, overdue, starving, floor, spent>>

\* The started hook in its enforce loop, and under the mutex.
Waiting == {"poll", "lock", "decide", "claim", "tail"}
Critical == {"decide", "claim", "count"}
Phases == Waiting \union {"queued", "observe", "count", "run", "free", "report", "gone"}

Init ==
    /\ conf \in Confs
    /\ pc = [j \in Jobs |-> "queued"]
    /\ working = {}
    /\ slots = [r \in Runners |-> None]
    /\ old = {}
    /\ waiters = {}
    /\ ahead = [j \in Jobs |-> {}]
    /\ mark = [j \in Jobs |-> "none"]
    /\ mutex = None
    /\ strict = {} /\ yields = {} /\ overdue = {} /\ starving = {}
    /\ floor = "none"
    /\ spent = [fault \in Faults |-> 0]

\* A live hook has the mutex; admit_lock breaks the mutex of a dead one.
MutexHeld == mutex # None /\ pc[mutex] \in Critical

Goto(j, phase) == pc' = [pc EXCEPT ![j] = phase]
Spend(fault) ==
    /\ spent' = [spent EXCEPT ![fault] = @ + 1]
    /\ \E budget \in Budgets[conf] : \A f \in Faults : spent'[f] <= budget[f]

------------------------------------------------------------------------------
(* Counting slots *)

IsSim(j) == SimMax > 0 /\ RunnerOf[j] \in SimRunners
\* ADMIT_LANE = light.  With lanes off a job has no lane.
IsLight(j) == conf.lanes # "off" /\ j \in Light /\ ~IsSim(j)

Occupied(s) == {r \in Runners : s[r] # None}
LightSlots(s) == {r \in Occupied(s) : IsLight(s[r])}
HeavySlots(s) == Occupied(s) \ LightSlots(s)
SimSlots(s) == Occupied(s) \intersect SimRunners

\* Mutant: the slot is owned by the hook that wrote it, which exits at once.
ReapedByHook(s) ==
    [r \in Runners |-> IF s[r] \in {j \in Jobs \ old : pc[j] \in Critical}
                       THEN s[r] ELSE None]

\* admit_live_slots removes these first.
Reaped(s) ==
    [r \in Runners |-> IF s[r] \in working \ old THEN s[r] ELSE None]

Cap == IF conf.lanes = "enforce" THEN TotalMax ELSE Max

SimBlocked(j, s) == IsSim(j) /\ Cardinality(SimSlots(s)) >= SimMax

\* Mutant: a Simulator job takes no heavy slot.
FullOfItsLane(j, s) ==
    \/ Cardinality(Occupied(s)) >= Cap
    \/ SimBlocked(j, s)
    \/ conf.lanes = "enforce" /\ IsLight(j) /\ Cardinality(LightSlots(s)) >= LightMax
    \/ /\ conf.lanes = "enforce" /\ ~IsLight(j)
       /\ Cardinality(HeavySlots(s) \ SimSlots(s)) >= HeavyMax

\* admit_capacity_blocker, or admit_lane_capacity_blocker when lanes decide.
Full(j, s) ==
    \/ Cardinality(Occupied(s)) >= Cap
    \/ SimBlocked(j, s)
    \/ conf.lanes = "enforce" /\ IsLight(j) /\ Cardinality(LightSlots(s)) >= LightMax
    \/ conf.lanes = "enforce" /\ ~IsLight(j) /\ Cardinality(HeavySlots(s)) >= HeavyMax

\* admit_decide: capacity, then the disk floor, then the memory floor.
Blocked(j, s) ==
    \/ Full(j, s)
    \/ floor = "disk"
    \/ floor = "memory" /\ ~IsLight(j)

------------------------------------------------------------------------------
(* The waiting lines *)

\* A waiter file is live while the hook that wrote it is.
HookAlive(j) == pc[j] \in Waiting

\* One line per lane when lanes decide, else one for the host.
Line(j) ==
    {k \in waiters : conf.lanes = "enforce" => (IsLight(k) <=> IsLight(j))}

Oldest(S) == CHOOSE k \in S : ahead[k] \intersect S = {}

\* admit_priority_head: the live marked waiters go before all others.
Prioritised(S) == {k \in S : conf.priority /\ mark[k] # "none" /\ HookAlive(k)}
Front(S) == Oldest(IF Prioritised(S) # {} THEN Prioritised(S) ELSE S)

\* admit_yielding_to_priority after admit_priority_head over S.
Yielding(j, S) ==
    Prioritised(S) # {} /\ Front(S) # j /\ mark[Front(S)] = "label"

\* Mutant: the head's pid is not checked.
WaitingBehindAnyOlder(j) ==
    /\ j \in waiters
    /\ LET head == Front(Line(j)) IN head # j /\ ~IsSim(head)

\* The lockless check.  What it cannot vouch for goes to the locked one.
WaitingBehindOlder(j) ==
    /\ j \in waiters
    /\ LET head == Front(Line(j)) IN head # j /\ HookAlive(head) /\ ~IsSim(head)

\* The waiters of j's line that the locked check looks at, after reaping.  A
\* Simulator job held by the Simulator limit is passed over.
Eligible(j, s) == {k \in Line(j) : HookAlive(k) /\ ~SimBlocked(k, s)}

\* Mutant: a fresh stamp, and so a new place, at every poll.
JoinAtTheEnd(j) ==
    /\ waiters' = waiters \union {j}
    /\ ahead' = [k \in Jobs |-> IF k = j THEN waiters \ {j} ELSE ahead[k] \ {j}]
    /\ UNCHANGED mark

Join(j) ==
    /\ waiters' = waiters \union {j}
    /\ ahead' = IF j \in waiters THEN ahead ELSE [ahead EXCEPT ![j] = waiters]
    /\ UNCHANGED mark

\* Mutant: the priority file stays.
LeaveMarked(S) ==
    /\ waiters' = waiters \ S
    /\ ahead' = [k \in Jobs |-> IF k \in S THEN {} ELSE ahead[k] \ S]
    /\ UNCHANGED mark

\* Removes the waiter and priority files of the jobs in S.
Leave(S) ==
    /\ waiters' = waiters \ S
    /\ ahead' = [k \in Jobs |-> IF k \in S THEN {} ELSE ahead[k] \ S]
    /\ mark' = [k \in Jobs |-> IF k \in S THEN "none" ELSE mark[k]]

\* The hook's own variables end with it.
Forget(j) == strict' = strict \ {j} /\ yields' = yields \ {j}

------------------------------------------------------------------------------
(* job-started.sh *)

\* A runner runs one job at a time: it takes the next one when the worker of
\* the last is gone, whether or not that job's hooks are.
StartJob(j) ==
    /\ pc[j] = "queued"
    /\ \A k \in working : RunnerOf[k] # RunnerOf[j]
    /\ working' = working \union {j}
    /\ Goto(j, IF conf.mode = "observe" THEN "observe" ELSE "poll")
    /\ UNCHANGED <<files, mutex, hooks, env>>

\* What a started hook's exit leaves: the job's steps, or nothing when the
\* worker it belonged to has died.
AfterHook(j, phase) == IF j \in working THEN phase ELSE "gone"

\* observe: take a slot, under the mutex or without it, and never wait.
ObserveLock(j) ==
    /\ pc[j] = "observe"
    /\ ~MutexHeld
    /\ mutex' = j
    /\ Goto(j, "count")
    /\ UNCHANGED <<working, files, hooks, env>>

ObserveClaim(j) ==
    /\ \/ /\ pc[j] = "count"
          /\ slots' = [Reaped(slots) EXCEPT ![RunnerOf[j]] = j]
          /\ mutex' = None
       \/ /\ pc[j] = "observe"
          /\ MutexHeld
          /\ slots' = [slots EXCEPT ![RunnerOf[j]] = j]
          /\ UNCHANGED mutex
    /\ Goto(j, AfterHook(j, "run"))
    /\ UNCHANGED <<working, waiters, ahead, mark, hooks, env>>

\* admit_owner_gone: the worker exited while the hook waited.
Orphaned(j) ==
    /\ pc[j] = "poll"
    /\ j \notin working
    /\ Leave({j})
    /\ Forget(j)
    /\ Goto(j, "gone")
    /\ UNCHANGED <<working, slots, mutex, overdue, starving, env>>

\* The worker's log shows a cancel (top of the loop), or the daemon says the
\* run has completed (its tail).
Cancelled(j) ==
    /\ pc[j] = "tail" \/ (pc[j] = "poll" /\ j \in working)
    /\ Leave({j})
    /\ Forget(j)
    /\ Goto(j, AfterHook(j, "free"))
    /\ UNCHANGED <<working, slots, mutex, overdue, starving, env>>

\* The top of an iteration, up to the lockless check.
Poll(j) ==
    /\ pc[j] = "poll"
    /\ j \in working
    /\ strict' = strict \ {j}
    /\ yields' = IF j \in waiters /\ Yielding(j, Line(j))
                 THEN yields \union {j} ELSE yields \ {j}
    /\ Goto(j, IF WaitingBehindOlder(j) THEN "tail" ELSE "lock")
    /\ UNCHANGED <<working, files, mutex, overdue, starving, env>>

\* admit_lock and admit_join_waiters.  The mutex of a dead hook is broken.
Lock(j) ==
    /\ pc[j] = "lock"
    /\ ~MutexHeld
    /\ mutex' = j
    /\ Join(j)
    /\ Goto(j, "decide")
    /\ UNCHANGED <<working, slots, hooks, env>>

\* Mutant: a hook that cannot get the mutex goes ahead without counting.
ContendedProceeds(j) ==
    /\ pc[j] = "lock"
    /\ MutexHeld
    /\ Goto(j, "claim")
    /\ UNCHANGED <<working, files, mutex, hooks, env>>

\* admit_lock gave up after ADMIT_MUTEX_TRIES.
Contended(j) ==
    /\ pc[j] = "lock"
    /\ MutexHeld
    /\ Goto(j, "tail")
    /\ UNCHANGED <<working, files, mutex, hooks, env>>

\* Reap the slots and count them; with room, reap the waiters and look whose
\* turn it is.  Holds the mutex on to Claim, or gives it back.
Decide(j) ==
    /\ pc[j] = "decide"
    /\ slots' = Reaped(slots)
    /\ strict' = IF SimBlocked(j, slots') THEN strict \union {j} ELSE strict
    /\ \/ /\ Blocked(j, slots')
          /\ Goto(j, "tail")
          /\ mutex' = None
          /\ UNCHANGED <<waiters, ahead, mark, yields>>
       \/ /\ ~Blocked(j, slots')
          /\ Leave({k \in waiters : ~HookAlive(k)})
          /\ LET line == Eligible(j, slots') IN
             /\ yields' = IF Yielding(j, line) THEN yields \union {j} ELSE yields \ {j}
             /\ \/ Front(line) = j /\ Goto(j, "claim") /\ UNCHANGED mutex
                \/ Front(line) # j /\ Goto(j, "tail") /\ mutex' = None
    /\ UNCHANGED <<working, overdue, starving, env>>

\* admit_claim_slot, admit_leave_waiters, admit_unlock.
Claim(j) ==
    /\ pc[j] = "claim"
    /\ slots' = [slots EXCEPT ![RunnerOf[j]] = j]
    /\ Leave({j})
    /\ Forget(j)
    /\ mutex' = None
    /\ Goto(j, AfterHook(j, "run"))
    /\ UNCHANGED <<working, overdue, starving, env>>

\* The bounded wait is over: admit without the mutex, whatever the count.
TimedOut(j) == conf.onTimeout = "admit" /\ j \in overdue /\ j \notin strict

FailOpen(j) ==
    /\ pc[j] = "tail"
    /\ TimedOut(j)
    /\ slots' = [slots EXCEPT ![RunnerOf[j]] = j]
    /\ Leave({j})
    /\ Forget(j)
    /\ Goto(j, AfterHook(j, "run"))
    /\ UNCHANGED <<working, mutex, overdue, starving, env>>

\* admit_priority_refresh: the daemon may answer that the run's PR has the
\* label, that it has not, or nothing.
Answers(j) == IF conf.priority /\ j \in waiters THEN {"label", "none", "silent"} ELSE {"silent"}
Refreshed(j, answer) ==
    CASE answer = "label" -> "label"
      [] answer = "none" /\ mark[j] = "label" -> "none"
      [] OTHER -> mark[j]

\* sleep "$ADMIT_POLL": WAITED, read at the top of the next iteration, may have
\* reached ADMIT_MAX_WAIT or ADMIT_PRIORITY_STARVE_S by then.
TimePasses(j) ==
    /\ overdue' = overdue \/ (conf.onTimeout = "admit" /\ overdue' = overdue \union {j})
    /\ starving' = starving \/ (conf.priority /\ starving' = starving \union {j})

\* The rest of an iteration: priority, the starvation guard, sleep.
Sleep(j) ==
    /\ pc[j] = "tail"
    /\ ~TimedOut(j)
    /\ \E answer \in Answers(j) :
         LET asked == Refreshed(j, answer)
             promoted == asked = "none" /\ j \in starving /\ j \in yields \intersect waiters IN
         /\ IF asked = mark[j] THEN UNCHANGED spent ELSE Spend("labels")
         /\ mark' = [mark EXCEPT ![j] = IF promoted THEN "starved" ELSE asked]
    /\ TimePasses(j)
    /\ Goto(j, "poll")
    /\ UNCHANGED <<conf, working, slots, old, waiters, ahead, mutex, strict, yields, floor>>

------------------------------------------------------------------------------
(* The job's steps, and job-completed.sh *)

FinishSteps(j) ==
    /\ pc[j] = "run"
    /\ Goto(j, "free")
    /\ UNCHANGED <<working, files, mutex, hooks, env>>

\* admit_free_slot: rm -f slots/<runner>, without the mutex.
FreeSlot(j) ==
    /\ pc[j] = "free"
    /\ slots' = [slots EXCEPT ![RunnerOf[j]] = None]
    /\ Goto(j, "report")
    /\ UNCHANGED <<working, waiters, ahead, mark, mutex, hooks, env>>

\* Counts the slots under the mutex, or not at all; then the worker exits.
Report(j) ==
    /\ pc[j] = "report"
    /\ IF ~MutexHeld
       THEN slots' = Reaped(slots) /\ mutex' = None
       ELSE UNCHANGED <<slots, mutex>>
    /\ working' = working \ {j}
    /\ Goto(j, "gone")
    /\ UNCHANGED <<waiters, ahead, mark, hooks, env>>

------------------------------------------------------------------------------
(* The environment *)

\* The worker dies.  A hook it had started is reparented and runs on.
KillWorker(j) ==
    /\ j \in working
    /\ Spend("workers")
    /\ working' = working \ {j}
    /\ Goto(j, IF pc[j] = "run" THEN "gone" ELSE pc[j])
    /\ UNCHANGED <<conf, files, old, mutex, hooks, floor>>

\* A hook is killed.  Without its started hook the job fails and completes.
KillHook(j) ==
    /\ Spend("hooks")
    /\ \/ /\ pc[j] \in Waiting \union {"observe", "count"}
          /\ Goto(j, AfterHook(j, "free"))
          /\ UNCHANGED working
       \/ /\ pc[j] \in {"free", "report"}
          /\ Goto(j, "gone")
          /\ working' = working \ {j}
    /\ Forget(j)
    /\ UNCHANGED <<conf, files, old, mutex, overdue, starving, floor>>

\* The slot's timestamp falls behind ADMIT_SLOT_TTL.
Expire(j) ==
    /\ j \notin old
    /\ slots[RunnerOf[j]] = j
    /\ Spend("expiries")
    /\ old' = old \union {j}
    /\ UNCHANGED <<conf, pc, working, files, mutex, hooks, floor>>

FloorDrops ==
    /\ floor = "none"
    /\ Spend("floors")
    /\ floor' \in {"disk", "memory"}
    /\ UNCHANGED <<conf, pc, working, files, old, mutex, hooks>>

FloorClears ==
    /\ floor # "none"
    /\ floor' = "none"
    /\ UNCHANGED <<conf, pc, working, files, old, mutex, hooks, spent>>

Finished == (\A j \in Jobs : pc[j] = "gone") /\ UNCHANGED vars

------------------------------------------------------------------------------

\* What the hooks of a job do by themselves.
Hook(j) ==
    \/ ObserveLock(j) \/ ObserveClaim(j)
    \/ Orphaned(j) \/ Poll(j) \/ Lock(j) \/ Contended(j) \/ Decide(j)
    \/ Claim(j) \/ FailOpen(j) \/ Sleep(j)
    \/ FreeSlot(j) \/ Report(j)

Next ==
    \/ \E j \in Jobs : StartJob(j) \/ Hook(j) \/ Cancelled(j) \/ FinishSteps(j)
    \/ \E j \in Jobs : KillWorker(j) \/ KillHook(j) \/ Expire(j)
    \/ FloorDrops \/ FloorClears \/ Finished

\* Hooks keep polling, and time passes: who goes on waiting is overdue at last.  A
\* hook spins 50 times, 2.5 s, on a mutex that is held for milliseconds: one that
\* keeps trying gets it.  Only under FLEET_ADMIT_TIMEOUT_ACTION=hold does moving on
\* depend on others: there the jobs finish, and cleanup lifts the floor.
Strictly(A) == conf.onTimeout = "hold" /\ A
Fairness ==
    /\ \A j \in Jobs : WF_vars(Hook(j))
    /\ \A j \in Jobs :
        []<>(pc[j] \notin Waiting \/ conf.onTimeout = "hold" \/ j \in overdue)
    /\ \A j \in Jobs : []<><<Contended(j)>>_vars => []<><<Lock(j)>>_vars
    /\ \A j \in Jobs : WF_vars(Strictly(FinishSteps(j)))
    /\ WF_vars(Strictly(FloorClears))

Spec == Init /\ [][Next]_vars /\ Fairness

------------------------------------------------------------------------------

\* The values of the variables; and only a waiter has a place or a mark.
TypeOK ==
    /\ conf \in Confs
    /\ pc \in [Jobs -> Phases]
    /\ working \subseteq Jobs
    /\ slots \in [Runners -> Jobs \union {None}]
    /\ old \subseteq Jobs
    /\ waiters \subseteq Jobs
    /\ ahead \in [Jobs -> SUBSET waiters]
    /\ mark \in [Jobs -> {"none", "label", "starved"}]
    /\ \A j \in Jobs \ waiters : ahead[j] = {} /\ mark[j] = "none"
    /\ mutex \in Jobs \union {None}
    /\ strict \subseteq Jobs /\ yields \subseteq Jobs
    /\ overdue \subseteq Jobs /\ starving \subseteq Jobs
    /\ floor \in {"none", "disk", "memory"}
    /\ spent \in [Faults -> Nat]

\* The slots of jobs that did not outwait ADMIT_MAX_WAIT.
OnTime(S) == {r \in S : slots[r] \notin overdue}

\* In enforce mode the jobs admitted within the bounded wait never hold more
\* slots than the limit, whatever late jobs, killed hooks and dead workers do
\* to the same files ("concurrent starts never exceed the limit",
\* hooks/tests/run.sh:467).  Under hold nobody is late and this is every slot.
SlotCap ==
    conf.mode = "enforce" => Cardinality(OnTime(Occupied(slots))) <= Cap

\* The same for each lane's own limit and for the Simulator limit.
LaneCaps ==
    conf.mode = "enforce" =>
        /\ SimMax > 0 => Cardinality(OnTime(SimSlots(slots))) <= SimMax
        /\ conf.lanes = "enforce" =>
              /\ Cardinality(OnTime(LightSlots(slots))) <= LightMax
              /\ Cardinality(OnTime(HeavySlots(slots))) <= HeavyMax

\* Until a worker dies or a slot outlives its TTL, a running job holds the
\* slot of its runner, so the count of slots is not below the jobs running
\* (common.sh:13, "a runner runs exactly one job at a time, so the name is a
\* natural unique key").
RunningHasSlot ==
    spent["workers"] = 0 /\ old = {} =>
        \A j \in Jobs : pc[j] = "run" => slots[RunnerOf[j]] = j

\* The same without the proviso: a worker may die while its hook runs on.
RunningAlwaysHasSlot ==
    old = {} => \A j \in Jobs : pc[j] = "run" => slots[RunnerOf[j]] = j

\* "The Simulator limit stays strict because exceeding it is what causes
\* watchdog crashes" (job-started.sh:323): late or not.
SimulatorStaysStrict ==
    conf.mode = "enforce" /\ SimMax > 0 => Cardinality(SimSlots(slots)) <= SimMax

\* A held job moves on.  Under hold: the dead waiters, marks and mutexes that
\* killed hooks leave behind never block the line for good.  Under admit: the
\* bounded wait ends even if no job finishes and no floor lifts, except for a
\* Simulator job, which the Simulator limit may hold.
HeldJobsMoveOn ==
    \A j \in Jobs :
        (pc[j] \in Waiting /\ (conf.onTimeout = "hold" \/ ~IsSim(j)))
            ~> pc[j] \notin Waiting

------------------------------------------------------------------------------
(* The gate that the files implement under hold.  A job passes it in        *)
(* Decide, under the mutex, though it is seen inside when its slot file is. *)

Queueing == {j \in waiters : HookAlive(j) /\ pc[j] # "claim"}

Gate == INSTANCE AdmissionGate WITH
    Sims <- {j \in Jobs : IsSim(j)},
    policy <- [total |-> Cap,
               line |-> [j \in Jobs |-> conf.lanes = "enforce" /\ IsLight(j)],
               room |-> IF conf.lanes = "enforce"
                        THEN [l \in BOOLEAN |-> IF l THEN LightMax ELSE HeavyMax]
                        ELSE [l \in BOOLEAN |-> Cap]],
    waiting <- Queueing,
    order <- {e \in Queueing \X Queueing : e[1] \in ahead[e[2]]},
    urgent <- {j \in Queueing : conf.priority /\ mark[j] # "none"},
    inside <- {j \in Jobs : slots[RunnerOf[j]] = j \/ pc[j] = "claim"}

Held == conf.mode = "enforce" /\ conf.onTimeout = "hold"

\* Dead waiter files, stale marks, the lockless check, the reaping and the
\* skipped Simulator jobs never let a job in out of turn or without room: under
\* hold the hooks are Gate!Spec.  The condition is inside, for conf is constant.
GateSpec == (Held => Gate!Init) /\ [][Held => Gate!Next]_(Gate!vars)
=============================================================================
