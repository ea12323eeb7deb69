# The runner fleet in TLA+

This directory holds TLA+ models of the self-hosted GitHub Actions fleet of this
repository: shell hooks that admit jobs on a host, a coordinator (`dashboard/fleetd.js`)
with an optional PostgreSQL database shared by several replicas, agents on the other
hosts (`dashboard/agent.js`), and scripts that drain and repair runners. The models are
checked with TLC on small instances, and the main safety properties are proved with TLAPS
for every value of the constants that the named assumptions admit.

File names and line numbers are those of the source at the commit beside this directory.
`PROJECT.json` maps every definition that models code to the lines it stands for, and
lists the runs, the mutants that show each property can fail, the findings, the hazards
and the theorems.

## The system and its parts

| part | state it keeps | operations | modelled in |
|---|---|---|---|
| admission mutex (`hooks/common.sh` 376-422) | the directory `.admission/mutex` and a pid file in it | `admit_lock`, `admit_unlock`, breaking a dead or old one | `AdmissionMutex` |
| admission hooks (`hooks/job-started.sh`, `job-completed.sh`, `common.sh`) | files under `.admission`: `slots/<runner>`, `waiters/<stamp-pid>`, `priority/<waiter>` | the poll loop of a held job, observe mode, lanes, priority, timeout, free | `Admission`, `AdmissionGate` |
| host command queue (`fleetd.js`, `lib/ha.js`, `agent.js`) | a row per command, the rounds in progress, the agent's journal | queue, claim, release, answer, run, record, reset, replica poll | `HostCommands` |
| leader election (`lib/ha.js` 60-150) | a PostgreSQL advisory lock, a lease row, a role in each replica | `elect`, `loseLeadership` | `Leader` |
| drains (`scripts/drain-runner.sh`, `drain-stop-when-idle.sh`, `host-drain.sh`, `lib/host-switch.js`) | `.drain` and `.drain-stop` files, launchd services | drain, resume, stop when idle, hold, repair (`health.sh`) | `RunnerDrain` |
| standby tiers (`lib/tiers.js`, `lib/agent-autonomy.js`, `runTiers` of `fleetd.js`) | timers of the lane, drains marked `by=tiers`, the chain of local scripts | one decision per tick; drain and resume on both hosts; release when the coordinator is silent | `Tiers` |
| Simulator and audio control (`hooks/simulator-control.sh`, `audio-control.sh`) | a lease per runner, a baseline, what is booted or muted | start, complete, a guardian per job | `HostLeases` |
| tick guard (`lib/tick-guard.js`, the fast loop of `fleetd.js`) | the current tick and the abandoned ones | run, settle, give up | `TickGuard` |
| shipped admission decisions (`lib/admission-ship.js`, `lib/admission.js`) | an offset into an NDJSON log, a table | read, send, insert, advance by the accepted count | `DecisionShip` |
| autoscaler (`lib/autoscale.js`, `sizing.js`, `placement.js`, `autoscaleTick`) | cooldowns, a snapshot, commands under way, runner directories | add a runner where it is worst, remove an idle one | `Scaling` |
| night cap (`lib/night-cap.js`, `runNightCap`) | what was sent and when, drains marked `by=night-cap` | one decision per tick; drain idle runners, bring one back | `NightCap` |
| alerts (`lib/alerts.js`) | open rows, windows and debounces in memory, dismissals, shared intents | evaluate a snapshot, dismiss, restore, restart | `Alerts` |
| prewarm, concurrency advisor, billing guard, verdicts, checks, analytics, pages, API, OAuth, devices | views of the snapshot, tokens | | no |
| cleanup, health, registration, installation | files of one host | run alone, by hand or by launchd | in part, where others meet them |

How they interact.  Hooks of one host share nothing but files, the directory mutex and
the liveness of processes (`kill -0`).  Hosts and coordinator share the command table; a
host asks (heartbeat) and answers (results), the coordinator never calls it.  Replicas
share PostgreSQL.  Drains are files that scripts, hooks, the agent, the coordinator and
an operator write without a lock; the tiers, the night cap and the host switch put them
there and take only their own away. Every controller of the coordinator plans on a
snapshot and acts later, through scripts on its own host and commands on the others.

What is hard in it: hooks are processes that can be killed anywhere, and their files
stay; a check and the act that relies on it are separate file-system calls; a job that
waits gives up waiting (`admit`) or not (`hold`) while others count slots; heartbeats,
polls and elections run on intervals and overlap themselves; answers and results are
lost; five-minute resets race slow commands; a tick may hang for ever; a restart forgets
timers and keeps files.

What makes each part correct:

* mutex: one hook at a time in the locked section; a killed hook does not block the rest.
* admission: never more slots than the limits, in all, per lane and for Simulators;
  every running job is counted; jobs pass in the order of their line; a held job moves on.
* commands: run at most once per delivery, end with the verdict of a run, never change
  it, and always end.
* leader: one leader unless a session was lost; the lock is not orphaned; somebody leads.
* drains: a runner with a marker is stopped after its job, a resumed one runs; nobody
  undoes another owner's drain.
* leases: a job's device, or its silence, lasts as long as the job, and nothing of an
  earlier job takes them away (the code does not keep that: a finding); in the end the host
  is as the user left it.
* shipping: no line is lost between an offset and the table, and the table catches up.
* tiers: a host that is off or cannot admit takes nothing, a job that some runner could
  take is taken, and a quiet fleet ends with its overflow drained.
* autoscaler: no more runners than there was demand for, however stale the snapshot; a
  sweep adds or removes, and not both (a finding).
* night cap: the host gets under the cap, and what was parked comes back.
* alerts: one alert for an outage, silence for what was dismissed, and the truth in the end.
* tick guard: one tick that hangs does not stop the loop, and few are ever outstanding.

## Modules

* `AdmissionMutex` - one action per file-system call. `rm -rf` is two calls (the pid
  file, then the directory) that act on whatever has the path by then. `MCAdmissionMutex`
  instantiates it, `AdmissionMutexProofs` proves about it.
* `Admission` - one action per stretch of a hook that no other hook sees half done:
  `Poll` (the loop up to the lockless check), `Lock`, `Contended`, `Decide` (the counting
  under the mutex), `Claim`, `TimedOut`/`FailOpen`, `Sleep` (what the end of an iteration
  refreshes), `Orphaned`, `Cancelled`, the observe path, and the completed hook's
  `FreeSlot` and `Report`. `Settings` are the modes of `fleet.env`; `Faults` and
  `Budgets` bound how often workers die, hooks are killed, slots outlive their TTL, a
  floor is crossed and a label changes. `ahead[j]` is the order of the waiter files.
* `AdmissionGate` - the abstract specification: a gate with a line, no files or
  processes. `Admission` implements it under `hold` through the refinement mapping at its
  end (`GateSpec`): a job passes in `Decide`, before its slot file exists; a waiter file
  of a dead hook is not in the line.
* `HostCommands` - the table, the rounds of the hosts and the journal. A round is one
  heartbeat or one poll from its claim to its last result; a host may have several in
  progress, because `setInterval` does not wait (agent.js:752).
* `RunnerDrain` - one runner's two files, service and worker, and everybody who writes
  or reads them: runs of `drain-runner.sh` (`Begin` ... `Start`), jobs and their hook,
  runs of `drain-stop-when-idle.sh` (`Watch` ... `Record`), the drain hold (`HoldDue`,
  `Reread`, `Reassert`), `health.sh --repair`, reboots. One action is one look, one write
  or one `svc.sh` call. `overtaken` is history.
* `Leader` - the advisory lock, the sessions of each replica's pool, `leaderClient` and
  the rounds of `elect`. One action is the answer to one query and the code up to the
  next; rounds of a replica overlap at every await.
* `HostLeases` - the two scripts in one module (`tool` says which): jobs, the lease of
  each runner, the baseline or saved mute, and the guardians, which look (`GuardLooks`) and
  release (`GuardReleases`) in two steps. Completed hooks whose worker has died are kept
  beside them (stage `complete`): they release without looking.
* `DecisionShip` - lines are numbers, offsets count lines. A heartbeat is read, sent,
  handled and acknowledged in separate steps and several may be under way; fleetd's own
  reader is the same without the wire. The log rotates once.
* `Alerts` - keys instead of rules: runners that are offline, a rule that must hold for a
  while (`Disk`), and a failing workflow with a new key per push. `Evaluate` is `reconcile`
  on the oldest snapshot that waits; `OperatorDismisses` writes the table, the intent or both.
* `Scaling` - `TakeSnapshot`, then `SweepUp` or `SweepDown` on it, the script of the own
  host awaited (`FinishUp`, `FinishDown`), commands that the agent checks again
  (`RunRegister`, `RunDeregister`), their reports and their reset. After an addition on the
  own host come the further entries of a burst, one `RestOfBurst` each, whose ticks add
  nothing and consider a removal, as those of the code do. The settings (`Cap`, `Batch` of any
  size, `ProvisionUnserved`, `ScaleDown`), the measured history (`P90`) and what there is at
  first (`Worlds`) are constants.
* `Tiers` - `Tick` is `decideTiers` and what `runTiers` does with it; `ChainStep` the
  coordinator's scripts, `Heartbeat`, `OrderStep` and `AgentReleases` the other host.
* `TickGuard` - `run` as the loop calls it (`StartTick`, skipped or refused while nothing
  can be done), `AbandonTick`, `TickSettles`, deadlines and age. Ticks never promise to settle.
* `NightCap` - `CapDecides` is `decideNightCap` and the sending; `ScriptRuns` one script
  of the chain; jobs, windows, modes, the host switch and other owners around it.
* `MCParts` - these seven and `AdmissionMutex` in one run. They share no state: `part`
  says which one moves, and the others stay in one initial state. Each component keeps its
  own `Spec`; `PartsFairness` states the fairness of each.
* `MCServer` - `HostCommands` and `Leader`, in one run in the same way (`moving`).
* `MCAdmission`, `MCHostCommands`, `MCRunnerDrain`, `MCAlerts`, `MCScaling` - constants for
  TLC. `MCAdmission` runs five settings side by side, each with its own faults.
* `AdmissionProofs`, `HostCommandsProofs`, `RunnerDrainProofs`, `LeaderProofs` - theorems
  about the module each is named for.
* `ControlProofs` - theorems about `TickGuard`, `Alerts`, `HostLeases` and `Tiers`;
  `ScalingProofs` about `Scaling`; `PartsProofs` about `DecisionShip`, `NightCap` and the
  eight components of `MCParts` together.

Composition. `Admission` takes the mutex as atomic; `AdmissionMutex` says when it is
(`ExclusiveUntilAnExit`) and when not (`mutex_overlap`).

### Abstractions

Admission: mode `off`, the fallback owner when no Runner.Worker is found, a file system
that refuses to write, pid recycling and two stamps in one second with the pids in the
other order are left out. `lanes=observe` changes log lines only, except that its view
overwrites `ADMIT_PRIORITY_HEAD`; that pair is excluded by `AdmissionAssumption`. The
sampled swap rate is the floor `"memory"`. A job may be cancelled at any time.
`overdue` and `starving` begin in `Sleep` only, where the time passes.

Commands: SQLite and PostgreSQL run the same statements, so there is one table. The 256
results the journal keeps, a failing journal write, conflicting idempotency keys and the
autoscale cooldown written beside a result are left out. A retry of the heartbeat at a
second coordinator is another round. A refusal gives its attempt back, so refusals and
restarts are bounded together (`MaxFaults`).

Drains: the grace and retry times of the hold are left out, so that it may act at any
time; `requested_at` is not modelled; `rm` of both files is one step, and so is the look
at the flag and the trap that ignores the stop's signal. A stop ends every
`drain-stop-when-idle.sh` that has no trap yet (its comment, lines 35-40). A hook cannot
start one while `Stoppers` are all in use, and a script cannot start while `Scripts` are.

Elections: a session ends without its client knowing (`lost`), or the client is closed
while the server still has the session and its lock (`cut`). A query on a closed client
fails before anything else is asked of the network (`Settled`): `pg` fails it in the same
turn of the event loop. Without that, two rounds of one replica could close each other's
clients for ever. A shutdown by signal (`close`) is left out; `ReplicaCrashes` gives up the same.

Leases: what happens under the scripts' mutex is one step, and a process that does not get
the mutex in its hundred tries gives up (`MaxSlips`). `strayed` marks what nothing in the
scripts promises to put right (a guardian killed, a call that fails, a mutex given up at
the end), and a host on which a release took the next job's lease.

Time: a wait that has begun (`ripe`, `elapsed`, `overdue`, a cooldown, a retry) is over at
some time; how long it is does not appear. So orders of two timers that the numbers of the
code exclude are possible, and no property relies on them.

Tiers: `host-drain.sh --off` and `--on` are one step each, the lane is one, labels are the
repository's, and a drain takes hold at once (`RunnerDrain` is about that). `late` marks
what was on its way when a host was switched off.

Autoscaler: delivery of commands is `HostCommands`; here they run in any order. What
capacity, placement and the queue causes decide is whether a host has headroom (`hostIs`)
and whether a repository's runners are all at work. The rows that sizing makes per
repository and role are taken together to one per repository, so a role that has no runner
beside others that have (`registerRole`) is not there; prewarm is left out; history is what
it asks for (`P90`), in the size that is wanted and in the order of equal deficits. How long
jobs must be queued only delays a sweep. A cooldown ends at any time.

Night cap: a tick looks, awaits and decides; since the decision reads nothing new after its
look, what happens in between is put after the tick. A job that is handed over has its
worker at once. The chain is bounded by `MaxScripts` when a tick decides.

## Runs

| run | instance | checks | shows |
|---|---|---|---|
| `parts` | the eight components of `MCParts`, each alone (below) | PartsTypeOK and 19 properties (below) | what each promises at any time and in the end |
| `mutex_overlap` | 3 hooks, no kill, no stall | MutualExclusion, violated | a finding: see below |
| `admission` | 3 jobs on 3 runners, one a Simulator; hold with lanes off, observed and enforced, fail-open with lanes, observe mode; per setting a dead worker, expired slot and floor, a killed hook with its label, or a killed hook | TypeOK, SlotCap, LaneCaps, RunningHasSlot, GateSpec, HeldJobsMoveOn | the limits, the count and the order hold, and held jobs move on |
| `simulator_timeout` | two Simulator jobs, fail-open, no fault | SimulatorStaysStrict, violated | a finding |
| `slot_key_reuse` | two jobs of one runner, one worker death | RunningAlwaysHasSlot, violated | a finding |
| `server` | 2 commands, an agent and a replica with 2 rounds each, 2 deliveries, a refusal or restart; or 2 replicas, one with 2 overlapping elections, 2 lost sessions, failed calls or crashes | ServerTypeOK, PendingCanBeClaimed, RunsWithinAttempts, StatusTellsTheTruth, VerdictIsFinal, EveryCommandEnds; SoleLeader, LockIsKept, LeaderInTheEnd | delivery keeps its promises whatever is lost; one leader, until a session is lost and again after |
| `host_duplicate` | one agent, 2 commands, 3 deliveries, no fault | NeverRunTwice, violated | a finding |
| `drain` | 2 scripts at once, 2 requests of an operator or the tiers controller, 2 jobs, a reboot, crash or lost session | TypeOK, OwnersRespected, HookSparesItsJob, DrainsTakeHold | owners are respected, a hook spares its job, marker and service agree in the end |
| `drain_resume` | a drain, a resume, a job, no fault | ResumeStands, violated | a finding |
| `failing_resolved` | one workflow, two pushes, no restart | ClosedByGreen, violated | a finding |
| `lease_theft` | one runner, 3 jobs, a dead worker, nothing else fails | NextJobKeepsItsLease, violated | a finding |
| `burst_removes` | one host, bursts of 2, two repositories without a runner and one with an idle second one | OneWayPerSweep, violated | a finding |

What `parts` checks of each component:

| part | instance | properties | shows |
|---|---|---|---|
| mutex | 3 hooks, one killed | ExclusiveUntilAnExit, WreckIsCleared | no two hooks inside before one has ended; wreckage is cleared |
| leases | either script, 2 runners with 2 jobs each, a dead worker and a slip (simulator: one of the two) | JobsSpareEachOther, HostRestored | jobs do not take each other's device or silence, but for the release that `lease_theft` finds; the host is put back, unless that or a failing step got in the way |
| ship | either reader, 2 heartbeats at once, 3 lines, batches of 2, a rotation, 2 losses | NoLineSkipped, TableCatchesUp | nothing is passed over, and what is in the file arrives |
| alerts | 2 runners, a rule that must hold, 2 pushes, 3 changes, a dismissal, a restart | OutageReportedOnce, DismissedStaysQuiet, AlertsBecomeTrue | one alert per outage, quiet where dismissed, true in the end |
| scaling | 2 hosts, bursts of 2; a repository of at most 2 runners: without one, 2 jobs, or one job and one trouble (a host that changes or falls silent, a lost result, a failed script); with one on either host, 2 jobs and one trouble; or two repositories without a runner | OneRunnerPerDeficit, DemandIsMet | no more runners than demand, unless one was planned while another was not known of; demand is met, unless a refused addition stands in the way |
| tiers | 2 primary runners, a standby twin, with and without parking, 2 outside events | OffHostStaysDrained, QueuedRunsAreTaken, BlockedHostEmpties, FleetSettles | a host that is off stays drained, jobs are taken, and a quiet fleet settles |
| guard | 4 ticks of which 2 may be abandoned | OutstandingBounded, LoopGoesOn | few are outstanding; the loop goes on unless all that may be given up hang |
| night | 2 runners, 2 jobs, caps of 0 and 1, one outside event | ParkedComeBack, CapTakesHold | the host gets under the cap, and parked runners come back |

Bounds. The limits are 1 and 2 so that every pair of jobs competes; three jobs are a
holder, a job in its way and one that comes later, which is what the line, the lanes and
the priority rules compare. One fault of a kind is enough for every recovery path, and the
files it leaves stay for the rest of the behaviour; each setting has the faults that it
answers in code of its own (`FaultsOf`), since five settings with every fault are more
than TLC's liveness check gets through, and the theorems have them all at once. Three
hooks are what the overlap needs: a holder, a contender with the holder's pid and the next
holder. Two rounds per host overlap, and two deliveries are the last and one before it;
`BatchLimit` (8) is more than the commands there are. Two requests are a drain and a
resume, or an operator's and the controller's; the hold starts further scripts. The second
job is the one that meets the first job's `drain-stop-when-idle.sh`. One replica with two
rounds and one with a single round is the overlap and its competitor; two faults are a
failure and one in the recovery from it, and three connections are one per round and the
leader's.

In `parts`: two runners with two jobs each are an overlap and a successor on the same
runner; the simulator's script has a dead worker or a slip, the audio script, with fewer
states, both. Two heartbeats overlap, three lines are a full batch and the rest, two losses are
an answer lost and one in the retry. Two offline runners reach the threshold of two, and a
third change takes one of them back. Two arrivals for a repository with a burst of two are
the deficit that a stale snapshot could count twice; a second repository gives a burst a
second entry (`TwoRepos`). `burst_removes` needs a third, with an idle runner of its own.
Two primary runners of two repositories, one of them with a twin, are what the tiers
compare: sole runner and overflow; two events are a cause and an interference. No
repository is kept or pinned to the primary in this instance (`FloorProjects`,
`PinnedProjects`). Four ticks are the three that may be outstanding and a fresh one. A cap
of 0 parks everybody, a cap of 1 makes two jobs compete. Deadlock is off there: bounded
inputs run out, and the rest may stop.

Fairness. A running hook goes on polling (`sleep` and a bounded spin for the mutex),
intervals tick, calls end within their timeouts, time passes, and a leader runs its fast
tick. Under `hold` jobs that run finish and a floor clears; under `admit` nothing need
finish. Drain scripts run on, workers end, and the hold and the repair come round
(fleetd's tick, the launchd job of `healthctl.sh`). The election timer goes on and
PostgreSQL ends sessions whose client has gone (keepalive). No message need ever arrive,
and faults are never fair. In `parts` each component has its own (`PartsFairness`, all
weak): guardians poll; heartbeats are read, sent, handled and acknowledged as long as the
lines last, since losses are bounded; ticks of the coordinator come round, its scripts and
commands run, agents report, timers elapse, and jobs that some online runner fits are
taken and end. For the tick guard the loop and its clocks are fair and the ticks are not:
a tick may hang for ever. Nothing makes an operator, a user or a queue act. `MCServer` and
`MCParts` write the weak fairness of a step that disables itself as `[]<>` of the state in
which it is not enabled: the two mean the same, and TLC checks the second faster.

## Findings

`mutex_overlap`: a contender reads the holder's pid, the holder unlocks and exits, a third
hook takes the mutex, and the contender's `kill -0` makes it remove the third's.
`simulator_timeout`: `STRICT_LIMIT` is forgotten by a poll that does not reach the locked
check, and a Simulator job then fails open past the strict limit.
`slot_key_reuse`: a completed hook that outlives its worker frees the slot of the runner's
next job.
`host_duplicate`: a command that runs, or waits, for five minutes is sent again while it
is not in the journal, and runs twice at once.
`drain_resume`: `drain-stop-when-idle.sh` looks for the flag before it stops the service,
and writes the marker after; a resume between the two is undone, and the marker that
comes back has no owner, so that only an operator can resume it again.
`failing_resolved`: a workflow fails on one push and again on the next. `newlyFailing`
finds a red run only while the one before was green, so the second failure closes the
alert of the first as resolved, and its dismissal is forgotten, with no green run
(alerts.js:645, against the comment at 539-540).
`lease_theft`: a guardian that has seen its worker dead waits for the lock and then removes
the lease by the runner's name. If the runner's next job has taken it by then, that job
loses its lease: the same release, or the next job to end, unmutes the host or shuts its
devices down under it (audio-control.sh:185-187 and 124-130, simulator-control.sh the same,
against the comment at audio-control.sh:181-182).
`burst_removes`: the further entries of a burst plan go to `autoscaleTick` without an `act`
(autoscale.js:284-288, fleetd.js:1765-1769). Their ticks add nothing, so that with
`burstScale` a sweep still adds one runner, and they consider a removal, so that a sweep that
has added a runner may deregister one of another repository (against fleetd.js:1546-1547).

## Proofs

Every invariant and every action property that a run of TLC shows to hold is also a theorem,
for every value of the constants that the ASSUMEs of its module admit, and so is the
refinement of `AdmissionGate`.

* `AdmissionMutexProofs`: `MutexTypeCorrect`; `MutexExcludes` (ExclusiveUntilAnExit) by
  the invariant `MutexInv`: before a hook ends or stalls every pid that is read is alive,
  so only the process that made the directory removes it.
* `AdmissionProofs`: `TypeCorrect`; `CapHolds` (SlotCap) by `CapInv`: one hook is between
  counting and claiming (`Holder`), and one that is about to claim has room (`Room`);
  `LanesHold` (LaneCaps) by `LaneInv`, the same for each kind of slot that the claiming
  job's is of (`SlotStep` says what any step does to the slots); `RunningJobsHoldSlots`
  (RunningHasSlot) by `OwnerInv`: a runner has one live worker, and a job between its
  claim and its release has one. `HoldImplementsGate`: under `hold` in mode `enforce` the
  hooks implement the gate (`GateSpec`; `HeldHostIsAGate` says it without the condition
  inside), by `GateInv`. A slot file names a job of its own runner (`SlotOwner`), so the
  jobs inside are as many as the slots that are counted (`OwnersCount`); every set of
  waiter files has an oldest (`WellOrdered`), so the locked check picks the one that the
  gate's line has first (`FrontIsFirst`). A job passes in `Decide` (`DecideStep`);
  `ClaimStep` may only end the place of a dead job whose file it overwrites, and other
  steps join, leave or stutter.
* `HostCommandsProofs`: `CommandsTypeCorrect`, `PendingClaimable`, `TruthfulStatus`,
  `DeliveriesBoundRuns`, `VerdictsFinal` by `CommandsInv`. `Grounded`: what a round
  reports or the journal remembers is the outcome of a run. `RightHost`: a round holds
  commands of its host. `DeliveriesCount`: runs of a command plus the rounds that still
  hold it are at most its attempts; the property itself is not inductive, because a
  released claim lowers the attempts. `RowStep` lists what one step may do to one row.
* `RunnerDrainProofs`: `DrainTypeCorrect`, `OwnersKept`, `JobSpared` by `DrainInv`, which
  adds that a process left by a hook remembers no job that is still to come.
* `LeaderProofs`: `LeaderTypeCorrect`, `ElectsOne`, `LockNeverOrphaned` by `ElectionInv`:
  a kept client holds the lock while its session lives (`KeptHolds`), a query that can be
  answered runs on the client kept now (`QueriesOnKept`), and a client that tries for the
  lock belongs to one round (`TriesAlone`).
* `ControlProofs`, tick guard: `GuardTypeCorrect`; `FewTicksOutstanding`
  (OutstandingBounded) by `GuardInv`, which adds that the abandoned ticks are at most
  `MaxAbandoned` and that the current one is none of them.
* `ControlProofs`, alerts: `AlertsTypeCorrect`; `OneAlertPerOutage` (OutageReportedOnce)
  by `AlertsInv`: a run that finds or keeps the host's alert, be it in its debounce, folds
  every runner before it opens anything (`HostIsFolded`, `FoldedFindsNone`).
  `DismissalsLast` (DismissedStaysQuiet) by `QuietInv`: what was dismissed by hand and is
  still wrong is open and dismissed, and no snapshot that waits is without it
  (`QuietStays`); a full disk with an alert stays one that has been full for long enough
  (`DiskLasts`); a dismissed workflow is red, and dismissed as long as a run after a green
  one could be found (`WorkflowStays`). So an evaluation finds it again (`LastingIsFound`)
  and does not forget the dismissal.
* `ControlProofs`, leases: `LeasesTypeCorrect`; `OverlappingJobsSpared`
  (JobsSpareEachOther) by `LeasesInv`: a lease is that of a worker the runner has had, and
  a release that is under way is on behalf of a dead one (`LeaseOrder`); the host is muted
  while a live job has a lease (`MutedWhileLeased`).
* `ControlProofs`, tiers: `TiersTypeCorrect`; `OffStaysDrained` (OffHostStaysDrained) by
  `TiersInv`, whose `QueuesOK` says of a host that is off that all that is on its way to
  it was so when it was switched off (`OnlyLate`): `TierTick` shows that a decision sends
  nothing new there, whatever the controller wants.
* `ScalingProofs`: `ScalingTypeCorrect`; `NoMoreThanDemand` (OneRunnerPerDeficit) by
  `ScalingInv`, for any number of repositories, hosts and commands, any settings and a
  burst of any size. `Asked(r)` are the runners there are, the one whose script is awaited
  and those that commands will make; `AskedWithin` says that they are within the demand.
  `DemandSeen` bounds the jobs there are and the jobs the snapshot saw by the demand,
  which is the most there has been: however old the snapshot is when it is used, a plan
  made on it asks for no more. That the next instance has a new number needs the greatest
  of a finite set (`GreatestExists`): it follows from the well-foundedness of strict
  inclusion, since the library's induction over finite sets cannot be instantiated.
* `PartsProofs`: `ShipTypeCorrect`; `OffsetPassesNothing` (NoLineSkipped) by `ShipInv`.
  The offset is set from a heartbeat and not from the file, so the invariant is about
  heartbeats: `Grounded` says that the lines before one's start have been taken and that
  it carries the lines that follow, `Answered` that those have been taken once it is
  answered; `OffsetInFile` bounds an offset of the file that is there. Rotation makes all
  of them those of another file; `Misplaced` is the case that a file alone cannot tell.
  The type needs `ShipBounds` besides: no heartbeat speaks of a line that has not been
  written. `NightTypeCorrect`: a runner with a job is online, and a job is queued once at
  most and not while a runner has it; `LineWithout` says what is left of a line when a job
  leaves it.
* `PartsProofs`, the run: `PartsAreTheComponents` - a behaviour of `PartsSpec` is one of
  every component's own specification (`PartsStep`, from `MutexMoves` ... `NightMoves`),
  so every theorem above holds of it; `PartsTypeCorrect` and `PartsAreSafe` collect them.

The assumptions are the named ASSUMEs of the modules: finite sets of runners and rounds,
limits and bounds that are naturals, `None` outside the other sets. `GateSpec` is about the
settings that `Held` names, three of the five that `admission` runs.

Only model-checked is liveness: HeldJobsMoveOn, EveryCommandEnds, DrainsTakeHold,
LeaderInTheEnd and the properties of `parts` that say what comes in the end. They rest on
fairness and ENABLED, which TLAPS does not reason about. `NightCap` promises nothing but
that, so beyond its types it has no theorem.

## Plan

1. Done: the mutex, admission with its abstract gate, the command queue, their proofs.
2. Done: `Leader` and its proofs. Left: a tick that outlives its leadership.
3. Done: `RunnerDrain` and its proofs. Left: host-drain.sh over several runners.
4. Done: `HostLeases`, `DecisionShip`, `Alerts`, `Scaling`, `Tiers`, `TickGuard`,
   `NightCap`, and the proofs of their safety.
5. Done: the gate refinement. Left to prove: an abstract specification of the command queue
   (a command is run, or refused, and then has a verdict), once it is stated.
6. Models left: prewarm as another source of `Scaling`; commands that overtake one another
   (a repeated drain after a resume); the lanes of the tiers.

## Not modelled

* Classification and wording (verdicts, queue causes, checks, lint), analytics,
  authentication, the API and the pages: they hold no state that actors race for.
* Prewarm and the concurrency advisor: the first is one more reason for `autoscaleTick` to
  add a runner, the second only suggests. The billing guard only reports.
* `emulator-control.sh`: it keeps neither a lease of this kind nor a baseline. The inside
  of the leases' mutexes: it is the same `mkdir` as the hooks', for which see
  `AdmissionMutex`.
* Cleanup, registration and installation act on files and services of one host, one at a
  time; what they refuse to do is in `Scaling`, and `health.sh --repair` in `RunnerDrain`.
* Of the night cap: time zones and the hours of the window, queue causes, ephemeral
  runners. That the oldest queued job gets the free slot is not stated, because a runner
  that is online and takes its next job before a tick sees it idle keeps its slot; nor that
  a change from `enforce` to `observe` frees what is parked, which waits for `off`,
  `enforce` or the operator.
* Of the tiers: modes `observe` and `off`, the Simulator lane, labels within a repository.
* Two coordinators at once: `Tiers`, `Scaling`, `NightCap` and `Alerts` have one. What a
  leader that has lost its role still does is a listed hazard.
