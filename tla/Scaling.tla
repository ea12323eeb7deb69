------------------------------ MODULE Scaling ------------------------------
(***************************************************************************)
(* The autoscaler: once a minute it adds a runner for the repository that  *)
(* is worst off, or else removes one that has long been idle               *)
(* (lib/autoscale.js, lib/sizing.js, lib/placement.js, autoscaleTick of    *)
(* fleetd.js).  It plans on a snapshot.  On its own host it runs the       *)
(* scripts itself; another host gets a command, which its agent checks     *)
(* again before it runs (runRegister and runDeregister of agent.js).       *)
(*                                                                         *)
(* The roles of a repository are taken together.  Delivery of commands is   *)
(* HostCommands; here they run in any order.                               *)
(***************************************************************************)
EXTENDS Integers, FiniteSets, FiniteSetsExt

CONSTANTS
    Hosts, Coordinator,
    Repos,
    Cap,          \* maxInstancesPerRepo
    Batch,        \* burstMaxAdditionsPerRepo; 1 without burstScale
    ProvisionUnserved, ScaleDown,   \* the settings of these names
    P90,          \* P90[r]: the jobs at once that history wants runners for
    Worlds,       \* what there may be at first: the hosts' states, the runner directories,
                  \* how many jobs of each repository will come, and how many troubles:
                  \* hosts that change or fall silent, results lost, scripts that fail
    MaxQueued,    \* bound: jobs queued at once
    MaxCommands   \* bound: commands under way

HostStates == {"room", "full", "off"}
Instances == Nat \ {0}
RunnerIds == [repo : Repos, host : Hosts, n : Instances]

ASSUME ScalingAssumption ==
    /\ IsFiniteSet(Hosts) /\ Coordinator \in Hosts /\ IsFiniteSet(Repos)
    /\ Cap \in Nat \ {0} /\ Batch \in Nat \ {0}
    /\ ProvisionUnserved \in BOOLEAN /\ ScaleDown \in BOOLEAN
    /\ P90 \in [Repos -> Nat]
    /\ \A w \in Worlds : /\ w.hosts \in [Hosts -> HostStates]
                        /\ IsFiniteSet(w.fleet) /\ w.fleet \subseteq RunnerIds
                        /\ w.jobs \in [Repos -> Nat] /\ w.troubles \in Nat
    /\ MaxQueued \in Nat /\ MaxCommands \in Nat

VARIABLES
    hostIs,    \* hostIs[h]: with headroom, without, or switched off
    runners,   \* the runner directories: repository, host and instance
    busy,      \* runners with a job
    idle,      \* runners idle and older than the idle TTL
    queue,     \* queue[r]: queued jobs
    cool,      \* autoscale_last_up: the repositories in their cooldown
    snap,      \* the snapshot the sweep plans on, the hosts' reports in it
    tick,      \* the sweep: the script it awaits on the coordinator's own host, and how
               \* many of its plan are left
    cmds,      \* commands for agents
    demand,    \* history: the most jobs of a repository there have been at once
    twice,     \* history: a runner was planned while another was unconfirmed
    jobs,      \* bound: the jobs still to come
    troubles   \* bound: the troubles still to come

scaleVars == <<hostIs, runners, busy, idle, queue, cool, snap, tick, cmds,
               demand, twice, jobs, troubles>>

NoTick == [kind |-> "none"]

ScalingTypeOK ==
    /\ hostIs \in [Hosts -> HostStates]
    /\ runners \subseteq RunnerIds
    /\ busy \subseteq runners /\ idle \subseteq runners \ busy
    /\ queue \in [Repos -> 0..MaxQueued] /\ cool \subseteq Repos
    /\ snap.hosts \in [Hosts -> HostStates \cup {"stale"}]
    /\ snap.runners \subseteq RunnerIds /\ snap.busy \cup snap.idle \subseteq snap.runners
    /\ tick.kind \in {"none", "up", "down", "rest"}
    /\ tick # NoTick => tick.left \in 0..(Batch - 1)
    /\ \A c \in cmds : c.runner \in RunnerIds /\ c.stage \in {"queued", "ok", "failed"}
    /\ jobs \in [Repos -> Nat] /\ troubles \in Nat

Of(set, r) == {x \in set : x.repo = r}
Seen == [hosts |-> hostIs, runners |-> runners, busy |-> busy, idle |-> idle, queue |-> queue]

ScalingInit ==
    /\ \E w \in Worlds :
          hostIs = w.hosts /\ runners = w.fleet /\ jobs = w.jobs /\ troubles = w.troubles
    /\ busy = {} /\ idle = {}
    /\ queue = [r \in Repos |-> 0] /\ cool = {}
    /\ snap = Seen
    /\ tick = NoTick /\ cmds = {}
    /\ demand = [r \in Repos |-> Cardinality(Of(runners, r))]
    /\ twice = {}

Troubled == troubles > 0 /\ troubles' = troubles - 1

-----------------------------------------------------------------------------
\* The jobs on GitHub, the clock, and what is known of the hosts.
JobQueued(r) ==
    /\ queue[r] < MaxQueued /\ jobs[r] > 0 /\ jobs' = [jobs EXCEPT ![r] = @ - 1]
    /\ queue' = [queue EXCEPT ![r] = @ + 1]
    /\ demand' = [demand EXCEPT ![r] = Max({@, queue'[r] + Cardinality(Of(busy, r))})]
    /\ UNCHANGED <<hostIs, runners, busy, idle, cool, snap, tick, cmds, twice, troubles>>

JobTaken(x) ==
    /\ x \in runners \ busy /\ queue[x.repo] > 0
    /\ queue' = [queue EXCEPT ![x.repo] = @ - 1]
    /\ busy' = busy \cup {x} /\ idle' = idle \ {x}
    /\ UNCHANGED <<hostIs, runners, cool, snap, tick, cmds, demand, twice, jobs, troubles>>

JobDone(x) ==
    /\ x \in busy /\ busy' = busy \ {x}
    /\ UNCHANGED <<hostIs, runners, idle, queue, cool, snap, tick, cmds, demand, twice, jobs, troubles>>

IdleTtlElapses(x) ==
    /\ x \in runners \ (busy \cup idle) /\ idle' = idle \cup {x}
    /\ UNCHANGED <<hostIs, runners, busy, queue, cool, snap, tick, cmds, demand, twice, jobs, troubles>>

\* A cooldown may be over before the new runner is in a snapshot: settings.js allows
\* one of a minute.
CooldownEnds(r) ==
    /\ r \in cool /\ cool' = cool \ {r}
    /\ UNCHANGED <<hostIs, runners, busy, idle, queue, snap, tick, cmds, demand, twice, jobs, troubles>>

HostChanges(h) ==
    /\ Troubled
    /\ \E to \in HostStates \ {hostIs[h]} : hostIs' = [hostIs EXCEPT ![h] = to]
    /\ UNCHANGED <<runners, busy, idle, queue, cool, snap, tick, cmds, demand, twice, jobs>>

HostFallsSilent(h) ==
    /\ Troubled /\ h # Coordinator
    /\ snap' = [snap EXCEPT !.hosts[h] = "stale"]
    /\ UNCHANGED <<hostIs, runners, busy, idle, queue, cool, tick, cmds, demand, twice, jobs>>

\* fastTick; buildFleetRunners.
TakeSnapshot ==
    /\ snap # Seen /\ snap' = Seen
    /\ UNCHANGED <<hostIs, runners, busy, idle, queue, cool, tick, cmds, demand, twice, jobs, troubles>>

-----------------------------------------------------------------------------
\* sizeFleet: a repository wants one runner more for each job that is queued, or as
\* many as history says, up to the cap; with no runner at all it wants one.
Have(r) == Cardinality(Of(snap.runners, r))
Deficit(r) ==
    IF Have(r) = 0 THEN IF ProvisionUnserved THEN Min({snap.queue[r], 1}) ELSE 0
    ELSE Min({Cap, Max({P90[r], Have(r) + snap.queue[r]})}) - Have(r)

\* Mutants: an idle runner does not count; a repository without one is not helped.
DiagnosedAlways(r) == TRUE

DiagnosedServed(r) == Of(snap.runners, r) # {} /\ Of(snap.runners, r) \subseteq snap.busy

\* classifyQueueCause: repo-capacity, or unserved; an idle runner means that
\* GitHub is holding the job.
Diagnosed(r) == Of(snap.runners, r) \subseteq snap.busy

\* buildScaleUpPlan.
Candidates ==
    {r \in Repos : /\ Deficit(r) > 0 /\ snap.queue[r] > 0 /\ r \notin cool
                   /\ Diagnosed(r)
                   /\ Have(r) = 0 \/ \E h \in Hosts : snap.hosts[h] = "room"}

\* minQueuedMs only delays a candidate, as a later sweep does.
\* Worst deficit first; history breaks ties.
Worse(r, q) == Deficit(r) > Deficit(q) \/ (Deficit(r) = Deficit(q) /\ P90[r] >= P90[q])
Worst == {r \in Candidates : \A q \in Candidates : Worse(r, q)}

\* planScaleDown: the highest instance that is idle while its repository has no
\* active work.
Removable ==
    {x \in snap.idle : /\ x.n > 1 /\ x \notin snap.busy
                       /\ snap.queue[x.repo] = 0 /\ Of(snap.busy, x.repo) = {}}
DownPlans == {x \in Removable : \A y \in Removable : y.n <= x.n}

\* The first runner of a repository is registered, another one is a copy of one it has.
First(r) == Have(r) = 0

\* choosePlacement, scoreHost: the host with the fewest runners.
Places(r) ==
    LET fit == {h \in Hosts : snap.hosts[h] = "room" \/ (First(r) /\ snap.hosts[h] = "full")}
        load(h) == Cardinality({x \in snap.runners : x.host = h})
    IN {h \in fit : \A g \in fit : load(h) <= load(g)}

NextInstance(set) == IF set = {} THEN 1 ELSE 1 + Max({x.n : x \in set})

\* runner.register for a first runner; runner.duplicate, which knows the runners
\* of its own host only, their instances and its own headroom.  cloneSource prefers
\* the coordinator's own runners.
OwnCopies(r) == {x \in Of(snap.runners, r) : x.host = Coordinator}
LocalRunner(r) ==
    [repo |-> r, host |-> Coordinator, n |-> IF First(r) THEN 1 ELSE NextInstance(OwnCopies(r))]
LocalAccepts(r) ==
    /\ hostIs[Coordinator] # "off"
    /\ First(r) \/ /\ OwnCopies(r) # {} /\ LocalRunner(r).n <= Cap
                   /\ snap.hosts[Coordinator] = "room"

RemoteCommand(r, h) ==
    [kind |-> "register", stage |-> "queued",
     runner |-> [repo |-> r, host |-> h, n |-> NextInstance(Of(snap.runners, r))]]

\* A runner of r is on its way, or there and not in the snapshot.
Unconfirmed(r) ==
    \/ \E c \in cmds : c.kind = "register" /\ c.runner.repo = r
    \/ \E x \in Of(runners, r) : x \notin snap.runners

\* How many of a burst's plan come after its first addition.
Others == Min({Batch, Cardinality(Candidates)}) - 1

\* autoscaleTick with an addition: a script here, a command there.  Only a script is
\* followed by the rest of the plan.
Add(r) ==
    \/ Places(r) = {} /\ UNCHANGED <<tick, cmds>>
    \/ /\ Coordinator \in Places(r)
       /\ tick' = IF LocalAccepts(r)
                  THEN [kind |-> "up", runner |-> LocalRunner(r), left |-> Others, read |-> cool]
                  ELSE NoTick
       /\ UNCHANGED cmds
    \/ \E h \in Places(r) \ {Coordinator} :
          /\ Cardinality(cmds) < MaxCommands
          /\ cmds' = cmds \cup {RemoteCommand(r, h)}
          /\ UNCHANGED tick

SweepUp ==
    /\ tick = NoTick
    /\ \E r \in Worst : Add(r) /\ twice' = twice \cup {q \in {r} : Unconfirmed(q)}
    /\ UNCHANGED <<hostIs, runners, busy, idle, queue, cool, snap, demand, jobs, troubles>>

Resting(left) == IF left = 0 THEN NoTick ELSE [kind |-> "rest", left |-> left]

\* autoscaleTick with nothing to add, and left ticks of a burst after it.
ConsiderRemoval(left) ==
    \/ /\ ~ScaleDown \/ DownPlans = {}
       /\ tick' = Resting(left) /\ UNCHANGED cmds
    \/ /\ ScaleDown
       /\ \E x \in DownPlans :
             \/ /\ x.host = Coordinator /\ UNCHANGED cmds
                /\ tick' = [kind |-> "down", runner |-> x, left |-> left]
             \/ /\ x.host # Coordinator /\ snap.hosts[x.host] # "stale"
                /\ Cardinality(cmds) < MaxCommands
                /\ cmds' = cmds \cup {[kind |-> "deregister", stage |-> "queued", runner |-> x]}
                /\ tick' = Resting(left)
             \/ /\ x.host # Coordinator /\ snap.hosts[x.host] = "stale"
                /\ tick' = Resting(left) /\ UNCHANGED cmds

SweepDown ==
    /\ tick = NoTick /\ Candidates = {} /\ ConsiderRemoval(0)
    /\ UNCHANGED <<hostIs, runners, busy, idle, queue, cool, snap, demand, twice, jobs, troubles>>

\* The loop over actions.slice(1).  An entry of actions has no `act`: its tick adds
\* nothing, whatever it was to add, and goes on as a sweep with nothing to add does.
RestOfBurst ==
    /\ tick.kind = "rest" /\ ConsiderRemoval(tick.left - 1)
    /\ UNCHANGED <<hostIs, runners, busy, idle, queue, cool, snap, demand, twice, jobs, troubles>>

-----------------------------------------------------------------------------
\* deregister.sh refuses a runner with a job, and the only one on its host.
Sheds(x) ==
    /\ x \in runners \ busy
    /\ \E y \in Of(runners, x.repo) \ {x} : y.host = x.host

\* recordScaleUpMeta: the whole map is written, as it was read.
RecordScaleUp(read, r) == cool' = read \cup {r}

\* register.sh has ended; it refuses a directory that exists.  fastTick follows,
\* and after an addition the rest of the plan.
FinishUp ==
    /\ tick.kind = "up"
    /\ IF tick.runner \in runners
       THEN tick' = NoTick /\ UNCHANGED <<runners, cool>>
       ELSE /\ runners' = runners \cup {tick.runner}
            /\ RecordScaleUp(tick.read, tick.runner.repo)
            /\ tick' = Resting(tick.left)
    /\ snap' = [Seen EXCEPT !.runners = runners']
    /\ UNCHANGED <<hostIs, busy, idle, queue, cmds, demand, twice, jobs, troubles>>

FinishDown ==
    /\ tick.kind = "down" /\ tick' = Resting(tick.left)
    /\ runners' = IF Sheds(tick.runner) THEN runners \ {tick.runner} ELSE runners
    /\ idle' = idle \cap runners'
    /\ snap' = [Seen EXCEPT !.runners = runners', !.idle = idle']
    /\ UNCHANGED <<hostIs, busy, queue, cool, cmds, demand, twice, jobs, troubles>>

ScriptFails ==
    /\ Troubled /\ tick.kind \in {"up", "down"}
    /\ tick' = IF tick.kind = "up" THEN NoTick ELSE Resting(tick.left)
    /\ snap' = Seen
    /\ UNCHANGED <<hostIs, runners, busy, idle, queue, cool, cmds, demand, twice, jobs>>

\* runRegister.
Registers(x) ==
    /\ hostIs[x.host] = "room"
    /\ Cardinality({y \in Of(runners, x.repo) : y.host = x.host}) < Cap

\* A mutant: another instance is made of a runner that is there.
KnownNever(x) == FALSE

Known(x) == x \in runners

Ended(c, ok) == (cmds \ {c}) \cup {[c EXCEPT !.stage = IF ok THEN "ok" ELSE "failed"]}

RunRegister(c) ==
    /\ c.kind = "register" /\ c.stage = "queued"
    /\ LET x == c.runner
           free == [x EXCEPT !.n = NextInstance({y \in Of(runners, x.repo) : y.host = x.host})] IN
       IF hostIs[x.host] = "off" THEN cmds' = Ended(c, FALSE) /\ UNCHANGED runners
       ELSE IF Known(x) THEN cmds' = Ended(c, TRUE) /\ UNCHANGED runners
       ELSE /\ cmds' = Ended(c, Registers(x))
            /\ runners' = IF Registers(x) THEN runners \cup {IF x \in runners THEN free ELSE x} ELSE runners
    /\ UNCHANGED <<hostIs, busy, idle, queue, cool, snap, tick, demand, twice, jobs, troubles>>

RunDeregister(c) ==
    /\ c.kind = "deregister" /\ c.stage = "queued"
    /\ cmds' = Ended(c, Sheds(c.runner))
    /\ runners' = IF Sheds(c.runner) THEN runners \ {c.runner} ELSE runners
    /\ idle' = idle \cap runners'
    /\ UNCHANGED <<hostIs, busy, queue, cool, snap, tick, demand, twice, jobs, troubles>>

\* The results handler of fleetd; only now does the cooldown of a remote addition start.
Report(c) ==
    /\ c.stage \in {"ok", "failed"} /\ cmds' = cmds \ {c}
    /\ IF c.kind = "register" /\ c.stage = "ok" THEN RecordScaleUp(cool, c.runner.repo) ELSE UNCHANGED cool
    /\ UNCHANGED <<hostIs, runners, busy, idle, queue, snap, tick, demand, twice, jobs, troubles>>

\* The result is lost, and the command is handed out again.
Reset(c) ==
    /\ Troubled /\ c.stage \in {"ok", "failed"}
    /\ cmds' = (cmds \ {c}) \cup {[c EXCEPT !.stage = "queued"]}
    /\ UNCHANGED <<hostIs, runners, busy, idle, queue, cool, snap, tick, demand, twice, jobs>>

Work == \E r \in Repos : JobQueued(r) \/ CooldownEnds(r)
RunnerSteps == \E x \in runners : JobTaken(x) \/ JobDone(x) \/ IdleTtlElapses(x)
HostSteps == \E h \in Hosts : HostChanges(h) \/ HostFallsSilent(h)
CommandSteps == \E c \in cmds : RunRegister(c) \/ RunDeregister(c) \/ Report(c) \/ Reset(c)

ScalingNext ==
    \/ Work \/ RunnerSteps \/ HostSteps \/ CommandSteps
    \/ TakeSnapshot \/ SweepUp \/ SweepDown \/ RestOfBurst
    \/ FinishUp \/ FinishDown \/ ScriptFails

ScalingSpec == ScalingInit /\ [][ScalingNext]_scaleVars

-----------------------------------------------------------------------------
\* The scaler never makes more runners than the repository had jobs at once, or than it
\* began with, however late results and heartbeats are.  Excepted is a repository for
\* which it planned one while another was on its way or not yet in the snapshot: then
\* two hosts may each add one.
OneRunnerPerDeficit ==
    \A r \in Repos \ twice : Cardinality(Of(runners, r)) <= demand[r]

OutOfWork(r) == queue[r] = 0 \/ ~(Of(runners, r) \subseteq busy)

\* Where ProvisionUnserved is on, a repository whose jobs wait behind busy runners gets
\* a runner while hosts have room.  Excepted is what the code cannot add: a duplicate on
\* the coordinator of a runner it does not have itself, which stands in the way of every
\* other addition.
DemandIsMet ==
    \A r \in Repos :
        []<>(\/ OutOfWork(r) \/ Cardinality(Of(runners, r)) >= Cap
             \/ \E h \in Hosts : hostIs[h] # "room"
             \/ \E q \in Repos : /\ Of(runners, q) # {}
                                 /\ \A x \in Of(runners, q) : x.host # Coordinator)

Removals(set) == {c.runner : c \in {d \in set : d.kind = "deregister"}}

\* What fleetd.js says of a sweep: one that adds a runner removes none, here or on
\* another host.
OneWayPerSweep ==
    [][tick.kind = "rest" => tick'.kind # "down" /\ Removals(cmds') \subseteq Removals(cmds)]_scaleVars
=============================================================================
