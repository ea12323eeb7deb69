----------------------------- MODULE RunnerDrain -----------------------------
(***************************************************************************)
(* Draining one runner.  An operator, the tiers controller, the night cap  *)
(* and host-drain.sh all run scripts/drain-runner.sh, which keeps two      *)
(* files in the runner's directory and starts or stops its service:        *)
(* .drain says that it is drained, or draining, and by whom; .drain-stop   *)
(* asks the hook of the job that still runs to stop the service.  The hook *)
(* leaves that to a process of its own, drain-stop-when-idle.sh, because   *)
(* the worker has not reported its job yet.  A drained service that runs   *)
(* anyway is drained again (holdDrains of the agent, holdLocalDrains of    *)
(* fleetd), and health.sh --repair starts one that is not drained.         *)
(*                                                                         *)
(* None of them takes a lock: one action is one look at the files or at    *)
(* the processes, one write, or one svc.sh call.                           *)
(***************************************************************************)
EXTENDS Naturals

CONSTANTS
    Scripts,      \* runs of drain-runner.sh that may be in progress together
    Stoppers,     \* the same for drain-stop-when-idle.sh
    Owners,       \* values of --by
    Operator,     \* a drain without --by
    MaxRequests,  \* bound: drains and resumes that are asked for
    MaxJobs,      \* bound: jobs the runner takes
    MaxFaults     \* bound: reboots, crashes of the service and lost sessions

ASSUME DrainAssumption ==
    /\ Operator \notin Owners
    /\ MaxRequests \in Nat /\ MaxJobs \in Nat /\ MaxFaults \in Nat

VARIABLES
    marker,    \* the first line of .drain, "none" without the file
    by,        \* its owner, Operator without a by= line or a file
    flag,      \* .drain-stop exists
    service,   \* launchd runs the service
    worker,    \* Runner.Worker: "none", "busy", or "reporting" after its hook
    pc,        \* where each script is
    who,       \* the owner each script drains or resumes for
    stopper,   \* where each drain-stop-when-idle.sh is
    origin,    \* the job whose hook launched it
    carried,   \* the by= it read
    hold,      \* the drain hold: "none", "due" to reread, or "sure" after that
    holdBy,    \* the owner in the list of runners it goes by
    repair,    \* health.sh --repair saw the service down and no marker
    jobs, requests, faults,  \* how many there have been
    overtaken  \* scripts that others' writes to .drain overtook (history)

files == <<marker, by, flag>>
script == <<pc, who, overtaken>>
idler == <<stopper, origin, carried>>
holder == <<hold, holdBy>>
bounds == <<jobs, requests, faults>>
vars == <<files, service, worker, script, idler, holder, repair, bounds>>

Everyone == Owners \union {Operator}

Init ==
    /\ marker = "none" /\ by = Operator /\ flag = FALSE
    /\ service = TRUE /\ worker = "none"
    /\ pc = [p \in Scripts |-> "idle"]
    /\ who = [p \in Scripts |-> Operator]
    /\ stopper = [i \in Stoppers |-> "off"]
    /\ origin = [i \in Stoppers |-> 0]
    /\ carried = [i \in Stoppers |-> Operator]
    /\ hold = "none" /\ holdBy = Operator
    /\ repair = FALSE
    /\ jobs = 0 /\ requests = 0 /\ faults = 0
    /\ overtaken = {}

\* Runs of a script are alike: the next one is the free one that CHOOSE gives.
OneOf(free) == IF free = {} THEN {} ELSE {CHOOSE p \in free : TRUE}

Goto(p, step) == pc' = [pc EXCEPT ![p] = step]
Move(i, step) == stopper' = [stopper EXCEPT ![i] = step]

\* A run of drain-runner.sh ends.
Exit(p) ==
    /\ Goto(p, "idle")
    /\ who' = [who EXCEPT ![p] = Operator]
    /\ overtaken' = overtaken \ {p}

\* .drain is written or removed, and the other scripts at work have checked a
\* marker that is no longer there.
Write(state, owner, others) ==
    /\ marker' = state
    /\ by' = owner
    /\ overtaken' = overtaken \union {q \in others : pc[q] # "idle"}

\* svc.sh stop unloads the service and tears down the worker under it, and every
\* drain-stop-when-idle.sh that does not ignore the signal yet.
TearDown(steps) ==
    /\ worker' = "none"
    /\ stopper' = [i \in Stoppers |-> IF steps[i] = "wait" THEN "off" ELSE steps[i]]
    /\ origin' = [i \in Stoppers |-> IF steps[i] = "wait" THEN 0 ELSE origin[i]]
    /\ UNCHANGED carried

\* Mutant: the worker outlives its service.
StopOnly == service' = FALSE /\ UNCHANGED <<worker, idler>>

StopService == service' = FALSE /\ TearDown(stopper)

------------------------------------------------------------------------------
(* scripts/drain-runner.sh *)

Idle == OneOf({p \in Scripts : pc[p] = "idle"})

\* Mutant: an owned drain or resume does not look whose marker it meets.
NobodyElses(owner) == TRUE

\* An owned request leaves a marker that somebody else wrote alone.
MayTouch(owner) == owner = Operator \/ marker = "none" \/ by = owner

\* A script starts with mode drain, stop or resume, for an owner.
Begin(p, mode, owner) ==
    /\ pc[p] = "idle"
    /\ MayTouch(owner)
    /\ mode = "resume" /\ owner # Operator => marker # "none"
    /\ Goto(p, CASE mode = "drain" -> "probe" [] mode = "stop" -> "drained" [] mode = "resume" -> "clear")
    /\ who' = [who EXCEPT ![p] = owner]
    /\ UNCHANGED overtaken

Request(p, mode, owner) ==
    /\ requests < MaxRequests
    /\ requests' = requests + 1
    /\ Begin(p, mode, owner)
    /\ UNCHANGED <<files, service, worker, idler, holder, repair, jobs, faults>>

\* Is Runner.Worker there?
Probe(p) ==
    /\ pc[p] = "probe"
    /\ Goto(p, IF worker # "none" THEN "draining" ELSE "drained")
    /\ UNCHANGED <<files, service, worker, who, overtaken, idler, holder, repair, bounds>>

\* write_marker
Mark(p) ==
    /\ pc[p] \in {"draining", "drained"}
    /\ Write(pc[p], who[p], Scripts \ {p})
    /\ Goto(p, IF pc[p] = "draining" THEN "flag" ELSE "stop")
    /\ UNCHANGED <<flag, service, worker, who, idler, holder, repair, bounds>>

RaiseFlag(p) ==
    /\ pc[p] = "flag"
    /\ flag' = TRUE
    /\ Exit(p)
    /\ UNCHANGED <<marker, by, service, worker, idler, holder, repair, bounds>>

Stop(p) ==
    /\ pc[p] = "stop"
    /\ StopService
    /\ Exit(p)
    /\ UNCHANGED <<files, holder, repair, bounds>>

Clear(p) ==
    /\ pc[p] = "clear"
    /\ Write("none", Operator, Scripts \ {p})
    /\ flag' = FALSE
    /\ Goto(p, "start")
    /\ UNCHANGED <<service, worker, who, idler, holder, repair, bounds>>

Start(p) ==
    /\ pc[p] = "start"
    /\ service' = TRUE
    /\ Exit(p)
    /\ UNCHANGED <<files, worker, idler, holder, repair, bounds>>

Script(p) == Probe(p) \/ Mark(p) \/ RaiseFlag(p) \/ Stop(p) \/ Clear(p) \/ Start(p)

------------------------------------------------------------------------------
(* Jobs, their completed hook and scripts/drain-stop-when-idle.sh *)

TakeJob ==
    /\ service /\ worker = "none"
    /\ jobs < MaxJobs
    /\ jobs' = jobs + 1
    /\ worker' = "busy"
    /\ UNCHANGED <<files, service, script, idler, holder, repair, requests, faults>>

\* The steps are done, and the hook looks for .drain-stop.
CompleteJob ==
    /\ worker = "busy"
    /\ worker' = "reporting"
    /\ IF flag
       THEN \E i \in OneOf({i \in Stoppers : stopper[i] = "off"}) :
              /\ Move(i, "wait")
              /\ origin' = [origin EXCEPT ![i] = jobs]
       ELSE UNCHANGED <<stopper, origin>>
    /\ UNCHANGED <<files, service, script, carried, holder, repair, bounds>>

\* The worker reports and exits; or dies, and its hook is skipped.
WorkerExits ==
    /\ worker # "none"
    /\ worker' = "none"
    /\ UNCHANGED <<files, service, script, idler, holder, repair, bounds>>

\* Mutant: pgrep without -a, which does not list an ancestor of the script.
WorkerSeenByOthers(i) == worker # "none" /\ origin[i] # jobs

WorkerSeen(i) == worker # "none"

\* It ends.
Leave(i) ==
    /\ Move(i, "off")
    /\ origin' = [origin EXCEPT ![i] = 0]
    /\ carried' = [carried EXCEPT ![i] = Operator]

\* A poll that finds no worker, and then looks whether the flag is still there.
\* From then on it ignores the signal that the stop sends it.
Watch(i) ==
    /\ stopper[i] = "wait"
    /\ ~WorkerSeen(i)
    /\ IF flag THEN Move(i, "stop") /\ UNCHANGED <<origin, carried>> ELSE Leave(i)
    /\ UNCHANGED <<files, service, worker, script, holder, repair, bounds>>

\* It ends with the worker there: after its time, or because the flag had gone
\* when it started.
GiveUp(i) ==
    /\ stopper[i] = "wait"
    /\ WorkerSeen(i)
    /\ Leave(i)
    /\ UNCHANGED <<files, service, worker, script, holder, repair, bounds>>

StopIdle(i) ==
    /\ stopper[i] = "stop"
    /\ service' = FALSE
    /\ TearDown([stopper EXCEPT ![i] = "unflag"])
    /\ UNCHANGED <<files, script, holder, repair, bounds>>

\* rm .drain-stop, and the owner is read.
Unflag(i) ==
    /\ stopper[i] = "unflag"
    /\ flag' = FALSE
    /\ carried' = [carried EXCEPT ![i] = by]
    /\ Move(i, "record")
    /\ UNCHANGED <<marker, by, service, worker, script, origin, holder, repair, bounds>>

Record(i) ==
    /\ stopper[i] = "record"
    /\ Write("drained", carried[i], Scripts)
    /\ Leave(i)
    /\ UNCHANGED <<flag, service, worker, pc, who, holder, repair, bounds>>

Stopper(i) == Watch(i) \/ StopIdle(i) \/ Unflag(i) \/ Record(i)

------------------------------------------------------------------------------
(* What keeps drains held and the other services up *)

\* Mutant: the hold takes every draining runner for one in a job.
NotHeldDraining == marker = "drained" /\ service

\* Drained and running anyway; a runner that drains is left to end its job.
NotHeld == marker # "none" /\ service /\ ~(marker = "draining" /\ worker # "none")

\* drainsToReassert, of the list of runners of this tick.
HoldDue ==
    /\ hold = "none"
    /\ NotHeld
    /\ hold' = "due" /\ holdBy' = by
    /\ UNCHANGED <<files, service, worker, script, idler, repair, bounds>>

HoldOver == hold' = "none" /\ holdBy' = Operator

\* markerStillHeld, on the marker as it is now.
Reread ==
    /\ hold = "due"
    /\ IF marker # "none" /\ by = holdBy THEN hold' = "sure" /\ UNCHANGED holdBy ELSE HoldOver
    /\ UNCHANGED <<files, service, worker, script, idler, repair, bounds>>

\* drain-runner.sh starts, and may find yet another owner.
Reassert ==
    /\ hold = "sure"
    /\ HoldOver
    /\ IF MayTouch(holdBy) THEN \E p \in Idle : Begin(p, "drain", holdBy) ELSE UNCHANGED script
    /\ UNCHANGED <<files, service, worker, idler, repair, bounds>>

\* health.sh --repair: not drained and not running.
FindDown ==
    /\ ~repair
    /\ marker = "none" /\ ~service
    /\ repair' = TRUE
    /\ UNCHANGED <<files, service, worker, script, idler, holder, bounds>>

\* Or running with no session at GitHub, which a busy runner always has.
FindOffline ==
    /\ ~repair
    /\ marker = "none" /\ service /\ worker = "none"
    /\ faults < MaxFaults
    /\ faults' = faults + 1
    /\ repair' = TRUE
    /\ UNCHANGED <<files, service, worker, script, idler, holder, jobs, requests>>

\* It has asked GitHub since.  svc.sh stop, svc.sh start.
Repair ==
    /\ repair
    /\ repair' = FALSE
    /\ service' = TRUE
    /\ TearDown(stopper)
    /\ UNCHANGED <<files, script, holder, bounds>>

\* The files stay, everything else ends, and launchd starts the service again.
Reboot ==
    /\ faults < MaxFaults
    /\ faults' = faults + 1
    /\ service' = TRUE /\ worker' = "none"
    /\ pc' = [p \in Scripts |-> "idle"]
    /\ who' = [p \in Scripts |-> Operator]
    /\ overtaken' = {}
    /\ stopper' = [i \in Stoppers |-> "off"]
    /\ origin' = [i \in Stoppers |-> 0]
    /\ carried' = [i \in Stoppers |-> Operator]
    /\ HoldOver
    /\ repair' = FALSE
    /\ UNCHANGED <<files, jobs, requests>>

\* RunnerService.js is killed.  Nothing revives it but health.sh.
ServiceDies ==
    /\ service
    /\ faults < MaxFaults
    /\ faults' = faults + 1
    /\ StopService
    /\ UNCHANGED <<files, script, holder, repair, jobs, requests>>

Next ==
    \/ \E p \in Idle : \E mode \in {"drain", "stop", "resume"} : Request(p, mode, Operator)
    \/ \E p \in Idle, owner \in Owners : \E mode \in {"drain", "resume"} : Request(p, mode, owner)
    \/ \E p \in Scripts : Script(p)
    \/ \E i \in Stoppers : Stopper(i) \/ GiveUp(i)
    \/ TakeJob \/ CompleteJob \/ WorkerExits
    \/ HoldDue \/ Reread \/ Reassert
    \/ FindDown \/ FindOffline \/ Repair
    \/ Reboot \/ ServiceDies

\* Scripts run on, a worker ends, and the hold and health.sh come round.
Fairness ==
    /\ \A p \in Scripts : WF_vars(Script(p))
    /\ \A i \in Stoppers : WF_vars(Stopper(i))
    /\ WF_vars(CompleteJob) /\ WF_vars(WorkerExits)
    /\ WF_vars(HoldDue) /\ WF_vars(Reread) /\ WF_vars(Reassert)
    /\ WF_vars(FindDown) /\ WF_vars(Repair)

Spec == Init /\ [][Next]_vars /\ Fairness

------------------------------------------------------------------------------

\* The values of the variables; without .drain there is no owner.
TypeOK ==
    /\ marker \in {"none", "draining", "drained"}
    /\ by \in Everyone /\ (marker = "none" => by = Operator)
    /\ flag \in BOOLEAN
    /\ service \in BOOLEAN
    /\ worker \in {"none", "busy", "reporting"} /\ (worker # "none" => service)
    /\ pc \in [Scripts -> {"idle", "probe", "draining", "drained", "flag", "stop", "clear", "start"}]
    /\ who \in [Scripts -> Everyone]
    /\ overtaken \subseteq Scripts
    /\ stopper \in [Stoppers -> {"off", "wait", "stop", "unflag", "record"}]
    /\ origin \in [Stoppers -> 0..MaxJobs]
    /\ carried \in [Stoppers -> Everyone]
    /\ hold \in {"none", "due", "sure"} /\ holdBy \in Everyone
    /\ repair \in BOOLEAN
    /\ jobs \in 0..MaxJobs /\ requests \in 0..MaxRequests /\ faults \in 0..MaxFaults

\* "An owned drain (--by) never takes over a marker somebody else wrote"
\* (drain-runner.sh:92), nor does an owned resume undo one: only a marker that
\* was written after the script had looked can be lost to it.
OwnersRespected ==
    \A p \in Scripts :
        pc[p] \in {"probe", "draining", "drained", "clear"} /\ who[p] # Operator /\ p \notin overtaken
            => marker = "none" \/ by = who[p]

\* The process that a hook launches does not stop the service under the worker
\* whose hook it was, which still has to report the job
\* (drain-stop-when-idle.sh:9-18).
HookSparesItsJob ==
    \A i \in Stoppers : stopper[i] = "stop" => worker = "none" \/ jobs > origin[i]

\* Whatever drains, resumes, hooks, repairs, reboots and crashes do to one
\* another: in the end a runner with a marker is stopped and one without runs.
DrainsTakeHold == <>[](service <=> marker = "none")

\* "Resuming a runner should not be undone by a stop that was already in
\* flight" (drain-stop-when-idle.sh:54): only a drain makes a marker.
ResumeStands ==
    [][marker = "none" /\ marker' # "none" =>
          \E p \in Scripts : pc[p] \in {"draining", "drained"} /\ pc'[p] # pc[p]]_vars
=============================================================================
