-------------------------- MODULE RunnerDrainProofs --------------------------
(***************************************************************************)
(* The safety properties of RunnerDrain, proved for any number of scripts  *)
(* at work together, of owners, requests, jobs and faults.                 *)
(***************************************************************************)
EXTENDS RunnerDrain, TLAPS

\* TypeOK, an invariant with the jobs that hooks remember: none is to come.
HooksRemember == \A i \in Stoppers : origin[i] <= jobs

DrainInv == TypeOK /\ HooksRemember /\ OwnersRespected /\ HookSparesItsJob

\* The run that starts, or that takes over, is one of the free ones.
LEMMA OneOfThem == \A free : OneOf(free) \subseteq free
BY DEF OneOf

\* A script that starts is well-formed, and has looked at the marker.
LEMMA BeginKeeps ==
    ASSUME TypeOK, OwnersRespected, NEW p \in Scripts, NEW mode \in {"drain", "stop", "resume"},
           NEW owner \in Everyone, Begin(p, mode, owner), UNCHANGED files
    PROVE  /\ pc' \in [Scripts -> {"idle", "probe", "draining", "drained", "flag", "stop", "clear", "start"}]
           /\ who' \in [Scripts -> Everyone]
           /\ overtaken' \subseteq Scripts
           /\ OwnersRespected'
BY DEF TypeOK, OwnersRespected, Begin, Goto, MayTouch, files

\* Stopping the service ends its worker, and no hook's process forgets its job
\* that has still to spare it.
LEMMA TearDownKeeps ==
    ASSUME DrainInv, NEW steps \in [Stoppers -> {"off", "wait", "stop", "unflag", "record"}],
           TearDown(steps)
    PROVE  /\ worker' = "none"
           /\ stopper' \in [Stoppers -> {"off", "wait", "stop", "unflag", "record"}]
           /\ origin' \in [Stoppers -> 0..MaxJobs]
           /\ carried' \in [Stoppers -> Everyone]
           /\ \A i \in Stoppers : origin'[i] <= jobs
BY DrainAssumption DEF DrainInv, TypeOK, HooksRemember, TearDown

\* Nobody is at work, initially and after a reboot.
Still ==
    /\ pc = [p \in Scripts |-> "idle"] /\ who = [p \in Scripts |-> Operator]
    /\ stopper = [i \in Stoppers |-> "off"]
    /\ origin = [i \in Stoppers |-> 0] /\ carried = [i \in Stoppers |-> Operator]

StillTypes ==
    /\ pc \in [Scripts -> {"idle", "probe", "draining", "drained", "flag", "stop", "clear", "start"}]
    /\ who \in [Scripts -> Everyone]
    /\ stopper \in [Stoppers -> {"off", "wait", "stop", "unflag", "record"}]
    /\ origin \in [Stoppers -> 0..MaxJobs]
    /\ carried \in [Stoppers -> Everyone]
    /\ \A p \in Scripts : pc[p] = "idle"
    /\ \A i \in Stoppers : stopper[i] = "off" /\ origin[i] = 0

LEMMA StillType == Still => StillTypes
<1>1. Operator \in Everyone /\ 0 \in 0..MaxJobs
  BY DrainAssumption DEF Everyone
<1> QED BY <1>1 DEF Still, StillTypes

\* Initially no script is at work.
LEMMA DrainInit == Init => DrainInv
<1> SUFFICES ASSUME Init PROVE DrainInv
  OBVIOUS
<1>1. Still
  BY DEF Init, Still
<1>2. TypeOK
  <2>1. StillTypes
    BY <1>1, StillType
  <2>2. requests \in 0..MaxRequests /\ faults \in 0..MaxFaults /\ jobs \in 0..MaxJobs
    BY DrainAssumption DEF Init
  <2> QED BY <2>1, <2>2 DEF Init, TypeOK, StillTypes, Everyone
<1>3. HooksRemember /\ OwnersRespected /\ HookSparesItsJob
  BY <1>1, StillType DEF Init, StillTypes, HooksRemember, OwnersRespected, HookSparesItsJob
<1> QED BY <1>2, <1>3 DEF DrainInv

\* Requests and the steps of drain-runner.sh.
LEMMA ScriptStep ==
    ASSUME DrainInv, NEW p \in Scripts,
           \/ \E mode \in {"drain", "stop", "resume"}, owner \in Everyone : Request(p, mode, owner)
           \/ Script(p)
    PROVE  DrainInv'
<1> USE DrainAssumption
<1>1. CASE \E mode \in {"drain", "stop", "resume"}, owner \in Everyone : Request(p, mode, owner)
  <2>1. PICK mode \in {"drain", "stop", "resume"}, owner \in Everyone : Request(p, mode, owner)
    BY <1>1
  <2>2. Begin(p, mode, owner) /\ UNCHANGED files
    BY <2>1 DEF Request
  <2>3. /\ pc' \in [Scripts -> {"idle", "probe", "draining", "drained", "flag", "stop", "clear", "start"}]
        /\ who' \in [Scripts -> Everyone]
        /\ overtaken' \subseteq Scripts
        /\ OwnersRespected'
    BY <2>2, BeginKeeps DEF DrainInv
  <2> QED BY <2>1, <2>3 DEF Request, DrainInv, TypeOK, HooksRemember, HookSparesItsJob, files, idler, holder
<1>2. CASE Probe(p)
  BY <1>2 DEF Probe, Goto, DrainInv, TypeOK, HooksRemember, OwnersRespected, HookSparesItsJob, files, idler, holder, bounds
<1>3. CASE Mark(p)
  <2>1. TypeOK'
    BY <1>3 DEF Mark, Write, Goto, DrainInv, TypeOK, idler, holder, bounds
  <2>2. OwnersRespected'
    BY <1>3 DEF Mark, Write, Goto, DrainInv, TypeOK, OwnersRespected
  <2> QED BY <1>3, <2>1, <2>2 DEF Mark, DrainInv, HooksRemember, HookSparesItsJob, idler, bounds
<1>4. CASE RaiseFlag(p)
  BY <1>4 DEF RaiseFlag, Exit, Goto, DrainInv, TypeOK, Everyone, HooksRemember, OwnersRespected, HookSparesItsJob, idler, holder, bounds
<1>5. CASE Stop(p)
  <2>1. /\ worker' = "none"
        /\ stopper' \in [Stoppers -> {"off", "wait", "stop", "unflag", "record"}]
        /\ origin' \in [Stoppers -> 0..MaxJobs]
        /\ carried' \in [Stoppers -> Everyone]
        /\ \A i \in Stoppers : origin'[i] <= jobs
    BY <1>5, TearDownKeeps DEF Stop, StopService, DrainInv, TypeOK
  <2>2. TypeOK'
    BY <1>5, <2>1 DEF Stop, StopService, Exit, Goto, DrainInv, TypeOK, Everyone, files, holder, bounds
  <2>3. OwnersRespected'
    BY <1>5 DEF Stop, Exit, Goto, DrainInv, TypeOK, OwnersRespected, files
  <2> QED BY <1>5, <2>1, <2>2, <2>3 DEF Stop, DrainInv, HooksRemember, HookSparesItsJob, bounds
<1>6. CASE Clear(p)
  <2>1. TypeOK'
    BY <1>6 DEF Clear, Write, Goto, DrainInv, TypeOK, Everyone, idler, holder, bounds
  <2>2. OwnersRespected'
    BY <1>6 DEF Clear, Write, Goto, DrainInv, TypeOK, OwnersRespected
  <2> QED BY <1>6, <2>1, <2>2 DEF Clear, DrainInv, HooksRemember, HookSparesItsJob, idler, bounds
<1>7. CASE Start(p)
  BY <1>7 DEF Start, Exit, Goto, DrainInv, TypeOK, Everyone, HooksRemember, OwnersRespected, HookSparesItsJob, files, idler, holder, bounds
<1> QED BY <1>1, <1>2, <1>3, <1>4, <1>5, <1>6, <1>7 DEF Script

\* Jobs, and the processes that their hooks leave behind.
LEMMA JobStep ==
    ASSUME DrainInv,
           \/ TakeJob \/ CompleteJob \/ WorkerExits
           \/ \E i \in Stoppers : Stopper(i) \/ GiveUp(i)
    PROVE  DrainInv'
<1> USE DrainAssumption DEF DrainInv
<1>1. CASE TakeJob
  BY <1>1 DEF TakeJob, TypeOK, HooksRemember, OwnersRespected, HookSparesItsJob, files, script, idler, holder
<1>2. CASE CompleteJob
  <2>1. /\ stopper' \in [Stoppers -> {"off", "wait", "stop", "unflag", "record"}]
        /\ origin' \in [Stoppers -> 0..MaxJobs]
        /\ \A i \in Stoppers : origin'[i] <= jobs
        /\ \A i \in Stoppers : stopper'[i] = "stop" => stopper[i] = "stop" /\ origin'[i] = origin[i]
    <3>1. CASE flag
      <4>1. PICK i \in Stoppers : /\ stopper[i] = "off"
                                  /\ Move(i, "wait")
                                  /\ origin' = [origin EXCEPT ![i] = jobs]
        BY <1>2, <3>1, OneOfThem DEF CompleteJob
      <4> QED BY <4>1 DEF Move, TypeOK, HooksRemember
    <3>2. CASE ~flag
      BY <1>2, <3>2 DEF CompleteJob, TypeOK, HooksRemember
    <3> QED BY <3>1, <3>2
  <2>2. TypeOK'
    BY <1>2, <2>1 DEF CompleteJob, TypeOK, files, script, holder, bounds
  <2>3. OwnersRespected'
    BY <1>2 DEF CompleteJob, OwnersRespected, files, script
  <2>4. HookSparesItsJob'
    BY <1>2, <2>1 DEF CompleteJob, TypeOK, HookSparesItsJob, bounds
  <2> QED BY <1>2, <2>1, <2>2, <2>3, <2>4 DEF CompleteJob, HooksRemember, bounds
<1>3. CASE WorkerExits
  BY <1>3 DEF WorkerExits, TypeOK, HooksRemember, OwnersRespected, HookSparesItsJob, files, script, idler, holder, bounds
<1>4. ASSUME NEW i \in Stoppers, Watch(i) PROVE DrainInv'
  BY <1>4 DEF Watch, WorkerSeen, Leave, Move, TypeOK, Everyone, HooksRemember, OwnersRespected, HookSparesItsJob, files, script, holder, bounds
<1>5. ASSUME NEW i \in Stoppers, GiveUp(i) PROVE DrainInv'
  BY <1>5 DEF GiveUp, Leave, Move, TypeOK, Everyone, HooksRemember, OwnersRespected, HookSparesItsJob, files, script, holder, bounds
<1>6. ASSUME NEW i \in Stoppers, StopIdle(i) PROVE DrainInv'
  <2> DEFINE steps == [stopper EXCEPT ![i] = "unflag"]
  <2>1. steps \in [Stoppers -> {"off", "wait", "stop", "unflag", "record"}] /\ TearDown(steps)
    BY <1>6 DEF StopIdle, TypeOK
  <2>2. /\ worker' = "none"
        /\ stopper' \in [Stoppers -> {"off", "wait", "stop", "unflag", "record"}]
        /\ origin' \in [Stoppers -> 0..MaxJobs]
        /\ carried' \in [Stoppers -> Everyone]
        /\ \A j \in Stoppers : origin'[j] <= jobs
    <3> HIDE DEF steps
    <3> QED BY <2>1, TearDownKeeps
  <2> QED BY <1>6, <2>2 DEF StopIdle, TypeOK, HooksRemember, OwnersRespected, HookSparesItsJob, files, script, holder, bounds
<1>7. ASSUME NEW i \in Stoppers, Unflag(i) PROVE DrainInv'
  BY <1>7 DEF Unflag, Move, TypeOK, HooksRemember, OwnersRespected, HookSparesItsJob, script, holder, bounds
<1>8. ASSUME NEW i \in Stoppers, Record(i) PROVE DrainInv'
  <2>1. TypeOK'
    BY <1>8 DEF Record, Write, Leave, Move, TypeOK, Everyone, holder, bounds
  <2>2. OwnersRespected'
    BY <1>8 DEF Record, Write, TypeOK, OwnersRespected
  <2>3. HooksRemember' /\ HookSparesItsJob'
    BY <1>8 DEF Record, Leave, Move, TypeOK, HooksRemember, HookSparesItsJob, bounds
  <2> QED BY <2>1, <2>2, <2>3
<1> QED BY <1>1, <1>2, <1>3, <1>4, <1>5, <1>6, <1>7, <1>8 DEF Stopper

\* The drain hold.
LEMMA HoldStep ==
    ASSUME DrainInv, HoldDue \/ Reread \/ Reassert
    PROVE  DrainInv'
<1> USE DrainAssumption DEF DrainInv
<1>1. CASE HoldDue
  BY <1>1 DEF HoldDue, TypeOK, HooksRemember, OwnersRespected, HookSparesItsJob, files, script, idler, bounds
<1>2. CASE Reread
  BY <1>2 DEF Reread, HoldOver, TypeOK, Everyone, HooksRemember, OwnersRespected, HookSparesItsJob, files, script, idler, bounds
<1>3. CASE Reassert
  <2>1. /\ pc' \in [Scripts -> {"idle", "probe", "draining", "drained", "flag", "stop", "clear", "start"}]
        /\ who' \in [Scripts -> Everyone]
        /\ overtaken' \subseteq Scripts
        /\ OwnersRespected'
    <3>1. CASE MayTouch(holdBy)
      <4>1. PICK p \in Scripts : Begin(p, "drain", holdBy)
        BY <1>3, <3>1, OneOfThem DEF Reassert, Idle
      <4>2. holdBy \in Everyone /\ UNCHANGED files
        BY <1>3 DEF Reassert, TypeOK
      <4> QED BY <4>1, <4>2, BeginKeeps
    <3>2. CASE ~MayTouch(holdBy)
      BY <1>3, <3>2 DEF Reassert, TypeOK, OwnersRespected, files, script
    <3> QED BY <3>1, <3>2
  <2>2. TypeOK'
    BY <1>3, <2>1 DEF Reassert, HoldOver, TypeOK, Everyone, files, idler, bounds
  <2> QED BY <1>3, <2>1, <2>2 DEF Reassert, HooksRemember, HookSparesItsJob, idler, bounds
<1> QED BY <1>1, <1>2, <1>3

\* health.sh --repair, reboots and crashes.
LEMMA FaultStep ==
    ASSUME DrainInv, FindDown \/ FindOffline \/ Repair \/ Reboot \/ ServiceDies
    PROVE  DrainInv'
<1> USE DrainAssumption DEF DrainInv
<1>1. CASE FindDown
  BY <1>1 DEF FindDown, TypeOK, HooksRemember, OwnersRespected, HookSparesItsJob, files, script, idler, holder, bounds
<1>2. CASE FindOffline
  BY <1>2 DEF FindOffline, TypeOK, HooksRemember, OwnersRespected, HookSparesItsJob, files, script, idler, holder
<1>3. ASSUME TearDown(stopper)
      PROVE  /\ worker' = "none"
             /\ stopper' \in [Stoppers -> {"off", "wait", "stop", "unflag", "record"}]
             /\ origin' \in [Stoppers -> 0..MaxJobs]
             /\ carried' \in [Stoppers -> Everyone]
             /\ \A i \in Stoppers : origin'[i] <= jobs
  BY <1>3, TearDownKeeps DEF TypeOK
<1>4. CASE Repair
  BY <1>3, <1>4 DEF Repair, TypeOK, HooksRemember, OwnersRespected, HookSparesItsJob, files, script, holder, bounds
<1>5. CASE Reboot
  <2>1. Still'
    BY <1>5 DEF Reboot, Still
  <2>2. faults' \in 0..MaxFaults
    BY <1>5 DEF Reboot, TypeOK
  <2>3. StillTypes'
    BY <2>1, StillType, PTL
  <2>4. TypeOK'
    BY <1>5, <2>2, <2>3 DEF Reboot, HoldOver, StillTypes, TypeOK, Everyone, files
  <2>5. HooksRemember'
    BY <1>5, <2>3 DEF Reboot, StillTypes, TypeOK, HooksRemember
  <2>6. OwnersRespected' /\ HookSparesItsJob'
    BY <2>3 DEF StillTypes, OwnersRespected, HookSparesItsJob
  <2> QED BY <2>4, <2>5, <2>6
<1>6. CASE ServiceDies
  <2>1. TearDown(stopper) /\ service' = FALSE /\ UNCHANGED <<files, script, holder, repair, jobs, requests>>
    BY <1>6 DEF ServiceDies, StopService
  <2>2. faults' \in 0..MaxFaults
    BY <1>6 DEF ServiceDies, TypeOK
  <2>3. TypeOK'
    BY <1>3, <2>1, <2>2 DEF TypeOK, files, script, holder
  <2> QED BY <1>3, <2>1, <2>3 DEF HooksRemember, OwnersRespected, HookSparesItsJob, files, script
<1> QED BY <1>1, <1>2, <1>4, <1>5, <1>6

\* Every step keeps DrainInv.
LEMMA DrainStep == DrainInv /\ [Next]_vars => DrainInv'
<1> SUFFICES ASSUME DrainInv, [Next]_vars PROVE DrainInv'
  OBVIOUS
<1>1. Idle \subseteq Scripts /\ Operator \in Everyone /\ Owners \subseteq Everyone
  BY OneOfThem DEF Idle, Everyone
<1>2. CASE Next
  BY <1>1, <1>2, ScriptStep, JobStep, HoldStep, FaultStep DEF Next
<1>3. CASE UNCHANGED vars
  BY <1>3 DEF vars, DrainInv, TypeOK, HooksRemember, OwnersRespected, HookSparesItsJob,
              files, script, idler, holder, bounds
<1> QED BY <1>2, <1>3

\* DrainInv is an invariant of draining.
THEOREM DrainInvariant == Spec => []DrainInv
BY DrainInit, DrainStep, PTL DEF Spec

\* The variables keep their types, and a worker has a service above it.
THEOREM DrainTypeCorrect == Spec => []TypeOK
<1>1. DrainInv => TypeOK
  BY DEF DrainInv
<1> QED BY <1>1, DrainInvariant, PTL

\* An owner's drain or resume that nobody overtakes finds no marker or its own
\* when it acts (drain-runner.sh:92-101).
THEOREM OwnersKept == Spec => []OwnersRespected
<1>1. DrainInv => OwnersRespected
  BY DEF DrainInv
<1> QED BY <1>1, DrainInvariant, PTL

\* The worker whose hook asked for the stop is gone before the service is
\* stopped (drain-stop-when-idle.sh:62-70).
THEOREM JobSpared == Spec => []HookSparesItsJob
<1>1. DrainInv => HookSparesItsJob
  BY DEF DrainInv
<1> QED BY <1>1, DrainInvariant, PTL
=============================================================================
