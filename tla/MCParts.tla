------------------------------ MODULE MCParts ------------------------------
(***************************************************************************)
(* Eight components that share no state, checked in one run: the initial   *)
(* state says which of them moves, and the others stay as they are.        *)
(***************************************************************************)
EXTENDS AdmissionMutex, HostLeases, DecisionShip, Alerts, Scaling, Tiers, TickGuard,
        NightCap, TLC

CONSTANTS h1, h2, r1, r2, pa, pb, sa, ca, cb, j1, j2

VARIABLE part

\* Two repositories on the primary host, the first of them also on the standby.
ProjectOfRunner == [r \in {pa, pb, sa} |-> IF r = pb THEN "B" ELSE "A"]

\* Two runners of the capped host, and a job for each.
FitsOfJob == j1 :> {ca} @@ j2 :> {cb}

\* One repository without a runner, its jobs or a trouble; with one on either host, its
\* jobs and a trouble; two without a runner, while only the coordinator is on.
NoHistory == [r \in Repos |-> 0]
JobsOf(n, m) == r1 :> n @@ r2 :> m
AllRoom == [h \in Hosts |-> "room"]
WithoutRunner ==
    {[hosts |-> AllRoom, fleet |-> {}, jobs |-> JobsOf(2, 0), troubles |-> 0],
     [hosts |-> AllRoom, fleet |-> {}, jobs |-> JobsOf(1, 0), troubles |-> 1]}
WithOne ==
    [hosts : {AllRoom}, fleet : {{[repo |-> r1, host |-> h, n |-> 1]} : h \in Hosts},
     jobs : {JobsOf(2, 0)}, troubles : {1}]
TwoRepos ==
    [hosts : {h1 :> "room" @@ h2 :> "off"}, fleet : {{}},
     jobs : {JobsOf(2, 1)}, troubles : {0}]
AutoscaledWorlds == WithoutRunner \cup WithOne \cup TwoRepos

PartsVars == <<part, vars, leaseVars, shipVars, alertVars, scaleVars, tierVars, guardVars, nightVars>>

Parts == {"mutex", "leases", "ship", "alerts", "scaling", "tiers", "guard", "night"}

\* A component that does not move starts in one state only.
PartsInit ==
    /\ part \in Parts
    /\ Init /\ LeasesInit /\ ShipInit /\ AlertsInit /\ ScalingInit /\ TiersInit
    /\ GuardInit /\ NightInit
    /\ part # "leases" => tool = "audio"
    /\ part # "ship" => reader = "local"
    /\ part # "alerts" => ~shared
    /\ part # "scaling" => troubles = 0 /\ jobs = JobsOf(2, 0)
    /\ part # "tiers" => park /\ ~linked
    /\ part # "guard" => ~isLeader
    /\ part # "night" => mode = "off" /\ maxBusy = 0

OnMutex(A) ==
    part = "mutex" /\ A /\ UNCHANGED <<part, leaseVars, shipVars, alertVars, scaleVars, tierVars, guardVars, nightVars>>
\* In the simulator's script either a worker dies or something else fails.
OnLeases(A) ==
    part = "leases" /\ A /\ (tool = "audio" \/ deaths' + slips' <= 1) /\ UNCHANGED <<part, vars, shipVars, alertVars, scaleVars, tierVars, guardVars, nightVars>>
OnShip(A) ==
    part = "ship" /\ A /\ UNCHANGED <<part, vars, leaseVars, alertVars, scaleVars, tierVars, guardVars, nightVars>>
OnAlerts(A) ==
    part = "alerts" /\ A /\ UNCHANGED <<part, vars, leaseVars, shipVars, scaleVars, tierVars, guardVars, nightVars>>
OnScaling(A) ==
    part = "scaling" /\ A /\ UNCHANGED <<part, vars, leaseVars, shipVars, alertVars, tierVars, guardVars, nightVars>>
OnTiers(A) ==
    part = "tiers" /\ A /\ UNCHANGED <<part, vars, leaseVars, shipVars, alertVars, scaleVars, guardVars, nightVars>>
OnGuard(A) ==
    part = "guard" /\ A /\ UNCHANGED <<part, vars, leaseVars, shipVars, alertVars, scaleVars, tierVars, nightVars>>
OnNight(A) ==
    part = "night" /\ A /\ UNCHANGED <<part, vars, leaseVars, shipVars, alertVars, scaleVars, tierVars, guardVars>>

MutexNext ==
    \/ \E p \in Procs :
        \/ OnMutex(Call(p)) \/ OnMutex(MakeDirectory(p)) \/ OnMutex(FindTaken(p))
        \/ OnMutex(SignPid(p)) \/ OnMutex(ReadHolder(p)) \/ OnMutex(ProbeHolder(p))
        \/ OnMutex(CheckAge(p)) \/ OnMutex(BreakMutex(p)) \/ OnMutex(GiveUp(p))
        \/ OnMutex(LeaveCritical(p)) \/ OnMutex(Unlock(p))
        \/ OnMutex(Exit(p)) \/ OnMutex(Kill(p))
    \/ OnMutex(AgeOut)

LeasesSteps ==
    \/ \E r \in Runners :
        \/ OnLeases(JobArrives(r)) \/ OnLeases(StartLease(r)) \/ OnLeases(StartWithout(r))
        \/ OnLeases(MuteFails(r)) \/ OnLeases(BootDevice(r)) \/ OnLeases(JobEnds(r))
        \/ OnLeases(CompleteLease(r)) \/ OnLeases(WorkerDies(r))
    \/ \E g \in guards :
        OnLeases(GuardLooks(g)) \/ OnLeases(GuardReleases(g)) \/ OnLeases(GuardLost(g))
    \/ OnLeases(UserActs)

ShipSteps ==
    \/ OnShip(AppendLine) \/ OnShip(Rotate) \/ OnShip(FirstStart)
    \/ \E b \in Beats :
        \/ OnShip(ReadLocal(b)) \/ OnShip(SendBeat(b)) \/ OnShip(HandleBeat(b))
        \/ OnShip(Advance(b)) \/ OnShip(GiveUpBeat(b))

AlertsSteps ==
    \/ \E c \in Conditions : OnAlerts(ConditionChanges(c))
    \/ \E p \in Pushes \cup {NoPush} : OnAlerts(RunCompletes(p))
    \/ \E k \in Keys, atLeader \in BOOLEAN :
        OnAlerts(OperatorDismisses(k, atLeader)) \/ OnAlerts(OperatorRestores(k, atLeader))
    \/ OnAlerts(TickEnds) \/ OnAlerts(Evaluate) \/ OnAlerts(RestartAlerts)
    \/ \E k \in Keys : OnAlerts(TimerElapses(k))

ScalingSteps ==
    \/ \E r \in Repos : OnScaling(JobQueued(r)) \/ OnScaling(CooldownEnds(r))
    \/ \E x \in runners :
        OnScaling(JobTaken(x)) \/ OnScaling(JobDone(x)) \/ OnScaling(IdleTtlElapses(x))
    \/ \E h \in Hosts : OnScaling(HostChanges(h)) \/ OnScaling(HostFallsSilent(h))
    \/ \E c \in cmds :
        \/ OnScaling(RunRegister(c)) \/ OnScaling(RunDeregister(c))
        \/ OnScaling(Report(c)) \/ OnScaling(Reset(c))
    \/ OnScaling(TakeSnapshot) \/ OnScaling(SweepUp) \/ OnScaling(SweepDown)
    \/ OnScaling(RestOfBurst) \/ OnScaling(FinishUp) \/ OnScaling(FinishDown) \/ OnScaling(ScriptFails)

TiersSteps ==
    \/ OnTiers(Tick) \/ OnTiers(ChainStep) \/ OnTiers(Heartbeat)
    \/ OnTiers(TiersRestart) \/ OnTiers(LinkTurns)
    \/ \E t \in Timers : OnTiers(TimerRipens(t))
    \/ \E o \in orders : OnTiers(OrderLost(o)) \/ \E r \in Standby : OnTiers(OrderStep(o, r))
    \/ \E r \in Crew :
        \/ OnTiers(AgentReleases(r)) \/ OnTiers(RunTaken(r)) \/ OnTiers(RunEnds(r))
        \/ OnTiers(OperatorDrains(r)) \/ OnTiers(OperatorResumes(r))
    \/ \E p \in Projects : OnTiers(RunQueued(p))
    \/ \E h \in HostNames :
        \/ OnTiers(HostOff(h)) \/ OnTiers(HostOn(h))
        \/ \E to \in {"ok", "blocked", "critical"} : OnTiers(HostTurns(h, to))

GuardSteps ==
    \/ \E t \in Ticks :
        OnGuard(StartTick(t)) \/ OnGuard(AbandonTick(t)) \/ OnGuard(TickSettles(t))
    \/ OnGuard(DeadlinePasses) \/ OnGuard(GrowsOld)
    \/ OnGuard(RoleTurns) \/ OnGuard(DaemonRestarts)

NightSteps ==
    \/ OnNight(CapDecides) \/ OnNight(ScriptRuns) \/ OnNight(ScriptFailsHere)
    \/ \E r \in Capped :
        \/ OnNight(SentExpires(r)) \/ OnNight(ComesOnline(r)) \/ OnNight(NightJobEnds(r))
        \/ \E who \in {"none", "operator"} : OnNight(OperatorMarks(r, who))
    \/ \E j \in NightJobs :
        \/ OnNight(NightJobQueued(j)) \/ OnNight(JobCancelled(j))
        \/ \E r \in Capped : OnNight(JobHanded(j, r))
    \/ \E m \in NightModes : OnNight(ModeTurns(m))
    \/ OnNight(WindowEnds) \/ OnNight(SwitchTurns) \/ OnNight(NightRestart)

PartsNext ==
    \/ MutexNext \/ LeasesSteps \/ ShipSteps \/ AlertsSteps \/ ScalingSteps \/ TiersSteps
    \/ GuardSteps \/ NightSteps

At(p, A) == part = p /\ A

\* The fairness of AdmissionMutex; of the guardians; of the heartbeats and the
\* coordinator's reader; of the ticks and the alerts' timers; of the sweeps, the
\* agents and the handler of their results; of the controller's ticks, its chain,
\* the agents and GitHub, with jobs that end; of the fast loop, but not of its ticks;
\* and of the night cap's ticks, scripts and services, with jobs that end.  A step that
\* disables itself, and the guardians' of MaxJobs jobs, are fair just when they are not
\* enabled for ever (of the scaler's commands there is one at a time).
PartsFairness ==
    /\ \A p \in Procs :
        /\ WF_vars(At("mutex", Lock(p)))
        /\ WF_vars(At("mutex", LeaveCritical(p) \/ Unlock(p)))
    /\ WF_vars(At("mutex", Wreck /\ AgeOut))
    /\ []<>~At("leases", \E g \in guards : \/ g.stage # "watch" \/ lease[g.key] # g.owner
                                           \/ ~WorkerLive(g.key, g.owner))
    /\ []<>~At("ship", offset = NoOffset)
    /\ \A b \in Beats :
        WF_shipVars(At("ship", ReadLocal(b) \/ SendBeat(b) \/ HandleBeat(b) \/ Advance(b)))
    /\ WF_alertVars(At("alerts", TickEnds)) /\ WF_alertVars(At("alerts", Evaluate))
    /\ WF_alertVars(At("alerts", TimePasses))
    /\ \A r \in Repos : []<>~At("scaling", r \in cool)
    /\ []<>~At("scaling", snap # Seen)
    /\ WF_scaleVars(At("scaling", SweepUp \/ RestOfBurst \/ FinishUp \/ FinishDown))
    /\ []<>~At("scaling", \E c \in cmds : c.stage = "queued")
    /\ []<>~At("scaling", \E c \in cmds : c.stage # "queued")
    /\ WF_tierVars(At("tiers", Tick)) /\ WF_tierVars(At("tiers", ChainStep))
    /\ []<>~At("tiers", linked /\ report # StandbyNow) /\ WF_tierVars(At("tiers", TimerSteps))
    /\ WF_tierVars(At("tiers", Commanded)) /\ WF_tierVars(At("tiers", Released))
    /\ WF_tierVars(At("tiers", Jobs)) /\ WF_tierVars(At("tiers", Endings))
    /\ WF_guardVars(At("guard", TickRuns)) /\ WF_guardVars(At("guard", DeadlinePasses))
    /\ WF_guardVars(At("guard", GrowsOld))
    /\ WF_nightVars(At("night", CapDecides)) /\ WF_nightVars(At("night", ScriptRuns))
    /\ WF_nightVars(At("night", RetryOver)) /\ WF_nightVars(At("night", ComingUp))
    /\ WF_nightVars(At("night", JobsGoOn))

PartsSpec == PartsInit /\ [][PartsNext]_PartsVars /\ PartsFairness

\* The type invariant of the eight.
PartsTypeOK ==
    /\ part \in Parts
    /\ part = "mutex" => TypeOK
    /\ part = "leases" => LeasesTypeOK
    /\ part = "ship" => ShipTypeOK
    /\ part = "alerts" => AlertsTypeOK
    /\ part = "scaling" => ScalingTypeOK
    /\ part = "tiers" => TiersTypeOK
    /\ part = "guard" => GuardTypeOK
    /\ part = "night" => NightTypeOK
=============================================================================
