-------------------------------- MODULE Tiers --------------------------------
(***************************************************************************)
(* Standby tiers (dashboard/lib/tiers.js, runTiers of fleetd.js): the      *)
(* coordinator, on the primary host, drains and resumes runners so that    *)
(* the standby host takes jobs only when the primary cannot.  It drains    *)
(* its own runners with a script, one after the other; the standby host's  *)
(* agent gets a command (runTiersCommand of agent.js), and resumes what    *)
(* tiers drained when it does not hear from the coordinator                *)
(* (lib/agent-autonomy.js).                                                *)
(*                                                                         *)
(* Of a runner there is its drain marker, that is who drained it, and      *)
(* whether it has a job: that a drain takes hold is RunnerDrain.  Labels   *)
(* are the repository's; there is one lane.  How long a wait is does not   *)
(* appear: one that has begun is over at some time.                        *)
(***************************************************************************)
EXTENDS Naturals, FiniteSets, SequencesExt

CONSTANTS
    Primary, Standby,   \* the runners of the two hosts
    Projects,           \* repositories
    ProjectOf,          \* the repository of a runner
    FloorProjects,      \* floorRepos
    PinnedProjects,     \* primaryOnlyRepos
    LaneCap,            \* caps.build
    ParkModes,          \* subset of BOOLEAN: park
    MaxEvents           \* bound: jobs queued, hosts that change, drains by others, restarts,
                        \* commands lost

ASSUME TiersAssumption ==
    /\ IsFiniteSet(Primary) /\ IsFiniteSet(Standby) /\ Primary \cap Standby = {}
    /\ ProjectOf \in [Primary \cup Standby -> Projects]
    /\ LaneCap \in Nat \ {0} /\ ParkModes \subseteq BOOLEAN
    /\ MaxEvents \in Nat

VARIABLES
    park,       \* the setting
    marker,     \* marker[r]: who drained r
    working,    \* runners with a job
    waiting,    \* waiting[p]: queued jobs
    place,      \* place[h]: how the host is
    linked,     \* the standby's heartbeats arrive
    report,     \* the standby as of its last heartbeat
    ctl,        \* tiersState: what a step leaves to the next
    ripe,       \* timers that have run long enough
    chain,      \* tiersLocalChain: the coordinator's own scripts, in order
    orders,     \* commands for the standby
    events

tierVars == <<park, marker, working, waiting, place, linked, report, ctl, ripe, chain,
              orders, events>>

Crew == Primary \cup Standby
HostNames == {"primary", "standby"}
HostOf(r) == IF r \in Primary THEN "primary" ELSE "standby"
Timers == {"cap", "free", "hold", "quiet"} \cup HostNames \cup Projects

\* tiersState = null; the first step makes the rest of it.
NoState == [overflow |-> "unknown", atCap |-> FALSE, shed |-> FALSE,
            admit |-> [h \in HostNames |-> FALSE], clear |-> {}, quiet |-> FALSE]

TiersTypeOK ==
    /\ marker \in [Crew -> {"none", "tiers", "host", "operator"}]
    /\ working \subseteq Crew /\ waiting \in [Projects -> 0..MaxEvents]
    /\ place \in [HostNames -> {"ok", "off", "blocked", "critical"}]
    /\ ctl.overflow \in {"unknown", "active", "standby"}
    /\ ctl.clear \subseteq {h \in HostNames : ctl.admit[h]}
    /\ ripe \subseteq Timers
    /\ \A i \in DOMAIN chain : chain[i].runner \in Primary
    /\ \A o \in orders : o.names \subseteq Standby /\ o.names # {}
    /\ events \in 0..MaxEvents

StandbyNow == [place |-> place["standby"], marker |-> [r \in Standby |-> marker[r]]]

TiersInit ==
    /\ park \in ParkModes
    /\ marker = [r \in Crew |-> "none"] /\ working = {}
    /\ waiting = [p \in Projects |-> 0]
    /\ place = [h \in HostNames |-> "ok"] /\ linked \in BOOLEAN
    /\ report = StandbyNow
    /\ ctl = NoState /\ ripe = {}
    /\ chain = <<>> /\ orders = {} /\ events = 0

-----------------------------------------------------------------------------
(* What a step of the controller sees *)

Mark(r) == IF r \in Primary THEN marker[r] ELSE report.marker[r]
Own(r) == Mark(r) = "tiers"
Foreign(r) == Mark(r) \in {"host", "operator"}
Up(r) == Mark(r) = "none"
Working(r) == r \in working
PlaceOf(h) == IF h = "primary" THEN place[h] ELSE report.place
Same(r, q) == ProjectOf[r] = ProjectOf[q]

FloorRunners == {r \in Standby : ProjectOf[r] \in FloorProjects}

\* A standby runner that no runner outside the overflow tier can stand in for.
SoleRunners ==
    {r \in Standby \ FloorRunners :
        ~\E o \in Primary \cup FloorRunners : Same(o, r) /\ ~Foreign(o)}
Overflow == Standby \ (FloorRunners \cup SoleRunners)

\* admit: on at once, off when it has been clear long enough.
Clear(h) == PlaceOf(h) # "blocked"

\* Two mutants: a host that cannot admit keeps its runners; it never admits again.
AdmitsAlways(h) == FALSE
AdmitsNever(h) == ~Clear(h) \/ ctl.admit[h]

CannotAdmit(h) == ~Clear(h) \/ (ctl.admit[h] /\ ~(h \in ctl.clear /\ h \in ripe))

AtCap == Cardinality(working \cap Primary) >= LaneCap
CapLong == AtCap /\ ctl.atCap /\ "cap" \in ripe
FreeLong == ~AtCap /\ ~ctl.atCap /\ "free" \in ripe

\* At the start a lane of which runners are drained is shedding.
WasShedding == IF ctl.overflow = "unknown" THEN \E r \in Primary : Own(r) ELSE ctl.shed

Shedding ==
    IF WasShedding THEN ~(FreeLong /\ "hold" \in ripe) ELSE CapLong /\ "hold" \in ripe

Usable == linked /\ PlaceOf("standby") \notin {"off", "critical"} /\ ~CannotAdmit("standby")

Queued == {p \in Projects : waiting[p] > 0}
TierQueue == {p \in Queued : \E r \in Primary \cup Overflow : ProjectOf[r] = p}
IdlePrimaryFor(p) == \E r \in Primary : ProjectOf[r] = p /\ Up(r) /\ ~Working(r)
Stuck == {p \in TierQueue : /\ p \in ripe /\ ~IdlePrimaryFor(p)
                            /\ \E r \in Overflow : ProjectOf[r] = p}

\* wake: an overflow runner for a run that no other runner will take soon.
TakesSoon(p) == \E o \in Crew \ Overflow : ProjectOf[o] = p /\ ~Foreign(o)
Fit(p) == {r \in Overflow : ProjectOf[r] = p /\ ~Foreign(r) /\ Usable}
BestFit(p) ==
    LET ready == {r \in Fit(p) : Up(r) /\ ~Working(r)} IN
    IF ready # {} THEN ready
    ELSE IF \E r \in Fit(p) : Own(r) THEN {r \in Fit(p) : Own(r)} ELSE Fit(p)

Triggered ==
    \/ PlaceOf("primary") \in {"off", "critical"} \/ CannotAdmit("primary")
    \/ CapLong \/ Stuck # {}

Quiet == ~AtCap /\ TierQueue = {} /\ ~Triggered
QuietLong == Quiet /\ ctl.quiet /\ "quiet" \in ripe

WasOverflow ==
    IF ctl.overflow # "unknown" THEN ctl.overflow
    ELSE IF \E r \in Overflow : Mark(r) = "none" THEN "active" ELSE "standby"
OverflowNow ==
    IF Triggered /\ Usable THEN "active"
    ELSE IF ~Triggered /\ QuietLong THEN "standby" ELSE WasOverflow

-----------------------------------------------------------------------------
(* What it wants, given the runners woken and the parked ones with a slot *)

\* pending: what was sent is not sent again until it has been done and reported,
\* which retryMs leaves time for.
Underway(r, action) ==
    \/ \E i \in DOMAIN chain : chain[i].runner = r /\ chain[i].action = action
    \/ \E o \in orders : r \in o.names /\ o.action = action
    \/ Mark(r) # marker[r] /\ marker[r] = (IF action = "drain" THEN "tiers" ELSE "none")

\* Floor and sole runners stay online, except where a hook would hold the job.
WantOfKept(r) ==
    IF Foreign(r) THEN "none"
    ELSE IF CannotAdmit("standby") THEN "drain"
    ELSE IF Own(r) THEN "resume" ELSE "none"

\* A mutant: a twin covers for a runner that is online, too.
CoveringAny(r) == ~CannotAdmit("standby") /\ \E p \in Primary : Same(p, r)

\* A drained primary runner relies on r.
Covering(r) == ~CannotAdmit("standby") /\ \E p \in Primary : Own(p) /\ Same(p, r)

WantOfOverflow(r, woken) ==
    LET online == /\ OverflowNow = "active" \/ r \in woken
                  /\ PlaceOf("standby") # "critical" /\ ~CannotAdmit("standby") IN
    IF Foreign(r) THEN "none"
    ELSE IF online THEN IF Own(r) THEN "resume" ELSE "none"
    ELSE IF Up(r) /\ ~Covering(r) THEN "drain" ELSE "none"

WantOfStandby(r, woken) == IF r \in Overflow THEN WantOfOverflow(r, woken) ELSE WantOfKept(r)

\* twinFor, twinOf.  kept is what is wanted of the standby runners.
HasTwin(p, kept) ==
    /\ Usable /\ ~(park /\ ProjectOf[p] \in PinnedProjects)
    /\ \E r \in Standby : Same(r, p) /\ Up(r) /\ kept[r] # "drain"

\* The metered release: free slots go to queued runs that parked runners serve.
Slots == IF ~park \/ CannotAdmit("primary") THEN 0
         ELSE Max({0, LaneCap - Cardinality(working \cap Primary)})
Parkable(p, kept) ==
    {r \in Primary : ProjectOf[r] = p /\ ~Foreign(r) /\ ~Working(r) /\ ~HasTwin(r, kept)}
BestParked(p, kept) ==
    LET all == Parkable(p, kept)
        up == {r \in all : Up(r)}
        coming == {r \in all : Underway(r, "resume")} IN
    IF up # {} THEN up ELSE IF coming # {} THEN coming ELSE all
SlotsGiven(kept) ==
    LET served == {p \in Queued : Parkable(p, kept) # {}}
        chosen == {s \in SUBSET served : Cardinality(s) = Min({Slots, Cardinality(served)})} IN
    {{CHOOSE r \in BestParked(p, kept) : TRUE : p \in s} : s \in chosen}

WantOfPrimary(p, kept, slotted) ==
    LET pinned == ~park /\ ProjectOf[p] \in PinnedProjects
        twin == HasTwin(p, kept) IN
    IF Foreign(p) THEN "none"
    ELSE IF Own(p) THEN
        IF \/ pinned \/ (~park /\ ~twin)
           \/ ~(CannotAdmit("primary") \/ Shedding)
           \/ ~twin /\ p \in slotted
        THEN "resume" ELSE "none"
    ELSE IF /\ ~pinned /\ (twin \/ park)
            /\ \/ CannotAdmit("primary")
               \/ Shedding /\ AtCap /\ ~Working(p)
         THEN "drain" ELSE "none"

\* want: of every runner, one way for each choice among runs of one age.
Wants ==
    LET wakes == {p \in Queued : ~TakesSoon(p) /\ Fit(p) # {}}
        woken == {CHOOSE r \in BestFit(p) : TRUE : p \in wakes} IN
    UNION {{[r \in Crew |-> IF r \in Standby THEN kept[r] ELSE WantOfPrimary(r, kept, slotted)] :
                slotted \in SlotsGiven(kept)} :
             kept \in {[r \in Standby |-> WantOfStandby(r, woken)]}}

\* The filter at the end: done, on its way, or not to be sent.
Done(r, action) == IF action = "drain" THEN Own(r) ELSE Up(r)

\* A mutant: commands are queued for a host that is off.
IssuedAnywhere(want) ==
    {r \in Crew : /\ want[r] # "none" /\ ~Done(r, want[r]) /\ ~Underway(r, want[r])
                  /\ (r \in Standby => linked)}

Issued(want) ==
    {r \in Crew : /\ want[r] # "none" /\ ~Done(r, want[r]) /\ ~Underway(r, want[r])
                  /\ PlaceOf(HostOf(r)) # "off" /\ (r \in Standby => linked)}

-----------------------------------------------------------------------------
\* The timers that something waits for.
TimerRuns(t) ==
    \/ t = "cap" /\ ctl.atCap /\ ~(ctl.shed /\ ctl.overflow = "active")
    \/ t = "free" /\ ctl.shed /\ ~ctl.atCap
    \/ t = "hold" /\ ctl.shed # ctl.atCap
    \/ t = "quiet" /\ ctl.quiet /\ ctl.overflow = "active"
    \/ t \in ctl.clear
    \/ t \in Queued /\ ctl.overflow # "active"

\* decideTiers and runTiers: one fast tick.
Decide(want, out) ==
    LET names(a) == {r \in out \cap Standby : want[r] = a}
        actions == {want[r] : r \in out \cap Standby} IN
    /\ ctl' = [overflow |-> OverflowNow, atCap |-> AtCap, shed |-> Shedding,
               admit |-> [h \in HostNames |-> CannotAdmit(h)],
               clear |-> {h \in HostNames : CannotAdmit(h) /\ Clear(h)}, quiet |-> Quiet]
    /\ \E s \in [1..Cardinality(out \cap Primary) -> out \cap Primary] :
        /\ IsInjective(s)
        /\ chain' = chain \o [i \in DOMAIN s |->
                        [runner |-> s[i], action |-> want[s[i]], late |-> FALSE]]
    /\ orders' = orders \cup {[action |-> a, names |-> names(a),
                                late |-> place["standby"] = "off"] : a \in actions}
    /\ ripe' = {t \in ripe : TimerRuns(t)'}

Tick ==
    /\ UNCHANGED <<park, marker, working, waiting, place, linked, report, events>>
    /\ \E want \in Wants : \E out \in {Issued(want)} : Decide(want, out)

TimerRipens(t) ==
    /\ TimerRuns(t) /\ t \notin ripe
    /\ ripe' = ripe \cup {t}
    /\ UNCHANGED <<park, marker, working, waiting, place, linked, report, ctl, chain, orders, events>>

-----------------------------------------------------------------------------
(* drain-runner.sh --by=tiers, which leaves another's marker alone *)

Marked(r, action) ==
    marker' = [marker EXCEPT ![r] = IF @ = "none" /\ action = "drain" THEN "tiers"
                                    ELSE IF @ = "tiers" /\ action = "resume" THEN "none" ELSE @]

\* tiersLocalChain
ChainStep ==
    /\ chain # <<>> /\ chain' = Tail(chain)
    /\ Marked(Head(chain).runner, Head(chain).action)
    /\ UNCHANGED <<park, working, waiting, place, linked, report, ctl, ripe, orders, events>>

\* runTiersCommand: the named runners one after the other.
OrderStep(o, r) ==
    /\ linked /\ r \in o.names /\ Marked(r, o.action)
    /\ orders' = (orders \ {o}) \cup
                    (IF o.names = {r} THEN {} ELSE {[o EXCEPT !.names = @ \ {r}]})
    /\ UNCHANGED <<park, working, waiting, place, linked, report, ctl, ripe, chain, events>>

Heartbeat ==
    /\ linked /\ report # StandbyNow /\ report' = StandbyNow
    /\ UNCHANGED <<park, marker, working, waiting, place, linked, ctl, ripe, chain, orders, events>>

\* A mutant: the agent does not look whether the host is off.
AgentReleasesAnyway(r) ==
    /\ ~linked /\ r \in Standby /\ marker[r] = "tiers"
    /\ Marked(r, "resume")
    /\ UNCHANGED <<park, working, waiting, place, linked, report, ctl, ripe, chain, orders, events>>

\* autonomyStep, applyAutonomy.
AgentReleases(r) ==
    /\ ~linked /\ r \in Standby /\ marker[r] = "tiers" /\ place["standby"] # "off"
    /\ Marked(r, "resume")
    /\ UNCHANGED <<park, working, waiting, place, linked, report, ctl, ripe, chain, orders, events>>

-----------------------------------------------------------------------------
(* Jobs, hosts and operators *)

Happens == events < MaxEvents /\ events' = events + 1

RunQueued(p) ==
    /\ Happens
    /\ waiting' = [waiting EXCEPT ![p] = @ + 1]
    /\ UNCHANGED <<park, marker, working, place, linked, report, ctl, ripe, chain, orders>>

\* GitHub hands a job to any runner that is online.
RunTaken(r) ==
    LET p == ProjectOf[r] IN
    /\ marker[r] = "none" /\ r \notin working /\ waiting[p] > 0
    /\ working' = working \cup {r}
    /\ waiting' = [waiting EXCEPT ![p] = @ - 1]
    /\ ripe' = IF waiting[p] = 1 THEN ripe \ {p} ELSE ripe
    /\ UNCHANGED <<park, marker, place, linked, report, ctl, chain, orders, events>>

\* On a host that cannot admit the hook holds the job.
RunEnds(r) ==
    /\ r \in working /\ place[HostOf(r)] # "blocked"
    /\ working' = working \ {r}
    /\ UNCHANGED <<park, marker, waiting, place, linked, report, ctl, ripe, chain, orders, events>>

Late(h) ==
    /\ chain' = [i \in DOMAIN chain |-> [chain[i] EXCEPT !.late = @ \/ h = "primary"]]
    /\ orders' = {[o EXCEPT !.late = @ \/ h = "standby"] : o \in orders}

\* host-drain.sh --off drains what nobody has drained, --on resumes that.
HostOff(h) ==
    /\ Happens /\ place[h] # "off"
    /\ place' = [place EXCEPT ![h] = "off"]
    /\ marker' = [r \in Crew |-> IF HostOf(r) = h /\ marker[r] = "none" THEN "host" ELSE marker[r]]
    /\ Late(h)
    /\ UNCHANGED <<park, working, waiting, linked, report, ctl, ripe>>

HostOn(h) ==
    /\ place[h] = "off" /\ place' = [place EXCEPT ![h] = "ok"]
    /\ marker' = [r \in Crew |-> IF HostOf(r) = h /\ marker[r] = "host" THEN "none" ELSE marker[r]]
    /\ UNCHANGED <<park, working, waiting, linked, report, ctl, ripe, chain, orders, events>>

HostTurns(h, to) ==
    /\ place[h] \notin {"off", to} /\ to # "off"
    /\ IF to = "ok" THEN UNCHANGED events ELSE Happens
    /\ place' = [place EXCEPT ![h] = to]
    /\ UNCHANGED <<park, marker, working, waiting, linked, report, ctl, ripe, chain, orders>>

LinkTurns ==
    /\ IF linked THEN Happens ELSE UNCHANGED events
    /\ linked' = ~linked
    /\ UNCHANGED <<park, marker, working, waiting, place, report, ctl, ripe, chain, orders>>

OperatorDrains(r) ==
    /\ Happens /\ marker[r] # "operator"
    /\ marker' = [marker EXCEPT ![r] = "operator"]
    /\ UNCHANGED <<park, working, waiting, place, linked, report, ctl, ripe, chain, orders>>

OperatorResumes(r) ==
    /\ marker[r] = "operator" /\ place[HostOf(r)] # "off"
    /\ marker' = [marker EXCEPT ![r] = "none"]
    /\ UNCHANGED <<park, working, waiting, place, linked, report, ctl, ripe, chain, orders, events>>

\* The controller starts anew; what its chain still had to do is forgotten.
TiersRestart ==
    /\ Happens
    /\ ctl' = NoState /\ ripe' = ripe \cap Projects /\ chain' = <<>>
    /\ UNCHANGED <<park, marker, working, waiting, place, linked, report, orders>>

\* A command fails or is given up (HostCommands).
OrderLost(o) ==
    /\ Happens /\ orders' = orders \ {o}
    /\ UNCHANGED <<park, marker, working, waiting, place, linked, report, ctl, ripe, chain>>

TiersNext ==
    \/ Tick \/ ChainStep \/ Heartbeat \/ TiersRestart \/ LinkTurns
    \/ \E t \in Timers : TimerRipens(t)
    \/ \E o \in orders : OrderLost(o) \/ \E r \in Standby : OrderStep(o, r)
    \/ \E r \in Crew : \/ AgentReleases(r) \/ RunTaken(r) \/ RunEnds(r)
                       \/ OperatorDrains(r) \/ OperatorResumes(r)
    \/ \E p \in Projects : RunQueued(p)
    \/ \E h \in HostNames : \/ HostOff(h) \/ HostOn(h)
                            \/ \E to \in {"ok", "blocked", "critical"} : HostTurns(h, to)

TiersSpec == TiersInit /\ [][TiersNext]_tierVars

TimerSteps == \E t \in Timers : TimerRipens(t)
Commanded == \E o \in orders, r \in Standby : OrderStep(o, r)
Released == \E r \in Standby : AgentReleases(r)
Jobs == \E r \in Crew : RunTaken(r)
Endings == \E r \in Crew : RunEnds(r)

-----------------------------------------------------------------------------
\* "A host that is switched off takes no jobs, whoever drained its runners"
\* (agent-autonomy.js 36): while a host stays off none of its runners comes back,
\* but for what was on its way when it was switched off.
OffHostStaysDrained ==
    [][\A r \in Crew :
        place[HostOf(r)] = "off" /\ place'[HostOf(r)] = "off" /\ marker[r] # "none" =>
            \/ marker'[r] # "none"
            \/ \E o \in orders : o.late /\ r \in o.names
            \/ chain # <<>> /\ Head(chain).late]_tierVars

\* The host cannot start a job, or somebody else than the controller has drained r.
Useless(r) ==
    \/ marker[r] \in {"host", "operator"}
    \/ place[HostOf(r)] # "ok" /\ (r \in Primary => place["primary"] # "critical")

\* However the two hosts' runners are drained in turn, a queued job does not wait
\* for ever while some runner of its repository could be online.
QueuedRunsAreTaken ==
    \A p \in Projects :
        []<>(waiting[p] = 0 \/ \A r \in Crew : ProjectOf[r] = p => Useless(r))

\* A host that goes on being unable to admit gets no runner online at all, floor
\* and sole runners included; only its own agent, cut off, brings them back.  Without
\* parking the primary keeps a runner that has no twin.
BlockedHostEmpties ==
    \A h \in HostNames :
        <>[](place[h] = "blocked" /\ linked /\ (park \/ h = "standby"))
            => <>[](\A r \in Crew : HostOf(r) = h => marker[r] # "none")

\* When there is nothing to do and nobody interferes, the overflow tier ends up
\* drained and every other runner online, whichever twins covered for one another.
FleetSettles ==
    <>[](/\ \A p \in Projects : waiting[p] = 0
         /\ working = {} /\ linked /\ \A h \in HostNames : place[h] = "ok"
         /\ \A r \in Crew : marker[r] \notin {"host", "operator"})
        => <>[](\A r \in Crew : marker[r] = IF r \in Overflow THEN "tiers" ELSE "none")
=============================================================================
