------------------------------- MODULE NightCap -------------------------------
(***************************************************************************)
(* The night cap (dashboard/lib/night-cap.js, runNightCap of fleetd.js):   *)
(* inside a nightly window at most so many runners of the host are busy.   *)
(* Jobs cannot be refused, so the cap takes every idle runner without a    *)
(* slot offline with drain-runner.sh --by=night-cap, and brings one back   *)
(* for a queued job when a slot is free.                                   *)
(*                                                                         *)
(* A tick looks at the host and at GitHub, awaits, and decides on what it  *)
(* saw; what happens in between comes after the tick here, since the       *)
(* decision reads nothing new.  Its scripts run on a chain, one after the  *)
(* other.  That a drain takes hold is RunnerDrain.  Jobs and runners are   *)
(* related by Fits: a repository and its labels; a job handed over has its *)
(* Runner.Worker at once.                                                  *)
(***************************************************************************)
EXTENDS Naturals, FiniteSets, Sequences, SequencesExt

CONSTANTS
    Capped,         \* this host's runners
    NightJobs,      \* jobs, each of which may be queued again when it is over
    NoJob,
    Fits,           \* Fits[j]: the runners that can take j
    CapSizes,       \* values of FLEET_NIGHT_CAP_MAX_BUSY
    NightModes,     \* values of FLEET_NIGHT_CAP_MODE the settings start with
    MaxScripts,     \* bound: scripts on the chain when a tick decides
    MaxNightEvents  \* bound: a new mode, the host switched, another's drain or resume, a
                    \* job cancelled, a script that fails, a restart

ASSUME NightCapAssumption ==
    /\ IsFiniteSet(Capped) /\ IsFiniteSet(NightJobs) /\ NoJob \notin NightJobs
    /\ Fits \in [NightJobs -> SUBSET Capped]
    /\ CapSizes \subseteq Nat /\ NightModes \subseteq {"off", "observe", "enforce"}
    /\ MaxScripts \in Nat \ {0} /\ MaxNightEvents \in Nat

VARIABLES
    mode, maxBusy,  \* fleet.env
    night,          \* the clock is inside the window of one night
    hostOff,        \* host-drain.sh
    drainBy,        \* drainBy[r]: who wrote the marker
    online,         \* runners whose service runs and is known to GitHub
    job,            \* job[r]: the job GitHub has handed r
    line,           \* queued jobs, the oldest first
    sent,           \* pending: the last action for a runner, until retryMs
    scripts,        \* the cap's part of tiersLocalChain
    nights          \* events so far

nightVars == <<mode, maxBusy, night, hostOff, drainBy, online, job, line, sent,
               scripts, nights>>

Drainers == {"none", "cap", "host", "operator"}
Acts == {"none", "drain", "resume"}
Busy == {r \in Capped : job[r] # NoJob}

NightTypeOK ==
    /\ mode \in {"off", "observe", "enforce"} /\ maxBusy \in CapSizes
    /\ night \in BOOLEAN /\ hostOff \in BOOLEAN
    /\ drainBy \in [Capped -> Drainers] /\ online \subseteq Capped
    /\ Busy \subseteq online
    /\ Range(line) \subseteq NightJobs /\ IsInjective(line)
    /\ \A r \in Busy : job[r] \in NightJobs \ Range(line)
    /\ sent \in [Capped -> Acts]
    /\ \A i \in DOMAIN scripts : scripts[i].runner \in Capped
    /\ nights \in 0..MaxNightEvents

NightInit ==
    /\ mode \in NightModes /\ maxBusy \in CapSizes
    /\ night = TRUE /\ hostOff = FALSE
    /\ drainBy = [r \in Capped |-> "none"] /\ online = Capped
    /\ job = [r \in Capped |-> NoJob] /\ line = <<>>
    /\ sent = [r \in Capped |-> "none"] /\ scripts = <<>> /\ nights = 0

-----------------------------------------------------------------------------
(* decideNightCap *)

Parked(r) == drainBy[r] = "cap"
Taken(r) == drainBy[r] \notin {"none", "cap"}
Capping == mode # "off" /\ night

\* fit, and of those the first of: online and idle; on its way back; parked.
Fitting(j, taken) == {r \in Fits[j] \ (Busy \cup taken) : ~Taken(r)}
RunnersFor(j, taken) ==
    LET fit == Fitting(j, taken)
        ready == {r \in fit : ~Parked(r) /\ r \in online}
        coming == {r \in fit : sent[r] = "resume"} IN
    IF ready # {} THEN ready ELSE IF coming # {} THEN coming ELSE {r \in fit : Parked(r)}

\* Free slots go to the oldest jobs first, one runner each.
FreeSlots == IF maxBusy > Cardinality(Busy) THEN maxBusy - Cardinality(Busy) ELSE 0
GiveSlot(taken, j) ==
    IF Cardinality(taken) < FreeSlots /\ RunnersFor(j, taken) # {}
    THEN taken \cup {CHOOSE r \in RunnersFor(j, taken) : TRUE} ELSE taken
SlottedTo == FoldLeft(LAMBDA taken, j : GiveSlot(taken, j), {}, line)

\* A mutant: a busy runner is left alone though the host is over the cap.
WantedIdleOnly(r) ==
    CASE ~Capping -> IF Parked(r) THEN "resume" ELSE "none"
      [] Capping /\ r \in SlottedTo -> IF Parked(r) THEN "resume" ELSE "none"
      [] Capping /\ r \notin SlottedTo ->
            IF drainBy[r] = "none" /\ r \notin Busy /\ r \in online THEN "drain" ELSE "none"

\* want: a busy runner is drained over the cap only; an offline one takes no job.
Wanted(r) ==
    CASE ~Capping -> IF Parked(r) THEN "resume" ELSE "none"
      [] Capping /\ r \in SlottedTo -> IF Parked(r) THEN "resume" ELSE "none"
      [] Capping /\ r \notin SlottedTo ->
            IF /\ drainBy[r] = "none"
               /\ IF r \in Busy THEN Cardinality(Busy) > maxBusy ELSE r \in online
            THEN "drain" ELSE "none"

\* What has been sent is not sent again before retryMs.
Unsent(r) == Wanted(r) # "none" /\ sent[r] # Wanted(r)
Issuable == IF hostOff THEN {} ELSE {r \in Capped : Unsent(r)}

\* A mutant: switched off, the cap does nothing any more.
AppliedEnforcing == mode = "enforce"

\* applied: "observe" changes nothing, and "off" only what it undoes.
Applied == mode = "enforce" \/ (mode = "off" /\ Issuable # {})

\* A parked runner that is idle and stays so has nothing on its way.
StaysParked(r) == Capping /\ Parked(r) /\ r \notin SlottedTo \cup Busy

-----------------------------------------------------------------------------
\* runNightCap
CapDecides ==
    /\ Len(scripts) < MaxScripts
    /\ LET out == Issuable
           inOrder == SetToSeq(out) IN
       IF Applied
       THEN /\ sent' = [r \in Capped |-> IF r \in out THEN Wanted(r)
                                          ELSE IF StaysParked(r) THEN "none" ELSE sent[r]]
            /\ scripts' = scripts \o
                  [i \in DOMAIN inOrder |-> [runner |-> inOrder[i], act |-> Wanted(inOrder[i])]]
       ELSE UNCHANGED <<sent, scripts>>
    /\ UNCHANGED <<mode, maxBusy, night, hostOff, drainBy, online, job, line, nights>>

\* retryMs is over; the chain has run what was sent before it.
SentExpires(r) ==
    /\ sent[r] # "none" /\ \A i \in DOMAIN scripts : scripts[i].runner # r
    /\ sent' = [sent EXCEPT ![r] = "none"]
    /\ UNCHANGED <<mode, maxBusy, night, hostOff, drainBy, online, job, line,
                   scripts, nights>>

-----------------------------------------------------------------------------
(* drain-runner.sh *)

\* Somebody marks the runners rs: an idle one goes offline, a busy one after its job.
MarkedBy(who, rs) ==
    /\ drainBy' = [r \in Capped |-> IF r \in rs THEN who ELSE drainBy[r]]
    /\ online' = IF who = "none" THEN online ELSE online \ (rs \ Busy)

\* drainLocal: --by=night-cap leaves another's marker alone.
ScriptRuns ==
    /\ scripts # <<>> /\ scripts' = Tail(scripts)
    /\ LET s == Head(scripts) IN
       CASE s.act = "drain" /\ drainBy[s.runner] = "none" -> MarkedBy("cap", {s.runner})
         [] s.act = "resume" /\ drainBy[s.runner] = "cap" -> MarkedBy("none", {s.runner})
         [] OTHER -> UNCHANGED <<drainBy, online>>
    /\ UNCHANGED <<mode, maxBusy, night, hostOff, job, line, sent, nights>>

\* A runner without a marker is online again when its service has come up.
ComesOnline(r) ==
    /\ drainBy[r] = "none" /\ r \notin online
    /\ online' = online \cup {r}
    /\ UNCHANGED <<mode, maxBusy, night, hostOff, drainBy, job, line, sent,
                   scripts, nights>>

-----------------------------------------------------------------------------
(* GitHub, jobs *)

NightJobQueued(j) ==
    /\ j \notin Range(line) /\ \A r \in Capped : job[r] # j
    /\ line' = Append(line, j)
    /\ UNCHANGED <<mode, maxBusy, night, hostOff, drainBy, online, job, sent,
                   scripts, nights>>

\* j is no longer queued.
LeavesLine(j) == \E i \in DOMAIN line : line[i] = j /\ line' = RemoveAt(line, i)

\* GitHub hands a job to any online runner that has none.
JobHanded(j, r) ==
    /\ LeavesLine(j) /\ r \in Fits[j] \cap online /\ job[r] = NoJob
    /\ job' = [job EXCEPT ![r] = j]
    /\ UNCHANGED <<mode, maxBusy, night, hostOff, drainBy, online, sent, scripts,
                   nights>>

\* The completed hook stops a runner that has been marked.
NightJobEnds(r) ==
    /\ r \in Busy /\ job' = [job EXCEPT ![r] = NoJob]
    /\ online' = IF drainBy[r] = "none" THEN online ELSE online \ {r}
    /\ UNCHANGED <<mode, maxBusy, night, hostOff, drainBy, line, sent, scripts, nights>>

-----------------------------------------------------------------------------
(* The window, settings, the host, others *)

NightEvent == nights < MaxNightEvents /\ nights' = nights + 1

WindowEnds ==
    /\ night /\ night' = FALSE
    /\ UNCHANGED <<mode, maxBusy, hostOff, drainBy, online, job, line, sent, scripts, nights>>

ModeTurns(m) ==
    /\ NightEvent /\ m # mode /\ mode' = m
    /\ UNCHANGED <<maxBusy, night, hostOff, drainBy, online, job, line, sent, scripts>>

\* host-drain.sh --off drains what nobody has drained, --on resumes that.
SwitchTurns ==
    /\ NightEvent /\ hostOff' = ~hostOff
    /\ IF hostOff THEN MarkedBy("none", {r \in Capped : drainBy[r] = "host"})
       ELSE MarkedBy("host", {r \in Capped : drainBy[r] = "none"})
    /\ UNCHANGED <<mode, maxBusy, night, job, line, sent, scripts>>

\* drain-runner.sh without --by takes over any marker, and resumes whoever drained.
OperatorMarks(r, who) ==
    /\ NightEvent /\ who # drainBy[r] /\ (who = "none" => ~hostOff) /\ MarkedBy(who, {r})
    /\ UNCHANGED <<mode, maxBusy, night, hostOff, job, line, sent, scripts>>

JobCancelled(j) ==
    /\ NightEvent /\ LeavesLine(j)
    /\ UNCHANGED <<mode, maxBusy, night, hostOff, drainBy, online, job, sent, scripts>>

\* drainLocal: an error is logged.
ScriptFailsHere ==
    /\ NightEvent /\ scripts # <<>> /\ scripts' = Tail(scripts)
    /\ UNCHANGED <<mode, maxBusy, night, hostOff, drainBy, online, job, line, sent>>

\* fleetd starts anew: nightCapState and the chain are in memory.
NightRestart ==
    /\ NightEvent /\ sent' = [r \in Capped |-> "none"] /\ scripts' = <<>>
    /\ UNCHANGED <<mode, maxBusy, night, hostOff, drainBy, online, job, line>>

NightNext ==
    \/ CapDecides \/ ScriptRuns \/ ScriptFailsHere
    \/ \E r \in Capped : \/ SentExpires(r) \/ ComesOnline(r) \/ NightJobEnds(r)
                         \/ \E who \in {"none", "operator"} : OperatorMarks(r, who)
    \/ \E j \in NightJobs : NightJobQueued(j) \/ JobCancelled(j) \/ \E r \in Capped : JobHanded(j, r)
    \/ \E m \in NightModes : ModeTurns(m)
    \/ WindowEnds \/ SwitchTurns \/ NightRestart

NightSpec == NightInit /\ [][NightNext]_nightVars

RetryOver == \E r \in Capped : SentExpires(r)
ComingUp == \E r \in Capped : ComesOnline(r)
JobsGoOn == \E r \in Capped : NightJobEnds(r)

-----------------------------------------------------------------------------
\* "When the window ends, or the cap is switched off, every runner it parked comes
\* back" (night-cap.js 15-17), whatever was still on the chain, was done by others or
\* failed; not in "observe", which does nothing.
ParkedComeBack ==
    <>[]((mode = "off" \/ (mode = "enforce" /\ ~night)) /\ ~hostOff)
        => <>[](\A r \in Capped : drainBy[r] # "cap")

\* A window that opens on a busy host, however soon a runner takes its next job:
\* the host does not stay over the cap.
CapTakesHold ==
    <>[](mode = "enforce" /\ night /\ ~hostOff) => []<>(Cardinality(Busy) <= maxBusy)
=============================================================================
