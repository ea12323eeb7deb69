------------------------------- MODULE Alerts -------------------------------
(***************************************************************************)
(* The coordinator's alerts (dashboard/lib/alerts.js, and the part of      *)
(* fleetd.js that runs them): findings open and close rows, runners that   *)
(* are offline together are one alert of the host, and an operator may     *)
(* dismiss what is open.                                                   *)
(*                                                                         *)
(* A key of an offline alert is the runner; Disk stands for the rules that *)
(* must hold for a while (sustained), Pushes for those that are found at   *)
(* once and are dismissed by their scope: a failing workflow has a new key *)
(* with every push.  How long a window is does not appear: a timer that    *)
(* runs elapses at some time.                                              *)
(***************************************************************************)
EXTENDS Naturals, FiniteSets, Sequences, SequencesExt

CONSTANTS
    Hosted,         \* runners that can be offline
    Host, Disk,     \* the keys host:offline and host:disk
    Pushes,         \* the keys of one workflow's failures, one per push
    NoPush,         \* no key: the workflow's last run is green
    Threshold,      \* offlineHostThreshold
    SharedModes,    \* subset of BOOLEAN: with a shared database or without
    MaxFlips,       \* bound: changes of the conditions
    MaxWaves,       \* bound: an operator dismisses or restores
    MaxRestarts,    \* bound: restarts of the coordinator
    MaxSnapshots    \* bound: snapshots that wait for their turn

ASSUME AlertsAssumption ==
    /\ IsFiniteSet(Hosted) /\ Threshold \in Nat
    /\ Host # Disk /\ {Host, Disk} \cap (Hosted \cup Pushes) = {} /\ Hosted \cap Pushes = {}
    /\ NoPush \notin Pushes
    /\ SharedModes \subseteq BOOLEAN
    /\ MaxFlips \in Nat /\ MaxWaves \in Nat /\ MaxRestarts \in Nat /\ MaxSnapshots \in Nat

VARIABLES
    shared,     \* whether dismissals are kept as intents in PostgreSQL as well
    cond,       \* what is wrong right now with the hosts
    ci,         \* the workflow's runs: the last red one, and whether the one before was green
    snapshots,  \* alertRun: snapshots taken and not evaluated yet
    open,       \* keys of the rows without closed_at, reloaded at a start
    pending,    \* conditions whose window has begun; in memory
    clearing,   \* debounced alerts whose condition is gone; in memory
    elapsed,    \* keys whose window or debounce is over
    dismissed,  \* scopes in the table of dismissals
    intents,    \* intents[k]: the shared intent dismissal.<k>
    quiet,      \* history: scopes dismissed by hand whose condition has lasted since
    flips, waves, restarts

alertVars == <<shared, cond, ci, snapshots, open, pending, clearing, elapsed, dismissed, intents,
               quiet, flips, waves, restarts>>

Keys == Hosted \cup Pushes \cup {Host, Disk}
Conditions == Hosted \cup {Disk}

Green == [last |-> NoPush, edge |-> TRUE]

\* alertScope: every push of a workflow has the workflow's scope.
AlertScope(k) == IF k \in Pushes THEN Pushes ELSE {k}
Scopes == {AlertScope(k) : k \in Keys}

AlertsTypeOK ==
    /\ shared \in BOOLEAN
    /\ cond \subseteq Conditions /\ ci \in [last : Pushes \cup {NoPush}, edge : BOOLEAN]
    /\ \A i \in DOMAIN snapshots : snapshots[i] \subseteq Conditions
    /\ open \subseteq Keys /\ pending \subseteq Hosted \cup {Disk}
    /\ clearing \subseteq open /\ elapsed \subseteq pending \cup clearing
    /\ dismissed \subseteq Scopes /\ quiet \subseteq Scopes
    /\ intents \in [Keys -> {"none", "dismiss", "restore"}]
    /\ flips \in 0..MaxFlips /\ waves \in 0..MaxWaves /\ restarts \in 0..MaxRestarts

AlertsInit ==
    /\ shared \in SharedModes
    /\ cond = {} /\ ci = Green /\ snapshots = <<>> /\ open = {} /\ pending = {} /\ clearing = {} /\ elapsed = {}
    /\ dismissed = {} /\ intents = [k \in Keys |-> "none"] /\ quiet = {}
    /\ flips = 0 /\ waves = 0 /\ restarts = 0

-----------------------------------------------------------------------------
\* offlineFindings: so many at once are the host's, and while the host's alert is
\* open, debounce included, every runner is folded into it.
HostWide(s) == Cardinality(s \cap Hosted) >= Threshold

\* A mutant: only the count folds.
FoldedByCount(s) == HostWide(s)

Folded(s) == HostWide(s) \/ Host \in open

\* The condition of a scope holds in s.
Wrong(scope, s) ==
    IF scope = Pushes THEN ci.last # NoPush
    ELSE scope \cap (s \cup (IF HostWide(s) THEN {Host} ELSE {})) # {}

\* A runner goes offline or comes back, the disk fills or is freed.
ConditionChanges(c) ==
    /\ flips < MaxFlips /\ flips' = flips + 1
    /\ cond' = IF c \in cond THEN cond \ {c} ELSE cond \cup {c}
    /\ quiet' = {scope \in quiet : Wrong(scope, cond')}
    /\ UNCHANGED <<shared, ci, snapshots, open, pending, clearing, elapsed, dismissed, intents,
                   waves, restarts>>

\* The workflow fails on another push, or passes.
RunCompletes(p) ==
    /\ flips < MaxFlips /\ flips' = flips + 1
    /\ ci' = IF p = NoPush THEN Green ELSE [last |-> p, edge |-> ci.last = NoPush]
    /\ p # ci.last /\ p \notin open
    /\ quiet' = IF p = NoPush THEN quiet \ {Pushes} ELSE quiet
    /\ UNCHANGED <<shared, cond, snapshots, open, pending, clearing, elapsed, dismissed, intents,
                   waves, restarts>>

\* DEBOUNCED_RULES
Debounced == Hosted \cup {Host}

\* dismiss and restore, of an open alert only.
DismissedAfter(k) == IF k \in open THEN dismissed \cup {AlertScope(k)} ELSE dismissed
RestoredAfter(k) == IF k \in open THEN dismissed \ {AlertScope(k)} ELSE dismissed

\* POST /api/alerts/dismiss and /restore at the leader, or, with a shared
\* database, at another replica, which only leaves the intent.
OperatorDismisses(k, atLeader) ==
    /\ waves < MaxWaves /\ waves' = waves + 1
    /\ k \in open /\ (shared \/ atLeader)
    /\ intents' = IF shared THEN [intents EXCEPT ![k] = "dismiss"] ELSE intents
    /\ dismissed' = IF atLeader THEN DismissedAfter(k) ELSE dismissed
    /\ quiet' = IF atLeader /\ \A s \in {cond} \cup Range(snapshots) : Wrong(AlertScope(k), s)
                THEN quiet \cup {AlertScope(k)} ELSE quiet
    /\ UNCHANGED <<shared, cond, ci, snapshots, open, pending, clearing, elapsed, flips, restarts>>

OperatorRestores(k, atLeader) ==
    /\ waves < MaxWaves /\ waves' = waves + 1
    /\ k \in open /\ (shared \/ atLeader)
    /\ intents' = IF shared THEN [intents EXCEPT ![k] = "restore"] ELSE intents
    /\ dismissed' = IF atLeader THEN RestoredAfter(k) ELSE dismissed
    /\ quiet' = quiet \ {AlertScope(k)}
    /\ UNCHANGED <<shared, cond, ci, snapshots, open, pending, clearing, elapsed, flips, restarts>>

\* The end of a tick of the leader: the shared intents are carried out again, all
\* of them, and the snapshot waits for the runs before it.
TickEnds ==
    /\ Len(snapshots) < MaxSnapshots
    /\ snapshots' = Append(snapshots, cond)
    /\ LET wanted(i) == {AlertScope(k) : k \in {j \in open : intents[j] = i}} IN
       /\ dismissed' = (dismissed \cup wanted("dismiss")) \ wanted("restore")
       /\ quiet' = quiet \ wanted("restore")
    /\ UNCHANGED <<shared, cond, ci, open, pending, clearing, elapsed, intents, flips, waves, restarts>>

\* newlyFailing, from the table of runs and not from the snapshot: the last run is
\* red and the one before it was green.
NewlyFailing == IF ci.edge THEN {ci.last} \ {NoPush} ELSE {}

\* evaluate: what a snapshot finds, given the windows that have elapsed.
Found(s) ==
    NewlyFailing \cup (s \cap {Disk} \cap pending \cap elapsed)
    \cup (IF HostWide(s) THEN {Host} ELSE {})
    \cup (IF Folded(s) THEN {} ELSE {r \in s \cap Hosted : r \in (pending \cap elapsed) \cup open})

Superseded(s) == IF Folded(s) THEN open \cap Hosted ELSE {}

\* A mutant: the debounce never ends.
HeldForGood(s) == {k \in (open \ Found(s)) \cap Debounced : k \notin Superseded(s)}

\* reconcile: a debounced alert whose condition is gone is held for its debounce.
Held(s) ==
    {k \in (open \ Found(s)) \cap Debounced :
        k \notin Superseded(s) \cup (clearing \cap elapsed)}

\* evaluate, reconcile and forgetClearedDismissals, for the oldest snapshot.
Evaluate ==
    /\ snapshots # <<>>
    /\ LET s == Head(snapshots)
           waiting == (s \cap {Disk}) \cup ((IF Folded(s) THEN pending ELSE s) \cap Hosted) IN
       /\ open' = Found(s) \cup Held(s)
       /\ clearing' = Held(s)
       /\ pending' = waiting
       /\ elapsed' = elapsed \cap ((pending \cap waiting) \cup (clearing \cap Held(s)))
       /\ dismissed' = dismissed \cap {AlertScope(k) : k \in open'}
       /\ quiet' = quiet \ {AlertScope(k) : k \in Superseded(s)}
    /\ snapshots' = Tail(snapshots)
    /\ UNCHANGED <<shared, cond, ci, intents, flips, waves, restarts>>

\* now - since has reached the window (sustained, offlineSettleMs) or the
\* debounce (offlineDebounceMs).
TimerElapses(k) ==
    /\ k \in (pending \cup clearing) \ elapsed
    /\ elapsed' = elapsed \cup {k}
    /\ UNCHANGED <<shared, cond, ci, snapshots, open, pending, clearing, dismissed, intents,
                   quiet, flips, waves, restarts>>

\* A mutant: the open rows are not reloaded.
RestartEmpty ==
    /\ restarts < MaxRestarts /\ restarts' = restarts + 1
    /\ snapshots' = <<>> /\ pending' = {} /\ clearing' = {} /\ elapsed' = {}
    /\ open' = {}
    /\ UNCHANGED <<shared, cond, ci, dismissed, intents, quiet, flips, waves>>

\* The timers are lost, the open rows are reloaded.
RestartAlerts ==
    /\ restarts < MaxRestarts /\ restarts' = restarts + 1
    /\ snapshots' = <<>> /\ pending' = {} /\ clearing' = {} /\ elapsed' = {}
    /\ UNCHANGED <<shared, cond, ci, open, dismissed, intents, quiet, flips, waves>>

AlertsNext ==
    \/ \E c \in Conditions : ConditionChanges(c)
    \/ \E p \in Pushes \cup {NoPush} : RunCompletes(p)
    \/ \E k \in Keys, atLeader \in BOOLEAN :
        OperatorDismisses(k, atLeader) \/ OperatorRestores(k, atLeader)
    \/ TickEnds \/ Evaluate \/ RestartAlerts
    \/ \E k \in Keys : TimerElapses(k)

AlertsSpec == AlertsInit /\ [][AlertsNext]_alertVars

\* Ticks go on, runs of the alerts end (their notifications have deadlines), and
\* windows elapse.
TimePasses == \E k \in Keys : TimerElapses(k)

-----------------------------------------------------------------------------
\* "One alert per host outage instead of one per runner" (alerts.js 547-558): a
\* runner's own alert and the host's are never open together.
OutageReportedOnce == Host \in open => open \cap Hosted = {}

\* "A condition that clears and comes back is genuinely new" (alerts.js 224-227),
\* and one that lasts is not: what was dismissed by hand is not announced again
\* while it lasts, through debounces, new pushes and late snapshots; but a runner
\* folded into the host's alert starts anew, and so does, after a restart, a
\* condition that must hold for a while.
DismissedStaysQuiet ==
    [][restarts' = restarts =>
        \A k \in open' \ open :
            AlertScope(k) \in quiet /\ (Disk = k => restarts = 0)
                => AlertScope(k) \in dismissed]_alertVars

\* "The condition closes exactly when a newer green run appears" (alerts.js 539-540):
\* the alert of a failing workflow is closed only when it has been green.
ClosedByGreen ==
    [][\A p \in (open \ open') \cap Pushes : ci.last = NoPush \/ ci.edge]_alertVars

\* When conditions stop changing the open alerts are what is wrong: a runner that
\* stays offline has its alert or the host's, what is over is closed.
AlertsBecomeTrue ==
    <>[](open = NewlyFailing \cup (cond \cap {Disk}) \cup
                (IF HostWide(cond) THEN {Host} ELSE cond \cap Hosted))
=============================================================================
