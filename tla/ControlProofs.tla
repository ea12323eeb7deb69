---------------------------- MODULE ControlProofs ----------------------------
(***************************************************************************)
(* What TLC checks of the smaller parts of the control plane on small      *)
(* instances, proved for all: the guard of the fast loop, the alerts, the  *)
(* standby tiers and the leases of a host.  The parts share no variable.   *)
(***************************************************************************)
EXTENDS TickGuard, Alerts, Tiers, HostLeases, FiniteSetTheorems, TLAPS

------------------------------------------------------------------------------
(* The guard of the fast loop knows every tick it has started.              *)

\* The ticks given up are few, and the current one is not among them.
FewAbandoned ==
    /\ Cardinality(abandoned) <= MaxAbandoned
    /\ current \notin abandoned

GuardInv == GuardTypeOK /\ OutstandingBounded /\ FewAbandoned

\* Sets of ticks are finite.
LEMMA FiniteTicks ==
    ASSUME NEW S \in SUBSET Ticks
    PROVE  IsFiniteSet(S) /\ Cardinality(S) \in Nat
BY GuardAssumption, FS_Subset, FS_CardinalityType

\* One more than few is few and one.
LEMMA FewAndOne ==
    ASSUME NEW S \in SUBSET Ticks, Cardinality(S) <= MaxAbandoned, NEW c \in Ticks \cup {Nothing}
    PROVE  Cardinality(S \cup ({c} \ {Nothing})) <= MaxAbandoned + 1
<1>0. MaxAbandoned \in Nat /\ Nothing \notin Ticks /\ IsFiniteSet(S) /\ Cardinality(S) \in Nat
  BY FiniteTicks, GuardAssumption
<1>1. CASE c = Nothing
  <2>1. S \cup ({c} \ {Nothing}) = S
    BY <1>1
  <2> QED BY <1>0, <2>1
<1>2. CASE c # Nothing
  <2>1. S \cup ({c} \ {Nothing}) = S \cup {c}
    BY <1>2
  <2>2. Cardinality(S \cup {c}) \in {Cardinality(S), Cardinality(S) + 1}
    BY <1>0, FS_AddElement
  <2> QED BY <1>0, <2>1, <2>2
<1> QED BY <1>1, <1>2

\* The guard knows what runs when it knows the current tick and the ones given up.
LEMMA KnownAreFew ==
    ASSUME GuardTypeOK', FewAbandoned', live' = abandoned' \cup ({current'} \ {Nothing})
    PROVE  OutstandingBounded'
BY FewAndOne DEF GuardTypeOK, FewAbandoned, OutstandingBounded

\* Initially nothing runs.
LEMMA GuardInitially == GuardInit => GuardInv
<1> SUFFICES ASSUME GuardInit PROVE GuardInv
  OBVIOUS
<1>1. GuardTypeOK
  BY DEF GuardInit, GuardTypeOK
<1>2. Cardinality({}) = 0 /\ MaxAbandoned \in Nat
  BY FS_EmptySet, GuardAssumption
<1>3. FewAbandoned
  BY <1>2 DEF GuardInit, FewAbandoned
<1>4. live = {} /\ Cardinality({}) <= MaxAbandoned + 1
  BY <1>2 DEF GuardInit
<1>5. OutstandingBounded
  BY <1>4 DEF GuardInit, OutstandingBounded
<1> QED BY <1>1, <1>3, <1>5 DEF GuardInv

\* Every step leaves the guard with what it has to know.
LEMMA GuardStep == GuardInv /\ [GuardNext]_guardVars => GuardInv'
<1> SUFFICES ASSUME GuardInv, [GuardNext]_guardVars PROVE GuardInv'
  OBVIOUS
<1> USE GuardAssumption
<1>0. /\ abandoned \subseteq Ticks /\ live = abandoned \cup ({current} \ {Nothing})
      /\ IsFiniteSet(abandoned) /\ Cardinality(abandoned) \in Nat
  BY FiniteTicks DEF GuardInv, GuardTypeOK, OutstandingBounded
<1>1. ASSUME NEW t \in Ticks, StartTick(t) PROVE GuardInv'
  <2>1. GuardTypeOK'
    BY <1>1 DEF GuardInv, GuardTypeOK, StartTick, StartsFresh
  <2>2. FewAbandoned'
    BY <1>0, <1>1 DEF GuardInv, FewAbandoned, StartTick, StartsFresh
  <2>3. live' = abandoned' \cup ({current'} \ {Nothing})
    BY <1>0, <1>1 DEF StartTick, StartsFresh
  <2> QED BY <2>1, <2>2, <2>3, KnownAreFew DEF GuardInv
<1>2. ASSUME NEW t \in Ticks, AbandonTick(t) PROVE GuardInv'
  <2>1. GuardTypeOK'
    BY <1>2 DEF GuardInv, GuardTypeOK, AbandonTick, StartsFresh
  <2>2. Cardinality(abandoned') = Cardinality(abandoned) + 1
    BY <1>0, <1>2, FS_AddElement DEF AbandonTick, GuardInv, FewAbandoned
  <2>3. current' \notin abandoned'
    BY <1>0, <1>2 DEF AbandonTick, StartsFresh
  <2>4. FewAbandoned'
    BY <1>0, <1>2, <2>2, <2>3 DEF FewAbandoned, AbandonTick
  <2>5. live' = abandoned' \cup ({current'} \ {Nothing})
    BY <1>0, <1>2 DEF AbandonTick, StartsFresh
  <2> QED BY <2>1, <2>4, <2>5, KnownAreFew DEF GuardInv
<1>3. ASSUME NEW t \in Ticks, TickSettles(t) PROVE GuardInv'
  <2>1. GuardTypeOK'
    BY <1>3 DEF GuardInv, GuardTypeOK, TickSettles
  <2>2. Cardinality(abandoned') \in {Cardinality(abandoned), Cardinality(abandoned) - 1}
    BY <1>0, <1>3, FS_RemoveElement DEF TickSettles
  <2>3. FewAbandoned'
    <3>1. Cardinality(abandoned') \in Nat
      BY <2>1, FiniteTicks DEF GuardTypeOK
    <3> QED BY <1>0, <1>3, <2>2, <3>1 DEF GuardInv, GuardTypeOK, FewAbandoned, TickSettles
  <2>4. live' = abandoned' \cup ({current'} \ {Nothing})
    BY <1>0, <1>3 DEF GuardInv, FewAbandoned, TickSettles
  <2> QED BY <2>1, <2>3, <2>4, KnownAreFew DEF GuardInv
<1>4. CASE DaemonRestarts
  <2>1. Cardinality({}) = 0
    BY FS_EmptySet
  <2>2. FewAbandoned'
    BY <1>4, <2>1 DEF DaemonRestarts, FewAbandoned
  <2>3. GuardTypeOK' /\ live' = abandoned' \cup ({current'} \ {Nothing})
    BY <1>4 DEF GuardTypeOK, DaemonRestarts
  <2> QED BY <2>2, <2>3, KnownAreFew DEF GuardInv
<1>5. CASE DeadlinePasses \/ GrowsOld \/ RoleTurns \/ UNCHANGED guardVars
  <2>1. UNCHANGED <<live, current, abandoned>>
    BY <1>5 DEF DeadlinePasses, GrowsOld, RoleTurns, guardVars
  <2>2. GuardTypeOK'
    BY <1>5 DEF GuardInv, GuardTypeOK, DeadlinePasses, GrowsOld, RoleTurns, guardVars
  <2> QED BY <2>1, <2>2 DEF GuardInv, OutstandingBounded, FewAbandoned
<1> QED BY <1>1, <1>2, <1>3, <1>4, <1>5 DEF GuardNext

\* The loop's variables have their types in every reachable state.
THEOREM GuardTypeCorrect == GuardSpec => []GuardTypeOK
<1>1. GuardInv => GuardTypeOK
  BY DEF GuardInv
<1> QED BY <1>1, GuardInitially, GuardStep, PTL DEF GuardSpec

\* However ticks overrun, are given up and finish late (run of tick-guard.js), the
\* ones that still run are those the guard knows of, and at most one more than may
\* be given up.
THEOREM FewTicksOutstanding == GuardSpec => []OutstandingBounded
<1>1. GuardInv => OutstandingBounded
  BY DEF GuardInv
<1> QED BY <1>1, GuardInitially, GuardStep, PTL DEF GuardSpec

------------------------------------------------------------------------------
(* One alert per outage of a host.                                          *)

\* What Folded and Found refer to has its type.
AlertsInv ==
    /\ snapshots \in Seq(SUBSET Conditions)
    /\ cond \in SUBSET Conditions
    /\ ci \in [last : Pushes \cup {NoPush}, edge : BOOLEAN]
    /\ OutageReportedOnce

\* The runners a snapshot finds an alert for are none when they are folded.
LEMMA FoldedFindsNone ==
    ASSUME AlertsInv, NEW s, Folded(s)
    PROVE  Found(s) \cap Hosted = {} /\ Held(s) \cap Hosted = {}
<1>1. NewlyFailing \subseteq Pushes
  BY DEF NewlyFailing, AlertsInv
<1>2. Host \notin Hosted /\ Disk \notin Hosted /\ Pushes \cap Hosted = {}
  BY AlertsAssumption
<1>3. Found(s) \cap Hosted = {}
  BY <1>1, <1>2 DEF Found
<1>4. Held(s) \cap Hosted = {}
  BY DEF Held, Superseded
<1> QED BY <1>3, <1>4

\* The host's alert is open after an evaluation that folds its runners only.
LEMMA HostIsFolded ==
    ASSUME AlertsInv, NEW s, Host \in Found(s) \cup Held(s)
    PROVE  Folded(s)
<1>1. NewlyFailing \subseteq Pushes
  BY DEF NewlyFailing, AlertsInv
<1>2. Host \notin Hosted /\ Host # Disk /\ Host \notin Pushes
  BY AlertsAssumption
<1>3. CASE Host \in Found(s)
  BY <1>1, <1>2, <1>3 DEF Found, Folded
<1>4. CASE Host \in Held(s)
  BY <1>4 DEF Held, Folded
<1> QED BY <1>3, <1>4

\* Initially no alert is open.
LEMMA AlertsInitially == AlertsInit => AlertsInv
BY DEF AlertsInit, AlertsInv, OutageReportedOnce, Green

\* An evaluation opens the host's alert or its runners', never both.
LEMMA EvaluateStep == ASSUME AlertsInv, Evaluate PROVE AlertsInv'
<1> DEFINE s == Head(snapshots)
<1>1. snapshots' \in Seq(SUBSET Conditions)
  BY DEF Evaluate, AlertsInv
<1>2. open' = Found(s) \cup Held(s) /\ UNCHANGED <<cond, ci>>
  BY DEF Evaluate
<1>3. OutageReportedOnce'
  <2> SUFFICES ASSUME Host \in open' PROVE open' \cap Hosted = {}
    BY DEF OutageReportedOnce
  <2>1. Folded(s)
    BY <1>2, HostIsFolded
  <2> QED BY <1>2, <2>1, FoldedFindsNone
<1> QED BY <1>1, <1>2, <1>3 DEF AlertsInv

\* The other steps leave the open alerts as they are.
LEMMA OtherAlertSteps ==
    ASSUME AlertsInv, [AlertsNext]_alertVars, ~Evaluate
    PROVE  AlertsInv'
<1>1. ASSUME NEW c \in Conditions, ConditionChanges(c) PROVE AlertsInv'
  BY <1>1 DEF ConditionChanges, AlertsInv, OutageReportedOnce
<1>2. ASSUME NEW p \in Pushes \cup {NoPush}, RunCompletes(p) PROVE AlertsInv'
  BY <1>2 DEF RunCompletes, Green, AlertsInv, OutageReportedOnce
<1>3. ASSUME NEW k \in Keys, NEW atLeader \in BOOLEAN,
             OperatorDismisses(k, atLeader) \/ OperatorRestores(k, atLeader)
      PROVE  AlertsInv'
  BY <1>3 DEF OperatorDismisses, OperatorRestores, AlertsInv, OutageReportedOnce
<1>4. CASE TickEnds
  <2>1. snapshots' = Append(snapshots, cond) /\ UNCHANGED <<cond, ci, open>>
    BY <1>4 DEF TickEnds
  <2>2. snapshots' \in Seq(SUBSET Conditions)
    BY <2>1 DEF AlertsInv
  <2> QED BY <2>1, <2>2 DEF AlertsInv, OutageReportedOnce
<1>5. CASE RestartAlerts
  BY <1>5 DEF RestartAlerts, AlertsInv, OutageReportedOnce
<1>6. ASSUME NEW k \in Keys, TimerElapses(k) PROVE AlertsInv'
  BY <1>6 DEF TimerElapses, AlertsInv, OutageReportedOnce
<1>7. CASE UNCHANGED alertVars
  BY <1>7 DEF alertVars, AlertsInv, OutageReportedOnce
<1> QED BY <1>1, <1>2, <1>3, <1>4, <1>5, <1>6, <1>7 DEF AlertsNext

\* The runners of a host that is reported offline have no alert of their own
\* (offlineFindings and reconcile of alerts.js), through debounces and restarts and
\* whichever snapshots wait.
THEOREM OneAlertPerOutage == AlertsSpec => []OutageReportedOnce
<1>1. AlertsInv /\ [AlertsNext]_alertVars => AlertsInv'
  BY EvaluateStep, OtherAlertSteps
<1>2. AlertsInv => OutageReportedOnce
  BY DEF AlertsInv
<1> QED BY <1>1, <1>2, AlertsInitially, PTL DEF AlertsSpec

\* The types hold whatever waits, elapses or is forgotten.
AlertsTypes == AlertsTypeOK /\ snapshots \in Seq(SUBSET Conditions)

\* What a snapshot leaves open are keys, and a debounce is of one that was open.
LEMMA EvaluatedKeys ==
    ASSUME AlertsTypes, NEW s
    PROVE  Found(s) \subseteq Keys /\ Held(s) \subseteq open
<1>1. NewlyFailing \subseteq Pushes
  BY DEF NewlyFailing, AlertsTypes, AlertsTypeOK
<1>2. Found(s) \subseteq Keys
  BY <1>1 DEF Found, Keys
<1> QED BY <1>2 DEF Held

LEMMA AlertsTypeStep == ASSUME AlertsTypes, [AlertsNext]_alertVars PROVE AlertsTypes'
<1> USE DEF AlertsTypes, AlertsTypeOK
<1>1. ASSUME NEW c \in Conditions, ConditionChanges(c) PROVE AlertsTypes'
  BY <1>1, AlertsAssumption DEF ConditionChanges
<1>2. ASSUME NEW p \in Pushes \cup {NoPush}, RunCompletes(p) PROVE AlertsTypes'
  BY <1>2, AlertsAssumption DEF RunCompletes, Green
<1>3. ASSUME NEW k \in Keys, NEW atLeader \in BOOLEAN,
             OperatorDismisses(k, atLeader) \/ OperatorRestores(k, atLeader)
      PROVE  AlertsTypes'
  <2>1. AlertScope(k) \in Scopes
    BY DEF Scopes
  <2>2. intents' \in [Keys -> {"none", "dismiss", "restore"}]
    BY <1>3 DEF OperatorDismisses, OperatorRestores
  <2>3. dismissed' \subseteq Scopes /\ quiet' \subseteq Scopes
    BY <1>3, <2>1 DEF OperatorDismisses, OperatorRestores, DismissedAfter, RestoredAfter
  <2>4. waves' \in 0..MaxWaves
    BY <1>3, AlertsAssumption DEF OperatorDismisses, OperatorRestores
  <2> QED BY <1>3, <2>2, <2>3, <2>4 DEF OperatorDismisses, OperatorRestores
<1>4. CASE TickEnds
  <2> DEFINE wanted(i) == {AlertScope(k) : k \in {j \in open : intents[j] = i}}
  <2>1. wanted("dismiss") \subseteq Scopes
    BY DEF Scopes
  <2>2. dismissed' \subseteq Scopes /\ quiet' \subseteq Scopes
    BY <1>4, <2>1 DEF TickEnds
  <2>3. snapshots' \in Seq(SUBSET Conditions)
    BY <1>4 DEF TickEnds
  <2>4. \A i \in DOMAIN snapshots' : snapshots'[i] \subseteq Conditions
    BY <2>3
  <2> QED BY <1>4, <2>2, <2>3, <2>4 DEF TickEnds
<1>5. CASE Evaluate
  <2> DEFINE s == Head(snapshots)
             begun == (s \cap {Disk}) \cup ((IF Folded(s) THEN pending ELSE s) \cap Hosted)
  <2>1. /\ open' = Found(s) \cup Held(s) /\ clearing' = Held(s) /\ pending' = begun
        /\ elapsed' = elapsed \cap ((pending \cap begun) \cup (clearing \cap Held(s)))
        /\ dismissed' \subseteq dismissed /\ quiet' \subseteq quiet
        /\ snapshots' = Tail(snapshots)
        /\ UNCHANGED <<shared, cond, ci, intents, flips, waves, restarts>>
    BY <1>5 DEF Evaluate
  <2>2. Found(s) \subseteq Keys /\ Held(s) \subseteq Keys
    BY EvaluatedKeys
  <2>3. begun \subseteq Hosted \cup {Disk}
    OBVIOUS
  <2>4. snapshots' \in Seq(SUBSET Conditions)
    BY <1>5 DEF Evaluate
  <2>5. \A i \in DOMAIN snapshots' : snapshots'[i] \subseteq Conditions
    BY <2>4
  <2> HIDE DEF s, begun
  <2>6. /\ open' \subseteq Keys /\ pending' \subseteq Hosted \cup {Disk}
        /\ clearing' \subseteq open' /\ elapsed' \subseteq pending' \cup clearing'
        /\ dismissed' \subseteq Scopes /\ quiet' \subseteq Scopes
    BY <2>1, <2>2, <2>3
  <2> QED BY <2>1, <2>4, <2>5, <2>6
<1>6. CASE RestartAlerts
  <2>1. snapshots' \in Seq(SUBSET Conditions) /\ restarts' \in 0..MaxRestarts
    BY <1>6, AlertsAssumption DEF RestartAlerts
  <2>2. \A i \in DOMAIN snapshots' : snapshots'[i] \subseteq Conditions
    BY <2>1
  <2> QED BY <1>6, <2>1, <2>2 DEF RestartAlerts
<1>7. ASSUME NEW k \in Keys, TimerElapses(k) PROVE AlertsTypes'
  BY <1>7 DEF TimerElapses
<1>8. CASE UNCHANGED alertVars
  BY <1>8 DEF alertVars
<1> QED BY <1>1, <1>2, <1>3, <1>4, <1>5, <1>6, <1>7, <1>8 DEF AlertsNext

LEMMA AlertsTypesInitially == AlertsInit => AlertsTypes
<1> SUFFICES ASSUME AlertsInit PROVE AlertsTypes
  OBVIOUS
<1>1. shared \in BOOLEAN /\ ci \in [last : Pushes \cup {NoPush}, edge : BOOLEAN]
  BY AlertsAssumption DEF AlertsInit, Green
<1>2. flips \in 0..MaxFlips /\ waves \in 0..MaxWaves /\ restarts \in 0..MaxRestarts
  BY AlertsAssumption DEF AlertsInit
<1> QED BY <1>1, <1>2 DEF AlertsInit, AlertsTypes, AlertsTypeOK

\* The rows, timers, dismissals and intents of alerts.js keep their types: an alert
\* in its debounce is open, and a window that is over is of something that waits.
THEOREM AlertsTypeCorrect == AlertsSpec => []AlertsTypeOK
<1>1. AlertsTypes => AlertsTypeOK
  BY DEF AlertsTypes
<1>2. AlertsTypes /\ [AlertsNext]_alertVars => AlertsTypes'
  BY AlertsTypeStep
<1> QED BY <1>1, <1>2, AlertsTypesInitially, PTL DEF AlertsSpec

------------------------------------------------------------------------------
(* What is dismissed stays quiet.                                           *)

Singles == Conditions \cup {Host}

\* What is dismissed by hand and lasts is open and dismissed, and no snapshot that
\* waits is without it; the disk only until a restart forgets how long it has been
\* full.  So nothing that is dismissed and lasts is found anew.
QuietStays ==
    \A k \in Singles :
        {k} \in quiet /\ (k = Disk => restarts = 0) =>
            /\ k \in open /\ {k} \in dismissed
            /\ \A s \in {cond} \cup Range(snapshots) : Wrong({k}, s)

\* A full disk that has an alert goes on having been full for long enough.
DiskLasts == restarts = 0 /\ Disk \in open => Disk \in pending \cap elapsed

\* A workflow dismissed by hand is red, and dismissed while a run after a green one
\* could be found.
WorkflowStays ==
    Pushes \in quiet => ci.last # NoPush /\ (ci.edge => Pushes \in dismissed)

QuietInv ==
    /\ AlertsInv /\ open \subseteq Keys /\ restarts \in Nat
    /\ QuietStays /\ DiskLasts /\ WorkflowStays

\* Keys of different scopes are different.
LEMMA ScopesApart ==
    /\ \A k \in Singles : AlertScope(k) = {k} /\ {k} # Pushes /\ k \notin Pushes
    /\ \A k \in Keys : \A x \in Singles : AlertScope(k) = {x} => k = x
    /\ \A k \in Keys : AlertScope(k) = Pushes => k \in Pushes
    /\ \A k \in Keys : k \in Singles \/ k \in Pushes
BY AlertsAssumption DEF AlertScope, Singles, Conditions, Keys

\* A condition lasts in a snapshot that has it, the host's when enough runners do.
LEMMA WrongSingle ==
    ASSUME NEW k \in Singles, NEW s \in SUBSET Conditions
    PROVE  Wrong({k}, s) <=> IF k = Host THEN HostWide(s) ELSE k \in s
BY ScopesApart, AlertsAssumption DEF Wrong, Singles, Conditions

\* The snapshots after one more, and after the first is evaluated.
LEMMA SnapshotsMove ==
    ASSUME NEW T, NEW q \in Seq(T)
    PROVE  /\ \A x \in T : Range(Append(q, x)) = Range(q) \cup {x}
           /\ q # <<>> => /\ Tail(q) \in Seq(T) /\ Head(q) \in Range(q) /\ Head(q) \in T
                          /\ Range(Tail(q)) \subseteq Range(q)
<1>1. ASSUME NEW x \in T PROVE Range(Append(q, x)) = Range(q) \cup {x}
  <2>1. DOMAIN Append(q, x) = 1..(Len(q) + 1) /\ DOMAIN q = 1..Len(q) /\ Len(q) \in Nat
    OBVIOUS
  <2>2. \A i \in 1..Len(q) : Append(q, x)[i] = q[i]
    OBVIOUS
  <2>3. Append(q, x)[Len(q) + 1] = x
    OBVIOUS
  <2>4. 1..(Len(q) + 1) = (1..Len(q)) \cup {Len(q) + 1}
    BY <2>1
  <2> QED BY <2>1, <2>2, <2>3, <2>4 DEF Range
<1>2. ASSUME q # <<>> PROVE Tail(q) \in Seq(T) /\ Head(q) \in Range(q) /\ Head(q) \in T
  BY <1>2 DEF Range
<1>3. ASSUME q # <<>> PROVE Range(Tail(q)) \subseteq Range(q)
  BY <1>3 DEF Range
<1> QED BY <1>1, <1>2, <1>3

\* What an evaluation does to a condition that lasts in the snapshot it evaluates.
LEMMA LastingIsFound ==
    ASSUME QuietInv, snapshots # <<>>, NEW k \in Singles, k \in open,
           Wrong({k}, Head(snapshots)), k = Disk => restarts = 0
    PROVE  k \in Found(Head(snapshots)) \/ k \in Superseded(Head(snapshots))
<1> DEFINE s == Head(snapshots)
<1>1. s \in SUBSET Conditions
  BY SnapshotsMove DEF QuietInv, AlertsInv
<1>2. IF k = Host THEN HostWide(s) ELSE k \in s
  BY <1>1, WrongSingle
<1>3. CASE k = Host
  BY <1>2, <1>3 DEF Found
<1>4. CASE k = Disk
  BY <1>2, <1>4, AlertsAssumption DEF Found, QuietInv, DiskLasts
<1>5. CASE k \in Hosted
  BY <1>2, <1>5, AlertsAssumption DEF Found, Superseded
<1> QED BY <1>3, <1>4, <1>5 DEF Singles, Conditions

LEMMA QuietEvaluate == ASSUME QuietInv, Evaluate PROVE QuietInv'
<1> DEFINE s == Head(snapshots)
<1>0. /\ snapshots # <<>> /\ snapshots' = Tail(snapshots)
      /\ open' = Found(s) \cup Held(s) /\ restarts' = restarts
      /\ dismissed' = dismissed \cap {AlertScope(k) : k \in open'}
      /\ quiet' = quiet \ {AlertScope(k) : k \in Superseded(s)}
      /\ UNCHANGED <<cond, ci>>
  BY DEF Evaluate
<1>1. AlertsInv'
  BY EvaluateStep DEF QuietInv
<1>2. snapshots \in Seq(SUBSET Conditions) /\ s \in SUBSET Conditions
      /\ s \in Range(snapshots) /\ Range(snapshots') \subseteq Range(snapshots)
  BY <1>0, SnapshotsMove DEF QuietInv, AlertsInv
<1>3. open' \subseteq Keys
  <2>1. NewlyFailing \subseteq Pushes
    BY DEF NewlyFailing, QuietInv, AlertsInv
  <2>2. Found(s) \subseteq Keys
    BY <1>2, <2>1 DEF Found, Keys, QuietInv
  <2>3. Held(s) \subseteq Keys
    BY DEF Held, QuietInv
  <2> QED BY <1>0, <2>2, <2>3
<1>4. QuietStays'
  <2> SUFFICES ASSUME NEW k \in Singles, {k} \in quiet', k = Disk => restarts = 0
               PROVE  /\ k \in open' /\ {k} \in dismissed'
                      /\ \A x \in {cond'} \cup Range(snapshots') : Wrong({k}, x)'
    BY <1>0 DEF QuietStays
  <2>1. {k} \in quiet /\ k \notin Superseded(s)
    BY <1>0, ScopesApart
  <2>2. /\ k \in open /\ {k} \in dismissed
        /\ \A x \in {cond} \cup Range(snapshots) : Wrong({k}, x)
    BY <2>1 DEF QuietInv, QuietStays
  <2>3. k \in open'
    BY <1>0, <1>2, <2>1, <2>2, LastingIsFound
  <2>4. {k} \in dismissed'
    BY <1>0, <2>2, <2>3, ScopesApart
  <2>5. \A x \in {cond'} \cup Range(snapshots') : Wrong({k}, x)'
    BY <1>0, <1>2, <2>2 DEF Wrong, HostWide
  <2> QED BY <2>3, <2>4, <2>5
<1>5. DiskLasts'
  <2> SUFFICES ASSUME Disk \in open', restarts = 0 PROVE Disk \in pending' \cap elapsed'
    BY <1>0 DEF DiskLasts
  <2>1. Disk \notin Held(s) /\ Disk \notin NewlyFailing /\ Disk \notin Hosted /\ Disk # Host
    BY AlertsAssumption DEF Held, Debounced, NewlyFailing, QuietInv, AlertsInv
  <2>2. Disk \in s \cap pending \cap elapsed
    BY <1>0, <2>1 DEF Found
  <2> QED BY <2>2 DEF Evaluate
<1>6. WorkflowStays'
  <2> SUFFICES ASSUME Pushes \in quiet', ci.edge PROVE Pushes \in dismissed'
    BY <1>0 DEF WorkflowStays, QuietInv
  <2>1. Pushes \in quiet /\ ci.last # NoPush /\ Pushes \in dismissed
    BY <1>0 DEF QuietInv, WorkflowStays
  <2>2. ci.last \in Pushes /\ ci.last \in open'
    BY <1>0, <2>1 DEF NewlyFailing, Found, QuietInv, AlertsInv
  <2>3. AlertScope(ci.last) = Pushes
    BY <2>2 DEF AlertScope
  <2> QED BY <1>0, <2>1, <2>2, <2>3
<1> QED BY <1>0, <1>1, <1>3, <1>4, <1>5, <1>6 DEF QuietInv

LEMMA QuietConditionChanges ==
    ASSUME QuietInv, NEW c \in Conditions, ConditionChanges(c) PROVE QuietInv'
<1>0. /\ cond' \in SUBSET Conditions /\ quiet' = {scope \in quiet : Wrong(scope, cond')}
      /\ UNCHANGED <<ci, snapshots, open, pending, elapsed, dismissed, restarts>>
  BY DEF ConditionChanges, QuietInv, AlertsInv
<1>1. AlertsInv'
  BY <1>0 DEF QuietInv, AlertsInv, OutageReportedOnce
<1>2. \A x : Wrong(x, cond)' <=> Wrong(x, cond')
  BY <1>0 DEF Wrong, HostWide
<1>3. \A x : \A s \in Range(snapshots) : Wrong(x, s)' <=> Wrong(x, s)
  BY <1>0 DEF Wrong, HostWide
<1>4. QuietStays'
  BY <1>0, <1>2, <1>3 DEF QuietInv, QuietStays
<1> QED BY <1>0, <1>1, <1>4 DEF QuietInv, DiskLasts, WorkflowStays

LEMMA QuietRunCompletes ==
    ASSUME QuietInv, NEW p \in Pushes \cup {NoPush}, RunCompletes(p) PROVE QuietInv'
<1>0. /\ ci' = IF p = NoPush THEN Green ELSE [last |-> p, edge |-> ci.last = NoPush]
      /\ quiet' = IF p = NoPush THEN quiet \ {Pushes} ELSE quiet
      /\ UNCHANGED <<cond, snapshots, open, pending, elapsed, dismissed, restarts>>
  BY DEF RunCompletes
<1>1. AlertsInv'
  BY <1>0 DEF QuietInv, AlertsInv, OutageReportedOnce, Green
<1>2. \A k \in Singles : \A s : Wrong({k}, s)' <=> Wrong({k}, s)
  BY <1>0, ScopesApart DEF Wrong, HostWide
<1>3. QuietStays'
  BY <1>0, <1>2 DEF QuietInv, QuietStays
<1>4. WorkflowStays'
  BY <1>0, AlertsAssumption DEF QuietInv, WorkflowStays
<1> QED BY <1>0, <1>1, <1>3, <1>4 DEF QuietInv, DiskLasts

LEMMA QuietOperator ==
    ASSUME QuietInv, NEW k \in Keys, NEW atLeader \in BOOLEAN,
           OperatorDismisses(k, atLeader) \/ OperatorRestores(k, atLeader)
    PROVE  QuietInv'
<1>0. k \in open /\ UNCHANGED <<cond, ci, snapshots, open, pending, elapsed, restarts>>
  BY DEF OperatorDismisses, OperatorRestores
<1>1. AlertsInv'
  BY <1>0 DEF QuietInv, AlertsInv, OutageReportedOnce
<1>2. \A x : \A s : Wrong(x, s)' <=> Wrong(x, s)
  BY <1>0 DEF Wrong, HostWide
<1>3. CASE OperatorDismisses(k, atLeader)
  <2>1. /\ dismissed \subseteq dismissed'
        /\ quiet' # quiet =>
              /\ quiet' = quiet \cup {AlertScope(k)} /\ AlertScope(k) \in dismissed'
              /\ \A s \in {cond} \cup Range(snapshots) : Wrong(AlertScope(k), s)
    BY <1>0, <1>3 DEF OperatorDismisses, DismissedAfter
  <2>2. QuietStays'
    <3> SUFFICES ASSUME NEW x \in Singles, {x} \in quiet', x = Disk => restarts = 0
                 PROVE  /\ x \in open /\ {x} \in dismissed'
                        /\ \A s \in {cond} \cup Range(snapshots) : Wrong({x}, s)
      BY <1>0, <1>2 DEF QuietStays
    <3>1. CASE {x} \in quiet
      BY <2>1, <3>1 DEF QuietInv, QuietStays
    <3>2. CASE {x} \notin quiet
      <4>1. AlertScope(k) = {x}
        BY <2>1, <3>2
      <4>2. k = x
        BY <4>1, ScopesApart
      <4> QED BY <1>0, <2>1, <3>2, <4>1, <4>2
    <3> QED BY <3>1, <3>2
  <2>3. WorkflowStays'
    <3> SUFFICES ASSUME Pushes \in quiet' PROVE ci.last # NoPush /\ (ci.edge => Pushes \in dismissed')
      BY <1>0 DEF WorkflowStays
    <3>1. CASE Pushes \in quiet
      BY <2>1, <3>1 DEF QuietInv, WorkflowStays
    <3>2. CASE Pushes \notin quiet
      <4>1. AlertScope(k) = Pushes /\ Pushes \in dismissed' /\ Wrong(Pushes, cond)
        BY <2>1, <3>2
      <4> QED BY <4>1 DEF Wrong
    <3> QED BY <3>1, <3>2
  <2> QED BY <1>0, <1>1, <2>2, <2>3 DEF QuietInv, DiskLasts
<1>4. CASE OperatorRestores(k, atLeader)
  <2>1. dismissed \ {AlertScope(k)} \subseteq dismissed' /\ quiet' = quiet \ {AlertScope(k)}
    BY <1>4 DEF OperatorRestores, RestoredAfter
  <2>2. QuietStays'
    BY <1>0, <1>2, <2>1 DEF QuietInv, QuietStays
  <2>3. WorkflowStays'
    BY <1>0, <2>1 DEF QuietInv, WorkflowStays
  <2> QED BY <1>0, <1>1, <2>2, <2>3 DEF QuietInv, DiskLasts
<1> QED BY <1>3, <1>4

LEMMA QuietTick == ASSUME QuietInv, TickEnds PROVE QuietInv'
<1>0. UNCHANGED <<cond, ci, open, pending, elapsed, restarts>>
      /\ snapshots' = Append(snapshots, cond)
  BY DEF TickEnds
<1>1. snapshots \in Seq(SUBSET Conditions) /\ cond \in SUBSET Conditions
  BY DEF QuietInv, AlertsInv
<1>2. Range(snapshots') = Range(snapshots) \cup {cond} /\ snapshots' \in Seq(SUBSET Conditions)
  BY <1>0, <1>1, SnapshotsMove
<1>3. AlertsInv'
  BY <1>0, <1>2 DEF QuietInv, AlertsInv, OutageReportedOnce
<1>4. \A x : \A s : Wrong(x, s)' <=> Wrong(x, s)
  BY <1>0 DEF Wrong, HostWide
<1>5. \A x \in quiet' : x \in quiet /\ (x \in dismissed => x \in dismissed')
  BY DEF TickEnds
<1>6. QuietStays'
  BY <1>0, <1>2, <1>4, <1>5 DEF QuietInv, QuietStays
<1>7. WorkflowStays'
  BY <1>0, <1>5 DEF QuietInv, WorkflowStays
<1> QED BY <1>0, <1>3, <1>6, <1>7 DEF QuietInv, DiskLasts

LEMMA QuietRestart == ASSUME QuietInv, RestartAlerts PROVE QuietInv'
<1>0. /\ UNCHANGED <<cond, ci, open, dismissed, quiet>> /\ snapshots' = <<>>
      /\ restarts' = restarts + 1 /\ restarts \in Nat
  BY DEF RestartAlerts, QuietInv
<1>1. AlertsInv'
  BY <1>0 DEF QuietInv, AlertsInv, OutageReportedOnce
<1>2. \A x : Wrong(x, cond)' <=> Wrong(x, cond)
  BY <1>0 DEF Wrong, HostWide
<1>3. {cond'} \cup Range(snapshots') = {cond} /\ restarts' # 0
  <2>1. Range(snapshots') = {}
    BY <1>0 DEF Range
  <2> QED BY <1>0, <2>1
<1>4. QuietStays'
  <2> SUFFICES ASSUME NEW x \in Singles, {x} \in quiet, x # Disk
               PROVE  x \in open /\ {x} \in dismissed /\ Wrong({x}, cond)
    BY <1>0, <1>2, <1>3 DEF QuietStays
  <2> QED BY DEF QuietInv, QuietStays
<1> QED BY <1>0, <1>1, <1>4 DEF QuietInv, DiskLasts, WorkflowStays

LEMMA QuietStep == ASSUME QuietInv, [AlertsNext]_alertVars PROVE QuietInv'
<1>1. ASSUME NEW k \in Keys, TimerElapses(k) PROVE QuietInv'
  <2>1. /\ UNCHANGED <<cond, ci, snapshots, open, pending, dismissed, quiet, restarts>>
        /\ elapsed \subseteq elapsed'
    BY <1>1 DEF TimerElapses
  <2> QED BY <2>1 DEF QuietInv, AlertsInv, OutageReportedOnce, QuietStays, Wrong, HostWide, DiskLasts, WorkflowStays
<1>2. CASE UNCHANGED alertVars
  BY <1>2 DEF alertVars, QuietInv, AlertsInv, OutageReportedOnce, QuietStays, Wrong, HostWide, DiskLasts, WorkflowStays
<1> QED
  BY <1>1, <1>2, QuietEvaluate, QuietConditionChanges, QuietRunCompletes, QuietOperator,
     QuietTick, QuietRestart DEF AlertsNext

LEMMA QuietInitially == AlertsInit => QuietInv
<1> SUFFICES ASSUME AlertsInit PROVE QuietInv
  OBVIOUS
<1>1. AlertsInv
  BY AlertsInitially
<1> QED BY <1>1 DEF AlertsInit, QuietInv, QuietStays, DiskLasts, WorkflowStays

\* A step that opens an alert of a quiet scope opens a dismissed one.
LEMMA OpenedIsDismissed ==
    ASSUME QuietInv, [AlertsNext]_alertVars, NEW k \in open' \ open,
           AlertScope(k) \in quiet, Disk = k => restarts = 0
    PROVE  AlertScope(k) \in dismissed
<1>1. Evaluate
  BY DEF AlertsNext, ConditionChanges, RunCompletes, OperatorDismisses, OperatorRestores,
     TickEnds, RestartAlerts, TimerElapses, alertVars
<1>2. k \in Found(Head(snapshots)) /\ k \in Keys
  BY <1>1, QuietStep DEF Evaluate, Held, QuietInv
<1>3. k \notin Singles
  BY ScopesApart DEF QuietInv, QuietStays
<1>4. k \in NewlyFailing /\ k \in Pushes
  BY <1>2, <1>3, ScopesApart DEF Found, Singles, Conditions
<1>5. ci.edge /\ AlertScope(k) = Pushes
  BY <1>4 DEF NewlyFailing, AlertScope
<1> QED BY <1>5 DEF QuietInv, WorkflowStays

\* What an operator dismissed is not announced again while it lasts, through
\* debounces, new pushes, waiting snapshots, shared intents and restarts: a step that
\* opens its alert opens it dismissed (dismissals and forgetClearedDismissals of
\* alerts.js).
THEOREM DismissalsLast == AlertsSpec => DismissedStaysQuiet
<1>1. QuietInv /\ [AlertsNext]_alertVars => QuietInv'
  BY QuietStep
<1>2. QuietInv /\ [AlertsNext]_alertVars =>
        [restarts' = restarts =>
            \A k \in open' \ open :
                AlertScope(k) \in quiet /\ (Disk = k => restarts = 0)
                    => AlertScope(k) \in dismissed]_alertVars
  BY OpenedIsDismissed
<1> QED BY <1>1, <1>2, QuietInitially, PTL DEF AlertsSpec, DismissedStaysQuiet

------------------------------------------------------------------------------
(* The leases of a host: jobs that overlap spare each other.                *)

\* A lease is that of a worker the runner has had, of one that is starting at the
\* earliest when it has started.  A release that is under way is on behalf of a
\* worker that is dead.
LeaseOrder ==
    /\ \A r \in Runners :
        /\ lease[r] # NoLease => lease[r] \in 1..jobNo[r]
        /\ jobPhase[r] = "starting" => lease[r] # jobNo[r]
        /\ jobPhase[r] # "none" => jobNo[r] # 0
    /\ \A g \in guards :
        /\ g.owner <= jobNo[g.key]
        /\ g.stage # "watch" => ~WorkerLive(g.key, g.owner)

\* The host is muted while a live job has a lease.
MutedWhileLeased == tool = "audio" /\ (\E r \in Runners : LiveLease(r)) => User \in host

LeasesInv == LeasesTypeOK /\ LeaseOrder /\ MutedWhileLeased

LEMMA ThingsType ==
    /\ NoLease \notin Things
    /\ User \in Things
    /\ tool = "simulator" => Runners \subseteq Things
    /\ tool # "simulator" => Things = {User}
BY LeasesAssumption DEF Things

\* What is put back is of the host.
LEMMA PutBackType == ASSUME LeasesTypeOK PROVE PutBack \subseteq Things
<1>1. saved \in SUBSET Things \/ saved = NoFile
  BY DEF LeasesTypeOK
<1> QED BY <1>1 DEF PutBack, LeasesTypeOK

\* Reaping leaves the lease of a live job, and then nothing is put back.
LEMMA LiveLeaseStays ==
    ASSUME LeasesTypeOK, NEW r \in Runners, LiveLease(r)
    PROVE  /\ ReapedLeases(lease)[r] = lease[r] /\ HasJobs(ReapedLeases(lease))
           /\ \A q \in Runners \ {r} :
                 LET left == ReapedLeases([lease EXCEPT ![q] = NoLease]) IN
                 left[r] = lease[r] /\ HasJobs(left)
BY DEF LeasesTypeOK, LiveLease, ReapedLeases, HasJobs, WorkerLive

\* A release empties the lease of its key and leases of dead workers, and touches
\* the host only when no lease is left.
LEMMA ReleaseKeeps ==
    ASSUME LeasesInv, NEW q \in Runners, ReleaseLease(q)
    PROVE  /\ lease' \in [Runners -> (1..MaxJobs) \cup {NoLease}]
           /\ lease'[q] = NoLease /\ \A r \in Runners : lease'[r] \in {lease[r], NoLease}
           /\ host' \subseteq Things /\ saved' \in (SUBSET Things) \cup {NoFile}
           /\ \A r \in Runners \ {q} : LiveLease(r) => lease'[r] = lease[r] /\ host' = host
<1>0. LeasesTypeOK
  BY DEF LeasesInv
<1> DEFINE left == ReapedLeases([lease EXCEPT ![q] = NoLease])
<1>1. /\ lease' = left /\ left[q] = NoLease
      /\ left \in [Runners -> (1..MaxJobs) \cup {NoLease}]
      /\ \A r \in Runners : left[r] \in {lease[r], NoLease}
  BY <1>0 DEF ReleaseLease, ReapedLeases, LeasesTypeOK
<1>2. \/ HasJobs(left) /\ host' = host /\ saved' = saved
      \/ ~HasJobs(left) /\ host' = PutBack /\ saved' = NoFile
  BY DEF ReleaseLease
<1>3. host' \subseteq Things /\ saved' \in (SUBSET Things) \cup {NoFile}
  BY <1>0, <1>2, PutBackType DEF LeasesTypeOK
<1>4. ASSUME NEW r \in Runners \ {q}, LiveLease(r) PROVE left[r] = lease[r] /\ HasJobs(left)
  BY <1>0, <1>4, LiveLeaseStays
<1> QED BY <1>1, <1>2, <1>3, <1>4

\* A job that takes its lease leaves the others theirs, and what they turned on.
LEMMA TakeKeeps ==
    ASSUME LeasesInv, NEW q \in Runners, jobPhase[q] = "starting", TakeLease(q)
    PROVE  /\ lease' \in [Runners -> (1..MaxJobs) \cup {NoLease}]
           /\ lease'[q] = jobNo[q] /\ \A r \in Runners \ {q} : lease'[r] \in {lease[r], NoLease}
           /\ host' \subseteq Things /\ saved' \in (SUBSET Things) \cup {NoFile}
           /\ tool = "audio" => User \in host'
           /\ \A r \in Runners \ {q} :
                 LiveLease(r) => lease'[r] = lease[r] /\ (tool = "simulator" => host' = host)
<1>0. LeasesTypeOK /\ jobNo[q] \in 1..MaxJobs
  BY LeasesAssumption DEF LeasesInv, LeasesTypeOK, LeaseOrder
<1> DEFINE left == ReapedLeases(lease)
<1>1. /\ lease' = [left EXCEPT ![q] = jobNo[q]]
      /\ left \in [Runners -> (1..MaxJobs) \cup {NoLease}]
      /\ \A r \in Runners : left[r] \in {lease[r], NoLease}
  BY <1>0 DEF TakeLease, ReapedLeases, LeasesTypeOK
<1>2. PutBack \subseteq Things /\ host \subseteq Things /\ saved \in (SUBSET Things) \cup {NoFile}
      /\ {User} \subseteq Things
  BY <1>0, PutBackType, ThingsType DEF LeasesTypeOK
<1>3. /\ tool = "simulator" => host' \in {PutBack, host} /\ (HasJobs(left) => host' = host)
      /\ tool # "simulator" => host' = {User}
      /\ saved' \in {PutBack, host, saved}
  BY DEF TakeLease
<1>4. host' \subseteq Things /\ saved' \in (SUBSET Things) \cup {NoFile} /\ (tool = "audio" => User \in host')
  BY <1>2, <1>3
<1>5. ASSUME NEW r \in Runners \ {q}, LiveLease(r) PROVE left[r] = lease[r] /\ HasJobs(left)
  BY <1>0, <1>5, LiveLeaseStays
<1>6. ASSUME NEW r \in Runners \ {q}, LiveLease(r)
      PROVE  lease'[r] = lease[r] /\ (tool = "simulator" => host' = host)
  BY <1>1, <1>3, <1>5, <1>6
<1>7. /\ lease' \in [Runners -> (1..MaxJobs) \cup {NoLease}]
      /\ lease'[q] = jobNo[q] /\ \A r \in Runners \ {q} : lease'[r] \in {lease[r], NoLease}
  BY <1>0, <1>1
<1> QED BY <1>4, <1>6, <1>7

\* A slip is counted, and remembered as one.
LEMMA SlipType ==
    ASSUME LeasesTypeOK, Slip
    PROVE  strayed' \in BOOLEAN /\ slips' \in 0..MaxSlips
<1>1. slips' \in 0..MaxSlips
  BY LeasesAssumption DEF LeasesTypeOK, Slip
<1> QED BY <1>1 DEF Slip

\* Typing, the order of workers, leases and releases, and the mute are kept.
LEMMA LeasesStep == ASSUME LeasesInv, [LeasesNext]_leaseVars PROVE LeasesInv'
<1> USE LeasesAssumption
<1>0. LeasesTypeOK /\ LeaseOrder /\ MutedWhileLeased
  BY DEF LeasesInv
<1>1. ASSUME NEW r \in Runners, JobArrives(r) PROVE LeasesInv'
  <2>1. LeasesTypeOK'
    BY <1>0, <1>1 DEF JobArrives, LeasesTypeOK, Things
  <2>2. LeaseOrder'
    BY <1>0, <1>1 DEF JobArrives, LeasesTypeOK, LeaseOrder, WorkerLive, Guards
  <2>3. \A q \in Runners : LiveLease(q)' => LiveLease(q)
    BY <1>0, <1>1 DEF JobArrives, LeasesTypeOK, LeaseOrder, LiveLease, WorkerLive
  <2> QED BY <1>0, <1>1, <2>1, <2>2, <2>3 DEF JobArrives, LeasesInv, MutedWhileLeased
<1>2. ASSUME NEW r \in Runners, StartLease(r) PROVE LeasesInv'
  <2>1. /\ jobPhase[r] = "starting" /\ TakeLease(r) /\ jobNo[r] \in 1..MaxJobs
        /\ jobPhase' = [jobPhase EXCEPT ![r] = "running"]
        /\ guards' = guards \cup {[key |-> r, owner |-> jobNo[r], stage |-> "watch"]}
        /\ UNCHANGED <<tool, jobNo, mine, strayed, deaths, slips>>
    BY <1>0, <1>2 DEF StartLease, TakeLease, LeasesTypeOK, LeaseOrder
  <2>2. LeasesTypeOK'
    <3>1. guards' \subseteq Guards
      BY <1>0, <2>1 DEF LeasesTypeOK, Guards
    <3>2. Things' = Things
      BY <2>1 DEF Things
    <3> QED BY <1>0, <2>1, <3>1, <3>2, TakeKeeps DEF LeasesInv, LeasesTypeOK
  <2>3. /\ lease'[r] = jobNo[r] /\ \A q \in Runners \ {r} : lease'[q] \in {lease[q], NoLease}
        /\ tool = "audio" => User \in host'
    BY <1>0, <2>1, TakeKeeps DEF LeasesInv
  <2>4. LeaseOrder'
    BY <1>0, <2>1, <2>3 DEF LeasesTypeOK, LeaseOrder, WorkerLive, Guards
  <2> QED BY <2>1, <2>2, <2>3, <2>4 DEF LeasesInv, MutedWhileLeased
<1>3. ASSUME NEW r \in Runners, StartWithout(r) \/ JobEnds(r) PROVE LeasesInv'
  <2>1. LeasesTypeOK'
    <3>1. strayed' \in BOOLEAN /\ slips' \in 0..MaxSlips
      BY <1>0, <1>3, SlipType DEF StartWithout, JobEnds, LeasesTypeOK
    <3> QED BY <1>0, <1>3, <3>1 DEF StartWithout, JobEnds, LeasesTypeOK, Things
  <2>2. /\ \A q \in Runners : jobPhase'[q] = "starting" => jobPhase[q] = "starting"
        /\ \A q \in Runners : jobPhase'[q] # "none" <=> jobPhase[q] # "none"
        /\ UNCHANGED <<tool, jobNo, lease, guards, host>>
    BY <1>0, <1>3 DEF StartWithout, JobEnds, LeasesTypeOK
  <2>3. LeaseOrder'
    BY <1>0, <2>2 DEF LeasesTypeOK, LeaseOrder, WorkerLive, Guards
  <2>4. \A q \in Runners : LiveLease(q)' => LiveLease(q)
    BY <2>2 DEF LiveLease, WorkerLive
  <2> QED BY <1>0, <2>1, <2>2, <2>3, <2>4 DEF LeasesInv, MutedWhileLeased
<1>4. ASSUME NEW r \in Runners, MuteFails(r) PROVE LeasesInv'
  <2>1. /\ lease' \in [Runners -> (1..MaxJobs) \cup {NoLease}]
        /\ \A q \in Runners : lease'[q] \in {lease[q], NoLease} /\ lease'[r] = NoLease
        /\ UNCHANGED <<tool, jobNo, guards, host>>
    BY <1>0, <1>4 DEF MuteFails, ReapedLeases, LeasesTypeOK
  <2>2. LeasesTypeOK'
    BY <1>0, <1>4, <2>1 DEF MuteFails, Slip, LeasesTypeOK, Things
  <2>3. /\ \A q \in Runners : jobPhase'[q] = "starting" => jobPhase[q] = "starting"
        /\ \A q \in Runners : jobPhase'[q] # "none" <=> jobPhase[q] # "none"
    BY <1>0, <1>4 DEF MuteFails, LeasesTypeOK
  <2>4. LeaseOrder'
    BY <1>0, <2>1, <2>3 DEF LeasesTypeOK, LeaseOrder, WorkerLive, Guards
  <2>5. \A q \in Runners : LiveLease(q)' => LiveLease(q)
    BY <2>1, <2>3 DEF LiveLease, WorkerLive
  <2> QED BY <1>0, <2>1, <2>2, <2>4, <2>5 DEF LeasesInv, MutedWhileLeased
<1>5. ASSUME NEW r \in Runners, BootDevice(r) PROVE LeasesInv'
  <2>1. LeasesTypeOK'
    BY <1>0, <1>5 DEF BootDevice, LeasesTypeOK, Things
  <2> QED BY <1>0, <1>5, <2>1 DEF BootDevice, LeasesInv, LeaseOrder, MutedWhileLeased, WorkerLive
<1>6. ASSUME NEW r \in Runners, CompleteLease(r) PROVE LeasesInv'
  <2>1. /\ jobPhase' = [jobPhase EXCEPT ![r] = "none"]
        /\ UNCHANGED <<tool, jobNo, guards, mine, deaths>>
        /\ \/ ReleaseLease(r) /\ UNCHANGED <<strayed, slips>>
           \/ Slip /\ UNCHANGED <<lease, host, saved>>
    BY <1>6 DEF CompleteLease
  <2>2. /\ lease' \in [Runners -> (1..MaxJobs) \cup {NoLease}]
        /\ \A q \in Runners : lease'[q] \in {lease[q], NoLease}
        /\ host' \subseteq Things /\ saved' \in (SUBSET Things) \cup {NoFile}
        /\ \A q \in Runners \ {r} : LiveLease(q) => host' = host
    BY <1>0, <2>1, ReleaseKeeps DEF LeasesInv, LeasesTypeOK
  <2>3. LeasesTypeOK'
    <3>1. strayed' \in BOOLEAN /\ slips' \in 0..MaxSlips
      BY <1>0, <2>1, SlipType DEF LeasesTypeOK
    <3> QED BY <1>0, <2>1, <2>2, <3>1 DEF LeasesTypeOK, Things
  <2>4. LeaseOrder'
    BY <1>0, <2>1, <2>2 DEF LeasesTypeOK, LeaseOrder, WorkerLive, Guards
  <2>5. \A q \in Runners : LiveLease(q)' => q # r /\ LiveLease(q)
    BY <1>0, <2>1, <2>2 DEF LiveLease, WorkerLive, LeasesTypeOK
  <2> QED BY <1>0, <2>1, <2>2, <2>3, <2>4, <2>5 DEF LeasesInv, MutedWhileLeased
<1>7. ASSUME NEW r \in Runners, WorkerDies(r) PROVE LeasesInv'
  <2>1. /\ jobPhase' = [jobPhase EXCEPT ![r] = "none"] /\ jobNo[r] \in 1..MaxJobs
        /\ guards' \subseteq guards \cup {[key |-> r, owner |-> jobNo[r], stage |-> "complete"]}
        /\ UNCHANGED <<tool, jobNo, lease, saved, host, mine, strayed, slips>>
    BY <1>0, <1>7 DEF WorkerDies, LeasesTypeOK, LeaseOrder
  <2>2. LeasesTypeOK'
    <3>1. guards' \subseteq Guards
      BY <1>0, <2>1 DEF LeasesTypeOK, Guards
    <3> QED BY <1>0, <1>7, <2>1, <3>1 DEF WorkerDies, LeasesTypeOK, Things
  <2>3. LeaseOrder'
    BY <1>0, <2>1 DEF LeasesTypeOK, LeaseOrder, WorkerLive, Guards
  <2>4. \A q \in Runners : LiveLease(q)' => LiveLease(q)
    BY <1>0, <2>1 DEF LiveLease, WorkerLive, LeasesTypeOK
  <2> QED BY <1>0, <2>1, <2>2, <2>3, <2>4 DEF LeasesInv, MutedWhileLeased
<1>8. ASSUME NEW g \in guards, GuardLooks(g) \/ GuardLost(g) PROVE LeasesInv'
  <2>1. /\ \/ guards' = guards \ {g}
           \/ /\ ~WorkerLive(g.key, g.owner)
              /\ guards' = (guards \ {g}) \cup {[g EXCEPT !.stage = "release"]}
        /\ UNCHANGED <<tool, jobNo, jobPhase, lease, saved, host, mine, deaths>>
    BY <1>8 DEF GuardLooks, GuardLost
  <2>2. LeasesTypeOK'
    <3>1. guards' \subseteq Guards
      BY <1>0, <2>1 DEF LeasesTypeOK, Guards
    <3>2. strayed' \in BOOLEAN /\ slips' \in 0..MaxSlips
      BY <1>0, <1>8, SlipType DEF GuardLooks, GuardLost, LeasesTypeOK
    <3>3. UNCHANGED <<tool, jobNo, jobPhase, lease, saved, host, mine, deaths>>
      BY <2>1
    <3> QED BY <1>0, <3>1, <3>2, <3>3 DEF LeasesTypeOK, Things
  <2>3. LeaseOrder'
    BY <1>0, <2>1 DEF LeasesTypeOK, LeaseOrder, WorkerLive, Guards
  <2> QED BY <1>0, <2>1, <2>2, <2>3 DEF LeasesInv, MutedWhileLeased, LiveLease, WorkerLive
<1>9. ASSUME NEW g \in guards, GuardReleases(g) PROVE LeasesInv'
  <2>1. /\ g.key \in Runners /\ guards' = guards \ {g} /\ ReleaseLease(g.key)
        /\ strayed' \in BOOLEAN /\ UNCHANGED <<tool, jobNo, jobPhase, mine, deaths, slips>>
    BY <1>0, <1>9 DEF GuardReleases, LeasesTypeOK, Guards
  <2>2. /\ lease' \in [Runners -> (1..MaxJobs) \cup {NoLease}]
        /\ lease'[g.key] = NoLease /\ \A q \in Runners : lease'[q] \in {lease[q], NoLease}
        /\ host' \subseteq Things /\ saved' \in (SUBSET Things) \cup {NoFile}
        /\ \A q \in Runners \ {g.key} : LiveLease(q) => host' = host
    BY <1>0, <2>1, ReleaseKeeps DEF LeasesInv
  <2>3. LeasesTypeOK'
    BY <1>0, <2>1, <2>2 DEF LeasesTypeOK, Things
  <2>4. LeaseOrder'
    BY <1>0, <2>1, <2>2 DEF LeasesTypeOK, LeaseOrder, WorkerLive, Guards
  <2>5. \A q \in Runners : LiveLease(q)' => q # g.key /\ LiveLease(q)
    BY <2>1, <2>2 DEF LiveLease, WorkerLive
  <2> QED BY <1>0, <2>1, <2>2, <2>3, <2>4, <2>5 DEF LeasesInv, MutedWhileLeased
<1>10. CASE UserActs
  <2>1. LeasesTypeOK'
    <3>1. mine' \subseteq {User} /\ host' \subseteq Things
      BY <1>0, <1>10, ThingsType DEF UserActs, LeasesTypeOK
    <3> QED BY <1>0, <1>10, <3>1 DEF UserActs, LeasesTypeOK, Things
  <2>2. \A q \in Runners : ~LiveLease(q)'
    BY <1>10 DEF UserActs, LiveLease, WorkerLive
  <2> QED BY <1>0, <1>10, <2>1, <2>2 DEF UserActs, LeasesInv, LeaseOrder, MutedWhileLeased, WorkerLive
<1>11. CASE UNCHANGED leaseVars
  BY <1>0, <1>11 DEF leaseVars, LeasesInv, LeasesTypeOK, LeaseOrder, MutedWhileLeased,
     LiveLease, WorkerLive, Things
<1> QED
  BY <1>1, <1>2, <1>3, <1>4, <1>5, <1>6, <1>7, <1>8, <1>9, <1>10, <1>11 DEF LeasesNext

LEMMA LeasesInitially == LeasesInit => LeasesInv
<1> SUFFICES ASSUME LeasesInit PROVE LeasesInv
  OBVIOUS
<1>1. strayed \in BOOLEAN
  BY DEF LeasesInit
<1>2. LeasesTypeOK
  BY <1>1, LeasesAssumption DEF LeasesInit, LeasesTypeOK
<1>3. LeaseOrder /\ MutedWhileLeased
  BY DEF LeasesInit, LeaseOrder, MutedWhileLeased, LiveLease, WorkerLive
<1> QED BY <1>2, <1>3 DEF LeasesInv

\* The leases, guardians and baselines have their types in every reachable state.
THEOREM LeasesTypeCorrect == LeasesSpec => []LeasesTypeOK
<1>1. LeasesInv /\ [LeasesNext]_leaseVars => LeasesInv'
  BY LeasesStep
<1>2. LeasesInv => LeasesTypeOK
  BY DEF LeasesInv
<1> QED BY <1>1, <1>2, LeasesInitially, PTL DEF LeasesSpec

LEMMA SpareStep ==
    ASSUME LeasesInv, [LeasesNext]_leaseVars, NEW r \in Runners, LiveLease(r)
    PROVE  LateRelease(r) \/ Spared(r)
<1>0. LeasesTypeOK /\ LeaseOrder /\ jobPhase[r] # "none" /\ lease[r] = jobNo[r]
      /\ jobPhase[r] # "starting" /\ lease[r] \in 1..MaxJobs
      /\ (tool = "audio" => User \in host)
  BY DEF LeasesInv, LiveLease, WorkerLive, LeaseOrder, LeasesTypeOK, MutedWhileLeased
<1>1. lease'[r] = lease[r] /\ host \subseteq host' => Spared(r)
  BY <1>0 DEF Spared
<1>2. ASSUME NEW q \in Runners,
             \/ JobArrives(q) \/ StartWithout(q) \/ BootDevice(q) \/ JobEnds(q) \/ WorkerDies(q)
      PROVE  lease' = lease /\ host \subseteq host'
  BY <1>2 DEF JobArrives, StartWithout, BootDevice, JobEnds, WorkerDies
<1>3. ASSUME NEW q \in Runners, StartLease(q) PROVE Spared(r)
  <2>1. q # r /\ jobPhase[q] = "starting" /\ TakeLease(q)
    BY <1>0, <1>3 DEF StartLease
  <2>2. /\ lease'[r] = lease[r] /\ (tool = "simulator" => host' = host)
        /\ (tool = "audio" => User \in host')
    BY <2>1, TakeKeeps
  <2> QED BY <1>0, <2>2 DEF Spared
<1>4. ASSUME NEW q \in Runners, MuteFails(q) PROVE lease'[r] = lease[r] /\ host' = host
  <2>1. q # r /\ host' = host /\ lease' = [ReapedLeases(lease) EXCEPT ![q] = NoLease]
    BY <1>0, <1>4 DEF MuteFails
  <2>2. ReapedLeases(lease)[r] = lease[r] /\ ReapedLeases(lease) \in [Runners -> (1..MaxJobs) \cup {NoLease}]
    BY <1>0, LiveLeaseStays DEF ReapedLeases, LeasesTypeOK
  <2> QED BY <2>1, <2>2
<1>5. ASSUME NEW q \in Runners, CompleteLease(q) PROVE Spared(r)
  <2>1. CASE Slip /\ UNCHANGED <<lease, host, saved>>
    BY <1>1, <2>1
  <2>2. CASE ReleaseLease(q) /\ q # r
    BY <1>1, <2>2, ReleaseKeeps
  <2>3. CASE ReleaseLease(q) /\ q = r
    <3>1. lease'[r] = NoLease /\ lease[r] # NoLease
      BY <2>3, ReleaseKeeps DEF LiveLease
    <3>2. jobPhase[r] = "ending" /\ jobPhase'[r] = "none"
      BY <1>0, <1>5, <2>3 DEF CompleteLease, LeasesTypeOK
    <3> QED BY <3>1, <3>2 DEF Spared
  <2> QED BY <1>5, <2>1, <2>2, <2>3 DEF CompleteLease
<1>6. ASSUME NEW g \in guards, GuardReleases(g) PROVE LateRelease(r) \/ Spared(r)
  <2>1. /\ g.key \in Runners /\ guards' = guards \ {g} /\ ReleaseLease(g.key)
        /\ g.stage # "watch" /\ g.owner \in 1..MaxJobs
    BY <1>0, <1>6 DEF GuardReleases, LeasesTypeOK, Guards
  <2>2. CASE g.key # r
    BY <1>1, <2>1, <2>2, ReleaseKeeps
  <2>3. CASE g.key = r
    <3>1. g.owner <= jobNo[r] /\ g.owner # jobNo[r]
      BY <1>0, <2>1, <2>3 DEF LeaseOrder, WorkerLive
    <3>2. g.owner < lease[r] /\ g \in guards \ guards'
      BY <1>0, <2>1, <3>1 DEF LeasesTypeOK
    <3> QED BY <2>1, <2>3, <3>2 DEF LateRelease, MetTheNext
  <2> QED BY <2>2, <2>3
<1>7. ASSUME NEW g \in guards, GuardLooks(g) \/ GuardLost(g) PROVE lease' = lease /\ host' = host
  BY <1>7 DEF GuardLooks, GuardLost
<1>8. ~UserActs
  BY <1>0 DEF UserActs
<1>9. CASE UNCHANGED leaseVars
  BY <1>1, <1>9 DEF leaseVars
<1> QED
  BY <1>1, <1>2, <1>3, <1>4, <1>5, <1>6, <1>7, <1>8, <1>9 DEF LeasesNext

\* A job that starts or ends, a mute that fails, a guardian that looks, a release for
\* another runner and a baseline that is put back leave a live job its lease, its
\* device and the silence (sim_release, sim_cleanup_new_devices, audio_release); only
\* its own completed hook and, as NextJobKeepsItsLease has it, a late release for an
\* earlier worker of its runner take the lease away.
THEOREM OverlappingJobsSpared == LeasesSpec => JobsSpareEachOther
<1>1. LeasesInv /\ [LeasesNext]_leaseVars => LeasesInv'
  BY LeasesStep
<1>2. LeasesInv /\ [LeasesNext]_leaseVars =>
        [\A r \in Runners : LiveLease(r) /\ ~LateRelease(r) => Spared(r)]_leaseVars
  BY SpareStep
<1> QED
  BY <1>1, <1>2, LeasesInitially, PTL DEF LeasesSpec, JobsSpareEachOther

------------------------------------------------------------------------------
(* The standby tiers: a host that is off stays drained.                     *)

TierActions == {"none", "drain", "resume"}
ChainEntries == [runner : Primary, action : TierActions, late : BOOLEAN]
TierOrders == [action : TierActions, names : SUBSET Standby, late : BOOLEAN]

\* While a host is off all that is on its way to it was so before it was switched off.
OnlyLate ==
    /\ place["primary"] = "off" => \A i \in 1..Len(chain) : chain[i].late
    /\ place["standby"] = "off" => \A o \in orders : o.late

\* The controller's memory of the last step.
CtlOK ==
    /\ ctl.overflow \in {"unknown", "active", "standby"}
    /\ ctl.clear \subseteq {h \in HostNames : ctl.admit[h]}

QueuesOK ==
    /\ chain \in Seq(ChainEntries)
    /\ orders \subseteq TierOrders /\ \A o \in orders : o.names # {}
    /\ OnlyLate

\* Jobs queue only when something happens.
CrewOK ==
    /\ marker \in [Crew -> {"none", "tiers", "host", "operator"}]
    /\ working \subseteq Crew
    /\ place \in [HostNames -> {"ok", "off", "blocked", "critical"}]
    /\ waiting \in [Projects -> Nat] /\ \A p \in Projects : waiting[p] <= events
    /\ events \in 0..MaxEvents
    /\ ripe \subseteq Timers

TiersInv == CrewOK /\ CtlOK /\ QueuesOK

\* The invariant is about the type of every variable.
LEMMA TiersInvTypes == TiersInv => TiersTypeOK
<1> SUFFICES ASSUME TiersInv PROVE TiersTypeOK
  OBVIOUS
<1>1. waiting \in [Projects -> 0..MaxEvents]
  BY TiersAssumption DEF TiersInv, CrewOK
<1>2. \A i \in DOMAIN chain : chain[i].runner \in Primary
  <2>1. \A i \in 1..Len(chain) : chain[i] \in ChainEntries
    BY DEF TiersInv, QueuesOK
  <2>2. DOMAIN chain = 1..Len(chain)
    BY DEF TiersInv, QueuesOK
  <2> QED BY <2>1, <2>2 DEF ChainEntries
<1>3. \A o \in orders : o.names \subseteq Standby /\ o.names # {}
  BY DEF TiersInv, QueuesOK, TierOrders
<1> QED BY <1>1, <1>2, <1>3 DEF TiersInv, CrewOK, CtlOK, TiersTypeOK

\* Whatever is wanted of the runners is an action.
LEMMA WantsType == ASSUME NEW want \in Wants PROVE \A r \in Crew : want[r] \in TierActions
<1>1. \A r, woken : WantOfStandby(r, woken) \in TierActions
  BY DEF WantOfStandby, WantOfOverflow, WantOfKept, TierActions
<1>2. \A p, kept, slotted : WantOfPrimary(p, kept, slotted) \in TierActions
  BY DEF WantOfPrimary, TierActions
<1> DEFINE Kept(woken) == [r \in Standby |-> WantOfStandby(r, woken)]
<1> DEFINE chosen == {CHOOSE r \in BestFit(p) : TRUE : p \in {q \in Queued : ~TakesSoon(q) /\ Fit(q) # {}}}
<1> DEFINE Whole(kept, slotted) ==
             [r \in Crew |-> IF r \in Standby THEN kept[r] ELSE WantOfPrimary(r, kept, slotted)]
<1>3. PICK woken, slotted : want = Whole(Kept(woken), slotted)
  <2>1. want \in UNION {{Whole(kept, slotted) : slotted \in SlotsGiven(kept)} : kept \in {Kept(chosen)}}
    BY DEF Wants
  <2> HIDE DEF Whole, Kept, chosen
  <2>2. PICK kept \in {Kept(chosen)} : want \in {Whole(kept, slotted) : slotted \in SlotsGiven(kept)}
    BY <2>1
  <2> QED BY <2>2
<1>4. ASSUME NEW r \in Crew
      PROVE  \/ want[r] = WantOfStandby(r, woken)
             \/ want[r] = WantOfPrimary(r, Kept(woken), slotted)
  BY <1>3
<1> QED BY <1>1, <1>2, <1>4

\* The two hosts' runners are apart.
LEMMA HostsApart ==
    /\ \A r \in Primary : HostOf(r) = "primary" /\ r \in Crew
    /\ \A r \in Standby : HostOf(r) = "standby" /\ r \in Crew /\ r \notin Primary
    /\ \A r \in Crew : HostOf(r) \in HostNames
BY TiersAssumption DEF HostOf, Crew, HostNames

\* A drain or a resume of one runner changes its marker only, and leaves a foreign
\* one alone.
LEMMA MarkedType ==
    ASSUME CrewOK, NEW r \in Crew, NEW action, Marked(r, action)
    PROVE  /\ marker' \in [Crew -> {"none", "tiers", "host", "operator"}]
           /\ \A q \in Crew \ {r} : marker'[q] = marker[q]
BY DEF Marked, CrewOK

\* The chain grows by what is decided.
LEMMA ChainGrows ==
    ASSUME NEW T, NEW c \in Seq(T), NEW n \in Nat, NEW f \in [1..n -> T]
    PROVE  /\ c \o f \in Seq(T) /\ Len(c \o f) = Len(c) + n
           /\ \A i \in 1..Len(c) : (c \o f)[i] = c[i]
<1>1. f \in Seq(T) /\ Len(f) = n
  OBVIOUS
<1> QED BY <1>1

\* Sequences of the same elements are the same.
LEMMA SameSequence ==
    ASSUME NEW T, NEW c \in Seq(T), NEW d \in Seq(T), Len(c) = Len(d),
           \A i \in 1..Len(c) : c[i] = d[i]
    PROVE  c = d
OBVIOUS

\* A step of the controller sends nothing to a host it sees off, and knows its own.
LEMMA TierTick == ASSUME TiersInv, Tick PROVE TiersInv'
<1>0. /\ UNCHANGED <<park, marker, working, waiting, place, linked, report, events>>
      /\ \E want \in Wants : Decide(want, Issued(want))
  BY DEF Tick
<1>1. PICK want \in Wants : Decide(want, Issued(want))
  BY <1>0
<1> DEFINE out == Issued(want)
<1>2. out \subseteq Crew /\ (place["primary"] = "off" => out \cap Primary = {})
  BY HostsApart DEF Issued, PlaceOf
<1>3. /\ ctl' = [overflow |-> OverflowNow, atCap |-> AtCap, shed |-> Shedding,
                 admit |-> [h \in HostNames |-> CannotAdmit(h)],
                 clear |-> {h \in HostNames : CannotAdmit(h) /\ Clear(h)}, quiet |-> Quiet]
      /\ orders' = orders \cup
            {[action |-> a, names |-> {r \in out \cap Standby : want[r] = a},
              late |-> place["standby"] = "off"] : a \in {want[r] : r \in out \cap Standby}}
      /\ ripe' \subseteq ripe
  BY <1>1 DEF Decide
<1>4. PICK s \in [1..Cardinality(out \cap Primary) -> out \cap Primary] :
          chain' = chain \o [i \in DOMAIN s |->
                        [runner |-> s[i], action |-> want[s[i]], late |-> FALSE]]
  BY <1>1 DEF Decide
<1> HIDE DEF out
<1>5. CtlOK'
  <2>1. OverflowNow \in {"active", "standby"}
    BY DEF OverflowNow, WasOverflow, TiersInv, CtlOK
  <2> QED BY <1>3, <2>1 DEF CtlOK
<1>6. CrewOK'
  BY <1>0, <1>3 DEF TiersInv, CrewOK, Timers
<1>7. /\ chain' \in Seq(ChainEntries)
      /\ place["primary"] = "off" => chain' = chain
  <2>1. Cardinality(out \cap Primary) \in Nat
    BY TiersAssumption, FS_Subset, FS_CardinalityType
  <2>2. \A i \in 1..Cardinality(out \cap Primary) : want[s[i]] \in TierActions /\ s[i] \in Primary
    BY <1>2, WantsType
  <2> DEFINE f == [i \in 1..Cardinality(out \cap Primary) |->
                        [runner |-> s[i], action |-> want[s[i]], late |-> FALSE]]
  <2>3. f \in [1..Cardinality(out \cap Primary) -> ChainEntries]
    BY <2>2 DEF ChainEntries
  <2>4. chain' = chain \o f /\ chain \in Seq(ChainEntries)
    BY <1>4 DEF TiersInv, QueuesOK
  <2>5. chain' \in Seq(ChainEntries)
    BY <2>1, <2>3, <2>4, ChainGrows
  <2>6. ASSUME place["primary"] = "off" PROVE chain' = chain
    <3>1. Cardinality(out \cap Primary) = 0
      BY <1>2, <2>6, FS_EmptySet
    <3>2. Len(chain') = Len(chain) /\ \A i \in 1..Len(chain) : chain'[i] = chain[i]
      BY <2>1, <2>3, <2>4, <3>1, ChainGrows
    <3> QED BY <2>4, <2>5, <3>2, SameSequence
  <2> QED BY <2>5, <2>6
<1>8. \A o \in orders' \ orders :
         /\ o \in TierOrders /\ o.names # {}
         /\ o.late = (place["standby"] = "off")
  <2> SUFFICES ASSUME NEW r \in out \cap Standby
               PROVE  LET o == [action |-> want[r], names |-> {q \in out \cap Standby : want[q] = want[r]},
                                late |-> place["standby"] = "off"] IN
                      o \in TierOrders /\ o.names # {} /\ o.late = (place["standby"] = "off")
    BY <1>3
  <2>1. want[r] \in TierActions
    BY <1>2, WantsType
  <2>2. (place["standby"] = "off") \in BOOLEAN
    OBVIOUS
  <2> QED BY <2>1, <2>2 DEF TierOrders
<1>9. OnlyLate'
  <2>1. place' = place /\ OnlyLate
    BY <1>0 DEF TiersInv, QueuesOK
  <2>2. ASSUME place["standby"] = "off", NEW o \in orders' PROVE o.late
    <3>1. CASE o \in orders
      BY <2>1, <2>2, <3>1 DEF OnlyLate
    <3>2. CASE o \notin orders
      BY <1>8, <2>2, <3>2
    <3> QED BY <3>1, <3>2
  <2> QED BY <1>7, <2>1, <2>2 DEF OnlyLate
<1>10. QueuesOK'
  BY <1>7, <1>8, <1>9 DEF TiersInv, QueuesOK
<1> QED BY <1>5, <1>6, <1>10 DEF TiersInv

\* What does not touch the queues or the places keeps what is late.
LEMMA QueuesSame ==
    ASSUME QueuesOK, UNCHANGED <<place, chain, orders>> PROVE QueuesOK'
BY DEF QueuesOK, OnlyLate

\* The coordinator's own scripts go on, in order.
LEMMA TierChain == ASSUME TiersInv, ChainStep PROVE TiersInv'
<1>1. /\ chain # <<>> /\ chain' = Tail(chain) /\ Marked(Head(chain).runner, Head(chain).action)
      /\ UNCHANGED <<park, working, waiting, place, linked, report, ctl, ripe, orders, events>>
  BY DEF ChainStep
<1>2. chain \in Seq(ChainEntries) /\ OnlyLate
  BY DEF TiersInv, QueuesOK
<1>3. Head(chain).runner \in Crew
  <2>1. Head(chain) = chain[1] /\ 1 \in 1..Len(chain)
    BY <1>1, <1>2
  <2>2. chain[1] \in ChainEntries
    BY <1>2, <2>1
  <2> QED BY <2>1, <2>2 DEF ChainEntries, Crew
<1>4. CrewOK'
  BY <1>1, <1>3, MarkedType DEF TiersInv, CrewOK, Timers
<1>5. CtlOK'
  BY <1>1 DEF TiersInv, CtlOK
<1>6. /\ chain' \in Seq(ChainEntries)
      /\ \A i \in 1..Len(chain') : i + 1 \in 1..Len(chain) /\ chain'[i] = chain[i + 1]
  BY <1>1, <1>2
<1>7. QueuesOK'
  <2>1. OnlyLate'
    BY <1>1, <1>2, <1>6 DEF OnlyLate
  <2> QED BY <1>1, <1>6, <2>1 DEF TiersInv, QueuesOK
<1> QED BY <1>4, <1>5, <1>7 DEF TiersInv

\* The agent goes on with a command: what is left of it is a command of its kind.
LEMMA TierOrder ==
    ASSUME TiersInv, NEW o \in orders, NEW r \in Standby, OrderStep(o, r) PROVE TiersInv'
<1>1. /\ r \in o.names /\ Marked(r, o.action)
      /\ orders' = (orders \ {o}) \cup
                     (IF o.names = {r} THEN {} ELSE {[o EXCEPT !.names = @ \ {r}]})
      /\ UNCHANGED <<park, working, waiting, place, linked, report, ctl, ripe, chain, events>>
  BY DEF OrderStep
<1>2. CrewOK'
  BY <1>1, HostsApart, MarkedType DEF TiersInv, CrewOK, Timers
<1>3. CtlOK'
  BY <1>1 DEF TiersInv, CtlOK
<1>4. o \in TierOrders /\ OnlyLate
  BY DEF TiersInv, QueuesOK
<1> DEFINE left == [o EXCEPT !.names = @ \ {r}]
<1>5. left \in TierOrders /\ left.late = o.late /\ (o.names # {r} => left.names # {})
  BY <1>1, <1>4 DEF TierOrders
<1> HIDE DEF left
<1>6. \A x \in orders' : x \in orders \/ (x = left /\ o.names # {r})
  BY <1>1 DEF left
<1>7. OnlyLate'
  BY <1>1, <1>4, <1>5, <1>6 DEF OnlyLate
<1>8. \A x \in orders' : x \in TierOrders /\ x.names # {}
  BY <1>5, <1>6 DEF TiersInv, QueuesOK
<1>9. QueuesOK'
  BY <1>1, <1>7, <1>8 DEF TiersInv, QueuesOK
<1> QED BY <1>2, <1>3, <1>9 DEF TiersInv

\* A host is switched off: all that is on its way to it is late.
LEMMA TierHostOff == ASSUME TiersInv, NEW h \in HostNames, HostOff(h) PROVE TiersInv'
<1>1. /\ Happens /\ Late(h)
      /\ place' = [place EXCEPT ![h] = "off"]
      /\ marker' = [r \in Crew |-> IF HostOf(r) = h /\ marker[r] = "none" THEN "host" ELSE marker[r]]
      /\ UNCHANGED <<park, working, waiting, linked, report, ctl, ripe>>
  BY DEF HostOff
<1>2. CrewOK'
  <2>1. events' \in 0..MaxEvents /\ events' = events + 1
    BY <1>1, TiersAssumption DEF TiersInv, CrewOK, Happens
  <2>2. \A p \in Projects : waiting'[p] <= events'
    BY <1>1, <2>1, TiersAssumption DEF TiersInv, CrewOK
  <2>3. /\ marker' \in [Crew -> {"none", "tiers", "host", "operator"}]
        /\ place' \in [HostNames -> {"ok", "off", "blocked", "critical"}]
    BY <1>1 DEF TiersInv, CrewOK
  <2> QED BY <1>1, <2>1, <2>2, <2>3 DEF TiersInv, CrewOK, Timers
<1>3. CtlOK'
  BY <1>1 DEF TiersInv, CtlOK
<1>4. /\ chain \in Seq(ChainEntries) /\ orders \subseteq TierOrders /\ OnlyLate
      /\ \A o \in orders : o.names # {}
      /\ place \in [HostNames -> {"ok", "off", "blocked", "critical"}]
  BY DEF TiersInv, QueuesOK, CrewOK
<1>5. /\ chain' \in Seq(ChainEntries) /\ Len(chain') = Len(chain)
      /\ \A i \in 1..Len(chain) : chain'[i].late = (chain[i].late \/ h = "primary")
  <2>1. DOMAIN chain = 1..Len(chain) /\ Len(chain) \in Nat
    BY <1>4
  <2> DEFINE e(i) == [chain[i] EXCEPT !.late = @ \/ h = "primary"]
  <2>2. chain' = [i \in 1..Len(chain) |-> e(i)]
    BY <1>1, <2>1 DEF Late
  <2>3. \A i \in 1..Len(chain) : e(i) \in ChainEntries /\ e(i).late = (chain[i].late \/ h = "primary")
    <3> SUFFICES ASSUME NEW i \in 1..Len(chain)
                 PROVE  e(i) \in ChainEntries /\ e(i).late = (chain[i].late \/ h = "primary")
      OBVIOUS
    <3>1. chain[i] \in ChainEntries
      BY <1>4
    <3>2. (chain[i].late \/ h = "primary") \in BOOLEAN
      OBVIOUS
    <3> QED BY <3>1, <3>2 DEF ChainEntries
  <2> HIDE DEF e
  <2>4. chain' \in [1..Len(chain) -> ChainEntries]
    BY <2>2, <2>3
  <2> QED BY <2>1, <2>2, <2>3, <2>4
<1>6. \A x \in orders' : /\ x \in TierOrders /\ x.names # {}
                         /\ \E o \in orders : x.late = (o.late \/ h = "standby")
  <2> SUFFICES ASSUME NEW o \in orders
               PROVE  LET x == [o EXCEPT !.late = @ \/ h = "standby"] IN
                      /\ x \in TierOrders /\ x.names # {}
                      /\ x.late = (o.late \/ h = "standby")
    BY <1>1 DEF Late
  <2>1. o \in TierOrders /\ o.names # {}
    BY <1>4
  <2>2. (o.late \/ h = "standby") \in BOOLEAN
    OBVIOUS
  <2> QED BY <2>1, <2>2 DEF TierOrders
<1>7. \A g \in HostNames : place'[g] = "off" => g = h \/ place[g] = "off"
  BY <1>1, <1>4
<1>8. OnlyLate'
  <2>1. "primary" \in HostNames /\ "standby" \in HostNames
    BY DEF HostNames
  <2>2. ASSUME place'["primary"] = "off", NEW i \in 1..Len(chain') PROVE chain'[i].late
    <3>1. chain[i].late \/ h = "primary"
      BY <1>4, <1>5, <1>7, <2>1, <2>2 DEF OnlyLate
    <3> QED BY <1>5, <3>1
  <2>3. ASSUME place'["standby"] = "off", NEW x \in orders' PROVE x.late
    BY <1>4, <1>6, <1>7, <2>1, <2>3 DEF OnlyLate
  <2> QED BY <2>2, <2>3 DEF OnlyLate
<1>9. QueuesOK'
  BY <1>5, <1>6, <1>8 DEF QueuesOK
<1> QED BY <1>2, <1>3, <1>9 DEF TiersInv

\* What else happens on the hosts: only a host that comes or goes changes its place,
\* and none but HostOff makes it "off".
LEMMA TierHosts ==
    ASSUME TiersInv, NEW h \in HostNames,
           \/ HostOn(h) \/ \E to \in {"ok", "blocked", "critical"} : HostTurns(h, to)
    PROVE  TiersInv'
<1>1. PICK to \in {"ok", "blocked", "critical"} :
         /\ place' = [place EXCEPT ![h] = to]
         /\ UNCHANGED events \/ Happens
         /\ UNCHANGED <<park, working, waiting, linked, report, ctl, ripe, chain, orders>>
         /\ marker' \in [Crew -> {"none", "tiers", "host", "operator"}]
  <2>1. CASE HostOn(h)
    BY <2>1 DEF HostOn, TiersInv, CrewOK
  <2>2. CASE \E to \in {"ok", "blocked", "critical"} : HostTurns(h, to)
    BY <2>2 DEF HostTurns, TiersInv, CrewOK
  <2> QED BY <2>1, <2>2
<1>2. events' \in 0..MaxEvents /\ events' >= events
  BY <1>1, TiersAssumption DEF TiersInv, CrewOK, Happens
<1>3. \A p \in Projects : waiting'[p] <= events'
  BY <1>1, <1>2, TiersAssumption DEF TiersInv, CrewOK
<1>4. place' \in [HostNames -> {"ok", "off", "blocked", "critical"}]
  BY <1>1 DEF TiersInv, CrewOK
<1>5. CrewOK'
  BY <1>1, <1>2, <1>3, <1>4 DEF TiersInv, CrewOK, Timers
<1>6. CtlOK'
  BY <1>1 DEF TiersInv, CtlOK
<1>7. \A g \in HostNames : place'[g] = "off" => place[g] = "off"
  BY <1>1 DEF TiersInv, CrewOK
<1>8. QueuesOK'
  BY <1>1, <1>7 DEF TiersInv, QueuesOK, OnlyLate, HostNames
<1> QED BY <1>5, <1>6, <1>8 DEF TiersInv

\* The other steps of jobs, operators, agents, heartbeats, timers and commands leave
\* the places alone and put nothing on its way.
LEMMA TierRest ==
    ASSUME TiersInv,
           \/ Heartbeat \/ TiersRestart \/ LinkTurns
           \/ \E t \in Timers : TimerRipens(t)
           \/ \E o \in orders : OrderLost(o)
           \/ \E r \in Crew : \/ AgentReleases(r) \/ RunTaken(r) \/ RunEnds(r)
                              \/ OperatorDrains(r) \/ OperatorResumes(r)
           \/ \E p \in Projects : RunQueued(p)
    PROVE  TiersInv'
<1>0. /\ CrewOK /\ CtlOK /\ QueuesOK
      /\ events \in 0..MaxEvents /\ MaxEvents \in Nat
      /\ waiting \in [Projects -> Nat]
  BY TiersAssumption DEF TiersInv, CrewOK
<1>1. CASE Heartbeat
  BY <1>0, <1>1, QueuesSame DEF Heartbeat, TiersInv, CrewOK, CtlOK
<1>2. CASE TiersRestart
  <2>1. /\ Happens /\ ctl' = NoState /\ ripe' = ripe \cap Projects /\ chain' = <<>>
        /\ UNCHANGED <<park, marker, working, waiting, place, linked, report, orders>>
    BY <1>2 DEF TiersRestart
  <2>2. events' \in 0..MaxEvents /\ events' >= events
    BY <1>0, <2>1 DEF Happens
  <2>3. \A p \in Projects : waiting'[p] <= events'
    BY <1>0, <2>1, <2>2 DEF CrewOK
  <2>4. CrewOK'
    BY <1>0, <2>1, <2>2, <2>3 DEF CrewOK, Timers
  <2>5. CtlOK'
    BY <2>1 DEF CtlOK, NoState
  <2>6. QueuesOK'
    BY <1>0, <2>1 DEF QueuesOK, OnlyLate
  <2> QED BY <2>4, <2>5, <2>6 DEF TiersInv
<1>3. CASE LinkTurns
  <2>1. /\ UNCHANGED events \/ Happens
        /\ UNCHANGED <<park, marker, working, waiting, place, report, ctl, ripe, chain, orders>>
    BY <1>3 DEF LinkTurns
  <2>2. events' \in 0..MaxEvents /\ events' >= events
    BY <1>0, <2>1 DEF Happens
  <2>3. \A p \in Projects : waiting'[p] <= events'
    BY <1>0, <2>1, <2>2 DEF CrewOK
  <2>4. CrewOK'
    BY <1>0, <2>1, <2>2, <2>3 DEF CrewOK, Timers
  <2> QED BY <1>0, <2>1, <2>4, QueuesSame DEF TiersInv, CtlOK
<1>4. CASE \E t \in Timers : TimerRipens(t)
  BY <1>0, <1>4, QueuesSame DEF TimerRipens, TiersInv, CrewOK, CtlOK, Timers
<1>5. CASE \E o \in orders : OrderLost(o)
  <2>1. /\ Happens /\ orders' \subseteq orders
        /\ UNCHANGED <<park, marker, working, waiting, place, linked, report, ctl, ripe, chain>>
    BY <1>5 DEF OrderLost
  <2>2. events' \in 0..MaxEvents /\ events' >= events
    BY <1>0, <2>1 DEF Happens
  <2>3. \A p \in Projects : waiting'[p] <= events'
    BY <1>0, <2>1, <2>2 DEF CrewOK
  <2>4. CrewOK'
    BY <1>0, <2>1, <2>2, <2>3 DEF CrewOK, Timers
  <2>5. QueuesOK'
    BY <1>0, <2>1 DEF QueuesOK, OnlyLate
  <2> QED BY <1>0, <2>1, <2>4, <2>5 DEF TiersInv, CtlOK
<1>6. ASSUME NEW r \in Crew, AgentReleases(r) PROVE TiersInv'
  BY <1>0, <1>6, MarkedType, QueuesSame DEF AgentReleases, TiersInv, CrewOK, CtlOK, Timers
<1>7. ASSUME NEW r \in Crew, RunTaken(r) PROVE TiersInv'
  <2> DEFINE p == ProjectOf[r]
  <2>1. /\ waiting[p] > 0 /\ waiting' = [waiting EXCEPT ![p] = @ - 1]
        /\ working' = working \cup {r} /\ ripe' \subseteq ripe
        /\ UNCHANGED <<park, marker, place, linked, report, ctl, chain, orders, events>>
    BY <1>7 DEF RunTaken
  <2>3. p \in Projects
    BY TiersAssumption DEF Crew
  <2> HIDE DEF p
  <2>4. waiting[p] \in Nat /\ waiting[p] - 1 \in Nat /\ waiting[p] - 1 <= waiting[p]
    BY <1>0, <2>1, <2>3
  <2>2. waiting' \in [Projects -> Nat] /\ \A q \in Projects : waiting'[q] <= events'
    BY <1>0, <2>1, <2>3, <2>4 DEF CrewOK
  <2> QED BY <1>0, <2>1, <2>2, QueuesSame DEF TiersInv, CrewOK, CtlOK, Timers
<1>8. ASSUME NEW r \in Crew, RunEnds(r) PROVE TiersInv'
  BY <1>0, <1>8, QueuesSame DEF RunEnds, TiersInv, CrewOK, CtlOK, Timers
<1>9. ASSUME NEW r \in Crew, OperatorDrains(r) \/ OperatorResumes(r) PROVE TiersInv'
  <2>1. /\ UNCHANGED events \/ Happens
        /\ marker' \in [Crew -> {"none", "tiers", "host", "operator"}]
        /\ UNCHANGED <<park, working, waiting, place, linked, report, ctl, ripe, chain, orders>>
    BY <1>0, <1>9 DEF OperatorDrains, OperatorResumes, CrewOK
  <2>2. events' \in 0..MaxEvents /\ events' >= events
    BY <1>0, <2>1 DEF Happens
  <2>3. \A p \in Projects : waiting'[p] <= events'
    BY <1>0, <2>1, <2>2 DEF CrewOK
  <2>4. CrewOK'
    BY <1>0, <2>1, <2>2, <2>3 DEF CrewOK, Timers
  <2> QED BY <1>0, <2>1, <2>4, QueuesSame DEF TiersInv, CtlOK
<1>10. ASSUME NEW p \in Projects, RunQueued(p) PROVE TiersInv'
  <2>1. /\ Happens /\ waiting' = [waiting EXCEPT ![p] = @ + 1]
        /\ UNCHANGED <<park, marker, working, place, linked, report, ctl, ripe, chain, orders>>
    BY <1>10 DEF RunQueued
  <2>2. events' \in 0..MaxEvents /\ events' = events + 1
    BY <1>0, <2>1 DEF Happens
  <2>3. waiting' \in [Projects -> Nat] /\ \A q \in Projects : waiting'[q] <= events'
    BY <1>0, <2>1, <2>2 DEF CrewOK
  <2>4. CrewOK'
    BY <1>0, <2>1, <2>2, <2>3 DEF CrewOK, Timers
  <2> QED BY <1>0, <2>1, <2>4, QueuesSame DEF TiersInv, CtlOK
<1> QED BY <1>1, <1>2, <1>3, <1>4, <1>5, <1>6, <1>7, <1>8, <1>9, <1>10

LEMMA TiersInitially == TiersInit => TiersInv
<1> SUFFICES ASSUME TiersInit PROVE TiersInv
  OBVIOUS
<1>1. CrewOK
  BY TiersAssumption DEF TiersInit, CrewOK, Timers
<1>2. CtlOK
  BY DEF TiersInit, CtlOK, NoState
<1>3. QueuesOK
  BY DEF TiersInit, QueuesOK, OnlyLate
<1> QED BY <1>1, <1>2, <1>3 DEF TiersInv

LEMMA TiersStep == TiersInv /\ [TiersNext]_tierVars => TiersInv'
<1> SUFFICES ASSUME TiersInv, [TiersNext]_tierVars PROVE TiersInv'
  OBVIOUS
<1>1. CASE Tick
  BY <1>1, TierTick
<1>2. CASE ChainStep
  BY <1>2, TierChain
<1>3. CASE \E o \in orders : \E r \in Standby : OrderStep(o, r)
  BY <1>3, TierOrder
<1>4. CASE \E h \in HostNames : HostOff(h)
  BY <1>4, TierHostOff
<1>5. CASE \E h \in HostNames : \/ HostOn(h)
                                \/ \E to \in {"ok", "blocked", "critical"} : HostTurns(h, to)
  BY <1>5, TierHosts
<1>6. CASE UNCHANGED tierVars
  <2>1. CrewOK'
    BY <1>6 DEF tierVars, TiersInv, CrewOK, Timers
  <2>2. CtlOK'
    BY <1>6 DEF tierVars, TiersInv, CtlOK
  <2>3. QueuesOK'
    BY <1>6, QueuesSame DEF tierVars, TiersInv
  <2> QED BY <2>1, <2>2, <2>3 DEF TiersInv
<1> QED BY <1>1, <1>2, <1>3, <1>4, <1>5, <1>6, TierRest DEF TiersNext

\* The runners, the controller's memory and what is on its way to the hosts are of
\* their types, and a command always names a runner (runTiers, tiersLocalChain,
\* runTiersCommand).
THEOREM TiersTypeCorrect == TiersSpec => []TiersTypeOK
<1> QED BY TiersInitially, TiersStep, TiersInvTypes, PTL DEF TiersSpec

\* Runner r of a host that is and stays off comes back with a late command only.
DrainedStays(r) ==
    place[HostOf(r)] = "off" /\ place'[HostOf(r)] = "off" /\ marker[r] # "none" =>
        \/ marker'[r] # "none"
        \/ \E o \in orders : o.late /\ r \in o.names
        \/ chain # <<>> /\ Head(chain).late

\* Nobody but the controller undrains a runner of a host that is off: the agent, the
\* operator and the host's own switch do not.
LEMMA OffStep ==
    ASSUME TiersInv, [TiersNext]_tierVars, NEW r \in Crew PROVE DrainedStays(r)
<1> SUFFICES ASSUME place[HostOf(r)] = "off", place'[HostOf(r)] = "off",
                    marker[r] # "none", marker'[r] = "none"
             PROVE  \/ \E o \in orders : o.late /\ r \in o.names
                    \/ chain # <<>> /\ Head(chain).late
  BY DEF DrainedStays
<1>0. /\ marker \in [Crew -> {"none", "tiers", "host", "operator"}] /\ OnlyLate
      /\ place \in [HostNames -> {"ok", "off", "blocked", "critical"}]
      /\ chain \in Seq(ChainEntries) /\ orders \subseteq TierOrders
  BY DEF TiersInv, CrewOK, QueuesOK
<1>1. CASE ChainStep
  <2>1. /\ chain # <<>> /\ Marked(Head(chain).runner, Head(chain).action)
        /\ Head(chain) = chain[1] /\ 1 \in 1..Len(chain)
    BY <1>0, <1>1 DEF ChainStep
  <2>2. chain[1] \in ChainEntries
    BY <1>0, <2>1
  <2>3. chain[1].runner \in Crew /\ HostOf(chain[1].runner) = "primary"
    BY <2>2, HostsApart DEF ChainEntries
  <2>4. r = chain[1].runner
    BY <2>1, <2>3, MarkedType DEF TiersInv
  <2> QED BY <1>0, <2>1, <2>3, <2>4 DEF OnlyLate
<1>2. CASE \E o \in orders : \E q \in Standby : OrderStep(o, q)
  <2>1. PICK o \in orders, q \in Standby : OrderStep(o, q)
    BY <1>2
  <2>2. q \in o.names /\ Marked(q, o.action) /\ q \in Crew /\ HostOf(q) = "standby"
    BY <2>1, HostsApart DEF OrderStep
  <2>3. r = q
    BY <2>2, MarkedType DEF TiersInv
  <2> QED BY <1>0, <2>2, <2>3 DEF OnlyLate
<1>3. CASE \E q \in Crew : AgentReleases(q)
  <2>1. PICK q \in Crew : AgentReleases(q)
    BY <1>3
  <2>2. Marked(q, "resume") /\ HostOf(q) = "standby" /\ place["standby"] # "off"
    BY <2>1, HostsApart DEF AgentReleases
  <2>3. r = q
    BY <2>2, MarkedType DEF TiersInv
  <2> QED BY <2>2, <2>3
<1>4. CASE \E q \in Crew : OperatorDrains(q) \/ OperatorResumes(q)
  BY <1>0, <1>4 DEF OperatorDrains, OperatorResumes
<1>5. CASE \E h \in HostNames : HostOff(h) \/ HostOn(h)
  BY <1>0, <1>5 DEF HostOff, HostOn
<1>6. CASE \/ \E h \in HostNames : \E to \in {"ok", "blocked", "critical"} : HostTurns(h, to)
           \/ \E o \in orders : OrderLost(o)
           \/ \E t \in Timers : TimerRipens(t)
           \/ \E p \in Projects : RunQueued(p)
           \/ \E q \in Crew : RunTaken(q) \/ RunEnds(q)
           \/ Tick \/ Heartbeat \/ TiersRestart \/ LinkTurns \/ UNCHANGED tierVars
  BY <1>6 DEF HostTurns, OrderLost, TimerRipens, RunQueued, RunTaken, RunEnds, Tick,
              Heartbeat, TiersRestart, LinkTurns, tierVars
<1> QED BY <1>1, <1>2, <1>3, <1>4, <1>5, <1>6 DEF TiersNext

\* While a host stays off none of its runners comes back, but for what was on its way
\* when it was switched off (host-drain.sh, autonomyStep, the filter of decideTiers).
THEOREM OffStaysDrained == TiersSpec => OffHostStaysDrained
<1>1. TiersInv /\ [TiersNext]_tierVars => TiersInv'
  BY TiersStep
<1>2. TiersInv /\ [TiersNext]_tierVars => [\A r \in Crew : DrainedStays(r)]_tierVars
  BY OffStep
<1>3. (\A r \in Crew : DrainedStays(r)) =>
        \A r \in Crew :
            place[HostOf(r)] = "off" /\ place'[HostOf(r)] = "off" /\ marker[r] # "none" =>
                \/ marker'[r] # "none"
                \/ \E o \in orders : o.late /\ r \in o.names
                \/ chain # <<>> /\ Head(chain).late
  BY DEF DrainedStays
<1> QED
  BY <1>1, <1>2, <1>3, TiersInitially, PTL DEF TiersSpec, OffHostStaysDrained
=============================================================================
