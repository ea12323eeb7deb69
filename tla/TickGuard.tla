------------------------------ MODULE TickGuard ------------------------------
(***************************************************************************)
(* The coordinator's fast loop (scheduleFast of dashboard/fleetd.js) and   *)
(* the guard it runs its ticks under (dashboard/lib/tick-guard.js).  A     *)
(* tick is a promise that may never settle and cannot be cancelled: the    *)
(* loop waits for it up to a deadline, skips while it may still be         *)
(* working, and then gives it up for a fresh one, a few times.             *)
(*                                                                         *)
(* How long a tick has run does not appear: one that runs grows old at     *)
(* some time.                                                              *)
(***************************************************************************)
EXTENDS Naturals, FiniteSets

CONSTANTS
    Ticks,          \* promises of ticks
    Nothing,
    MaxAbandoned    \* maxAbandoned

ASSUME GuardAssumption ==
    /\ IsFiniteSet(Ticks) /\ Nothing \notin Ticks
    /\ MaxAbandoned \in Nat
    /\ Cardinality(Ticks) > MaxAbandoned + 1

VARIABLES
    isLeader,   \* ha.isLeader
    loop,       \* the loop sleeps, or races the current tick against the deadline
    live,       \* ticks that have been started and have not settled
    current,
    overdue,       \* the current tick has run for abandonMs
    abandoned

guardVars == <<isLeader, loop, live, current, overdue, abandoned>>

GuardTypeOK ==
    /\ isLeader \in BOOLEAN
    /\ loop \in {"asleep", "racing"}
    /\ live \subseteq Ticks
    /\ current \in Ticks \cup {Nothing}
    /\ overdue \in BOOLEAN
    /\ abandoned \subseteq Ticks

GuardInit ==
    /\ isLeader \in BOOLEAN
    /\ loop = "asleep" /\ live = {} /\ current = Nothing /\ overdue = FALSE /\ abandoned = {}

-----------------------------------------------------------------------------
\* The current tick is given up when it is old, while few have been.
StartsFresh(t) ==
    /\ t \notin live
    /\ live' = live \cup {t} /\ current' = t /\ overdue' = FALSE
    /\ loop' = "racing"
    /\ UNCHANGED isLeader

StartTick(t) ==
    /\ isLeader /\ loop = "asleep"
    /\ current = Nothing
    /\ StartsFresh(t) /\ UNCHANGED abandoned

\* A mutant: a tick that does not finish is an overlap for ever.
NeverAbandon(t) == FALSE

AbandonTick(t) ==
    /\ isLeader /\ loop = "asleep"
    /\ current # Nothing /\ overdue /\ Cardinality(abandoned) < MaxAbandoned
    /\ abandoned' = abandoned \cup {current}
    /\ StartsFresh(t)

\* "skipped" and "refused", and the standby's refreshStandbySnapshot, leave
\* nothing behind.

\* A tick settles: its callback forgets it wherever it is kept, and the loop, if it
\* waits for it, goes on.
\* A mutant: whichever tick settles, none is current after it.
SettleForgetsAll(t) ==
    /\ t \in live /\ live' = live \ {t}
    /\ current' = Nothing
    /\ overdue' = FALSE
    /\ abandoned' = abandoned \ {t}
    /\ loop' = IF t = current THEN "asleep" ELSE loop
    /\ UNCHANGED isLeader

TickSettles(t) ==
    /\ t \in live /\ live' = live \ {t}
    /\ current' = IF t = current THEN Nothing ELSE current
    /\ overdue' = (overdue /\ t # current)
    /\ abandoned' = abandoned \ {t}
    /\ loop' = IF t = current THEN "asleep" ELSE loop
    /\ UNCHANGED isLeader

\* The deadline comes first, and is shorter than abandonMs.
DeadlinePasses ==
    /\ loop = "racing" /\ loop' = "asleep"
    /\ UNCHANGED <<isLeader, live, current, overdue, abandoned>>

GrowsOld ==
    /\ loop = "asleep" /\ current # Nothing /\ ~overdue
    /\ overdue' = TRUE
    /\ UNCHANGED <<isLeader, loop, live, current, abandoned>>

RoleTurns ==
    /\ isLeader' = ~isLeader
    /\ UNCHANGED <<loop, live, current, overdue, abandoned>>

\* The daemon is restarted, which is what the guard asks for in the end.
DaemonRestarts ==
    /\ loop' = "asleep" /\ live' = {} /\ current' = Nothing /\ overdue' = FALSE /\ abandoned' = {}
    /\ isLeader' \in BOOLEAN

GuardNext ==
    \/ \E t \in Ticks : StartTick(t) \/ AbandonTick(t) \/ TickSettles(t)
    \/ DeadlinePasses \/ GrowsOld \/ RoleTurns \/ DaemonRestarts

TickRuns == \E t \in Ticks : StartTick(t) \/ AbandonTick(t)

GuardSpec == GuardInit /\ [][GuardNext]_guardVars

-----------------------------------------------------------------------------
\* "Only a few may be outstanding at once" (tick-guard.js 17-20): however ticks
\* overrun, are given up and finish late, the ones the guard has started and that
\* still run are those it knows of, and they are few.
OutstandingBounded ==
    /\ live = abandoned \cup ({current} \ {Nothing})
    /\ Cardinality(live) <= MaxAbandoned + 1

\* The outage of tick-guard.js 4-11: a tick that never settles does not hold the
\* loop for good, unless as many as may be have been given up and never settle.
LoopGoesOn ==
    \A t \in Ticks :
        <>[](isLeader /\ current = t) => <>[](Cardinality(abandoned) = MaxAbandoned)
=============================================================================
