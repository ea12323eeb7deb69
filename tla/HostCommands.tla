---------------------------- MODULE HostCommands ----------------------------
(***************************************************************************)
(* The command queue between the coordinator and its hosts.  fleetd keeps  *)
(* the commands in host_commands (SQLite) or fleet_commands (PostgreSQL,   *)
(* lib/ha.js).  A host with an agent (dashboard/agent.js) gets them on the *)
(* answer to its heartbeat, runs them one after the other and posts the    *)
(* results; a host that is a fleetd replica claims and runs its own        *)
(* (pollSelfCommands).  Both start a new round on every tick of an         *)
(* interval, whether or not the last round has ended.                      *)
(*                                                                         *)
(* One action is one statement on the database, one call that is lost or   *)
(* answered, or the start or end of one command.                           *)
(***************************************************************************)
EXTENDS Naturals, FiniteSets

CONSTANTS
    Commands,     \* command ids, given out in the order of queueing
    Hosts,
    Agents,       \* hosts that run agent.js; the others are replicas
    Rounds,       \* rounds that may be in progress together
    RoundHost,    \* the host of each round
    NeedToken,    \* commands that carry a token fetched from GitHub
    BatchLimit,   \* commands handed out at once
    MaxAttempts,  \* deliveries before a command is given up
    MaxFaults,    \* bound: tokens refused and restarts of a host, together
    None

ASSUME CommandsAssumption ==
    /\ Commands \subseteq Nat
    /\ Agents \subseteq Hosts
    /\ RoundHost \in [Rounds -> Hosts] /\ IsFiniteSet(Rounds)
    /\ NeedToken \subseteq Commands
    /\ BatchLimit \in Nat \ {0} /\ MaxAttempts \in Nat \ {0}
    /\ MaxFaults \in Nat
    /\ None \notin Commands \union Hosts

VARIABLES
    target,    \* the host each command is for, None before it is queued
    status,    \* of each command's row; "new" before there is one
    attempts,  \* the row's attempts
    late,      \* rows whose started_at is more than five minutes ago
    phase,     \* of each round: "idle", "answer" (the coordinator's handler), "work"
    batch,     \* the round's commands not begun yet
    running,   \* the command the round runs, or None
    results,   \* what the round has to report
    journal,   \* commandResults of the agent, kept on disk
    runs,      \* how often each command has been started (history)
    seen,      \* the outcomes its runs have had (history)
    faults     \* how many there have been

row == <<status, attempts, late>>
round == <<phase, batch, running, results>>
history == <<runs, seen>>
vars == <<target, row, round, journal, history, faults>>

Outcomes == {"done", "failed"}
NoResults == [c \in Commands |-> "none"]

Init ==
    /\ target = [c \in Commands |-> None]
    /\ status = [c \in Commands |-> "new"]
    /\ attempts = [c \in Commands |-> 0]
    /\ late = {}
    /\ phase = [r \in Rounds |-> "idle"]
    /\ batch = [r \in Rounds |-> {}]
    /\ running = [r \in Rounds |-> None]
    /\ results = [r \in Rounds |-> NoResults]
    /\ journal = NoResults
    /\ runs = [c \in Commands |-> 0]
    /\ seen = [c \in Commands |-> {}]
    /\ faults = 0

OnAgent(r) == RoundHost[r] \in Agents

------------------------------------------------------------------------------
(* The coordinator's table *)

\* INSERT ... 'pending'.  Ids grow.
Queue(c, h) ==
    /\ status[c] = "new"
    /\ \A d \in Commands : d < c => status[d] # "new"
    /\ target' = [target EXCEPT ![c] = h]
    /\ status' = [status EXCEPT ![c] = "pending"]
    /\ UNCHANGED <<attempts, late, round, journal, history, faults>>

Claimable(h) ==
    {c \in Commands : target[c] = h /\ status[c] = "pending" /\ attempts[c] < MaxAttempts}

\* ORDER BY id LIMIT 8
FirstOf(S) == {c \in S : Cardinality({d \in S : d < c}) < BatchLimit}

\* Rounds are alike: a new one takes the place of any that has ended.
Free(h) == CHOOSE r \in Rounds : RoundHost[r] = h /\ phase[r] = "idle"

\* Mutant: a claim that forgets attempts = attempts + 1.
ClaimUncounted(r) ==
    LET claimed == FirstOf(Claimable(RoundHost[r])) IN
    /\ phase[r] = "idle" /\ r = Free(RoundHost[r])
    /\ claimed # {}
    /\ status' = [c \in Commands |-> IF c \in claimed THEN "sent" ELSE status[c]]
    /\ late' = late \ claimed
    /\ phase' = [phase EXCEPT ![r] = IF OnAgent(r) THEN "answer" ELSE "work"]
    /\ batch' = [batch EXCEPT ![r] = claimed]
    /\ UNCHANGED <<target, attempts, running, results, journal, history, faults>>

\* A heartbeat, or a replica's poll, claims: status sent, started_at now.
Claim(r) ==
    LET claimed == FirstOf(Claimable(RoundHost[r])) IN
    /\ phase[r] = "idle" /\ r = Free(RoundHost[r])
    /\ claimed # {}
    /\ status' = [c \in Commands |-> IF c \in claimed THEN "sent" ELSE status[c]]
    /\ attempts' = [c \in Commands |-> attempts[c] + (IF c \in claimed THEN 1 ELSE 0)]
    /\ late' = late \ claimed
    /\ phase' = [phase EXCEPT ![r] = IF OnAgent(r) THEN "answer" ELSE "work"]
    /\ batch' = [batch EXCEPT ![r] = claimed]
    /\ UNCHANGED <<target, running, results, journal, history, faults>>

\* releaseCommandClaim: the attempt does not count.
Release(c) ==
    IF status[c] = "sent"
    THEN /\ status' = [status EXCEPT ![c] = "pending"]
         /\ attempts' = [attempts EXCEPT ![c] = IF @ = 0 THEN 0 ELSE @ - 1]
         /\ late' = late \ {c}
    ELSE UNCHANGED row

\* GitHub gives no token for c.  If the release fails too, the handler's loop
\* ends there and c and what comes after it are not handed out.
Refuse(r, c) ==
    /\ phase[r] = "answer"
    /\ c \in batch[r] \intersect NeedToken
    /\ faults < MaxFaults
    /\ faults' = faults + 1
    /\ \/ /\ Release(c)
          /\ batch' = [batch EXCEPT ![r] = @ \ {c}]
       \/ /\ UNCHANGED row
          /\ batch' = [batch EXCEPT ![r] = {d \in @ : d < c}]
    /\ UNCHANGED <<target, phase, running, results, journal, history>>

Answer(r) ==
    /\ phase[r] = "answer"
    /\ phase' = [phase EXCEPT ![r] = IF batch[r] = {} THEN "idle" ELSE "work"]
    /\ UNCHANGED <<target, row, batch, running, results, journal, history, faults>>

\* Mutant: a lost batch waits for the next answer.
LoseAnswerOnly(r) ==
    /\ phase[r] = "answer"
    /\ phase' = [phase EXCEPT ![r] = "idle"]
    /\ UNCHANGED <<target, row, batch, running, results, journal, history, faults>>

\* The answer does not reach the agent, which gives up after 15 s.
LoseAnswer(r) ==
    /\ phase[r] = "answer"
    /\ phase' = [phase EXCEPT ![r] = "idle"]
    /\ batch' = [batch EXCEPT ![r] = {}]
    /\ UNCHANGED <<target, row, running, results, journal, history, faults>>

\* Mutant: completeCommand without AND status = 'sent'.
CompleteAlways(c, outcome) ==
    /\ status' = [status EXCEPT ![c] = outcome]
    /\ late' = late \ {c}
    /\ UNCHANGED attempts

\* completeCommand, of a command that is still out.
Complete(c, outcome) ==
    IF status[c] = "sent"
    THEN /\ status' = [status EXCEPT ![c] = outcome]
         /\ late' = late \ {c}
         /\ UNCHANGED attempts
    ELSE UNCHANGED row

\* Five minutes pass.  A handler is not that slow, its token calls end in
\* 20 s, so a command waits that long only behind another that runs.
BecomeLate(c) ==
    /\ status[c] = "sent"
    /\ c \notin late
    /\ \A r \in Rounds : c \in batch[r] => running[r] # None
    /\ late' = late \union {c}
    /\ UNCHANGED <<target, status, attempts, round, journal, history, faults>>

\* Mutants: the command is given up one delivery late, or one early.
RetriesTooLong(c) == attempts[c] <= MaxAttempts
RetriesTooShort(c) == attempts[c] + 1 < MaxAttempts

Retries(c) == attempts[c] < MaxAttempts

\* The leader's fast tick: sent again, or given up.
ResetExpired ==
    /\ late # {}
    /\ status' = [c \in Commands |-> IF c \notin late THEN status[c]
                                     ELSE IF Retries(c) THEN "pending" ELSE "failed"]
    /\ late' = {}
    /\ UNCHANGED <<target, attempts, round, journal, history, faults>>

------------------------------------------------------------------------------
(* The host *)

\* The next command of the batch.  An agent replays a result it remembers.
Begin(r, c) ==
    LET remembered == OnAgent(r) /\ journal[c] # "none" IN
    /\ phase[r] = "work"
    /\ running[r] = None
    /\ c \in batch[r] /\ \A d \in batch[r] : c <= d
    /\ batch' = [batch EXCEPT ![r] = @ \ {c}]
    /\ IF remembered
       THEN /\ results' = [results EXCEPT ![r][c] = journal[c]]
            /\ UNCHANGED <<running, runs>>
       ELSE /\ running' = [running EXCEPT ![r] = c]
            /\ runs' = [runs EXCEPT ![c] = @ + 1]
            /\ UNCHANGED results
    /\ UNCHANGED <<target, row, phase, journal, seen, faults>>

\* The command ends (it is killed when it takes too long).  The agent writes
\* its journal.  A replica completes the row at once: as failed when its first
\* write throws, and when the second throws too, the rest of its batch is lost.
Finish(r, outcome) ==
    LET c == running[r] IN
    /\ c # None
    /\ running' = [running EXCEPT ![r] = None]
    /\ seen' = [seen EXCEPT ![c] = @ \union {outcome}]
    /\ \/ /\ OnAgent(r)
          /\ journal' = [journal EXCEPT ![c] = outcome]
          /\ results' = [results EXCEPT ![r][c] = outcome]
          /\ UNCHANGED <<row, phase, batch>>
       \/ /\ ~OnAgent(r)
          /\ \E written \in {outcome, "failed"} : Complete(c, written)
          /\ phase' = [phase EXCEPT ![r] = IF batch[r] = {} THEN "idle" ELSE "work"]
          /\ UNCHANGED <<batch, results, journal>>
       \/ /\ ~OnAgent(r)
          /\ phase' = [phase EXCEPT ![r] = "idle"]
          /\ batch' = [batch EXCEPT ![r] = {}]
          /\ UNCHANGED <<row, results, journal>>
    /\ UNCHANGED <<target, runs, faults>>

Reporting(r) == phase[r] = "work" /\ batch[r] = {} /\ running[r] = None

\* The coordinator takes one of the posted results after the other.
Record(r, c) ==
    LET rest == [results[r] EXCEPT ![c] = "none"] IN
    /\ Reporting(r)
    /\ results[r][c] # "none"
    /\ Complete(c, results[r][c])
    /\ results' = [results EXCEPT ![r] = rest]
    /\ phase' = [phase EXCEPT ![r] = IF rest = NoResults THEN "idle" ELSE "work"]
    /\ UNCHANGED <<target, batch, running, journal, history, faults>>

\* The post fails, or fails half way.
LoseResults(r) ==
    /\ Reporting(r)
    /\ results' = [results EXCEPT ![r] = NoResults]
    /\ phase' = [phase EXCEPT ![r] = "idle"]
    /\ UNCHANGED <<target, row, batch, running, journal, history, faults>>

\* The agent or the replica restarts.  The journal is on disk.
Crash(h) ==
    LET kept(f, none) == [r \in Rounds |-> IF RoundHost[r] = h THEN none ELSE f[r]] IN
    /\ faults < MaxFaults
    /\ faults' = faults + 1
    /\ phase' = kept(phase, "idle")
    /\ batch' = kept(batch, {})
    /\ running' = kept(running, None)
    /\ results' = kept(results, NoResults)
    /\ UNCHANGED <<target, row, journal, history>>

------------------------------------------------------------------------------

Closed(c) == status[c] \in Outcomes
Finished == (\A c \in Commands : Closed(c)) /\ (\A r \in Rounds : phase[r] = "idle") /\ UNCHANGED vars

Handle(r) == Answer(r) \/ LoseAnswer(r)
Work(r) ==
    (\E c \in Commands : Begin(r, c)) \/ (\E outcome \in Outcomes : Finish(r, outcome))
Report(r) == (\E c \in Commands : Record(r, c)) \/ LoseResults(r)

Next ==
    \/ \E c \in Commands : (\E h \in Hosts : Queue(c, h)) \/ BecomeLate(c)
    \/ \E r \in Rounds : Claim(r) \/ Handle(r) \/ Work(r) \/ Report(r)
    \/ \E r \in Rounds, c \in Commands : Refuse(r, c)
    \/ \E h \in Hosts : Crash(h)
    \/ ResetExpired
    \/ Finished

\* The intervals tick, calls end one way or the other within their timeouts,
\* time passes, and a leader runs its fast tick.  Nothing need be delivered.
Fairness ==
    /\ \A h \in Hosts : WF_vars(\E r \in Rounds : RoundHost[r] = h /\ Claim(r))
    /\ \A r \in Rounds : WF_vars(Handle(r) \/ Work(r) \/ Report(r))
    /\ \A c \in Commands : WF_vars(BecomeLate(c))
    /\ WF_vars(ResetExpired)

Spec == Init /\ [][Next]_vars /\ Fairness

------------------------------------------------------------------------------

\* The values of the variables; only what is out can be late, a round that has
\* ended holds nothing, and a replica's holds no results.
TypeOK ==
    /\ target \in [Commands -> Hosts \union {None}]
    /\ status \in [Commands -> {"new", "pending", "sent"} \union Outcomes]
    /\ attempts \in [Commands -> 0..MaxAttempts]
    /\ late \subseteq {c \in Commands : status[c] = "sent"}
    /\ phase \in [Rounds -> {"idle", "answer", "work"}]
    /\ batch \in [Rounds -> SUBSET Commands]
    /\ running \in [Rounds -> Commands \union {None}]
    /\ results \in [Rounds -> [Commands -> Outcomes \union {"none"}]]
    /\ \A r \in Rounds :
         /\ phase[r] = "idle" => batch[r] = {}
         /\ phase[r] # "work" => running[r] = None /\ results[r] = NoResults
    /\ \A r \in Rounds : ~OnAgent(r) => results[r] = NoResults
    /\ journal \in [Commands -> Outcomes \union {"none"}]
    /\ runs \in [Commands -> Nat]
    /\ seen \in [Commands -> SUBSET Outcomes]
    /\ faults \in 0..MaxFaults

\* What waits can be handed out: the retries of resetExpiredCommands, the
\* claims given back by releaseCommandClaim and the attempts < 3 of the claim
\* never leave a command pending that no host will be given.
PendingCanBeClaimed ==
    \A c \in Commands : status[c] = "pending" => attempts[c] < MaxAttempts

\* However answers, results and restarts fall, a command is started at most
\* once per delivery, so "delivery stops after three attempts"
\* (docs/federation.md:314) also bounds how often it runs.
RunsWithinAttempts ==
    \A c \in Commands : runs[c] <= attempts[c]

\* A command shown as done has had a run that succeeded, and an agent's one
\* shown as failed a run that failed, unless it was given up after the last
\* delivery.  (A replica also writes failed when it could not write done.)
StatusTellsTheTruth ==
    \A c \in Commands :
        /\ status[c] = "done" => "done" \in seen[c]
        /\ status[c] = "failed" /\ target[c] \in Agents =>
              "failed" \in seen[c] \/ attempts[c] = MaxAttempts

\* A late result, a second run or a reset never changes a command that ended.
VerdictIsFinal ==
    [][\A c \in Commands : Closed(c) => status'[c] = status[c]]_vars

\* Whatever is lost, every queued command ends: it is done, has failed or is
\* given up.
EveryCommandEnds ==
    \A c \in Commands : status[c] = "pending" ~> Closed(c)

\* "Retries never create duplicates: the result journal covers every command"
\* (docs/federation.md:319): an agent runs no command twice.
NeverRunTwice ==
    \A c \in Commands : target[c] \in Agents => runs[c] <= 1
=============================================================================
