------------------------- MODULE HostCommandsProofs -------------------------
(***************************************************************************)
(* The safety properties of HostCommands, proved for any number of hosts,  *)
(* commands and overlapping rounds and any number of attempts.             *)
(***************************************************************************)
EXTENDS HostCommands, FiniteSetTheorems, TLAPS

\* The three parts of TypeOK: the table, the rounds, and what is remembered.
RowsOK ==
    /\ target \in [Commands -> Hosts \union {None}]
    /\ status \in [Commands -> {"new", "pending", "sent"} \union Outcomes]
    /\ attempts \in [Commands -> 0..MaxAttempts]
    /\ late \subseteq {c \in Commands : status[c] = "sent"}

RoundsOK ==
    /\ phase \in [Rounds -> {"idle", "answer", "work"}]
    /\ batch \in [Rounds -> SUBSET Commands]
    /\ running \in [Rounds -> Commands \union {None}]
    /\ results \in [Rounds -> [Commands -> Outcomes \union {"none"}]]
    /\ \A r \in Rounds :
         /\ phase[r] = "idle" => batch[r] = {}
         /\ phase[r] # "work" => running[r] = None /\ results[r] = NoResults
    /\ \A r \in Rounds : ~OnAgent(r) => results[r] = NoResults

PastOK ==
    /\ journal \in [Commands -> Outcomes \union {"none"}]
    /\ runs \in [Commands -> Nat]
    /\ seen \in [Commands -> SUBSET Outcomes]
    /\ faults \in 0..MaxFaults

\* TypeOK is the three parts together.
LEMMA TypeParts == TypeOK <=> RowsOK /\ RoundsOK /\ PastOK
BY DEF TypeOK, RowsOK, RoundsOK, PastOK

\* Completing a row keeps the table well-formed.
LEMMA CompleteType ==
    ASSUME NEW c \in Commands, NEW outcome \in Outcomes, RowsOK, Complete(c, outcome),
           UNCHANGED target
    PROVE  RowsOK'
BY DEF Complete, RowsOK, Outcomes, row

\* So does giving a claim back.
LEMMA ReleaseType ==
    ASSUME NEW c \in Commands, RowsOK, Release(c), UNCHANGED target
    PROVE  RowsOK'
<1>1. CASE status[c] # "sent"
  BY <1>1 DEF Release, RowsOK, row
<1>2. CASE status[c] = "sent"
  <2>1. attempts[c] \in 0..MaxAttempts /\ MaxAttempts \in Nat
    BY CommandsAssumption DEF RowsOK
  <2>2. (IF attempts[c] = 0 THEN 0 ELSE attempts[c] - 1) \in 0..MaxAttempts
    BY <2>1
  <2>3. attempts' \in [Commands -> 0..MaxAttempts]
    BY <1>2, <2>2 DEF Release, RowsOK
  <2> QED BY <1>2, <2>3 DEF Release, RowsOK
<1> QED BY <1>1, <1>2

\* What an idle round, and one that has not begun to work, does not hold.
NothingHeld(p, b, k, s) ==
    /\ p = "idle" => b = {}
    /\ p # "work" => k = None /\ s = NoResults

\* A step that changes one round keeps the rounds well-formed when the round's
\* new values are.
LEMMA OneRound ==
    ASSUME RoundsOK, NEW r \in Rounds,
           NEW p \in {"idle", "answer", "work"}, NEW b \in SUBSET Commands,
           NEW k \in Commands \union {None}, NEW s \in [Commands -> Outcomes \union {"none"}],
           NothingHeld(p, b, k, s),
           ~OnAgent(r) => s = NoResults,
           phase' = [phase EXCEPT ![r] = p], batch' = [batch EXCEPT ![r] = b],
           running' = [running EXCEPT ![r] = k], results' = [results EXCEPT ![r] = s]
    PROVE  RoundsOK'
BY DEF RoundsOK, NothingHeld, OnAgent

\* The same for a step that leaves what the round runs and reports alone.
LEMMA SameResults ==
    ASSUME RoundsOK, NEW r \in Rounds,
           NEW p \in {"idle", "answer", "work"}, NEW b \in SUBSET Commands,
           NothingHeld(p, b, running[r], results[r]),
           phase' = [phase EXCEPT ![r] = p], batch' = [batch EXCEPT ![r] = b],
           UNCHANGED <<running, results>>
    PROVE  RoundsOK'
BY DEF RoundsOK, NothingHeld, OnAgent

\* The values of one round.
LEMMA RoundType ==
    ASSUME RoundsOK, NEW r \in Rounds
    PROVE  /\ phase[r] \in {"idle", "answer", "work"} /\ phase = [phase EXCEPT ![r] = phase[r]]
           /\ batch[r] \in SUBSET Commands /\ batch = [batch EXCEPT ![r] = batch[r]]
           /\ running[r] \in Commands \union {None} /\ running = [running EXCEPT ![r] = running[r]]
           /\ results[r] \in [Commands -> Outcomes \union {"none"}]
           /\ results = [results EXCEPT ![r] = results[r]]
           /\ NothingHeld(phase[r], batch[r], running[r], results[r])
           /\ ~OnAgent(r) => results[r] = NoResults
BY DEF RoundsOK, NothingHeld

\* A round with nothing to report is well-formed.
LEMMA NoResultsType == NoResults \in [Commands -> Outcomes \union {"none"}]
BY DEF NoResults

\* A claim takes commands that had deliveries left.
LEMMA ClaimedAre ==
    ASSUME NEW h
    PROVE  FirstOf(Claimable(h)) \subseteq
             {c \in Commands : status[c] = "pending" /\ attempts[c] < MaxAttempts}
BY DEF FirstOf, Claimable

\* Type correctness is inductive by itself.
LEMMA TypeStep ==
    ASSUME TypeOK, [Next]_vars
    PROVE  TypeOK'
<1> USE CommandsAssumption DEF row, round, history
<1>0. RowsOK /\ RoundsOK /\ PastOK
  BY TypeParts
<1> SUFFICES RowsOK' /\ RoundsOK' /\ PastOK'
  BY TypeParts, PTL
<1>1. ASSUME NEW c \in Commands, NEW h \in Hosts, Queue(c, h) PROVE RowsOK' /\ RoundsOK' /\ PastOK'
  BY <1>0, <1>1 DEF Queue, RowsOK, RoundsOK, PastOK, OnAgent
<1>2. ASSUME NEW c \in Commands, BecomeLate(c) PROVE RowsOK' /\ RoundsOK' /\ PastOK'
  BY <1>0, <1>2 DEF BecomeLate, RowsOK, RoundsOK, PastOK, OnAgent
<1>3. ASSUME NEW r \in Rounds, Claim(r) PROVE RowsOK' /\ RoundsOK' /\ PastOK'
  <2> DEFINE claimed == FirstOf(Claimable(RoundHost[r]))
             p == IF OnAgent(r) THEN "answer" ELSE "work"
  <2>1. claimed \subseteq {c \in Commands : status[c] = "pending" /\ attempts[c] < MaxAttempts}
    BY ClaimedAre
  <2>2. RowsOK'
    <3>1. attempts' \in [Commands -> 0..MaxAttempts]
      BY <1>0, <1>3, <2>1 DEF Claim, RowsOK
    <3> QED BY <1>0, <1>3, <2>1, <3>1 DEF Claim, RowsOK
  <2>3. RoundsOK'
    <3>1. phase' = [phase EXCEPT ![r] = p] /\ batch' = [batch EXCEPT ![r] = claimed]
          /\ UNCHANGED <<running, results>>
      BY <1>3 DEF Claim
    <3> HIDE DEF claimed
    <3>2. p \in {"idle", "answer", "work"} /\ p # "idle"
      OBVIOUS
    <3>3. running[r] = None /\ results[r] = NoResults
      BY <1>0, <1>3 DEF Claim, RoundsOK
    <3>4. claimed \in SUBSET Commands /\ NothingHeld(p, claimed, running[r], results[r])
      BY <2>1, <3>2, <3>3 DEF NothingHeld
    <3> HIDE DEF p
    <3> QED BY <1>0, <3>1, <3>2, <3>4, SameResults
  <2> QED BY <1>0, <1>3, <2>2, <2>3 DEF Claim, PastOK
<1>4. ASSUME NEW r \in Rounds, Handle(r) PROVE RowsOK' /\ RoundsOK' /\ PastOK'
  <2>1. PICK p \in {"idle", "work"}, b \in {{}, batch[r]} :
           /\ phase' = [phase EXCEPT ![r] = p] /\ batch' = [batch EXCEPT ![r] = b]
           /\ p = "idle" => b = {}
    <3>1. CASE Answer(r)
      BY <1>0, <3>1, RoundType DEF Answer
    <3>2. CASE LoseAnswer(r)
      BY <3>2 DEF LoseAnswer
    <3> QED BY <1>4, <3>1, <3>2 DEF Handle
  <2>2. UNCHANGED <<running, results>> /\ running[r] = None /\ results[r] = NoResults
    BY <1>0, <1>4 DEF Handle, Answer, LoseAnswer, RoundsOK
  <2>3. b \in SUBSET Commands /\ NothingHeld(p, b, running[r], results[r])
    BY <1>0, <2>1, <2>2, RoundType DEF NothingHeld
  <2>4. RoundsOK'
    BY <1>0, <2>1, <2>2, <2>3, SameResults
  <2> QED BY <1>0, <1>4, <2>4 DEF Handle, Answer, LoseAnswer, RowsOK, PastOK
<1>5. ASSUME NEW r \in Rounds, NEW c \in Commands, Begin(r, c) PROVE RowsOK' /\ RoundsOK' /\ PastOK'
  <2>1. CASE OnAgent(r) /\ journal[c] # "none"
    <3> DEFINE s == [results[r] EXCEPT ![c] = journal[c]]
               b == batch[r] \ {c}
    <3>1. results' = [results EXCEPT ![r] = s] /\ batch' = [batch EXCEPT ![r] = b]
          /\ UNCHANGED <<phase, running>> /\ phase[r] = "work"
      BY <1>5, <2>1 DEF Begin
    <3>2. s \in [Commands -> Outcomes \union {"none"}] /\ b \in SUBSET Commands
      BY <1>0, RoundType DEF PastOK
    <3> HIDE DEF s, b
    <3>3. RoundsOK'
      BY <1>0, <2>1, <3>1, <3>2, RoundType, OneRound DEF NothingHeld
    <3> QED BY <1>0, <1>5, <2>1, <3>3 DEF Begin, RowsOK, PastOK
  <2>2. CASE ~(OnAgent(r) /\ journal[c] # "none")
    <3> DEFINE b == batch[r] \ {c}
    <3>1. running' = [running EXCEPT ![r] = c] /\ batch' = [batch EXCEPT ![r] = b]
          /\ UNCHANGED <<phase, results>> /\ phase[r] = "work"
      BY <1>5, <2>2 DEF Begin
    <3>2. b \in SUBSET Commands
      BY <1>0, RoundType
    <3> HIDE DEF b
    <3>3. RoundsOK'
      BY <1>0, <3>1, <3>2 DEF RoundsOK, OnAgent
    <3> QED BY <1>0, <1>5, <2>2, <3>3 DEF Begin, RowsOK, PastOK
  <2> QED BY <2>1, <2>2
<1>6. ASSUME NEW r \in Rounds, NEW outcome \in Outcomes, Finish(r, outcome) PROVE RowsOK' /\ RoundsOK' /\ PastOK'
  <2> DEFINE c == running[r]
  <2>1. c \in Commands /\ phase[r] \in {"answer", "work"}
    BY <1>0, <1>6, RoundType DEF Finish, NothingHeld
  <2>2. PastOK'
    BY <1>0, <1>6, <2>1 DEF Finish, PastOK
  <2>3. CASE OnAgent(r)
    <3> DEFINE s == [results[r] EXCEPT ![c] = outcome]
    <3>1. running' = [running EXCEPT ![r] = None] /\ results' = [results EXCEPT ![r] = s]
          /\ UNCHANGED <<target, status, attempts, late, phase, batch>>
      BY <1>6, <2>3 DEF Finish
    <3>2. s \in [Commands -> Outcomes \union {"none"}]
      BY <1>0, RoundType
    <3> HIDE DEF s
    <3>3. RoundsOK'
      BY <1>0, <2>1, <2>3, <3>1, <3>2, RoundType, OneRound DEF NothingHeld
    <3> QED BY <1>0, <2>2, <3>1, <3>3 DEF RowsOK
  <2>4. CASE ~OnAgent(r)
    <3>1. RowsOK'
      <4>1. CASE UNCHANGED <<target, status, attempts, late>>
        BY <1>0, <4>1 DEF RowsOK
      <4>2. CASE \E written \in {outcome, "failed"} : Complete(c, written) /\ UNCHANGED target
        BY <1>0, <2>1, <4>2, CompleteType DEF Outcomes
      <4> QED BY <1>6, <2>4, <4>1, <4>2 DEF Finish
    <3>2. PICK p \in {"idle", "work"}, b \in {{}, batch[r]} :
             /\ phase' = [phase EXCEPT ![r] = p] /\ batch' = [batch EXCEPT ![r] = b]
             /\ p = "idle" => b = {}
      <4>1. CASE UNCHANGED batch /\ phase' = [phase EXCEPT ![r] = IF batch[r] = {} THEN "idle" ELSE "work"]
        BY <1>0, <4>1, RoundType
      <4>2. CASE batch' = [batch EXCEPT ![r] = {}] /\ phase' = [phase EXCEPT ![r] = "idle"]
        BY <4>2
      <4> QED BY <1>6, <2>4, <4>1, <4>2 DEF Finish
    <3>3. running' = [running EXCEPT ![r] = None] /\ UNCHANGED results
      BY <1>6, <2>4 DEF Finish
    <3>4. RoundsOK'
      BY <1>0, <2>4, <3>2, <3>3, RoundType, OneRound DEF NothingHeld
    <3> QED BY <2>2, <3>1, <3>4
  <2> QED BY <2>3, <2>4
<1>7. ASSUME NEW r \in Rounds, NEW c \in Commands, Record(r, c) PROVE RowsOK' /\ RoundsOK' /\ PastOK'
  <2> DEFINE s == [results[r] EXCEPT ![c] = "none"]
             p == IF s = NoResults THEN "idle" ELSE "work"
  <2>1. results[r][c] \in Outcomes
    BY <1>0, <1>7, RoundType DEF Record
  <2>2. RowsOK'
    BY <1>0, <1>7, <2>1, CompleteType DEF Record
  <2>3. /\ phase' = [phase EXCEPT ![r] = p] /\ results' = [results EXCEPT ![r] = s]
        /\ UNCHANGED <<batch, running>> /\ batch[r] = {} /\ running[r] = None
    BY <1>7 DEF Record, Reporting
  <2>4. s \in [Commands -> Outcomes \union {"none"}] /\ OnAgent(r)
    BY <1>0, <1>7, RoundType DEF Record, NoResults
  <2>5. p \in {"idle", "work"} /\ (p = "idle" => s = NoResults)
    OBVIOUS
  <2> HIDE DEF s, p
  <2>6. RoundsOK'
    BY <1>0, <2>3, <2>4, <2>5, RoundType, OneRound DEF NothingHeld
  <2> QED BY <1>0, <1>7, <2>2, <2>6 DEF Record, PastOK
<1>8. ASSUME NEW r \in Rounds, LoseResults(r) PROVE RowsOK' /\ RoundsOK' /\ PastOK'
  <2>1. RoundsOK'
    <3>1. /\ phase' = [phase EXCEPT ![r] = "idle"] /\ results' = [results EXCEPT ![r] = NoResults]
          /\ UNCHANGED <<batch, running>> /\ batch[r] = {} /\ running[r] = None
      BY <1>8 DEF LoseResults, Reporting
    <3>2. NothingHeld("idle", {}, None, NoResults)
      BY DEF NothingHeld
    <3>3. batch' = [batch EXCEPT ![r] = {}] /\ running' = [running EXCEPT ![r] = None]
      BY <1>0, <3>1, RoundType
    <3> QED BY <1>0, <3>1, <3>2, <3>3, OneRound, NoResultsType
  <2> QED BY <1>0, <1>8, <2>1 DEF LoseResults, RowsOK, PastOK
<1>9. ASSUME NEW r \in Rounds, NEW c \in Commands, Refuse(r, c) PROVE RowsOK' /\ RoundsOK' /\ PastOK'
  <2>1. RowsOK'
    <3>1. CASE Release(c)
      BY <1>0, <1>9, <3>1, ReleaseType DEF Refuse
    <3>2. CASE UNCHANGED row
      BY <1>0, <1>9, <3>2 DEF Refuse, RowsOK
    <3> QED BY <1>9, <3>1, <3>2 DEF Refuse
  <2>2. PICK b \in SUBSET batch[r] : batch' = [batch EXCEPT ![r] = b]
    BY <1>9 DEF Refuse
  <2>3. phase' = [phase EXCEPT ![r] = phase[r]] /\ UNCHANGED <<running, results>>
    BY <1>0, <1>9, RoundType DEF Refuse
  <2>4. /\ phase[r] \in {"idle", "answer", "work"} /\ b \in SUBSET Commands
        /\ NothingHeld(phase[r], b, running[r], results[r])
    BY <1>0, <1>9, RoundType DEF Refuse, NothingHeld
  <2>5. RoundsOK'
    BY <1>0, <2>2, <2>3, <2>4, SameResults
  <2> QED BY <1>0, <1>9, <2>1, <2>5 DEF Refuse, PastOK
<1>10. ASSUME NEW h \in Hosts, Crash(h) PROVE RowsOK' /\ RoundsOK' /\ PastOK'
  <2>1. RoundsOK'
    BY <1>0, <1>10, NoResultsType DEF Crash, RoundsOK, OnAgent
  <2> QED BY <1>0, <1>10, <2>1 DEF Crash, RowsOK, PastOK
<1>11. ASSUME ResetExpired PROVE RowsOK' /\ RoundsOK' /\ PastOK'
  BY <1>0, <1>11 DEF ResetExpired, RowsOK, RoundsOK, PastOK, OnAgent, Outcomes
<1>12. CASE UNCHANGED vars
  BY <1>0, <1>12 DEF vars, RowsOK, RoundsOK, PastOK, OnAgent
<1> QED
  BY <1>1, <1>2, <1>3, <1>4, <1>5, <1>6, <1>7, <1>8, <1>9, <1>10, <1>11, <1>12
  DEF Next, Work, Report, Finished

\* What one step may do to the row of c.
RowStep(c) ==
    \/ status'[c] = status[c] /\ attempts'[c] = attempts[c]
    \/ status[c] = "new" /\ status'[c] = "pending" /\ attempts'[c] = attempts[c]
    \/ /\ status[c] = "pending" /\ status'[c] = "sent"
       /\ attempts[c] < MaxAttempts /\ attempts'[c] = attempts[c] + 1
    \/ /\ status[c] = "sent" /\ status'[c] = "pending"
       /\ attempts'[c] = IF attempts[c] = 0 THEN 0 ELSE attempts[c] - 1
    \/ status[c] = "sent" /\ status'[c] \in Outcomes /\ attempts'[c] = attempts[c]
    \/ /\ status[c] = "sent" /\ status'[c] = "pending"
       /\ attempts[c] < MaxAttempts /\ attempts'[c] = attempts[c]

\* Every step does to every row what RowStep says.
LEMMA RowSteps ==
    ASSUME TypeOK, [Next]_vars, NEW c \in Commands
    PROVE  RowStep(c)
<1> USE DEF row, round, history
<1>0. RowsOK /\ RoundsOK
  BY TypeParts
<1>1. ASSUME NEW d \in Commands, NEW h \in Hosts, Queue(d, h) PROVE RowStep(c)
  BY <1>0, <1>1 DEF Queue, RowsOK, RowStep
<1>2. ASSUME NEW r \in Rounds, Claim(r) PROVE RowStep(c)
  <2> DEFINE claimed == FirstOf(Claimable(RoundHost[r]))
  <2>1. claimed \subseteq {d \in Commands : status[d] = "pending" /\ attempts[d] < MaxAttempts}
    BY ClaimedAre
  <2>2. /\ status'[c] = IF c \in claimed THEN "sent" ELSE status[c]
        /\ attempts'[c] = attempts[c] + (IF c \in claimed THEN 1 ELSE 0)
    BY <1>2 DEF Claim
  <2>3. attempts[c] \in Nat
    BY <1>0, CommandsAssumption DEF RowsOK
  <2> HIDE DEF claimed
  <2> QED BY <2>1, <2>2, <2>3 DEF RowStep
<1>3. ASSUME NEW r \in Rounds, NEW outcome \in Outcomes, Finish(r, outcome) PROVE RowStep(c)
  BY <1>0, <1>3 DEF Finish, Complete, RowsOK, RoundsOK, RowStep, Outcomes
<1>4. ASSUME NEW r \in Rounds, NEW d \in Commands, Record(r, d) PROVE RowStep(c)
  <2>1. results[r][d] \in Outcomes
    BY <1>0, <1>4, RoundType DEF Record
  <2> QED BY <1>0, <1>4, <2>1 DEF Record, Complete, RowsOK, RowStep
<1>5. ASSUME NEW r \in Rounds, NEW d \in Commands, Refuse(r, d) PROVE RowStep(c)
  BY <1>0, <1>5 DEF Refuse, Release, RowsOK, RowStep
<1>6. ASSUME ResetExpired PROVE RowStep(c)
  BY <1>0, <1>6 DEF ResetExpired, Retries, RowsOK, RowStep, Outcomes
<1>7. CASE UNCHANGED <<status, attempts>>
  BY <1>7 DEF RowStep
<1> QED
  BY <1>1, <1>2, <1>3, <1>4, <1>5, <1>6, <1>7
  DEF Next, Work, Report, Handle, Answer, LoseAnswer, Begin, LoseResults, BecomeLate,
      Crash, Finished, vars

\* A row that is not queued yet has not been handed out.
FreshRows == \A c \in Commands : status[c] = "new" => attempts[c] = 0

\* What a round reports, or the journal replays, is an outcome of a run.
Grounded ==
    /\ \A r \in Rounds, c \in Commands : results[r][c] # "none" => results[r][c] \in seen[c]
    /\ \A c \in Commands : journal[c] # "none" => journal[c] \in seen[c]

\* A round holds commands of its own host, which have been queued.
RightHost ==
    \A r \in Rounds, c \in Commands :
        c \in batch[r] \/ running[r] = c => target[c] = RoundHost[r] /\ status[c] # "new"

\* The rounds that still hold c.
Held(c) == {r \in Rounds : c \in batch[r]}

\* Each delivery of c has been used up, or is held by a round, or was lost.
DeliveriesCount ==
    \A c \in Commands : runs[c] + Cardinality(Held(c)) <= attempts[c]

\* FreshRows, RightHost, Grounded and DeliveriesCount make the invariants inductive.
CommandsInv ==
    TypeOK /\ FreshRows /\ PendingCanBeClaimed /\ RightHost /\ Grounded /\ StatusTellsTheTruth
    /\ DeliveriesCount

\* No step leaves a pending row without a delivery.
LEMMA PendingStep ==
    ASSUME TypeOK, FreshRows, PendingCanBeClaimed, [Next]_vars
    PROVE  FreshRows' /\ PendingCanBeClaimed'
<1> SUFFICES ASSUME NEW c \in Commands
             PROVE  /\ status'[c] = "new" => attempts'[c] = 0
                    /\ status'[c] = "pending" => attempts'[c] < MaxAttempts
  BY DEF FreshRows, PendingCanBeClaimed
<1>1. attempts[c] \in 0..MaxAttempts /\ MaxAttempts \in Nat \ {0}
  BY CommandsAssumption DEF TypeOK
<1>2. RowStep(c)
  BY RowSteps
<1> QED BY <1>1, <1>2 DEF RowStep, FreshRows, PendingCanBeClaimed, Outcomes

\* What is reported or remembered stays the outcome of a run.
LEMMA GroundedStep ==
    ASSUME TypeOK, Grounded, [Next]_vars
    PROVE  Grounded'
<1> USE DEF row, round, history
<1>0. RoundsOK /\ PastOK
  BY TypeParts
<1>1. ASSUME NEW r \in Rounds, NEW c \in Commands, Begin(r, c) PROVE Grounded'
  BY <1>0, <1>1 DEF Begin, Grounded, RoundsOK, PastOK
<1>2. ASSUME NEW r \in Rounds, NEW outcome \in Outcomes, Finish(r, outcome) PROVE Grounded'
  <2>1. running[r] \in Commands
    BY <1>0, <1>2 DEF Finish, RoundsOK
  <2>2. \A c \in Commands : seen[c] \subseteq seen'[c]
    BY <1>0, <1>2 DEF Finish, PastOK
  <2>3. outcome \in seen'[running[r]]
    BY <1>0, <1>2, <2>1 DEF Finish, PastOK
  <2>4. CASE OnAgent(r)
    BY <1>0, <1>2, <2>1, <2>2, <2>3, <2>4 DEF Finish, Grounded, RoundsOK, PastOK
  <2>5. CASE ~OnAgent(r)
    BY <1>0, <1>2, <2>2, <2>5 DEF Finish, Grounded
  <2> QED BY <2>4, <2>5
<1>3. ASSUME NEW r \in Rounds, NEW c \in Commands, Record(r, c) PROVE Grounded'
  BY <1>0, <1>3 DEF Record, Grounded, RoundsOK
<1>4. ASSUME NEW r \in Rounds, LoseResults(r) PROVE Grounded'
  BY <1>0, <1>4 DEF LoseResults, Grounded, RoundsOK, NoResults
<1>5. ASSUME NEW h \in Hosts, Crash(h) PROVE Grounded'
  BY <1>0, <1>5 DEF Crash, Grounded, RoundsOK, NoResults
<1>6. CASE UNCHANGED <<results, journal, seen>>
  BY <1>6 DEF Grounded
<1> QED
  BY <1>1, <1>2, <1>3, <1>4, <1>5, <1>6
  DEF Next, Work, Report, Handle, Answer, LoseAnswer, Queue, Claim, Refuse, BecomeLate,
      ResetExpired, Finished, vars

\* What the history knows of a command is never forgotten, and a command
\* keeps its host once it is queued.
LEMMA PastGrows ==
    ASSUME TypeOK, [Next]_vars, NEW c \in Commands
    PROVE  seen[c] \subseteq seen'[c] /\ (status[c] # "new" => target'[c] = target[c])
<1> USE DEF row, round, history
<1>1. ASSUME NEW r \in Rounds, NEW outcome \in Outcomes, Finish(r, outcome)
      PROVE seen[c] \subseteq seen'[c] /\ target' = target
  BY <1>1 DEF Finish, TypeOK
<1>2. ASSUME NEW d \in Commands, NEW h \in Hosts, Queue(d, h)
      PROVE seen[c] \subseteq seen'[c] /\ (status[c] # "new" => target'[c] = target[c])
  BY <1>2 DEF Queue, TypeOK
<1> QED
  BY <1>1, <1>2
  DEF Next, Work, Report, Handle, Answer, LoseAnswer, Claim, Refuse, Begin, Record,
      LoseResults, Crash, BecomeLate, ResetExpired, Finished, vars

\* Rounds keep to their host.
LEMMA RightHostStep ==
    ASSUME TypeOK, RightHost, [Next]_vars
    PROVE  RightHost'
<1> USE CommandsAssumption DEF row, round, history
<1>0. RowsOK /\ RoundsOK
  BY TypeParts
<1>a. ASSUME NEW c \in Commands, status[c] # "new" PROVE status'[c] # "new" /\ target'[c] = target[c]
  BY <1>a, RowSteps, PastGrows DEF RowStep, Outcomes
<1>b. SUFFICES ASSUME NEW r \in Rounds, NEW c \in Commands, c \in batch'[r] \/ running'[r] = c
               PROVE  \/ c \in batch[r] \/ running[r] = c
                      \/ target[c] = RoundHost[r] /\ status[c] # "new"
  BY <1>a, <1>b DEF RightHost
<1>c. c # None
  OBVIOUS
<1>1. ASSUME NEW q \in Rounds, Claim(q)
      PROVE \/ c \in batch[r] \/ running[r] = c
            \/ target[c] = RoundHost[r] /\ status[c] # "new"
  <2> DEFINE claimed == FirstOf(Claimable(RoundHost[q]))
  <2>1. claimed \subseteq {d \in Commands : target[d] = RoundHost[q] /\ status[d] = "pending"}
    BY DEF FirstOf, Claimable
  <2>2. batch' = [batch EXCEPT ![q] = claimed] /\ running' = running
    BY <1>1 DEF Claim
  <2> HIDE DEF claimed
  <2>3. CASE c \in batch[r] \/ running[r] = c
    BY <2>3
  <2>4. CASE ~(c \in batch[r] \/ running[r] = c)
    <3>1. r = q /\ c \in claimed
      BY <1>0, <1>b, <2>2, <2>4 DEF RoundsOK
    <3>2. target[c] = RoundHost[r] /\ status[c] = "pending"
      BY <2>1, <3>1
    <3> QED BY <3>2
  <2> QED BY <2>3, <2>4
<1>2. ASSUME NEW q \in Rounds, NEW d \in Commands, Begin(q, d)
      PROVE c \in batch[r] \/ running[r] = c
  BY <1>0, <1>b, <1>2 DEF Begin, RoundsOK
<1>3. ASSUME NEW q \in Rounds, NEW outcome \in Outcomes, Finish(q, outcome)
      PROVE c \in batch[r] \/ running[r] = c
  BY <1>0, <1>b, <1>c, <1>3 DEF Finish, RoundsOK
<1>4. ASSUME NEW q \in Rounds, NEW d \in Commands, Refuse(q, d)
      PROVE c \in batch[r] \/ running[r] = c
  BY <1>0, <1>b, <1>4 DEF Refuse, RoundsOK
<1>5. ASSUME NEW q \in Rounds, Handle(q)
      PROVE c \in batch[r] \/ running[r] = c
  BY <1>0, <1>b, <1>5 DEF Handle, Answer, LoseAnswer, RoundsOK
<1>6. ASSUME NEW h \in Hosts, Crash(h)
      PROVE c \in batch[r] \/ running[r] = c
  BY <1>0, <1>b, <1>c, <1>6 DEF Crash, RoundsOK
<1>7. CASE UNCHANGED <<batch, running>>
  BY <1>b, <1>7
<1> QED
  BY <1>1, <1>2, <1>3, <1>4, <1>5, <1>6, <1>7
  DEF Next, Work, Report, Queue, Record, LoseResults, BecomeLate, ResetExpired, Finished, vars

\* A row that a step closes is told the truth about.
LEMMA ClosedTruly ==
    ASSUME TypeOK, RightHost, Grounded, [Next]_vars, NEW c \in Commands,
           ~Closed(c), Closed(c)'
    PROVE  /\ status'[c] = "done" => "done" \in seen'[c]
           /\ status'[c] = "failed" /\ target'[c] \in Agents =>
                 "failed" \in seen'[c] \/ attempts'[c] = MaxAttempts
<1> USE DEF row, round, history, Closed, Outcomes
<1>0. RowsOK /\ RoundsOK /\ PastOK
  BY TypeParts
<1>1. ASSUME NEW r \in Rounds, NEW outcome \in Outcomes, Finish(r, outcome)
      PROVE  /\ status'[c] = "done" => "done" \in seen'[c]
             /\ status'[c] = "failed" /\ target'[c] \in Agents => "failed" \in seen'[c]
  <2> DEFINE d == running[r]
  <2>1. d \in Commands /\ target[d] = RoundHost[r]
    BY <1>0, <1>1 DEF Finish, RoundsOK, RightHost
  <2>2. c = d /\ ~OnAgent(r) /\ status'[c] \in {outcome, "failed"} /\ target' = target
    BY <1>0, <1>1, <2>1 DEF Finish, Complete, RowsOK
  <2>3. outcome \in seen'[c]
    BY <1>0, <1>1, <2>1, <2>2 DEF Finish, PastOK
  <2> QED BY <2>1, <2>2, <2>3 DEF OnAgent
<1>2. ASSUME NEW r \in Rounds, NEW d \in Commands, Record(r, d)
      PROVE status'[c] \in seen'[c]
  <2>1. results[r][d] \in Outcomes /\ results[r][d] \in seen[d]
    BY <1>0, <1>2, RoundType DEF Record, Grounded
  <2> QED BY <1>0, <1>2, <2>1 DEF Record, Complete, RowsOK
<1>3. CASE ResetExpired
  <2>1. status'[c] = "failed" /\ ~Retries(c) /\ attempts' = attempts
    BY <1>0, <1>3 DEF ResetExpired, RowsOK
  <2>2. attempts[c] \in 0..MaxAttempts /\ MaxAttempts \in Nat
    BY <1>0, CommandsAssumption DEF RowsOK
  <2> QED BY <2>1, <2>2 DEF Retries
<1> QED
  BY <1>0, <1>1, <1>2, <1>3
  DEF Next, Work, Report, Handle, Answer, LoseAnswer, Queue, Claim, Refuse, Release, Begin,
      LoseResults, Crash, BecomeLate, Finished, vars, RowsOK

\* The table goes on telling the truth.
LEMMA TruthStep ==
    ASSUME TypeOK, RightHost, Grounded, StatusTellsTheTruth, [Next]_vars
    PROVE  StatusTellsTheTruth'
<1> SUFFICES ASSUME NEW c \in Commands
             PROVE  /\ status'[c] = "done" => "done" \in seen'[c]
                    /\ status'[c] = "failed" /\ target'[c] \in Agents =>
                          "failed" \in seen'[c] \/ attempts'[c] = MaxAttempts
  BY DEF StatusTellsTheTruth
<1>1. CASE Closed(c)
  <2>1. status'[c] = status[c] /\ attempts'[c] = attempts[c] /\ status[c] # "new"
    BY <1>1, RowSteps DEF RowStep, Closed, Outcomes
  <2>2. seen[c] \subseteq seen'[c] /\ target'[c] = target[c]
    BY <2>1, PastGrows
  <2> QED BY <2>1, <2>2 DEF StatusTellsTheTruth
<1>2. CASE ~Closed(c) /\ Closed(c)'
  BY <1>2, ClosedTruly
<1>3. CASE ~Closed(c)'
  BY <1>3 DEF Closed, Outcomes
<1> QED BY <1>1, <1>2, <1>3

\* A set of rounds has a size, which does not grow when rounds leave it.
LEMMA RoundsCounted ==
    ASSUME NEW S \in SUBSET Rounds, NEW T \in SUBSET S
    PROVE  /\ IsFiniteSet(S) /\ Cardinality(S) \in Nat
           /\ Cardinality(T) \in Nat /\ Cardinality(T) <= Cardinality(S)
BY CommandsAssumption, FS_Subset, FS_CardinalityType

\* A round that takes a command, or lets go of one, changes its count by one.
LEMMA OneMore ==
    ASSUME NEW S \in SUBSET Rounds, NEW r \in Rounds
    PROVE  /\ Cardinality(S \union {r}) <= Cardinality(S) + 1
           /\ r \in S => Cardinality(S \ {r}) + 1 = Cardinality(S)
<1>1. IsFiniteSet(S) /\ Cardinality(S) \in Nat
  BY RoundsCounted
<1>2. Cardinality(S \union {r}) <= Cardinality(S) + 1
  BY <1>1, FS_AddElement
<1>3. r \in S => Cardinality(S \ {r}) + 1 = Cardinality(S)
  <2> SUFFICES ASSUME r \in S PROVE Cardinality(S \ {r}) + 1 = Cardinality(S)
    OBVIOUS
  <2>1. Cardinality(S \ {r}) = Cardinality(S) - 1
    BY <1>1, FS_RemoveElement
  <2> QED BY <1>1, <2>1
<1> QED BY <1>2, <1>3

\* A delivery is counted when it is handed out, and again as a run only when a
\* round gives it up for that run.
LEMMA DeliveriesStep ==
    ASSUME TypeOK, RightHost, DeliveriesCount, [Next]_vars
    PROVE  DeliveriesCount'
<1> USE CommandsAssumption DEF row, round, history
<1>0. RowsOK /\ RoundsOK /\ PastOK
  BY TypeParts
<1> SUFFICES ASSUME NEW c \in Commands
             PROVE  runs'[c] + Cardinality(Held(c)') <= attempts'[c]
  BY DEF DeliveriesCount
<1> DEFINE H == Held(c)
           K == Held(c)'
<1>a. H \in SUBSET Rounds /\ K \in SUBSET Rounds
  BY DEF Held
<1>b. /\ Cardinality(H) \in Nat /\ Cardinality(K) \in Nat
      /\ runs[c] \in Nat /\ attempts[c] \in 0..MaxAttempts
  BY <1>0, <1>a, RoundsCounted DEF PastOK, RowsOK
<1>c. runs[c] + Cardinality(H) <= attempts[c]
  BY DEF DeliveriesCount
<1>d. ASSUME K \subseteq H, runs'[c] = runs[c], attempts'[c] = attempts[c]
      PROVE runs'[c] + Cardinality(K) <= attempts'[c]
  <2>1. Cardinality(K) <= Cardinality(H)
    BY <1>a, <1>d, RoundsCounted
  <2> HIDE DEF H, K
  <2> QED BY <1>b, <1>c, <1>d, <2>1
<1>1. ASSUME NEW r \in Rounds, Claim(r) PROVE runs'[c] + Cardinality(K) <= attempts'[c]
  <2> DEFINE claimed == FirstOf(Claimable(RoundHost[r]))
  <2>1. /\ batch' = [batch EXCEPT ![r] = claimed] /\ runs' = runs
        /\ attempts'[c] = attempts[c] + (IF c \in claimed THEN 1 ELSE 0)
        /\ batch[r] = {}
    BY <1>0, <1>1 DEF Claim, RoundsOK
  <2> HIDE DEF claimed
  <2>2. CASE c \in claimed
    <3>1. K = H \union {r}
      BY <1>0, <2>1, <2>2 DEF Held, RoundsOK
    <3>2. Cardinality(K) <= Cardinality(H) + 1
      BY <1>a, <3>1, OneMore
    <3> HIDE DEF H, K
    <3> QED BY <1>b, <1>c, <2>1, <2>2, <3>2
  <2>3. CASE c \notin claimed
    <3>1. K \subseteq H
      BY <1>0, <2>1, <2>3 DEF Held, RoundsOK
    <3>2. attempts'[c] = attempts[c]
      BY <1>b, <2>1, <2>3
    <3> QED BY <1>d, <2>1, <3>1, <3>2
  <2> QED BY <2>2, <2>3
<1>2. ASSUME NEW r \in Rounds, NEW d \in Commands, Refuse(r, d)
      PROVE runs'[c] + Cardinality(K) <= attempts'[c]
  <2>1. K \subseteq H /\ runs' = runs
    BY <1>0, <1>2 DEF Refuse, Held, RoundsOK
  <2>2. CASE attempts'[c] = attempts[c]
    BY <1>d, <2>1, <2>2
  <2>3. CASE attempts'[c] # attempts[c]
    <3>1. /\ d = c /\ r \in H /\ batch' = [batch EXCEPT ![r] = @ \ {c}]
          /\ attempts'[c] = IF attempts[c] = 0 THEN 0 ELSE attempts[c] - 1
      BY <1>0, <1>2, <2>3 DEF Refuse, Release, Held, RowsOK
    <3>2. K = H \ {r}
      BY <1>0, <3>1 DEF Held, RoundsOK
    <3>3. Cardinality(K) + 1 = Cardinality(H)
      BY <1>a, <3>1, <3>2, OneMore
    <3> HIDE DEF H, K
    <3> QED BY <1>b, <1>c, <2>1, <3>1, <3>3
  <2> QED BY <2>2, <2>3
<1>3. ASSUME NEW r \in Rounds, NEW d \in Commands, Begin(r, d)
      PROVE runs'[c] + Cardinality(K) <= attempts'[c]
  <2>1. K \subseteq H /\ attempts' = attempts
    BY <1>0, <1>3 DEF Begin, Held, RoundsOK
  <2>2. CASE runs'[c] = runs[c]
    BY <1>d, <2>1, <2>2
  <2>3. CASE runs'[c] # runs[c]
    <3>1. /\ d = c /\ r \in H /\ batch' = [batch EXCEPT ![r] = @ \ {c}]
          /\ runs'[c] = runs[c] + 1
      BY <1>0, <1>3, <2>3 DEF Begin, Held, PastOK
    <3>2. K = H \ {r}
      BY <1>0, <3>1 DEF Held, RoundsOK
    <3>3. Cardinality(K) + 1 = Cardinality(H)
      BY <1>a, <3>1, <3>2, OneMore
    <3> HIDE DEF H, K
    <3> QED BY <1>b, <1>c, <2>1, <3>1, <3>3
  <2> QED BY <2>2, <2>3
<1>4. ASSUME NEW r \in Rounds, NEW outcome \in Outcomes, Finish(r, outcome)
      PROVE runs'[c] + Cardinality(K) <= attempts'[c]
  BY <1>0, <1>4, <1>d DEF Finish, Complete, Held, RoundsOK
<1>5. ASSUME NEW r \in Rounds, Handle(r) PROVE runs'[c] + Cardinality(K) <= attempts'[c]
  BY <1>0, <1>5, <1>d DEF Handle, Answer, LoseAnswer, Held, RoundsOK
<1>6. ASSUME NEW h \in Hosts, Crash(h) PROVE runs'[c] + Cardinality(K) <= attempts'[c]
  BY <1>0, <1>6, <1>d DEF Crash, Held, RoundsOK
<1>7. CASE UNCHANGED <<batch, runs, attempts>>
  BY <1>7, <1>d DEF Held
<1> QED
  BY <1>1, <1>2, <1>3, <1>4, <1>5, <1>6, <1>7
  DEF Next, Work, Report, Queue, Record, Complete, LoseResults, BecomeLate, ResetExpired,
      Finished, vars

\* CommandsInv holds at first ...
LEMMA CommandsInit == Init => CommandsInv
<1> SUFFICES ASSUME Init PROVE CommandsInv
  OBVIOUS
<1>1. TypeOK
  BY CommandsAssumption, NoResultsType DEF Init, TypeOK, Outcomes, OnAgent, NoResults
<1>2. FreshRows /\ PendingCanBeClaimed /\ Grounded /\ StatusTellsTheTruth
  BY CommandsAssumption
  DEF Init, FreshRows, PendingCanBeClaimed, Grounded, StatusTellsTheTruth, NoResults
<1>3. RightHost
  BY CommandsAssumption DEF Init, RightHost
<1>4. DeliveriesCount
  <2> SUFFICES ASSUME NEW c \in Commands PROVE runs[c] + Cardinality(Held(c)) <= attempts[c]
    BY DEF DeliveriesCount
  <2>1. Held(c) = {}
    BY DEF Init, Held
  <2> QED BY <2>1, FS_EmptySet DEF Init
<1> QED BY <1>1, <1>2, <1>3, <1>4 DEF CommandsInv

\* ... and every step keeps it.
LEMMA CommandsStep == CommandsInv /\ [Next]_vars => CommandsInv'
BY TypeStep, PendingStep, RightHostStep, GroundedStep, TruthStep, DeliveriesStep
DEF CommandsInv

\* CommandsInv is an invariant of the queue.
THEOREM CommandsInvariant == Spec => []CommandsInv
BY CommandsInit, CommandsStep, PTL DEF Spec

\* The variables keep their types (fleetd.js and agent.js).
THEOREM CommandsTypeCorrect == Spec => []TypeOK
<1>1. CommandsInv => TypeOK
  BY DEF CommandsInv
<1> QED BY <1>1, CommandsInvariant, PTL

\* The claim of ha.js:203-217 finds every pending row: none waits for ever with
\* its attempts used up.
THEOREM PendingClaimable == Spec => []PendingCanBeClaimed
<1>1. CommandsInv => PendingCanBeClaimed
  BY DEF CommandsInv
<1> QED BY <1>1, CommandsInvariant, PTL

\* What completeCommand and resetExpiredCommands write (ha.js:246-263) has
\* happened on the host.
THEOREM TruthfulStatus == Spec => []StatusTellsTheTruth
<1>1. CommandsInv => StatusTellsTheTruth
  BY DEF CommandsInv
<1> QED BY <1>1, CommandsInvariant, PTL

\* A host starts a command no more often than it was delivered, whatever
\* releaseCommandClaim gives back.
THEOREM DeliveriesBoundRuns == Spec => []RunsWithinAttempts
<1>1. CommandsInv => RunsWithinAttempts
  <2> SUFFICES ASSUME CommandsInv, NEW c \in Commands PROVE runs[c] <= attempts[c]
    BY DEF RunsWithinAttempts
  <2>1. Cardinality(Held(c)) \in Nat /\ runs[c] \in Nat /\ attempts[c] \in 0..MaxAttempts
    BY RoundsCounted DEF Held, CommandsInv, TypeOK
  <2>2. runs[c] + Cardinality(Held(c)) <= attempts[c]
    BY DEF CommandsInv, DeliveriesCount
  <2> QED BY <2>1, <2>2, CommandsAssumption
<1> QED BY <1>1, CommandsInvariant, PTL

\* The condition status = 'sent' of completeCommand keeps a verdict
\* (ha.js:246-253).
THEOREM VerdictsFinal == Spec => VerdictIsFinal
<1>1. TypeOK /\ [Next]_vars => [\A c \in Commands : Closed(c) => status'[c] = status[c]]_vars
  BY RowSteps DEF RowStep, Closed, Outcomes
<1> QED BY <1>1, CommandsTypeCorrect, PTL DEF Spec, VerdictIsFinal
=============================================================================
