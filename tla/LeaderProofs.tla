---------------------------- MODULE LeaderProofs ----------------------------
(***************************************************************************)
(* The safety of Leader, proved for any number of replicas, of overlapping *)
(* rounds and of connections, and any number of faults.                    *)
(***************************************************************************)
EXTENDS Leader, TLAPS

\* The client that a replica keeps holds the lock for as long as its session
\* lives.
KeptHolds ==
    \A r \in Replicas :
        leaderClient[r] # NoOne /\ ~Ended(leaderClient[r]) => lock = leaderClient[r]

\* Who takes itself for the leader keeps a client.
LeaderKeeps == \A r \in Replicas : isLeader[r] => leaderClient[r] # NoOne

\* A query that a leader waits for and that can be answered runs on the client
\* kept now, whatever the other rounds have done since it was sent.
QueriesOnKept ==
    \A n \in Elections :
        pc[n] \in {"select", "renew", "insert"} /\ Connected(client[n]) =>
            leaderClient[ElectionAt[n]] = client[n]

\* A client that tries for the lock belongs to one round alone.
TriesAlone ==
    \A n \in Elections : pc[n] = "lock" =>
        /\ client[n] # leaderClient[ElectionAt[n]]
        /\ \A m \in Elections : client[m] = client[n] => m = n

ElectionInv ==
    LeaderTypeOK /\ KeptHolds /\ LeaderKeeps /\ LockIsKept /\ QueriesOnKept /\ TriesAlone

\* Types of what one round refers to.
LEMMA RoundType ==
    ASSUME LeaderTypeOK, NEW n \in Elections
    PROVE  /\ ElectionAt[n] \in Replicas
           /\ leaderClient[ElectionAt[n]] \in Clients \union {NoOne}
           /\ client[n] # NoOne => client[n] \in Clients /\ ClientAt[client[n]] = ElectionAt[n]
           /\ pc[n] \in {"select", "renew", "lock", "insert"} => client[n] # NoOne
           /\ NoOne \notin Clients
BY LeaderAssumption DEF LeaderTypeOK

\* Nobody else's client is the one of a round, nor of a replica.
LEMMA OwnClients ==
    ASSUME LeaderTypeOK, NEW n \in Elections, client[n] # NoOne, NEW r \in Replicas, r # ElectionAt[n]
    PROVE  leaderClient[r] # client[n] /\ \A m \in Elections : client[m] = client[n] => ElectionAt[m] = ElectionAt[n]
BY RoundType DEF LeaderTypeOK

\* The one picked is one of those given.
LEMMA OneOfThem == \A free : OneOf(free) \subseteq free
BY DEF OneOf

\* Initially nobody leads and no round is in progress.
LEMMA ElectionInit == LeaderInit => ElectionInv
<1> SUFFICES ASSUME LeaderInit PROVE ElectionInv
  OBVIOUS
<1>1. LeaderTypeOK
  BY LeaderAssumption DEF LeaderInit, LeaderTypeOK
<1>2. KeptHolds /\ LeaderKeeps /\ LockIsKept /\ QueriesOnKept /\ TriesAlone
  BY LeaderAssumption DEF LeaderInit, KeptHolds, LeaderKeeps, LockIsKept, QueriesOnKept, TriesAlone
<1> QED BY <1>1, <1>2 DEF ElectionInv

\* Closing the kept client leaves its lock with a client that is cut, and every
\* other client as it was.
LEMMA LoseStep ==
    ASSUME ElectionInv, NEW r \in Replicas,
           lock' = lock \/ (lock = NoOne /\ lock' \in Clients /\ conn[lock'] = "cut"),
           leaderClient' = [leaderClient EXCEPT ![r] = NoOne],
           conn' \in [Clients -> {"spare", "out", "lost", "cut"}],
           \A c \in Clients : \/ c = leaderClient[r] /\ conn'[c] = Destroyed(c)
                              \/ c # leaderClient[r] /\ conn'[c] = conn[c]
                              \/ /\ c # leaderClient[r] /\ ~Connected(c) /\ conn'[c] = Released(c)
                                 /\ ClientAt[c] = r
    PROVE  /\ KeptHolds' /\ LockIsKept'
           /\ \A n \in Elections : pc[n] \in {"select", "renew", "insert"} /\ Connected(client[n])' /\ client'[n] = client[n] =>
                                   leaderClient'[ElectionAt[n]] = client[n]
<1> USE LeaderAssumption
<1>1. \A s \in Replicas \ {r} : leaderClient'[s] = leaderClient[s]
                               /\ (leaderClient[s] # NoOne => conn'[leaderClient[s]] = conn[leaderClient[s]])
  BY DEF ElectionInv, LeaderTypeOK
<1>2. leaderClient'[r] = NoOne
  BY DEF ElectionInv, LeaderTypeOK
<1>3. KeptHolds'
  BY <1>1, <1>2 DEF ElectionInv, KeptHolds, Ended, LeaderTypeOK
<1>4. ASSUME lock' # lock PROVE LockIsKept'
  BY <1>4 DEF Destroyed, Released, LockIsKept
<1>5. ASSUME lock' = lock PROVE LockIsKept'
  <2> SUFFICES ASSUME lock # NoOne
               PROVE  conn'[lock] = "cut" \/ (conn'[lock] = "out" /\ leaderClient'[ClientAt[lock]] = lock)
    BY <1>5 DEF LockIsKept
  <2>1. lock \in Clients /\ (conn[lock] = "cut" \/ (conn[lock] = "out" /\ leaderClient[ClientAt[lock]] = lock))
    BY DEF ElectionInv, LockIsKept, LeaderTypeOK
  <2>2. CASE lock = leaderClient[r]
    BY <2>1, <2>2 DEF Destroyed
  <2>3. CASE lock # leaderClient[r]
    BY <1>1, <2>1, <2>3 DEF Released, Connected, ElectionInv, LeaderTypeOK
  <2> QED BY <2>2, <2>3
<1>6. ASSUME NEW n \in Elections, pc[n] \in {"select", "renew", "insert"}, Connected(client[n])', client'[n] = client[n]
      PROVE  leaderClient'[ElectionAt[n]] = client[n]
  <2>1. client[n] \in Clients /\ conn'[client[n]] = "out" /\ ElectionAt[n] \in Replicas
    BY <1>6, RoundType DEF Connected, ElectionInv
  <2>2. client[n] # leaderClient[r] /\ conn[client[n]] = "out"
    BY <2>1 DEF Destroyed, Released, Connected
  <2>3. leaderClient[ElectionAt[n]] = client[n]
    BY <1>6, <2>2 DEF ElectionInv, QueriesOnKept, Connected
  <2> QED BY <1>1, <2>1, <2>2, <2>3
<1> QED BY <1>3, <1>4, <1>5, <1>6

\* The steps of a round that change no connection.
LEMMA QuietStep ==
    ASSUME ElectionInv, NEW n \in Elections, Elect(n) \/ Selected(n) \/ Renewed(n) \/ Inserted(n) \/ ReadLease(n)
    PROVE  ElectionInv'
<1> USE LeaderAssumption
<1> DEFINE r == ElectionAt[n]
<1>0. LeaderTypeOK /\ r \in Replicas
  BY RoundType DEF ElectionInv
<1>1. CASE Elect(n)
  <2>1. LeaderTypeOK'
    BY <1>0, <1>1 DEF Elect, Goto, LeaderTypeOK, server, role
  <2>2. QueriesOnKept' /\ TriesAlone'
    BY <1>0, <1>1 DEF Elect, Goto, LeaderTypeOK, ElectionInv, QueriesOnKept, TriesAlone, Connected
  <2> QED BY <1>1, <2>1, <2>2 DEF Elect, ElectionInv, KeptHolds, LeaderKeeps, LockIsKept, Ended, server, role
<1>2. CASE Selected(n)
  <2>1. LeaderTypeOK'
    BY <1>0, <1>2 DEF Selected, Goto, LeaderTypeOK, server, role
  <2>2. QueriesOnKept' /\ TriesAlone'
    BY <1>0, <1>2 DEF Selected, Goto, LeaderTypeOK, ElectionInv, QueriesOnKept, TriesAlone, Connected
  <2> QED BY <1>2, <2>1, <2>2 DEF Selected, ElectionInv, KeptHolds, LeaderKeeps, LockIsKept, Ended, server, role
<1>3. CASE Renewed(n) \/ Inserted(n)
  <2>1. /\ pc[n] \in {"renew", "insert"} /\ Connected(client[n]) /\ lease' = r
        /\ SetRole(r, TRUE, r) /\ Goto(n, "idle", NoOne) /\ UNCHANGED <<lock, conn, leaderClient, leaderFaults>>
    BY <1>3 DEF Renewed, Inserted
  <2>2. LeaderTypeOK'
    BY <1>0, <2>1 DEF SetRole, Goto, LeaderTypeOK
  <2>3. QueriesOnKept' /\ TriesAlone'
    BY <1>0, <2>1 DEF Goto, LeaderTypeOK, ElectionInv, QueriesOnKept, TriesAlone, Connected
  <2>4. leaderClient[r] # NoOne
    BY <2>1, RoundType DEF ElectionInv, QueriesOnKept
  <2>5. LeaderKeeps'
    BY <1>0, <2>1, <2>4 DEF SetRole, LeaderTypeOK, ElectionInv, LeaderKeeps
  <2> QED BY <2>1, <2>2, <2>3, <2>5 DEF ElectionInv, KeptHolds, LockIsKept, Ended
<1>4. CASE ReadLease(n)
  <2>1. LeaderTypeOK'
    BY <1>0, <1>4 DEF ReadLease, SetRole, Goto, LeaderTypeOK, server
  <2>2. QueriesOnKept' /\ TriesAlone'
    BY <1>0, <1>4 DEF ReadLease, Goto, LeaderTypeOK, ElectionInv, QueriesOnKept, TriesAlone, Connected
  <2>3. LeaderKeeps'
    BY <1>0, <1>4 DEF ReadLease, SetRole, LeaderTypeOK, ElectionInv, LeaderKeeps
  <2> QED BY <1>4, <2>1, <2>2, <2>3 DEF ReadLease, ElectionInv, KeptHolds, LockIsKept, Ended, server
<1> QED BY <1>1, <1>2, <1>3, <1>4

\* The steps that lose leadership, and what their round does next.
LEMMA LosingStep ==
    ASSUME ElectionInv, NEW n \in Elections, SessionFails(n) \/ ElectionFails(n) \/ CallFails(n)
    PROVE  ElectionInv'
<1> USE LeaderAssumption
<1> DEFINE r == ElectionAt[n]
<1>0. LeaderTypeOK /\ r \in Replicas
  BY RoundType DEF ElectionInv
<1>1. PICK step \in {"idle", "connect"} : Goto(n, step, NoOne)
  BY DEF SessionFails, ElectionFails, CallFails
<1>2. /\ lock' = lock \/ (lock = NoOne /\ lock' \in Clients /\ conn[lock'] = "cut")
      /\ leaderClient' = [leaderClient EXCEPT ![r] = NoOne]
      /\ SetRole(r, FALSE, NoOne)
  BY <1>0, RoundType DEF SessionFails, ElectionFails, CallFails, loseLeadership, MaybeRun, server
<1>3. /\ lease' \in Replicas \union {NoOne}
      /\ leaderFaults' \in 0..MaxLeaderFaults
  <2>1. lease \in Replicas \union {NoOne} /\ leaderFaults \in 0..MaxLeaderFaults
    BY <1>0 DEF LeaderTypeOK
  <2>2. CASE MaybeRun(n) /\ UNCHANGED leaderFaults
    BY <1>0, <2>1, <2>2 DEF MaybeRun
  <2>3. CASE CallFails(n)
    BY <2>1, <2>3 DEF CallFails, Fault, server
  <2> QED BY <2>2, <2>3 DEF SessionFails, ElectionFails
<1>4. /\ conn' \in [Clients -> {"spare", "out", "lost", "cut"}]
      /\ \A c \in Clients : \/ c = leaderClient[r] /\ conn'[c] = Destroyed(c)
                            \/ c # leaderClient[r] /\ conn'[c] = conn[c]
                            \/ /\ c # leaderClient[r] /\ ~Connected(c) /\ conn'[c] = Released(c)
                               /\ ClientAt[c] = r
  <2>1. CASE SessionFails(n) \/ CallFails(n)
    <3>1. conn' = [c \in Clients |-> IF c = leaderClient[r] THEN Destroyed(c) ELSE conn[c]]
      BY <2>1 DEF SessionFails, CallFails, loseLeadership
    <3>2. conn \in [Clients -> {"spare", "out", "lost", "cut"}]
      BY <1>0 DEF LeaderTypeOK
    <3> QED BY <3>1, <3>2 DEF Destroyed
  <2>2. CASE ElectionFails(n)
    BY <1>0, <2>2, RoundType DEF ElectionFails, Destroyed, Released, LeaderTypeOK
  <2> QED BY <2>1, <2>2
<1>5. LeaderTypeOK'
  BY <1>0, <1>1, <1>2, <1>3, <1>4 DEF SetRole, Goto, LeaderTypeOK
<1>6. /\ KeptHolds' /\ LockIsKept'
      /\ \A m \in Elections : pc[m] \in {"select", "renew", "insert"} /\ Connected(client[m])' /\ client'[m] = client[m] =>
                              leaderClient'[ElectionAt[m]] = client[m]
  BY <1>0, <1>2, <1>4, LoseStep
<1>7. QueriesOnKept'
  BY <1>0, <1>1, <1>6 DEF Goto, LeaderTypeOK, QueriesOnKept, Connected
<1>8. TriesAlone'
  BY <1>0, <1>1, <1>2 DEF Goto, LeaderTypeOK, ElectionInv, TriesAlone
<1>9. LeaderKeeps'
  BY <1>0, <1>2 DEF SetRole, LeaderTypeOK, ElectionInv, LeaderKeeps
<1> QED BY <1>5, <1>6, <1>7, <1>8, <1>9 DEF ElectionInv

\* A standby takes a client and tries for the lock.
LEMMA TryStep ==
    ASSUME ElectionInv, NEW n \in Elections, Connect(n) \/ Won(n) \/ NotWon(n)
    PROVE  ElectionInv'
<1> USE LeaderAssumption
<1> DEFINE r == ElectionAt[n]
<1>0. LeaderTypeOK /\ r \in Replicas
  BY RoundType DEF ElectionInv
<1>1. CASE Connect(n)
  <2>1. PICK c \in Clients : /\ ClientAt[c] = r /\ Unused(c)
                             /\ conn' = [conn EXCEPT ![c] = "out"]
                             /\ Goto(n, "lock", c)
    BY <1>1, OneOfThem DEF Connect
  <2>2. UNCHANGED <<server, leaderClient, role, leaderFaults>>
    BY <1>1 DEF Connect
  <2>3. conn[c] = "spare" /\ c # leaderClient[r] /\ \A m \in Elections : client[m] # c
    BY <2>1 DEF Unused
  <2>4. \A s \in Replicas : leaderClient[s] # c
    BY <2>1, <2>3, <1>0 DEF LeaderTypeOK
  <2>5. LeaderTypeOK'
    BY <1>0, <2>1, <2>2 DEF Goto, LeaderTypeOK, server, role
  <2>6. lock # c
    BY <2>3 DEF ElectionInv, LockIsKept
  <2>7. KeptHolds' /\ LockIsKept' /\ LeaderKeeps'
    BY <1>0, <2>1, <2>2, <2>4, <2>6 DEF ElectionInv, KeptHolds, LockIsKept, LeaderKeeps, Ended, LeaderTypeOK, server, role
  <2>8. QueriesOnKept'
    BY <1>0, <2>1, <2>2, <2>3 DEF Goto, LeaderTypeOK, ElectionInv, QueriesOnKept, Connected
  <2>9. TriesAlone'
    BY <1>0, <2>1, <2>2, <2>3 DEF Goto, LeaderTypeOK, ElectionInv, TriesAlone
  <2> QED BY <2>5, <2>7, <2>8, <2>9 DEF ElectionInv
<1>2. CASE Won(n)
  <2> DEFINE c == client[n]
  <2>1. c \in Clients /\ ClientAt[c] = r /\ c # leaderClient[r] /\ \A m \in Elections : client[m] = c => m = n
    BY <1>0, <1>2, RoundType DEF Won, ElectionInv, TriesAlone
  <2>2. /\ conn[c] = "out" /\ lock \in {NoOne, c} /\ lock' = c
        /\ leaderClient' = [leaderClient EXCEPT ![r] = c]
        /\ Goto(n, "insert", c) /\ UNCHANGED <<lease, conn, role, leaderFaults>>
    BY <1>2 DEF Won, Connected
  <2>3. LeaderTypeOK'
    BY <1>0, <2>1, <2>2 DEF Goto, LeaderTypeOK, role
  <2>4. \A s \in Replicas : s # r => leaderClient[s] # c
    BY <1>0, <2>1 DEF LeaderTypeOK
  <2>5. KeptHolds' /\ LockIsKept' /\ LeaderKeeps'
    BY <1>0, <2>1, <2>2, <2>4 DEF ElectionInv, KeptHolds, LockIsKept, LeaderKeeps, Ended, LeaderTypeOK, role
  <2>6. ASSUME NEW m \in Elections, m # n, pc[m] \in {"select", "renew", "insert"}, Connected(client[m])
        PROVE  ElectionAt[m] # r
    <3>1. leaderClient[ElectionAt[m]] = client[m] /\ client[m] # NoOne /\ ElectionAt[m] \in Replicas
      BY <1>0, <2>6, RoundType DEF ElectionInv, QueriesOnKept
    <3>2. lock = client[m]
      BY <3>1, <2>6 DEF ElectionInv, KeptHolds, Ended, Connected
    <3> QED BY <2>1, <2>2, <2>6, <3>1, <3>2
  <2>7. QueriesOnKept'
    BY <1>0, <2>2, <2>6 DEF Goto, LeaderTypeOK, ElectionInv, QueriesOnKept, Connected
  <2>8. TriesAlone'
    BY <1>0, <2>1, <2>2 DEF Goto, LeaderTypeOK, ElectionInv, TriesAlone
  <2> QED BY <2>3, <2>5, <2>7, <2>8 DEF ElectionInv
<1>3. CASE NotWon(n)
  <2> DEFINE c == client[n]
  <2>1. c \in Clients /\ ClientAt[c] = r /\ c # leaderClient[r] /\ \A m \in Elections : client[m] = c => m = n
    BY <1>0, <1>3, RoundType DEF NotWon, ElectionInv, TriesAlone
  <2>2. /\ lock # c /\ conn' = [conn EXCEPT ![c] = "spare"]
        /\ Goto(n, "read", NoOne) /\ UNCHANGED <<server, leaderClient, role, leaderFaults>>
    BY <1>3 DEF NotWon, Connected, Released
  <2>3. LeaderTypeOK'
    BY <1>0, <2>1, <2>2 DEF Goto, LeaderTypeOK, server, role
  <2>4. \A s \in Replicas : leaderClient[s] # c
    BY <1>0, <2>1 DEF LeaderTypeOK
  <2>5. KeptHolds' /\ LockIsKept' /\ LeaderKeeps'
    BY <1>0, <2>2, <2>4 DEF ElectionInv, KeptHolds, LockIsKept, LeaderKeeps, Ended, LeaderTypeOK, server, role
  <2>6. QueriesOnKept'
    BY <1>0, <2>1, <2>2 DEF Goto, LeaderTypeOK, ElectionInv, QueriesOnKept, Connected
  <2>7. TriesAlone'
    BY <1>0, <2>2 DEF Goto, LeaderTypeOK, ElectionInv, TriesAlone
  <2> QED BY <2>3, <2>5, <2>6, <2>7 DEF ElectionInv
<1> QED BY <1>1, <1>2, <1>3

\* The network and PostgreSQL.
LEMMA SessionStep ==
    ASSUME ElectionInv, NEW c \in Clients, LoseSession(c) \/ CutClient(c) \/ EndSession(c)
    PROVE  ElectionInv'
<1> USE LeaderAssumption
<1>1. PICK state \in {"lost", "cut", "spare"} : conn' = [conn EXCEPT ![c] = state]
  BY DEF LoseSession, CutClient, EndSession
<1>2. /\ conn[c] \in {"out", "cut"} /\ UNCHANGED <<lease, leaderClient, role, electing>> /\ leaderFaults' \in 0..MaxLeaderFaults
      /\ \/ conn'[c] \in {"lost", "spare"} /\ Unlock(c)
         \/ conn'[c] = "cut" /\ UNCHANGED lock
  BY DEF LoseSession, CutClient, EndSession, Fault, ElectionInv, LeaderTypeOK, server
<1>3. LeaderTypeOK'
  BY <1>1, <1>2 DEF Unlock, ElectionInv, LeaderTypeOK, role, electing
<1>4. KeptHolds' /\ LockIsKept'
  BY <1>1, <1>2 DEF Unlock, ElectionInv, LeaderTypeOK, KeptHolds, LockIsKept, Ended
<1>5. LeaderKeeps' /\ QueriesOnKept' /\ TriesAlone'
  BY <1>1, <1>2 DEF ElectionInv, LeaderTypeOK, LeaderKeeps, QueriesOnKept, TriesAlone, Connected, role, electing
<1> QED BY <1>3, <1>4, <1>5 DEF ElectionInv

\* A crash gives up everything of its replica.
LEMMA CrashStep ==
    ASSUME ElectionInv, NEW r \in Replicas, ReplicaCrashes(r)
    PROVE  ElectionInv'
<1> USE LeaderAssumption
<1>0. LeaderTypeOK
  BY DEF ElectionInv
<1>1. LeaderTypeOK'
  BY <1>0 DEF ReplicaCrashes, SetRole, Fault, Destroyed, LeaderTypeOK, server
<1>2. \A c \in Clients : conn'[c] = IF ClientAt[c] = r THEN Destroyed(c) ELSE conn[c]
  BY DEF ReplicaCrashes
<1>3. leaderClient'[r] = NoOne /\ \A s \in Replicas \ {r} : leaderClient'[s] = leaderClient[s]
  BY <1>0 DEF ReplicaCrashes, LeaderTypeOK
<1>4. KeptHolds' /\ LockIsKept' /\ LeaderKeeps'
  BY <1>0, <1>2, <1>3 DEF ReplicaCrashes, SetRole, ElectionInv, KeptHolds, LockIsKept, LeaderKeeps, Destroyed, Ended, LeaderTypeOK, server
<1>5. QueriesOnKept' /\ TriesAlone'
  BY <1>0, <1>2, <1>3, RoundType DEF ReplicaCrashes, ElectionInv, QueriesOnKept, TriesAlone, Connected, LeaderTypeOK
<1> QED BY <1>1, <1>4, <1>5 DEF ElectionInv

\* Every step keeps ElectionInv.
LEMMA ElectionStep == ElectionInv /\ [LeaderNext]_leaderVars => ElectionInv'
<1> SUFFICES ASSUME ElectionInv, [LeaderNext]_leaderVars PROVE ElectionInv'
  OBVIOUS
<1>1. ASSUME NEW r \in Replicas, StartRound(r) PROVE ElectionInv'
  <2>1. PICK n \in Elections : Elect(n)
    BY <1>1, OneOfThem DEF StartRound
  <2> QED BY <2>1, QuietStep
<1>2. ASSUME NEW n \in Elections, Proceed(n) PROVE ElectionInv'
  BY <1>2, QuietStep, LosingStep, TryStep DEF Proceed
<1>3. CASE UNCHANGED leaderVars
  BY <1>3 DEF leaderVars, server, role, electing, ElectionInv, LeaderTypeOK, KeptHolds, LeaderKeeps, LockIsKept,
              QueriesOnKept, TriesAlone, Ended, Connected
<1> QED BY <1>1, <1>2, <1>3, LosingStep, SessionStep, CrashStep DEF LeaderNext

\* ElectionInv is an invariant of the election.
THEOREM ElectionInvariant == LeaderSpec => []ElectionInv
BY ElectionInit, ElectionStep, PTL DEF LeaderSpec

\* The variables keep their types, and nobody uses another replica's client.
THEOREM LeaderTypeCorrect == LeaderSpec => []LeaderTypeOK
<1>1. ElectionInv => LeaderTypeOK
  BY DEF ElectionInv
<1> QED BY <1>1, ElectionInvariant, PTL

\* Two replicas that take themselves for the leader keep two clients, and the
\* lock is with one of them at most (ha.js:94-144).
THEOREM ElectsOne == LeaderSpec => []SoleLeader
<1>1. ElectionInv => SoleLeader
  <2> SUFFICES ASSUME ElectionInv, NEW r \in Replicas, NEW s \in Replicas, isLeader[r], isLeader[s], r # s
               PROVE  \E t \in {r, s} : leaderClient[t] # NoOne /\ Ended(leaderClient[t])
    BY DEF SoleLeader
  <2>1. leaderClient[r] # NoOne /\ leaderClient[s] # NoOne
    BY DEF ElectionInv, LeaderKeeps
  <2>2. leaderClient[r] # leaderClient[s]
    BY <2>1 DEF ElectionInv, LeaderTypeOK
  <2> QED BY <2>1, <2>2 DEF ElectionInv, KeptHolds
<1> QED BY <1>1, ElectionInvariant, PTL

\* No interleaving of the rounds leaves the advisory lock with a session that
\* nobody gives up (ha.js:120-150).
THEOREM LockNeverOrphaned == LeaderSpec => []LockIsKept
<1>1. ElectionInv => LockIsKept
  BY DEF ElectionInv
<1> QED BY <1>1, ElectionInvariant, PTL
=============================================================================
