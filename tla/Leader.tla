------------------------------- MODULE Leader -------------------------------
(***************************************************************************)
(* Leader election of fleetd replicas (dashboard/lib/ha.js).  A replica    *)
(* leads while one of its PostgreSQL sessions holds the advisory lock.     *)
(* setInterval starts an election round every few seconds and does not     *)
(* wait for the last one, so the rounds of one replica interleave at every *)
(* await, and all of them read and write leaderClient.                     *)
(*                                                                         *)
(* One action is a stretch of code between two awaits: the answer to one   *)
(* query and what is done before the next is sent.  The server runs a      *)
(* query when it answers it.                                               *)
(***************************************************************************)
EXTENDS Naturals

CONSTANTS
    Replicas,
    Elections,     \* elections that may be in progress, of all replicas
    ElectionAt,    \* the replica of each
    Clients,    \* the places in the connection pools
    ClientAt,   \* the replica of each
    NoOne,
    MaxLeaderFaults   \* bound: failed calls, lost sessions and crashes

ASSUME LeaderAssumption ==
    /\ ElectionAt \in [Elections -> Replicas]
    /\ ClientAt \in [Clients -> Replicas]
    /\ NoOne \notin Replicas \union Clients
    /\ MaxLeaderFaults \in Nat

VARIABLES
    lock,          \* the session that holds the advisory lock
    lease,         \* holder_id of fleet_control_lease
    conn,          \* "spare", in the pool or closed; "out" of the pool; "lost",
                   \* its session ended and the client not aware; "cut", the
                   \* client closed and the session still there
    leaderClient,
    isLeader, leaderId,
    pc, client,    \* where each round is, and the client its query runs on
    leaderFaults

server == <<lock, lease>>
role == <<isLeader, leaderId>>
electing == <<pc, client>>
leaderVars == <<server, conn, leaderClient, role, electing, leaderFaults>>

LeaderInit ==
    /\ lock = NoOne /\ lease = NoOne
    /\ conn = [c \in Clients |-> "spare"]
    /\ leaderClient = [r \in Replicas |-> NoOne]
    /\ isLeader = [r \in Replicas |-> FALSE]
    /\ leaderId = [r \in Replicas |-> NoOne]
    /\ pc = [n \in Elections |-> "idle"]
    /\ client = [n \in Elections |-> NoOne]
    /\ leaderFaults = 0

\* Rounds are alike, and so are the clients of a pool.
OneOf(free) == IF free = {} THEN {} ELSE {CHOOSE x \in free : TRUE}

\* The session can answer, and its client takes the answer.
Connected(c) == conn[c] = "out"

\* The session has ended, and with it the hold on the lock.
Ended(c) == conn[c] \in {"lost", "spare"}

Fault == leaderFaults < MaxLeaderFaults /\ leaderFaults' = leaderFaults + 1

Goto(n, step, c) ==
    /\ pc' = [pc EXCEPT ![n] = step]
    /\ client' = [client EXCEPT ![n] = c]

SetRole(r, leads, id) ==
    /\ isLeader' = [isLeader EXCEPT ![r] = leads]
    /\ leaderId' = [leaderId EXCEPT ![r] = IF leads THEN r ELSE id]

------------------------------------------------------------------------------

\* Mutant: release(), which keeps the session.
BackToPool(c) == "spare"

\* release(true): the client is closed whatever state it is in.
Destroyed(c) == IF conn[c] \in {"out", "cut"} THEN "cut" ELSE "spare"

\* release(): a client that cannot be used again leaves the pool.
Released(c) == IF conn[c] = "cut" THEN "cut" ELSE "spare"

\* Mutant: the lock is given up and the role kept.
LoseClient(r) ==
    /\ conn' = [c \in Clients |-> IF c = leaderClient[r] THEN Destroyed(c) ELSE conn[c]]
    /\ leaderClient' = [leaderClient EXCEPT ![r] = NoOne]
    /\ UNCHANGED role

loseLeadership(r) ==
    /\ conn' = [c \in Clients |-> IF c = leaderClient[r] THEN Destroyed(c) ELSE conn[c]]
    /\ leaderClient' = [leaderClient EXCEPT ![r] = NoOne]
    /\ SetRole(r, FALSE, NoOne)

\* The timer.  A leader looks at its session, a standby wants a client.
Elect(n) ==
    LET r == ElectionAt[n] IN
    /\ pc[n] = "idle"
    /\ IF leaderClient[r] # NoOne
       THEN Goto(n, "select", leaderClient[r])
       ELSE Goto(n, "connect", NoOne)
    /\ UNCHANGED <<server, conn, leaderClient, role, leaderFaults>>

\* SELECT 1 is answered.  Which client renews the lease is read only now.
Selected(n) ==
    LET r == ElectionAt[n] IN
    /\ pc[n] = "select"
    /\ Connected(client[n])
    /\ leaderClient[r] # NoOne
    /\ Goto(n, "renew", leaderClient[r])
    /\ UNCHANGED <<server, conn, leaderClient, role, leaderFaults>>

Renewed(n) ==
    LET r == ElectionAt[n] IN
    /\ pc[n] = "renew"
    /\ Connected(client[n])
    /\ lease' = r
    /\ SetRole(r, TRUE, r)
    /\ Goto(n, "idle", NoOne)
    /\ UNCHANGED <<lock, conn, leaderClient, leaderFaults>>

\* A query that failed may have been run, as long as its session is there.
MaybeRun(n) ==
    LET c == client[n]
        writes == conn[c] = "cut" /\ pc[n] \in {"renew", "insert"}
        locks == conn[c] = "cut" /\ pc[n] = "lock" /\ lock = NoOne
    IN
    /\ lease' \in {lease} \union IF writes THEN {ElectionAt[n]} ELSE {}
    /\ lock' \in {lock} \union IF locks THEN {c} ELSE {}

\* Mutant: a leader does not mind that its session fails.
StaysLeader(n) ==
    LET r == ElectionAt[n] IN
    /\ pc[n] \in {"select", "renew"}
    /\ ~Connected(client[n]) \/ leaderClient[r] = NoOne
    /\ Goto(n, "idle", NoOne)
    /\ UNCHANGED <<server, conn, leaderClient, role, leaderFaults>>

\* Either of them fails, and the round goes on as a standby's.
SessionFails(n) ==
    LET r == ElectionAt[n] IN
    /\ pc[n] \in {"select", "renew"}
    /\ ~Connected(client[n]) \/ leaderClient[r] = NoOne
    /\ loseLeadership(r)
    /\ MaybeRun(n)
    /\ Goto(n, "connect", NoOne)
    /\ UNCHANGED leaderFaults

\* A place in the pool that no round and no leader refers to.
Unused(c) ==
    /\ conn[c] = "spare"
    /\ c # leaderClient[ClientAt[c]]
    /\ \A n \in Elections : client[n] # c

\* Closing a client fails the queries that wait on it in the same turn of the
\* event loop, so nothing asked of the network later is answered before that.
Settled(r) ==
    \A n \in Elections :
        ElectionAt[n] = r /\ client[n] # NoOne => conn[client[n]] \notin {"cut", "spare"}

Connect(n) ==
    /\ pc[n] = "connect"
    /\ Settled(ElectionAt[n])
    /\ \E c \in OneOf({c \in Clients : ClientAt[c] = ElectionAt[n] /\ Unused(c)}) :
         /\ conn' = [conn EXCEPT ![c] = "out"]
         /\ Goto(n, "lock", c)
    /\ UNCHANGED <<server, leaderClient, role, leaderFaults>>

\* pg_try_advisory_lock is answered: won.
Won(n) ==
    LET c == client[n] IN
    /\ pc[n] = "lock"
    /\ Connected(c)
    /\ lock \in {NoOne, c}
    /\ lock' = c
    /\ leaderClient' = [leaderClient EXCEPT ![ElectionAt[n]] = c]
    /\ Goto(n, "insert", c)
    /\ UNCHANGED <<lease, conn, role, leaderFaults>>

NotWon(n) ==
    LET c == client[n] IN
    /\ pc[n] = "lock"
    /\ Connected(c)
    /\ lock \notin {NoOne, c}
    /\ conn' = [conn EXCEPT ![c] = Released(c)]
    /\ Goto(n, "read", NoOne)
    /\ UNCHANGED <<server, leaderClient, role, leaderFaults>>

Inserted(n) ==
    LET r == ElectionAt[n] IN
    /\ pc[n] = "insert"
    /\ Connected(client[n])
    /\ lease' = r
    /\ SetRole(r, TRUE, r)
    /\ Goto(n, "idle", NoOne)
    /\ UNCHANGED <<lock, conn, leaderClient, leaderFaults>>

\* The query fails.  The finally releases the client unless it leads, and the
\* catch of the timer loses whatever leadership there is by now.
ElectionFails(n) ==
    LET r == ElectionAt[n]
        c == client[n]
    IN
    /\ pc[n] \in {"lock", "insert"}
    /\ ~Connected(c)
    /\ conn' = [d \in Clients |->
                  IF d = leaderClient[r] THEN Destroyed(d) ELSE IF d = c THEN Released(d) ELSE conn[d]]
    /\ leaderClient' = [leaderClient EXCEPT ![r] = NoOne]
    /\ SetRole(r, FALSE, NoOne)
    /\ MaybeRun(n)
    /\ Goto(n, "idle", NoOne)
    /\ UNCHANGED leaderFaults

\* A standby learns who leads.
ReadLease(n) ==
    /\ pc[n] = "read"
    /\ SetRole(ElectionAt[n], FALSE, lease)
    /\ Goto(n, "idle", NoOne)
    /\ UNCHANGED <<server, conn, leaderClient, leaderFaults>>

\* Connecting, or reading, takes too long: the catch of the timer.
CallFails(n) ==
    /\ pc[n] \in {"connect", "read"}
    /\ Fault
    /\ loseLeadership(ElectionAt[n])
    /\ Goto(n, "idle", NoOne)
    /\ UNCHANGED server

------------------------------------------------------------------------------
(* PostgreSQL and the network *)

Unlock(c) == lock' = IF lock = c THEN NoOne ELSE lock

\* The session ends, or its client gives the connection up, and the other side
\* is not told.
LoseSession(c) ==
    /\ conn[c] = "out"
    /\ Fault
    /\ conn' = [conn EXCEPT ![c] = "lost"]
    /\ Unlock(c)
    /\ UNCHANGED <<lease, leaderClient, role, electing>>

CutClient(c) ==
    /\ conn[c] = "out"
    /\ Fault
    /\ conn' = [conn EXCEPT ![c] = "cut"]
    /\ UNCHANGED <<server, leaderClient, role, electing>>

\* The server ends the session of a client that is gone.
EndSession(c) ==
    /\ conn[c] = "cut"
    /\ Settled(ClientAt[c])
    /\ conn' = [conn EXCEPT ![c] = "spare"]
    /\ Unlock(c)
    /\ UNCHANGED <<lease, leaderClient, role, electing, leaderFaults>>

\* fleetd ends and starts again.
ReplicaCrashes(r) ==
    /\ Fault
    /\ conn' = [c \in Clients |-> IF ClientAt[c] = r THEN Destroyed(c) ELSE conn[c]]
    /\ leaderClient' = [leaderClient EXCEPT ![r] = NoOne]
    /\ SetRole(r, FALSE, NoOne)
    /\ pc' = [n \in Elections |-> IF ElectionAt[n] = r THEN "idle" ELSE pc[n]]
    /\ client' = [n \in Elections |-> IF ElectionAt[n] = r THEN NoOne ELSE client[n]]
    /\ UNCHANGED server

------------------------------------------------------------------------------

\* The next step of a round that has started.
Proceed(n) ==
    \/ Selected(n) \/ Renewed(n) \/ SessionFails(n)
    \/ Connect(n) \/ Won(n) \/ NotWon(n) \/ Inserted(n) \/ ElectionFails(n)
    \/ ReadLease(n)

\* Of the rounds that are not in progress one starts.
StartRound(r) == \E n \in OneOf({m \in Elections : ElectionAt[m] = r /\ pc[m] = "idle"}) : Elect(n)

LeaderNext ==
    \/ \E r \in Replicas : StartRound(r) \/ ReplicaCrashes(r)
    \/ \E n \in Elections : Proceed(n) \/ CallFails(n)
    \/ \E c \in Clients : LoseSession(c) \/ CutClient(c) \/ EndSession(c)

\* The timer goes on, calls return, and the server notices closed connections.
LeaderFairness ==
    /\ \A r \in Replicas : WF_leaderVars(StartRound(r))
    /\ \A n \in Elections : WF_leaderVars(Proceed(n))
    /\ \A c \in Clients : WF_leaderVars(EndSession(c))

LeaderSpec == LeaderInit /\ [][LeaderNext]_leaderVars /\ LeaderFairness

------------------------------------------------------------------------------

\* The values of the variables; a leader and a round refer to clients of their
\* own replica, a round while it waits for a query on one.
LeaderTypeOK ==
    /\ lock \in Clients \union {NoOne}
    /\ lease \in Replicas \union {NoOne}
    /\ conn \in [Clients -> {"spare", "out", "lost", "cut"}]
    /\ leaderClient \in [Replicas -> Clients \union {NoOne}]
    /\ isLeader \in [Replicas -> BOOLEAN]
    /\ leaderId \in [Replicas -> Replicas \union {NoOne}]
    /\ pc \in [Elections -> {"idle", "select", "renew", "connect", "lock", "insert", "read"}]
    /\ client \in [Elections -> Clients \union {NoOne}]
    /\ leaderFaults \in 0..MaxLeaderFaults
    /\ \A r \in Replicas : leaderClient[r] # NoOne => ClientAt[leaderClient[r]] = r
    /\ \A n \in Elections :
         /\ client[n] # NoOne => ClientAt[client[n]] = ElectionAt[n]
         /\ client[n] # NoOne <=> pc[n] \in {"select", "renew", "lock", "insert"}

\* "PostgreSQL advisory locking allows exactly one fleetd" to act
\* (docs/federation.md:350): of two replicas that both take themselves for the
\* leader, one has lost its session and does not know.
SoleLeader ==
    \A r, s \in Replicas :
        isLeader[r] /\ isLeader[s] /\ r # s =>
            \E t \in {r, s} : leaderClient[t] # NoOne /\ Ended(leaderClient[t])

\* The lock is with the client that its replica keeps as leaderClient, and will
\* look at and give up; never with one that went back to the pool, or that
\* another round's client took the place of.
LockIsKept ==
    lock # NoOne =>
        \/ conn[lock] = "cut"
        \/ conn[lock] = "out" /\ leaderClient[ClientAt[lock]] = lock

\* "both name the same leaderId, with exactly one role: leader"
\* (docs/operations.md:192): whatever the rounds did to one another, one
\* replica leads in the end and the others know it.
OneLeaderInTheEnd ==
    <>[](\E r \in Replicas : \A s \in Replicas : (isLeader[s] <=> s = r) /\ leaderId[s] = r)
=============================================================================
