------------------------------ MODULE MCServer ------------------------------
(***************************************************************************)
(* What the fleetd replicas do through their database, checked in one run: *)
(* the command queue with a host that has an agent and one that is a       *)
(* replica, and the election of two replicas.  They share no state: the    *)
(* initial state says which of the two moves.                              *)
(***************************************************************************)
EXTENDS MCHostCommands, Leader

CONSTANTS left, right, e1, e2, f1, p1, p2, p3, q1, q2

VARIABLE moving

MCElectionAt == [n \in Elections |-> IF n \in {e1, e2} THEN left ELSE right]
MCClientAt == [c \in Clients |-> IF c \in {p1, p2, p3} THEN left ELSE right]

ServerVars == <<moving, vars, leaderVars>>

ServerInit == moving \in {"commands", "election"} /\ Init /\ LeaderInit

OnCommands(A) == moving = "commands" /\ A /\ UNCHANGED <<moving, leaderVars>>
OnElection(A) == moving = "election" /\ A /\ UNCHANGED <<moving, vars>>

CommandsSteps ==
    \/ \E c \in Commands :
        (\E h \in Hosts : OnCommands(Queue(c, h))) \/ OnCommands(BecomeLate(c))
    \/ \E r \in Rounds :
        \/ OnCommands(Claim(r)) \/ OnCommands(Handle(r)) \/ OnCommands(Work(r))
        \/ OnCommands(Report(r)) \/ \E c \in Commands : OnCommands(Refuse(r, c))
    \/ \E h \in Hosts : OnCommands(Crash(h))
    \/ OnCommands(ResetExpired) \/ OnCommands(Finished)

ElectionSteps ==
    \/ \E r \in Replicas : OnElection(StartRound(r)) \/ OnElection(ReplicaCrashes(r))
    \/ \E n \in Elections :
        \/ OnElection(Selected(n)) \/ OnElection(Renewed(n)) \/ OnElection(SessionFails(n))
        \/ OnElection(Connect(n)) \/ OnElection(Won(n)) \/ OnElection(NotWon(n))
        \/ OnElection(Inserted(n)) \/ OnElection(ElectionFails(n)) \/ OnElection(ReadLease(n))
        \/ OnElection(CallFails(n))
    \/ \E c \in Clients :
        OnElection(LoseSession(c)) \/ OnElection(CutClient(c)) \/ OnElection(EndSession(c))

ServerNext == CommandsSteps \/ ElectionSteps

Moving(p, A) == moving = p /\ A

CanBecomeLate(c) ==
    status[c] = "sent" /\ c \notin late /\ \A r \in Rounds : c \in batch[r] => running[r] # None

\* The fairness of HostCommands and of Leader.  A step that disables itself, and a
\* round, which has an end, are fair just when they are not enabled for ever.
ServerFairness ==
    /\ \A h \in Hosts :
        WF_vars(Moving("commands", \E r \in Rounds : RoundHost[r] = h /\ Claim(r)))
    /\ \A r \in Rounds : []<>~Moving("commands", phase[r] # "idle")
    /\ \A c \in Commands : []<>~Moving("commands", CanBecomeLate(c))
    /\ []<>~Moving("commands", late # {})
    /\ \A r \in Replicas : WF_leaderVars(Moving("election", StartRound(r)))
    /\ \A n \in Elections : WF_leaderVars(Moving("election", Proceed(n)))
    /\ \A c \in Clients :
        []<>~Moving("election", conn[c] = "cut" /\ Settled(ClientAt[c]))

ServerSpec == ServerInit /\ [][ServerNext]_ServerVars /\ ServerFairness

\* The type invariants of both.
ServerTypeOK ==
    /\ moving \in {"commands", "election"}
    /\ moving = "commands" => TypeOK
    /\ moving = "election" => LeaderTypeOK

\* An election in the end, in the behaviours in which elections are held.
LeaderInTheEnd == moving = "election" => OneLeaderInTheEnd
=============================================================================
