\* Two overlapping heartbeats, a poll, and the second command needs a token; two
\* replicas with two overlapping elections and three connections.
CONSTANTS
    agent = agent
    replica = replica
    a1 = a1
    a2 = a2
    b1 = b1
    b2 = b2
    None = None
    Commands = {1, 2}
    Hosts = {agent, replica}
    Agents = {agent}
    Rounds = {a1, a2, b1, b2}
    RoundHost <- MCRoundHost
    NeedToken = {2}
    BatchLimit = 8
    MaxAttempts = 2
    MaxFaults = 1
    left = left
    right = right
    e1 = e1
    e2 = e2
    f1 = f1
    p1 = p1
    p2 = p2
    p3 = p3
    q1 = q1
    q2 = q2
    NoOne = NoOne
    Replicas = {left, right}
    Elections = {e1, e2, f1}
    ElectionAt <- MCElectionAt
    Clients = {p1, p2, p3, q1, q2}
    ClientAt <- MCClientAt
    MaxLeaderFaults = 2
SPECIFICATION ServerSpec
INVARIANTS ServerTypeOK PendingCanBeClaimed RunsWithinAttempts StatusTellsTheTruth SoleLeader LockIsKept
PROPERTIES VerdictIsFinal EveryCommandEnds LeaderInTheEnd
