\* Nothing is refused and nothing restarts.
CONSTANTS
    agent = agent
    replica = replica
    a1 = a1
    a2 = a2
    b1 = b1
    b2 = b2
    None = None
    Commands = {1, 2}
    Hosts = {agent}
    Agents = {agent}
    Rounds = {a1, a2}
    RoundHost <- MCRoundHost
    NeedToken = {2}
    BatchLimit = 8
    MaxAttempts = 3
    MaxFaults = 0
SPECIFICATION Spec
INVARIANTS NeverRunTwice
