\* One host, a burst of two additions, and removal switched on.
CONSTANTS
    h1 = h1
    q1 = q1
    q2 = q2
    q3 = q3
    Hosts = {h1}
    Coordinator = h1
    Repos = {q1, q2, q3}
    Cap = 2
    Batch = 2
    ProvisionUnserved = TRUE
    ScaleDown = TRUE
    P90 <- NoHistory
    Worlds <- Burst
    MaxQueued = 1
    MaxCommands = 1
SPECIFICATION ScalingSpec
PROPERTIES OneWayPerSweep
CHECK_DEADLOCK FALSE
