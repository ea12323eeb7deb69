\* Two scripts overlap; one reboot or crash.
CONSTANTS
    s1 = s1
    s2 = s2
    i1 = i1
    i2 = i2
    tiers = tiers
    Operator = Operator
    Scripts = {s1, s2}
    Stoppers = {i1}
    Owners = {tiers}
    MaxRequests = 2
    MaxJobs = 2
    MaxFaults = 1
SPECIFICATION Spec
INVARIANTS TypeOK OwnersRespected HookSparesItsJob
PROPERTIES DrainsTakeHold
CHECK_DEADLOCK FALSE
