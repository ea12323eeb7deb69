\* One script at a time; no reboot or crash.
CONSTANTS
    s1 = s1
    s2 = s2
    i1 = i1
    i2 = i2
    tiers = tiers
    Operator = Operator
    Scripts = {s1}
    Stoppers = {i1}
    Owners = {tiers}
    MaxRequests = 2
    MaxJobs = 1
    MaxFaults = 0
SPECIFICATION Spec
PROPERTIES ResumeStands
CHECK_DEADLOCK FALSE
