\* One runner, three of its jobs, and a worker that dies; nothing else fails.
CONSTANTS
    Runners = {ra}
    NoLease = NoLease
    User = User
    MaxJobs = 3
    MaxDeaths = 1
    MaxSlips = 0
SPECIFICATION LeasesSpec
PROPERTIES NextJobKeepsItsLease
CHECK_DEADLOCK FALSE
