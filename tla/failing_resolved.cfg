\* One workflow that fails on two pushes; nothing is restarted or dismissed.
CONSTANTS
    Hosted = {rc}
    Host = Host
    Disk = Disk
    Pushes = {p1, p2}
    NoPush = NoPush
    Threshold = 2
    SharedModes = {FALSE}
    MaxFlips = 3
    MaxWaves = 0
    MaxRestarts = 0
    MaxSnapshots = 1
SPECIFICATION Spec
PROPERTY ClosedByGreen
CHECK_DEADLOCK FALSE
