\* Each component with the bounds that make its faults and overlaps happen.
CONSTANTS
    Procs = {a, b, c}
    None = None
    MaxKills = 1
    MaxStalls = 0
    Runners = {ra, rb}
    NoLease = NoLease
    User = User
    MaxJobs = 2
    MaxDeaths = 1
    MaxSlips = 1
    Beats = {b1, b2}
    MaxLines = 3
    BatchLines = 2
    MaxLosses = 2
    Hosted = {rc, rd}
    Host = Host
    Disk = Disk
    Pushes = {p1, p2}
    NoPush = NoPush
    Threshold = 2
    SharedModes = {TRUE, FALSE}
    MaxFlips = 3
    MaxWaves = 1
    MaxRestarts = 1
    MaxSnapshots = 2
    Hosts = {h1, h2}
    Coordinator = h1
    Repos = {r1, r2}
    h1 = h1
    h2 = h2
    r1 = r1
    r2 = r2
    Cap = 2
    Batch = 2
    ProvisionUnserved = TRUE
    ScaleDown = TRUE
    P90 <- NoHistory
    Worlds <- AutoscaledWorlds
    MaxQueued = 1
    MaxCommands = 1
    pa = pa
    pb = pb
    sa = sa
    Primary = {pa, pb}
    Standby = {sa}
    Projects = {"A", "B"}
    ProjectOf <- ProjectOfRunner
    FloorProjects = {}
    PinnedProjects = {}
    LaneCap = 1
    ParkModes = {TRUE, FALSE}
    MaxEvents = 2
    Ticks = {t1, t2, t3, t4}
    Nothing = Nothing
    MaxAbandoned = 2
    ca = ca
    cb = cb
    j1 = j1
    j2 = j2
    Capped = {ca, cb}
    NightJobs = {j1, j2}
    NoJob = NoJob
    Fits <- FitsOfJob
    CapSizes = {0, 1}
    NightModes = {"enforce", "off"}
    MaxScripts = 2
    MaxNightEvents = 1
SPECIFICATION PartsSpec
INVARIANTS PartsTypeOK ExclusiveUntilAnExit NoLineSkipped OutageReportedOnce OneRunnerPerDeficit OutstandingBounded
PROPERTIES WreckIsCleared JobsSpareEachOther HostRestored TableCatchesUp DismissedStaysQuiet AlertsBecomeTrue DemandIsMet OffHostStaysDrained QueuedRunsAreTaken BlockedHostEmpties FleetSettles LoopGoesOn ParkedComeBack CapTakesHold
CHECK_DEADLOCK FALSE
