\* Held, failing open and observed, at the limit that makes every pair of jobs compete.
CONSTANTS
    light = light
    heavy = heavy
    sim = sim
    next = next
    r1 = r1
    r2 = r2
    r3 = r3
    None = None
    Jobs = {light, heavy, sim}
    Runners = {r1, r2, r3}
    SimRunners = {r3}
    Light = {light}
    RunnerOf <- MCRunnerOf
    Confs <- AllConfs
    Max = 1
    TotalMax = 2
    HeavyMax = 1
    LightMax = 1
    SimMax = 1
    Budgets <- FaultsOf
SPECIFICATION Spec
INVARIANTS TypeOK SlotCap LaneCaps RunningHasSlot
PROPERTIES GateSpec HeldJobsMoveOn
