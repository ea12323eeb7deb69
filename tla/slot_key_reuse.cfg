\* Two jobs of one runner, the first one's worker may die.
CONSTANTS
    light = light
    heavy = heavy
    sim = sim
    next = next
    r1 = r1
    r2 = r2
    r3 = r3
    None = None
    Jobs = {light, next, heavy}
    Runners = {r1, r2, r3}
    SimRunners = {r3}
    Light = {light}
    RunnerOf <- MCRunnerOf
    Confs <- Hold1
    Max = 1
    TotalMax = 2
    HeavyMax = 1
    LightMax = 1
    SimMax = 1
    Budgets <- OneWorker
SPECIFICATION Spec
INVARIANTS RunningAlwaysHasSlot
