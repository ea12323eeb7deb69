\* Two Simulator jobs (light's runner and sim's) and an ordinary one between them.
CONSTANTS
    light = light
    heavy = heavy
    sim = sim
    next = next
    r1 = r1
    r2 = r2
    r3 = r3
    None = None
    Jobs = {light, heavy, sim}
    Runners = {r1, r2, r3}
    SimRunners = {r1, r3}
    Light = {light}
    RunnerOf <- MCRunnerOf
    Confs <- FailOpen1
    Max = 1
    TotalMax = 2
    HeavyMax = 1
    LightMax = 1
    SimMax = 1
    Budgets <- NoFaults
SPECIFICATION Spec
INVARIANTS SimulatorStaysStrict
