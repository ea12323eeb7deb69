\* Nobody is killed and no critical section is slow: hooks only end normally.
CONSTANTS
    Procs = {a, b, c}
    None = None
    MaxKills = 0
    MaxStalls = 0
SPECIFICATION Spec
SYMMETRY Symmetry
INVARIANTS MutualExclusion
