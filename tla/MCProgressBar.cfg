CONSTANTS
    Ids = {a}
    Drawn = a
    Threads = {t1, t2}
    Capacity = 1
    Full = 1
    Outcomes = {"Succeeded"}
    MaxGen = 2
    MaxChannel = 1
    None = None
SPECIFICATION BarSpec
SYMMETRY Symmetry
INVARIANTS FenceHolds Converged
PROPERTIES BarOnlyAdvances
