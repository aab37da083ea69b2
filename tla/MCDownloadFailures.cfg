CONSTANTS
    Ids = {a}
    Threads = {t1, t2}
    Capacity = 1
    Full = 1
    Outcomes = {"Succeeded", "Failed", "Cancelled"}
    MaxGen = 3
    MaxDocuments = 2
    None = None
SPECIFICATION FailuresSpec
SYMMETRY Symmetry
INVARIANTS ToldOnce HeardIsTold StoredIsTold
CHECK_DEADLOCK FALSE
