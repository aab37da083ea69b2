CONSTANTS
    Procs = {p1, p2}
    Keys = {d1}
    Locks = {l1, l2}
    Mutators = {m1}
    Queries = {q1, q2}
    Kinds = {"Search", "Preload"}
    Folder <- MCFolder
    IndexCapacity = 1
    ResultCapacity = 2
    MaxRevision = 2
    MaxCalls = 1
    None = None
SPECIFICATION SearchSpec
SYMMETRY Symmetry
INVARIANTS NoStaleIndex NoRedundantGeneration AnswerIsCurrent EntriesLeased
PROPERTIES IsKeyLock
CHECK_DEADLOCK FALSE
