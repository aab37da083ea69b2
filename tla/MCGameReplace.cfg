CONSTANTS
    White = "Engine"
    Black = "Human"
    Moves = {a}
    MaxPly = 1
    BookPly = 0
    MaxSessions = 2
    MaxRevision = 0
    Slots = 2
    Incidents = {"DropStart", "Timeout", "Survivor"}
    None = None
SPECIFICATION FairSpec
INVARIANTS SnapshotIsFinal
PROPERTIES LifecycleIsReleased
CHECK_DEADLOCK FALSE
