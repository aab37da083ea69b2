CONSTANTS
    White = "Human"
    Black = "Engine"
    Moves = {a, b}
    MaxPly = 3
    BookPly = 2
    MaxSessions = 1
    MaxRevision = 3
    Slots = 1
    Incidents = {"Panic", "DropStart", "DropAbort", "Timeout", "Survivor", "Quit"}
    None = None
SPECIFICATION Spec
INVARIANTS EnginesHoldSlots ShutdownLeavesNone
PROPERTIES EngineMoveIsFresh RevisionsIncrease GameOverIsFinal RetiredIsNotPlayed
CHECK_DEADLOCK FALSE
