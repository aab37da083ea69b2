CONSTANTS
    White = "Human"
    Black = "Engine"
    Moves = {a}
    MaxPly = 3
    BookPly = 0
    MaxSessions = 1
    MaxRevision = 3
    Slots = 1
    Incidents = {"DropStart", "DropAbort", "Quit"}
    None = None
SPECIFICATION FairSpec
PROPERTIES EnginesAreReaped EngineIsAsked
CHECK_DEADLOCK FALSE
