CONSTANTS
    Keys <- MCKeys
    Launches <- MCLaunches
    Commands <- MCCommands
    GameTabs = {}
    Tabs = {"t"}
    Kinds = {"Search", "Registered"}
    CommandKinds = {"Stop"}
    StopGens = {1}
    Ops = {o1}
    MaxGen = 2
    MaxChildren = 2
    MaxPrepared = 2
    Capacity = 1
    MaxFailures = 0
    Incidents = {"Drop", "Exit", "StopFailure", "SpawnFailure", "Revoke"}
    None = None
SPECIFICATION Spec
INVARIANTS NoOrphan LeasesRegistered
PROPERTIES StopIsExact
CHECK_DEADLOCK FALSE
