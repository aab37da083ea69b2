CONSTANTS
    Keys <- MCKeys
    Launches <- MCLaunches
    Commands <- MCCommands
    GameTabs = {}
    Tabs = {"t"}
    Kinds = {"Registered"}
    CommandKinds = {"All", "Engine", "Tab", "Executable", "Binary", "Kill", "Exact", "Flag", "Stop"}
    StopGens = {0}
    Ops = {o1}
    MaxGen = 2
    MaxChildren = 2
    MaxPrepared = 2
    Capacity = 1
    MaxFailures = 1
    Incidents = {"Drop"}
    None = None
SPECIFICATION FairSpec
INVARIANTS DrainLeavesNone
PROPERTIES CommandsEnd
CHECK_DEADLOCK FALSE
