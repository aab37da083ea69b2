CONSTANTS
    Keys <- MCKeys
    Launches <- MCLaunches
    Commands <- MCCommands
    GameTabs = {}
    Tabs = {"t"}
    Kinds = {"Registered"}
    CommandKinds = {"Tab"}
    StopGens = {}
    Ops = {o1}
    MaxGen = 1
    MaxChildren = 2
    MaxPrepared = 2
    Capacity = 1
    MaxFailures = 0
    Incidents = {}
    None = None
SPECIFICATION Spec
PROPERTIES TabDrained
CHECK_DEADLOCK FALSE
