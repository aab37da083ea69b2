CONSTANTS
    Ids = {a, b}
    Threads = {t1, t2}
    Capacity = 1
    Full = 1
    Outcomes = {"Succeeded", "Failed"}
    MaxGen = 3
    None = None
SPECIFICATION Spec
SYMMETRY Symmetry
PROPERTIES NoResurrection FirstTerminalWins LiveBarSpared
