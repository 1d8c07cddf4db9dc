SPECIFICATION Spec
CONSTANTS
    a = a
    b = b
    None = None
    Nodes = {a, b}
    Edges <- MCEdges
    IssuePairs <- TwoEnds
    NsNames = {}
    Scenarios = {}
    Landing = None
    MaxRev = 1
    MaxInFlight = 4
    MaxLoads = 1
    MaxFaults = 1
INVARIANTS
    EdgeVerdictIsForSelection
CHECK_DEADLOCK FALSE
