SPECIFICATION FairSpec
CONSTANTS
    a = a
    b = b
    None = None
    Nodes = {a}
    Edges <- LoopEdges
    IssuePairs <- OneEnd
    NsNames = {"shop"}
    Scenarios <- OnePreset
    Landing <- Narrow
    MaxRev = 1
    MaxInFlight = 2
    MaxLoads = 2
    MaxFaults = 1
INVARIANTS
    TypeOK
PROPERTIES
    SpinnersEnd
CHECK_DEADLOCK FALSE
