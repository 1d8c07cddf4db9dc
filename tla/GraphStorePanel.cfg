SPECIFICATION Spec
CONSTANTS
    a = a
    b = b
    None = None
    Nodes = {a, b}
    Edges = {}
    IssuePairs <- TwoEnds
    NsNames = {}
    Scenarios = {}
    Landing = None
    MaxRev = 2
    MaxInFlight = 3
    MaxLoads = 1
    MaxFaults = 1
INVARIANTS
    NodeInfoIsForSelection
    VerdictsAreForPair
    SettledPanelIsComplete
CHECK_DEADLOCK FALSE
SYMMETRY Symmetry
