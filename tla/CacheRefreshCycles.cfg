\* Refresh cycles against a changing cluster: no requests, three revisions.
SPECIFICATION FairSpec
CONSTANTS
    Ns = {n1, n2}
    CacheIds = {c1, c2}
    Requests = {}
    NoCache = NoCache
    MaxRev = 3
    MaxFaults = 2
INVARIANTS
    TypeOK
    ServedCacheIsWhole
    GaugesMatchServedCache
PROPERTIES
    PublicationMovesForward
    CacheConverges
CHECK_DEADLOCK FALSE
