\* Requests across cache swaps, under the scheduling the Go runtime provides.
SPECIFICATION FairSpec
CONSTANTS
    Ns = {n1}
    CacheIds = {c1, c2, c3}
    Requests = {r1}
    NoCache = NoCache
    MaxRev = 2
    MaxFaults = 0
INVARIANT
    GraphIsOneSnapshot
PROPERTIES
    PublishedIsImmutable
    ImplementsSnapshotService
    SwapNotStarved
    RequestsAnswered
CHECK_DEADLOCK FALSE
