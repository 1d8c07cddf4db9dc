SPECIFICATION Spec
CONSTANTS
    Nil = Nil
    Namespaces <- MCNamespaces
    Workloads <- MCWorkloads
    NsOf <- MCNsOf
    AddrOf <- MCAddrOf
    Labels <- MCLabels
    PodLabels <- MCPodLabels
    NsLabels <- MCNsLabels
    NameLabel <- MCNameLabel
    Cidrs <- MCCidrs
    AddrsOf <- MCAddrsOf
    WanCidr = "wan"
    PodCidr = "pods"
    SvcCidr = "services"
    NetPols <- MCNetPols
    GlobalPols <- MCGlobalPols
    DefaultTier = "default"
    TierRank <- MCTierRank
    MaxOrder = 9
    ApiServerCidrs <- MCApiServerCidrs
    MaxPolicies = 2
INVARIANT
    FirstMatchDecides
