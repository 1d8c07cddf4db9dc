\* Policies, PeerAuthentications and lists that fail, and what is found about them.
SPECIFICATION FindingsSpec
CONSTANTS
    Nil = Nil
    Namespaces <- MCNamespaces
    Workloads <- MCWorkloads
    NsOf <- MCNsOf
    AddrOf <- MCAddrOf
    Labels <- MCLabels
    PodLabels <- MCPodLabels
    NsLabels <- MCNsLabels
    NameLabel <- MCNameLabel
    Cidrs <- MCCidrs
    AddrsOf <- MCAddrsOf
    WanCidr = "wan"
    PodCidr = "pods"
    SvcCidr = "services"
    NetPols <- MCNetPols
    GlobalPols <- MCGlobalPols
    DefaultTier = "default"
    TierRank <- MCTierRank
    MaxOrder = 9
    ApiServerCidrs <- MCApiServerCidrs
    RootNs = "system"
    IngressNs = "gateway"
    AmbientLabel = "ambient"
    SkipLabel = "none"
    ComponentLabels <- MCComponentLabels
    PeerAuths <- MCPeerAuths
    DNSLabels <- MCDNSLabels
    DNSNamespace = "infra"
    MaxPolicies = 2
    MaxAuths = 2
INVARIANTS
    ConflictsAreTheDisagreements
    DnsFindingsAreReal
PROPERTIES
    EffectiveSourceDecides
    FailedReadInventsNothing
    RelaxingTheCulpritUnblocks
