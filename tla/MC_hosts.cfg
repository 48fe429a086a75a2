CONSTANTS
    Services <- OneService
    Controllers = {c1}
    CanonicalName <- OneCanonical
    LegacyName <- OneLegacy
    KeywordHits <- SelfHits
    PortSets <- MainPortSets
    CidrChoices <- MainCidrs
    InvalidCidr = "bad"
    AllowAll = "0.0.0.0/0"
    AffinityChoices = {"None", "ClientIP"}
    ProxyChoices = {FALSE}
    RequestChoices = {"none"}
    PoolIPs = {"ip1", "ip2"}
    PinnedIP = "pinned"
    NoIP <- MCNoIP
    VMs <- MCVMs
    NodeChoices <- MCNodeChoices
    InitNodes <- MCInitNodes
    FirewallSupported = TRUE
    InitSvc <- LegacyInitSvc2
    InitRules <- LegacyRules2
    InitFw <- LegacyFw2
    MaxFaults = 2
    MaxCrashes = 1
    MaxEdits = 0
    MaxDrift = 0
    MaxNodeChanges = 2
SPECIFICATION Spec
INVARIANTS UpdateAppliesHosts
PROPERTIES ForeignFirewallKept HostsEventuallyCurrent
CHECK_DEADLOCK FALSE
