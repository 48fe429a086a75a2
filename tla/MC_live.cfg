CONSTANTS
    Services <- OneService
    Controllers = {c1}
    CanonicalName <- OneCanonical
    LegacyName <- OneLegacy
    KeywordHits <- SelfHits
    PortSets <- ValidPortSets
    CidrChoices <- ValidCidrs
    InvalidCidr = "bad"
    AllowAll = "0.0.0.0/0"
    AffinityChoices = {"None"}
    ProxyChoices = {FALSE}
    RequestChoices = {"none"}
    PoolIPs = {"ip1", "ip2", "ip3"}
    PinnedIP = "pinned"
    NoIP <- MCNoIP
    VMs <- MCVMs
    NodeChoices <- MCNodeChoices
    InitNodes <- MCInitNodes
    FirewallSupported = TRUE
    InitSvc <- LegacyInitSvc
    InitRules <- LegacyRules
    InitFw <- LegacyFw
    MaxFaults = 1
    MaxCrashes = 1
    MaxEdits = 1
    MaxDrift = 1
    MaxNodeChanges = 0
SPECIFICATION Spec

PROPERTIES SyncCompletes
CHECK_DEADLOCK FALSE
