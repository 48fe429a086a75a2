CONSTANTS
    Services <- OneService
    Controllers = {c1}
    CanonicalName <- OneCanonical
    LegacyName <- OneLegacy
    KeywordHits <- SelfHits
    PortSets <- MainPortSets
    CidrChoices <- MainCidrs
    InvalidCidr = "bad"
    AllowAll = "0.0.0.0/0"
    AffinityChoices = {"None", "ClientIP"}
    ProxyChoices = {FALSE}
    RequestChoices = {"none", "pinned"}
    PoolIPs = {"ip1", "ip2"}
    PinnedIP = "pinned"
    NoIP <- MCNoIP
    VMs <- MCVMs
    NodeChoices <- MCNodeChoices
    InitNodes <- MCInitNodes
    FirewallSupported = TRUE
    InitSvc <- OneInitSvc
    InitRules = {}
    InitFw = {}
    MaxFaults = 1
    MaxCrashes = 1
    MaxEdits = 1
    MaxDrift = 1
    MaxNodeChanges = 0
SPECIFICATION Spec
INVARIANTS NoLeakedIP
CHECK_DEADLOCK FALSE
