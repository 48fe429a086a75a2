CONSTANTS
    Services <- TwoServices
    Controllers = {c1}
    CanonicalName <- TwoCanonical
    LegacyName <- TwoLegacy
    KeywordHits <- PrefixHits
    PortSets <- ValidPortSets
    CidrChoices <- ValidCidrs
    InvalidCidr = "bad"
    AllowAll = "0.0.0.0/0"
    AffinityChoices = {"None", "ClientIP"}
    ProxyChoices = {FALSE}
    RequestChoices = {"none", "pinned"}
    PoolIPs = {"ip1", "ip2"}
    PinnedIP = "pinned"
    NoIP <- MCNoIP
    VMs <- MCVMs
    NodeChoices <- MCNodeChoices
    InitNodes <- MCInitNodes
    FirewallSupported = TRUE
    InitSvc <- TwoInitSvc
    InitRules = {}
    InitFw = {}
    MaxFaults = 0
    MaxCrashes = 0
    MaxEdits = 0
    MaxDrift = 0
    MaxNodeChanges = 0
SPECIFICATION Spec
INVARIANTS ConvergedWhenSynced
CHECK_DEADLOCK FALSE
