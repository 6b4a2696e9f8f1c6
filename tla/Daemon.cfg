CONSTANTS
    Configs <- AllConfigs
    Default <- Base
    Adaptive = Adaptive
    None = None
    MaxFaults = 1
    MaxDeferred = 1
SPECIFICATION FairSpec
INVARIANTS
    DaemonTypeOK
    
    ProbeFollowsConfig
    StaticLinkRestored
    DiskIsEffective

    
