CONSTANTS
    Configs <- FewConfigs
    Default <- Base
    Adaptive = Adaptive
    None = None
    MaxFaults = 1
    MaxDeferred = 1
SPECIFICATION Spec
INVARIANT
    RetryRecovers
