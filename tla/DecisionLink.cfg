SPECIFICATION LinkSpec
CONSTANTS
    MaxMcs = 2
    Ceiling = 2
    f0 = f0
    r0 = r0
    Flags = {f0}
    Fecs <- MCFecs
    Rois = {r0}
    Configs <- MCConfigs
    Cap <- MCCap
    Dbm <- MCDbm
    SeqMod = 20
    MaxAge = 14
    Outcomes = {"ok"}
    NoDecision = NoDecision
    NoValue = NoValue
    AutoPower = AutoPower
    Statics <- MCStatics
    EvfdOpens = {TRUE}
    Period = 2
    Stagger = 1
    TickPeriod = 3
    Timeout = 6
    MaxChanges = 2
    MaxFaults = 1
INVARIANTS
    LinkTypeOK
    HeardAgain
PROPERTY Converges
