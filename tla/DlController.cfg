SPECIFICATION FairSpec
CONSTANTS
    MaxMcs = 2
    Ceiling = 2
    f0 = f0
    f1 = f1
    r0 = r0
    r1 = r1
    Flags = {f0, f1}
    Fecs <- MCFecs
    Rois = {r0, r1}
    Configs <- TwoConfigs
    Cap <- MCCap
    Dbm <- MCDbm
    SeqMod = 3
    MaxAge = 1
    Outcomes = {"ok"}
    NoDecision = NoDecision
    NoValue = NoValue
    AutoPower = AutoPower
    Statics <- MCStatics
    EvfdOpens = {TRUE}
INVARIANTS
    TypeOK
    EncoderFitsRadio
    PhasesAgree
    TripIsSafe
    
PROPERTY StopCompletes
