SPECIFICATION Spec
CONSTANTS
    MaxMcs = 1
    Ceiling = 1
    f0 = f0
    f1 = f1
    r0 = r0
    r1 = r1
    Flags = {f0, f1}
    Fecs <- MCFecs
    Rois = {r0, r1}
    Configs <- OneConfig
    Cap <- MCCap
    Dbm <- MCDbm
    SeqMod = 3
    MaxAge = 1
    Outcomes = {"ok", "lost"}
    NoDecision = NoDecision
    NoValue = NoValue
    AutoPower = AutoPower
    Statics <- MCStatics
    EvfdOpens = {TRUE}
INVARIANT LatchesTellTruth
