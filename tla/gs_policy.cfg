SPECIFICATION Spec
CONSTANTS
    Cap = 2
    Cooldown = 2
    Starvation = 2
    Dwell = 2
    PredictDebounce = 2
    SnrDebounce = 1
    ProbeRelease = 1
    Micros = 2
INVARIANTS
    OneRungPerLoss
PROPERTIES
    StepByStep
    BlackoutReachesFloor
    GoodLinkClimbs
