SPECIFICATION SupervisorSpec
CONSTANTS
    Kinds <- MCKinds
    MaxRestarts = 3
    MaxDelay = 3
INVARIANTS
    NoSilentDeath
    StopIsFinal
PROPERTIES
    KeepsTrying
    ImplementsSupervised
