SPECIFICATION Spec
CONSTANTS
    Drones <- MCDrones
    FailCount = 2
    MaxChanges = 2
    MaxGaps = 1
    MaxLosses = 2
    MaxStarts = 2
INVARIANTS
    
    OneSessionPerFlight
    NoSpuriousSession
PROPERTIES
    MonitorConverges
CHECK_DEADLOCK FALSE
