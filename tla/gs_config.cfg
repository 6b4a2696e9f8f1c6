SPECIFICATION Spec
CONSTANTS
    Handlers = {h1}
    Cards = {c1, c2}
    Patches <- MCPatches
    Defaults <- MCDefaults
    MaxRequests = 5
    MaxCrashes = 1
INVARIANTS
    RunningIsEffective
    

    
    
