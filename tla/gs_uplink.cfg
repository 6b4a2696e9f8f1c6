SPECIFICATION Spec
CONSTANTS
    AbsDelta = 3
    RelDelta = 10
    RssiDelta = 3
    Topologies <- MCTopologies
    CardStats <- MCCardStats
    Mtu = 7
    Sizes = {1, 5}
    MaxPackets = 3
    MaxCards = 2
INVARIANTS
    UplinkByHeardCard
    TunnelInOrder
    
PROPERTY QueueDrains
