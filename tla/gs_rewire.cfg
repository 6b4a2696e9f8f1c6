SPECIFICATION LifeSpec
CONSTANTS
    MaxSpawns = 2
    MaxStarts = 1
PROPERTIES
    UplinkConnected
