SPECIFICATION FairSpec
CONSTANTS
    Nodes <- MCNodes
    Configs <- MCConfigs
    MaxRing = 1
    MaxIncoming = 1
    MaxWire = 2
    MaxAttempts = 2
    MaxBroadcasts = 1
    MaxFaults = 1
PROPERTIES
    DisconnectIsTransient
CHECK_DEADLOCK FALSE
