SPECIFICATION FairSpec
CONSTANTS
    Nodes <- MCNodes
    Configs <- MCConfigs
    MaxRing = 1
    MaxIncoming = 1
    MaxWire = 2
    MaxAttempts = 2
    MaxBroadcasts = 2
    MaxFaults = 1
INVARIANTS
    MeshTypeOK
    GapsAreLogged
    OnlyPeersAreHeard
PROPERTIES
    MeshIsLossyFifo
    DialingSettles
    MeshDrains
CHECK_DEADLOCK FALSE
