SPECIFICATION Spec
CONSTANTS
    Ids <- MCIds
    Uuids <- MCUuids
    Messages = {"m1", "m2"}
    Randomizers = {"alpha"}
    None = None
    Scenarios <- MCScenarios
    MaxMempool = 2
    MaxHeight = 6
INVARIANTS
    TypeOK
    GroupExclusive
    CeremonyOrdered
    ThresholdCut
    ReplayRejected
PROPERTIES
    GroupIsFinal
    RequestsMoveForward
    PromotionAgreed
CHECK_DEADLOCK FALSE
