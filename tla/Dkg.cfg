SPECIFICATION FairSpec
CONSTANTS
    Ids <- MCIds
    Uuids = {1}
    Messages = {"m"}
    Randomizers = {"alpha"}
    None = None
    Participants <- MCIds
    Offered <- MCOffered
    Faulty <- MCFaulty
    MaxRestarts = 2
INVARIANTS
    DkgTypeOK
    GroupKeyHeld
    PromotedKeyIsPosted
PROPERTIES
    CeremonyEndsInGroup
CHECK_DEADLOCK FALSE
