SPECIFICATION FairSpec
CONSTANTS
    Ids <- MCIds
    Uuids = {1, 2}
    Messages = {"m1", "m2"}
    Randomizers = {"alpha", "zero"}
    None = None
    Params <- MCParams
    GroupKey <- MCGroupKey
    Approves <- MCApproves
    Requests <- MCRequests
    MaxRestarts = 0
    MaxMempool = 100
INVARIANTS
    SigningTypeOK
    PolicyGate
    SharesAggregate
    NoncesUsedOnce
    MarkedIsInFlight
    SelectedHoldsNonces
PROPERTIES
    ApprovedIsSigned
