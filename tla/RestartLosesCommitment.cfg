SPECIFICATION Spec
CONSTANTS
    Ids <- MCIds
    Uuids = {1, 2}
    Messages = {"m1", "m2"}
    Randomizers = {"alpha", "zero"}
    None = None
    Params <- MCParams
    GroupKey <- MCGroupKey
    Approves <- MCApproves
    Requests <- MCRequests
    MaxRestarts = 1
    MaxMempool = 100
INVARIANT
    MarkedIsInFlight
