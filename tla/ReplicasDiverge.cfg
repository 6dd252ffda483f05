SPECIFICATION Spec
CONSTANTS
    Ids <- MCIds
    Uuids = {1}
    Messages = {"m1"}
    Randomizers = {"alpha", "zero"}
    None = None
    GroupKey <- MCGroupKey
    Approves <- MCApproves
    Params <- MCParams
    Requests <- MCRequests
    MaxLosses = 0
INVARIANT
    DeliveredReplicasAgree
