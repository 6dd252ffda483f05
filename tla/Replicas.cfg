SPECIFICATION Spec
CONSTANTS
    Ids <- MCIds
    Uuids = {1}
    Messages = {"m1"}
    Randomizers = {"alpha", "zero"}
    None = None
    GroupKey <- MCGroupKey
    Approves <- MCApproves
    Params <- MCParams
    Requests <- MCRequests
    MaxLosses = 1
INVARIANTS
    ReplicasTypeOK
    CompletedAgree
    FailedOnlyByDivergence
PROPERTIES
    ImplementsService
