SPECIFICATION Spec
CONSTANTS
    Ids <- MCIds
    Uuids = {1, 2, 3}
    Messages <- MCMessages
    Randomizers = {"a", "b"}
    None = None
    GroupKey <- MCGroupKey
    Approves <- MCApproves
    Params <- MCParams
    Policies <- MCPolicies
    Jobs <- MCJobs
    Slates <- MCSlates
    MaxRounds = 8
    MaxCalls = 2
    MaxMeddling = 3
INVARIANT
    OracleAcceptanceHolds
CHECK_DEADLOCK FALSE
