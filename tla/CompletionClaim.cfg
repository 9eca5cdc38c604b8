SPECIFICATION Spec
CONSTANTS
    Failed = Failed
    Missing = Missing
    Torn = Torn
    MaxPolls = 1
    SchemaAccepts <- MCSchemaAccepts
    Looked <- LookedAt
    Served <- FetchAtHost
    RewriteHolds <- WsdlHolds
    EvidenceOf <- Evidence
    Captured <- Snapshot
    Worlds <- ClaimWorlds
    Responses <- MCResponses
    Refused <- MCRefused
INVARIANTS
    CompletionClaim
CHECK_DEADLOCK FALSE
