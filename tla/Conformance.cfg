SPECIFICATION Spec
CONSTANTS
    Failed = Failed
    Missing = Missing
    Torn = Torn
    MaxPolls = 1
    SchemaAccepts <- MCSchemaAccepts
    Looked <- LookedAt
    Served <- FetchAtHost
    RewriteHolds <- WsdlHolds
    EvidenceOf <- Evidence
    Captured <- Snapshot
    Worlds <- MCWorlds
    Responses <- MCResponses
    Refused <- MCRefused
INVARIANTS
    PassIsAgreement
    FailIsDifference
    EvidenceSound
    BaselineMarked
    ExitHonest
    TokensFresh
    TornDown
    OnlyTargetRewritten
    ClientsReachServices
PROPERTIES
    RunEnds
CHECK_DEADLOCK FALSE
