SPECIFICATION Spec
CONSTANTS
    Absent = Absent
    NoAction = NoAction
    Default = Default
    DefaultMount <- MCDefaultMount
    Configs <- MCConfigs
INVARIANTS
    TypeOK
    BuildDecision
    OperationsServed
    RoutesIsolated
CHECK_DEADLOCK FALSE
