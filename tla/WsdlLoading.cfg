SPECIFICATION Spec
CONSTANTS
    Absent = Absent
    Bad = Bad
    Root <- MCRoot
    BaseDir <- MCBaseDir
    Worlds <- MCWorlds
    ReadWsdl <- ParseWsdl
    ReadSchema <- ParseSchema
    Reparses <- ReadsBack
    ResolvedContent <- ResolvePlain
    ResolvedAttributes <- ResolveAttributes
INVARIANTS
    LoadedOnce
    VisibleDefinitionWins
    LoadDecision
    ExtensionsFlattened
    
PROPERTIES
    LoadEnds
CHECK_DEADLOCK FALSE
