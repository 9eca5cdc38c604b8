SPECIFICATION Spec
CONSTANTS
    Absent = Absent
    Bad = Bad
    Root <- MCRoot
    BaseDir <- MCBaseDir
    Worlds <- ChoiceWorlds
    ReadWsdl <- ParseWsdl
    ReadSchema <- ParseSchema
    Reparses <- ReadsBack
    ResolvedContent <- ResolvePlain
    ResolvedAttributes <- ResolveAttributes
INVARIANT
    ValidRequestsAccepted
CHECK_DEADLOCK FALSE
