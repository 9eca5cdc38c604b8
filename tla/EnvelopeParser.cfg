SPECIFICATION Spec
CONSTANTS
    soap11 = soap11  soap12 = soap12  a = a  b = b  Absent = Absent
    SoapNs <- MCSoapNs
    Roots <- MCRoots
    Tags <- MCTags
    MaxEvents = 6
INVARIANTS
    FragmentsAsXml
    ScopeKept
CHECK_DEADLOCK FALSE
