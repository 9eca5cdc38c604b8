SPECIFICATION Spec
CONSTANTS
    Wsse = Wsse  Wsu = Wsu  other = other  Absent = Absent
    Chunks = {c1, c2}
    Roots <- MCRoots
    Tags <- MCTags
    MaxEvents = 7
INVARIANTS
    ExpectingInside
    ReadAsXml
CHECK_DEADLOCK FALSE
