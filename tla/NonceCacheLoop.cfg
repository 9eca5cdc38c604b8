SPECIFICATION LoopSpec
CONSTANTS
    Nonces = {n1, n2}
    HalfWindow = 2
    MaxEntries = 1
    MaxTime = 8
    Absent = Absent
PROPERTIES
    ImplementsNonceCache
    CallReturns
