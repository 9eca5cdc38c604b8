SPECIFICATION Spec
CONSTANTS
    Nonces = {n1, n2, n3}
    HalfWindow = 2
    MaxEntries = 2
    MaxTime = 8
INVARIANTS
    TypeOK
    BucketsBounded
    NoSpuriousReplay
    IInv
PROPERTIES
    ReplayRejected
