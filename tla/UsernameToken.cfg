SPECIFICATION Spec
CONSTANTS
    alice = alice  mallory = mallory  secret = secret  guess = guess
    n1 = n1  n2 = n2  bad = bad  bytes1 = bytes1  bytes2 = bytes2
    Absent = Absent  Garbled = Garbled
    Nonces = {n1, n2, bad}
    StoredPassword <- MCStoredPassword
    Decode <- MCDecode
    Tokens <- MCTokens
    Tolerance = 1
    MaxSkew = 1
    HalfWindow = 5
    MaxEntries = 2
    MaxTime = 7
INVARIANTS
    TypeOK
PROPERTIES
    AdmittedOnce
    ReplayJustified
