SPECIFICATION FairSpec
CONSTANTS
    Requests = {r1, r2, r3}
    Messages <- MCMessages
    alice = alice  secret = secret  guess = guess  n1 = n1  bytes1 = bytes1
    Absent = Absent  Garbled = Garbled  NoAction = NoAction
    Nonces <- MCNonces
    StoredPassword <- MCStoredPassword
    Decode <- MCDecode
    Tokens <- MCTokens
    Tables <- MCTables
    Registry <- MCRegistry
    AuthConfigured = TRUE
    Tolerance = 1
    MaxSkew = 0
    HalfWindow = 3
    MaxEntries = 1
    MaxTime = 4
INVARIANTS
    TypeOK
    LockDiscipline
    AnswerVersion
    TokenUsedOnce
PROPERTIES
    Linearizable
    WaitersProgress
CHECK_DEADLOCK FALSE
