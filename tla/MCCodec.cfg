SPECIFICATION Spec
CONSTANTS
    WordBits = 8
    Rounds = 3
    Garbage = {0, 170}
    Geometries <- MCGeometries
    Contents <- MCContents
    Keys <- MCKeys
    Nonce <- MCNonce
    Hash <- MCHash
    ShareLists <- MCShareLists
    Thresholds = {0, 1, 2, 3, 5}
    Secrets <- MCSecrets
    Coefficients = {0, 1, 250}
INVARIANTS
    TablesRight
    WalksExact
    ParityRight
    FactorsRight
    Recovered
    
    RoundTrip
    SecretRecovered
CHECK_DEADLOCK FALSE
