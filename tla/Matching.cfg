SPECIFICATION SpecMatching
CONSTANTS
    node = node
    Tables = {node}
    Constructors = {node}
    Relations = {}
    Arity <- MCArity
    Scalars = {0}
    Unit = 0
    RuleTables = {node}
    Hashes = {0, 1}
    HashOf <- MCHash
    NumImports = 1
    MaxFact = 2
    NumPorts = 0
    MaxPending = 1
    MaxEpoch = 2
    Indexed = {node}
    Fingerprint <- MCFingerprint
    Bounds <- MCBounds
    Intersection = TRUE
    Scopes = {"rows", "table", "run"}
    WatchReads = FALSE
INVARIANTS
    IndexSound
    ReuseIsLookup
CHECK_DEADLOCK FALSE
