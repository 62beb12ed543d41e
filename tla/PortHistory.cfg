SPECIFICATION SpecHistory
CONSTANTS
    node = node
    pair = pair
    edge = edge
    best = best
    some = some
    Tables = {best, some, pair}
    Constructors = {pair}
    Relations = {}
    Arity <- MCArity
    Scalars <- MCScalars
    Unit = 0
    RuleTables = {best, some}
    Hashes <- MCHashes
    HashOf <- MCHash
    MergeKind <- MCMergeKind
    MergeTable = pair
    NumImports = 2
    MaxFact = 1
    NumPorts = 2
    MaxPending = 1
    MaxEpoch = 2
INVARIANTS
    PortJoin
    TypePorts
    DirectoryExact
    PortsCanonical
CHECK_DEADLOCK FALSE
