SPECIFICATION SpecHistory
CONSTANTS
    node = node
    pair = pair
    edge = edge
    best = best
    some = some
    Tables = {node, edge}
    Constructors = {node}
    Relations = {edge}
    Arity <- MCArity
    Scalars <- MCScalars
    Unit = 0
    RuleTables = {node, edge}
    Hashes <- MCHashes
    HashOf <- MCHash
    MergeKind <- MCMergeKind
    MergeTable = pair
    NumImports = 2
    MaxFact = 2
    NumPorts = 0
    MaxPending = 1
    MaxEpoch = 2
INVARIANTS
    DeltaComplete
    ChangedIsSound
PROPERTIES
    ImplementsEGraph
CHECK_DEADLOCK FALSE
