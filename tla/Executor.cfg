SPECIFICATION SpecExecutor
CONSTANTS
    node = node
    edge = edge
    varX = varX
    varY = varY
    varZ = varZ
    varU = varU
    None = None
    Tables = {node, edge}
    Constructors = {node}
    Relations = {edge}
    Arity <- MCArity
    Scalars = {0}
    Unit = 0
    RuleTables = {node, edge}
    Hashes <- MCHashes
    HashOf <- MCHash
    NumImports = 2
    MaxFact = 6
    NumPorts = 0
    MaxPending = 12
    MaxEpoch = 12
    Rules = {1, 2, 3, 4, 5}
    Query <- MCQuery
    Body <- MCBody
    Seminaive = {1, 3, 4, 5}
    RuleSets <- MCRuleSets
    Control <- MCControl
    Nodes <- MCNodes
    MaxLoad = 3
INVARIANTS
    SaturatedIsFixpoint
    CheckpointAccepted
CHECK_DEADLOCK FALSE
