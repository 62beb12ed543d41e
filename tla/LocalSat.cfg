SPECIFICATION SpecLocalSat
CONSTANTS
    node = node
    edge = edge
    tag = tag
    varX = varX
    varY = varY
    varU = varU
    None = None
    Tables = {node, edge, tag}
    Constructors = {node}
    Relations = {edge, tag}
    Arity <- MCArity
    Schema <- MCSchema
    Scalars = {0}
    Unit = 0
    RuleTables = {node, edge, tag}
    Hashes <- MCHashes
    HashOf <- MCHash
    NumImports = 2
    MaxFact = 14
    NumPorts = 0
    MaxPending = 12
    MaxEpoch = 5
    Rules = {1, 2, 3, 4, 5, 6}
    Query <- MCQuery
    Body <- MCBody
    Routes <- MCRoutes
    Markers = {tag}
    Seminaive = {1, 2, 3, 5, 6}
    RuleSets <- MCRuleSets
    Control <- MCControl
    Nodes <- MCNodes
    MaxLoad = 2
INVARIANTS
    ReceiptsSound
PROPERTIES
    HandedOnMatches
    LocalRunEnds
CHECK_DEADLOCK FALSE
