SPECIFICATION SpecLoop
CONSTANTS
    node = node
    edge = edge
    varX = varX
    varY = varY
    varZ = varZ
    varU = varU
    Tables = {node, edge}
    Constructors = {node}
    Relations = {edge}
    Arity <- MCArity
    Scalars = {0}
    Unit = 0
    RuleTables = {node, edge}
    Hashes <- MCHashes
    HashOf <- MCHash
    NumImports = 2
    MaxFact = 5
    NumPorts = 0
    MaxPending = 3
    MaxEpoch = 3
    Rules = {1, 2, 3, 4}
    Query <- MCQuery
    Body <- MCBody
    Seminaive = {1, 3, 4}
    RuleSets <- MCRuleSets
    MaxLoad = 2
INVARIANTS
    NoMatchLost
    DeltaPartition
PROPERTIES
    ResumeConsumesSame
CHECK_DEADLOCK FALSE
