SPECIFICATION FairSpec
CONSTANTS
    node = node
    edge = edge
    Tables = {node, edge}
    Constructors = {node}
    Relations = {edge}
    Arity <- MCArity
    Scalars = {0}
    Unit = 0
    RuleTables = {node, edge}
    Hashes <- MCHashes
    HashOf <- MCHash
    NumImports = 2
    MaxFact = 3
    NumPorts = 0
    MaxPending = 1
    MaxEpoch = 1
INVARIANTS
    UsesExact
    UsesComplete
    CleanIndexed
    CleanUnique
PROPERTIES
    HiddenSurvivesRepair
    RepairTerminates
CHECK_DEADLOCK FALSE
