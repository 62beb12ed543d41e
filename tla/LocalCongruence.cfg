SPECIFICATION LocalFairSpec
CONSTANTS
    node = node
    mark = mark
    varX = varX
    varY = varY
    varA = varA
    varB = varB
    varC = varC
    varD = varD
    Tables = {node, mark}
    Constructors = {node}
    Relations = {mark}
    Arity <- MCArity
    Scalars = {0}
    Unit = 0
    RuleTables = {node, mark}
    Hashes <- MCHashes
    HashOf <- MCHash
    NumImports = 2
    MaxFact = 5
    NumPorts = 0
    MaxPending = 1
    MaxEpoch = 1
    Params = {varX, varY}
    Body <- MCBody
    Markers = {mark}
    MaxFrames = 1
    MaxLost = 1
INVARIANTS
    Congruent
PROPERTIES
    LocalStepsForced
    LocalRepairEnds
CHECK_DEADLOCK FALSE
