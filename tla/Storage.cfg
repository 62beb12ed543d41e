SPECIFICATION SpecStorage
CONSTANTS
    Templates = {"grow", "write", "view", "nest", "erase", "cut", "shade", "unite", "importA", "importB"}
    Query <- MCQuery
    Ops <- MCOps
    ImportOf <- MCImportOf
    Constructors = {"A", "B"}
    Markers = {"M", "N"}
    RuleSets <- MCRuleSets
    Database <- MCDatabase
    NumImports = 3
    MaxCell = 16
    MaxRuns = 3
CHECK_DEADLOCK FALSE
INVARIANTS
    HandlesReadable
    QueuesFollow
    MergesExact
PROPERTIES
    IdleStepsKeepRows
