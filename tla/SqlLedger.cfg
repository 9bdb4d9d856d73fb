SPECIFICATION Spec
CONSTANTS
    Backends = {"sqlite", "postgres"}
    Isolations = {"repeatable"}
    Writers = {w1, w2}
    Readers = {v1}
    MaxOps = 1
    MaxRetries = 1
    PAGE_SIZE = 1
    MaxFaults = 2
SYMMETRY Symmetry
INVARIANTS
    SqlChainIntact
    SchemaOK
    ReportsHonest
PROPERTY
    SqlRefinement
CHECK_DEADLOCK FALSE
