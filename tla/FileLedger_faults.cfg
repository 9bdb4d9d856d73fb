CONSTANTS
    Writers = {w1, w2}
    Readers = {}
    MaxOps = 2
    MaxRetries = 1
    MaxCrashes = 1
    MaxPowerLosses = 1
    MaxIoErrors = 1
    MaxTimeouts = 1
SPECIFICATION Spec
SYMMETRY Symmetry
INVARIANTS TypeOK ChainIntact AckedKept HandleOnChain LineUndisturbed RacesAreProgress
PROPERTY Refinement
CHECK_DEADLOCK FALSE
