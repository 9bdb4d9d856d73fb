CONSTANTS
    Writers = {w1, w2}
    Readers = {v1}
    MaxOps = 1
    MaxRetries = 1
    MaxCrashes = 1
    MaxPowerLosses = 0
    MaxIoErrors = 0
    MaxTimeouts = 0
SPECIFICATION Spec
SYMMETRY Symmetry
INVARIANT NoFalseCorruption
