CONSTANTS
    Writers = {w1, w2}
    Readers = {v1}
    MaxOps = 2
    MaxRetries = 1
    MaxCrashes = 0
    MaxPowerLosses = 0
    MaxIoErrors = 0
    MaxTimeouts = 1
SPECIFICATION FairSpec
INVARIANT NoFalseCorruption
PROPERTY CallsReturn
