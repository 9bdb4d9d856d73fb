CONSTANTS
    EngineNames = {"native", "rego", "cedar"}
    StartSources <- NestedSources
    NextSources = {}
    CallContexts <- Contexts
    HugePatterns = {}
    MaxReloads = 0
SPECIFICATION PolicySpec
INVARIANT VerdictsAgree
CHECK_DEADLOCK FALSE
