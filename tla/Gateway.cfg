CONSTANTS
    Procs = {p1, p2}
    SdkCalls = {c1}
    ClaudeCalls = {c2}
    Modes = {"deny", "defer", "ui"}
    Approvers = {alice}
    Timeouts = {1, None}
    Second = 2
    MaxDecisions = 2
    MaxRecords = 3
    MaxTime = 2
    None = None
    EngineNames = {"native", "rego", "cedar"}
    StartSources <- FlatSources
    NextSources <- Replacements
    CallContexts <- Contexts
    HugePatterns <- Huge
    MaxReloads = 2
SPECIFICATION SideSpec
SYMMETRY Symmetry
INVARIANTS
    TypeOK ExecutionJustified DispatchJustified NeverLate RedactedNeverShown EnginesAgree
CHECK_DEADLOCK FALSE
