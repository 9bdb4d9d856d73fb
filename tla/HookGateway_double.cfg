CONSTANTS
    Procs = {p1, p2}
    SdkCalls = {c1}
    ClaudeCalls = {}
    Modes = {"defer"}
    Approvers = {alice}
    Timeouts = {None}
    Second = 2
    MaxDecisions = 1
    MaxRecords = 3
    MaxTime = 0
    None = None
SPECIFICATION Spec
INVARIANTS OneExecutionPerDecision
CHECK_DEADLOCK FALSE
