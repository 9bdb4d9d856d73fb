CONSTANTS
    Backends = {b1, b2}
    Hosts <- HostSet
    Workspaces = {w1, w2}
    NinePs = {w2}
    HoldsTemp = {w2}
    MaxBoxes = 2
    MaxExecs = 2
    NoOne = NoOne
    Runs = {"r1", "r2"}
    RunMachines <- RunMachineSet
    Requests <- RequestSets
    MaxCalls = 1
    NoMachine = NoMachine
    Writs = {"p1", "p2", "p3"}
    Argv <- WritTable
    OnWindows = TRUE
    HookEvents <- Events
    Edits = {"e1"}
    Targets = {"claude-code", "gemini", "codex", "cursor", "windsurf"}
    StartTexts <- Texts
    RecordBodies <- BodySet
    WrittenBodies <- NewBodies
    StartBodies <- StartSet
    CreateArgs <- CreateSet
    Pins = {NoPin, "mine"}
    ReceiptCmds = {"q1", "q2"}
    MaxWrites = 1
    MaxAlterations = 1
    MaxReceiptCmds = 3
    NoScope = NoScope
    NoPin = NoPin
    NoReceipt = NoReceipt
    HookCalls = {"x1", "x2", "g1", "g2", "c1", "c2", "c3", "w1"}
    HookCallOf <- CallTable
    AskModes = {"deny", "defer", "ui"}
    MaxHookCalls = 2
    NoAgent = NoAgent
SPECIFICATION FocusSpec
INVARIANTS
    SandboxSafe
    BoundarySafe LaunchAccounted
    BlockedNeverRuns PostHooksRight
    ConfigKept HooksKept ReceiptsExact
PROPERTY OwnProfileKept
SYMMETRY ComponentSymmetry
CHECK_DEADLOCK FALSE
