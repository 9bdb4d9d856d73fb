CONSTANTS
    Asks = {a1}
    Formats = {"writ", "claude-code"}
    Consoles = {c1, c2}
    Timeouts = {1, None}
    DEFAULT_TIMEOUT = 3
    CLAUDE_CODE_CAP = 2
    HEARTBEAT_STALE = 1
    HEARTBEAT_EVERY = 1
    LockWait = 1
    HookTimeout = 3
    MaxTime = 4
    None = None
    SdkCallers = {"k1", "k2"}
    SdkPrograms <- ProgramSet
    MaxRestarts = 1
    RestartWindow = 0
    TrackCap = 1
    MaxSdkTime = 1
    NoProgram = NoProgram
SPECIFICATION SideSpec
SYMMETRY Symmetry
INVARIANTS
    TypeOK ApprovedInTime VanishedConsoleDenied AnswersWithinCap
    ClientOK RunsOnRecord NobodyStranded
PROPERTY AnswerDecidesWait
CHECK_DEADLOCK FALSE
