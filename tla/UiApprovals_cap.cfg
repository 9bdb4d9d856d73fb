CONSTANTS
    Asks = {a1}
    Formats = {"claude-code"}
    Consoles = {c1}
    Timeouts = {None}
    DEFAULT_TIMEOUT = 4
    CLAUDE_CODE_CAP = 2
    HEARTBEAT_STALE = 1
    HEARTBEAT_EVERY = 1
    LockWait = 2
    HookTimeout = 3
    MaxTime = 5
    None = None
SPECIFICATION Spec
INVARIANT AnswersBeforeHookTimeout
CHECK_DEADLOCK FALSE
