CONSTANTS
    Conns = {c1, c2}
    Agents = {a, b}
    Ids = {i, j}
    NoSession = NoSession
    Requests <- MCRequests
    Servers = {"streamable", "legacy"}
    InflightCaps = {1, 2}
    MaxReqs = 2
    MaxLinks = 2
SPECIFICATION MCSpec
SYMMETRY Symmetry
CHECK_DEADLOCK FALSE
INVARIANTS InflightOK CallsOnRecord AnswersOwn RedactedNeverShown
