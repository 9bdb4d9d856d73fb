CONSTANTS
    Conns = {c1, c2}
    Agents = {a, b}
    Ids = {i}
    NoSession = NoSession
    Requests <- MCRequests
    Servers = {"legacy"}
    InflightCaps = {4}
    MaxReqs = 2
    MaxLinks = 1
SPECIFICATION Spec
SYMMETRY Symmetry
CHECK_DEADLOCK FALSE
INVARIANT ResponsesRedacted
