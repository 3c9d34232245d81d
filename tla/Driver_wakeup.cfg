SPECIFICATION Spec
CONSTANTS
    ReadOps = {r1}
    WriteOps = {}
    ReadyOps = {}
    Polls = {p1}
    Clients = {c1}
    MSB = 4
    UnknownReports = {}
    AllocMayFail = FALSE
    Repeats = FALSE
    None = None
INVARIANTS
    PollPendsOnlyUntilReady
