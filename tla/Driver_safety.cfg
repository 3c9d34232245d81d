SPECIFICATION Spec
CONSTANTS
    ReadOps = {}
    WriteOps = {w1}
    ReadyOps = {q1, q2}
    Polls = {p1}
    Clients = {c1, c2}
    MSB = 4
    UnknownReports = {}
    AllocMayFail = FALSE
    Repeats = TRUE
    None = None
SYMMETRY Symmetry
INVARIANTS
    TypeOK
    NoOperationLost
    OneOwner
    AnsweredAtMostOnce
    NothingQueuedAfterRundown
    ReadyRequestNotForgotten
