SPECIFICATION Spec
CONSTANTS
    ReadOps = {r1}
    WriteOps = {w1}
    ReadyOps = {q1}
    Polls = {p1}
    Clients = {c1}
    MSB = 4
    UnknownReports = {r1}
    AllocMayFail = TRUE
    Repeats = TRUE
    None = None

    
PROPERTIES
    CloseTerminates
    OperationsKeepTheirPromise
