SPECIFICATION Spec
CONSTANTS
    Pollers = {}
    EventThreadProc = EventThreadProc
    Submitters = {s1}
    Outputs = {}
    BigOutputs = {}
    Ready = Ready
    AllocMayFail = FALSE
    SubmitAnyTime = TRUE
    NULL = NULL
PROPERTY StopDeviceReturns
CHECK_DEADLOCK FALSE
