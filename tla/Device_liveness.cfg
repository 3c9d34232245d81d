SPECIFICATION Spec
CONSTANTS
    Pollers = {p1}
    EventThreadProc = EventThreadProc
    Submitters = {s1}
    Outputs = {w1}
    BigOutputs = {w1}
    Ready = Ready
    AllocMayFail = FALSE
    SubmitAnyTime = FALSE
    NULL = NULL
INVARIANT SubmitFindsEvent
PROPERTIES
    StopDeviceReturns
    StopInterruptsPolls
    EventsReachCallback
    PollsOutgrowEvents
