SPECIFICATION Spec
CONSTANTS
    Pollers = {p1, p2}
    EventThreadProc = EventThreadProc
    Submitters = {s1, s2}
    Outputs = {w1}
    BigOutputs = {w1}
    Ready = Ready
    AllocMayFail = TRUE
    SubmitAnyTime = TRUE
    NULL = NULL
SYMMETRY Symmetry
INVARIANTS
    TypeOK
    EventInOneHand
    PendingEventIsSignalled
    ReadThreadFindsEvent
    DestroyedDeviceUnused
\* The stop may hang (see Device_hang.cfg): the system really stops then.
CHECK_DEADLOCK FALSE
