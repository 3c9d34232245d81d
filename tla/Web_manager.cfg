SPECIFICATION Spec
CONSTANTS
    d1 = d1
    r1 = r1
    r2 = r2
    s1 = s1
    Main = main
    Zeros = zeros
    Nothing = nothing
    Devices <- MCDevices
    Requests <- MCRequests
    Sockets <- MCSockets
    ReportIds <- MCReportIds
    EVENT_CHANNEL_CAPACITY = 2
    MaxReports = 2
    MaxEvents = 2
INVARIANTS
    DestroyedAlone
    SeenIsCurrent
PROPERTIES
    DestroyEnds
CHECK_DEADLOCK FALSE
