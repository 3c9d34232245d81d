SPECIFICATION Spec
CONSTANTS
    u1 = u1
    u2 = u2
    red = red
    off = off
    Users <- MCUsers
    MaxReports = 2
    Colors <- MCColors
    Off = off
    LedReports <- MCLedReports
    Settings <- MCSettings
    UCharMax = 3
    OutputReports <- MCOutputReports
INVARIANTS
    LedUpToDate
    OutputsTold
PROPERTIES
    NoReportGoesBack
    ReportReachesHost
    DestroyReturns
