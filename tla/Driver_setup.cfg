SPECIFICATION Spec
CONSTANTS
    ULongMax = 31
    ReportIds <- MCReportIds
    MaxFrames = 2
    MaxItems = 5
    Items <- MCItems
    Events <- MCEvents
    Unknown = "EVENT_OF_A_LATER_VERSION"
    Lists <- MCLists
    MaxChars = 5
INVARIANTS
    TypeOK
    SizesAsDeclared
    CreatedFromAccepted
    OneIdAccepted
PROPERTIES
    FrozenWhenCreated
