SPECIFICATION MSSpec
CONSTANTS
    MediumUnits = 14
    ImageSizes <- Size3
    Padding = 1
    MaxSessions = 3
    NoEmulToc = {FALSE, TRUE}
    ReadErrors = TRUE
    EjectRoles <- EjectIn
INVARIANTS
    LastSessionReadable
    WrittenWellLasts
    TocListsSessions
PROPERTY
    ChangesNotForgotten
CHECK_DEADLOCK FALSE
