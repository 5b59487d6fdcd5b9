SPECIFICATION MSSpec
CONSTANTS
    MediumUnits = 10
    ImageSizes <- Size3
    Padding = 1
    MaxSessions = 2
    NoEmulToc = {FALSE}
    ReadErrors = FALSE
    EjectRoles <- EjectOut
PROPERTY
    ChangesNotForgotten
CHECK_DEADLOCK FALSE
