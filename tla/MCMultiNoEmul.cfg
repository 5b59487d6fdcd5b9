SPECIFICATION MSSpec
CONSTANTS
    MediumUnits = 10
    ImageSizes <- Size2
    Padding = 1
    MaxSessions = 2
    NoEmulToc = {FALSE, TRUE}
    ReadErrors = FALSE
    EjectRoles <- NoEject
INVARIANT
    WrittenWellLasts
CHECK_DEADLOCK FALSE
