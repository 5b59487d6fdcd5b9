SPECIFICATION MSSpec
CONSTANTS
    MediumUnits = 10
    ImageSizes <- Size3
    Padding = 1
    MaxSessions = 2
    NoEmulToc = {FALSE}
    ReadErrors = TRUE
    EjectRoles <- NoEject
INVARIANT
    LoadedTreeIsComplete
CHECK_DEADLOCK FALSE
