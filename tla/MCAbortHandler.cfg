CONSTANTS
    Takers <- MCControl
    Behaviors <- MCBehaviors
SPECIFICATION AHSpec
INVARIANTS WriterIsAwaited
PROPERTIES AbortEndsProgram
CHECK_DEADLOCK FALSE
