CONSTANTS
    Takers <- MCControl
    Behaviors <- MCBehaviors
SPECIFICATION AHSpec
PROPERTIES AbortIsDetected
CHECK_DEADLOCK FALSE
