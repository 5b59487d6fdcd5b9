CONSTANTS
    Takers <- MCControl
    Behaviors <- MCBehaviors
SPECIFICATION AHSpec
INVARIANTS NoJobOnForgottenDrive
CHECK_DEADLOCK FALSE
