SPECIFICATION Spec
CONSTANTS
    Shapes <- Drawn
    Requests = {1, 2}
CHECK_DEADLOCK FALSE
INVARIANTS
    SeatsAreSound
    BarsFollowRulings
PROPERTIES
    RoundsKeepTheirSides
