SPECIFICATION Spec
CONSTANTS
    Block = 2
    MaxInFlight = 1
    Wrap = 6
    Buses <- MCFaulty
PROPERTIES ResolveFallsBack
CHECK_DEADLOCK FALSE
