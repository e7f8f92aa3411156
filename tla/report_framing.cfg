SPECIFICATION Spec
CONSTANTS
    PIDs <- MCPIDs
    Parameters <- MCParameters
    Data <- MCData
    MaxAnswers = 3
INVARIANTS FramingExact
CHECK_DEADLOCK FALSE
