SPECIFICATION Spec
CONSTANTS
    PIDs <- MCPIDs
    Parameters <- MCParameters
    Data <- MCData
    MaxAnswers = 3
INVARIANTS PrefixIntact UndisturbedWhole FirstAnswerWins DroppedForCause
CHECK_DEADLOCK FALSE
