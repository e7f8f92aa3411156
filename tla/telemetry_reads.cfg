SPECIFICATION Spec
CONSTANTS
    Clients = {c1, c2}
    Cars = {c1, c2}
    Columns <- MCNoColumns
    Kinds <- MCGood
    NetFaults <- MCLoseOnly
    DbFaults = TRUE
    MaxSent = 4
    MaxNet = 2
    MaxRows = 0
INVARIANTS TypeOK AnswerIsCut InOrder
PROPERTIES NeverOlder
CHECK_DEADLOCK FALSE
