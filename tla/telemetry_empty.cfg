SPECIFICATION Spec
CONSTANTS
    Clients = {c1, c2}
    Cars = {c1, c2}
    Columns <- MCNoColumns
    Kinds <- MCGood
    NetFaults <- MCNoFaults
    DbFaults = FALSE
    MaxSent = 2
    MaxNet = 1
    MaxRows = 0
PROPERTIES EachTableFetched
CHECK_DEADLOCK FALSE
