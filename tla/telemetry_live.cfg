SPECIFICATION FairSpec
CONSTANTS
    Clients = {c1, c2}
    Cars = {c1, c2}
    Columns = {speed}
    Kinds <- MCGood
    NetFaults <- MCNoFaults
    DbFaults = FALSE
    MaxSent = 3
    MaxNet = 1
    MaxRows = 0
PROPERTIES ShownEventually EachStored
CHECK_DEADLOCK FALSE
