SPECIFICATION ListenerSpec
CONSTANTS
    Clients = {c1, c2}
    Columns = {speed}
    Kinds <- MCAllKinds
    NetFaults <- MCAllFaults
    DbFaults = TRUE
    MaxSent = 3
    MaxNet = 2
    MaxRows = 3
SYMMETRY MCSymmetry
INVARIANTS ListenerType
PROPERTIES SchemaFrozen ImplementsLog
CHECK_DEADLOCK FALSE
