CONSTANTS
    Conns = {c1}
    NoConn = NoConn
    Rooms = {r1}
    SeedRooms = {r1}
    MaxGen = 3
    MaxAttempts = 1
    Tasks = {"disconnect", "sweep"}
    LateRowDelete = FALSE
    AuditEnabled = FALSE
    ExecuteEnabled = TRUE
    OrphanExecuteEnabled = TRUE
    RoomDeleteLimit = 1
    ReconnectMayOverrun = FALSE
    MaxRestarts = 0
    Scenarios = {"sweep"}
SPECIFICATION MCSpec
PROPERTIES ReconnectBlocksDeletion
