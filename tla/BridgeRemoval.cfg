CONSTANTS
    Conns = {c1}
    NoConn = NoConn
    Rooms = {r1}
    SeedRooms = {r1}
    MaxGen = 2
    MaxAttempts = 1
    Tasks = {"disconnect"}
    LateRowDelete = FALSE
    AuditEnabled = FALSE
    ExecuteEnabled = TRUE
    OrphanExecuteEnabled = TRUE
    RoomDeleteLimit = 1
    ReconnectMayOverrun = FALSE
    MaxRestarts = 0
    Scenarios = {"all"}
SPECIFICATION MCSpec
PROPERTIES RemovalIsQueued
