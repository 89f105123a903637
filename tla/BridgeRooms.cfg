CONSTANTS
    Conns = {c1}
    NoConn = NoConn
    Rooms = {r1, r2}
    SeedRooms = {r1, r2}
    MaxGen = 1
    MaxAttempts = 2
    Tasks = {"disconnect", "others"}
    LateRowDelete = TRUE
    AuditEnabled = FALSE
    ExecuteEnabled = TRUE
    OrphanExecuteEnabled = TRUE
    RoomDeleteLimit = 1
    ReconnectMayOverrun = FALSE
    MaxRestarts = 1
    Scenarios = {"all"}
SPECIFICATION MCFairSpec
INVARIANTS SuccessAccountsForEveryRoom DeletedRoomsAreGone
PROPERTIES JobsSettle
