CONSTANTS
    Conns = {c1, c2}
    NoConn = NoConn
    Rooms = {r1}
    SeedRooms = {r1}
    MaxGen = 2
    MaxAttempts = 1
    Tasks = {"disconnect", "sweep", "health"}
    LateRowDelete = FALSE
    AuditEnabled = TRUE
    ExecuteEnabled = TRUE
    OrphanExecuteEnabled = TRUE
    RoomDeleteLimit = 1
    ReconnectMayOverrun = FALSE
    MaxRestarts = 1
    Scenarios = {"reconnect", "orphan", "crash"}
SPECIFICATION MCSpec
SYMMETRY ConnSymmetry
INVARIANTS TypeOK LeaseExcludes
PROPERTIES DeleteExcludesReconnect EvidenceBeforeDelete ClosedJobsStayClosed OrphanProofTakesTwo
