------------------------ MODULE BridgeSystemProofs ------------------------
(***************************************************************************)
(* Proofs about BridgeSystem, for every number of connect invocations,     *)
(* rooms, generations, attempts and restarts.                              *)
(***************************************************************************)
EXTENDS BridgeSystem, TLAPS

-----------------------------------------------------------------------------
(* Type correctness.  The budget stays non-negative only because a delete  *)
(* is started with budget left and nothing spends it in between.           *)

BudgetReserved == wpc \in {"guard", "reprobe", "inflight"} => budget > 0

TypeInv == TypeOK /\ BudgetReserved

\* The empty job, lease and task are members of their types.
LEMMA NoJobTyped == NoJob \in Job
BY DEF NoJob, Job, OpenStatus, ClosedStatus, PortalStatus

\* The row of bridge_connection_leases that is not there.
LEMMA NoLeaseTyped == NoLease \in Lease
BY DEF NoLease, Lease, Roles

\* A scheduler or disconnect task that is not running.
LEMMA IdleTaskTyped == IdleTask \in Task
BY DEF IdleTask, Task, JobIds

\* Job ids are the generations and the orphan audit, which is none of them.
LEMMA GensFacts == /\ Gens \subseteq JobIds /\ Gens \subseteq Nat
                   /\ Orphan \in JobIds /\ Orphan \notin Gens /\ JobIds \subseteq Nat
BY MaxGenAssumption DEF Gens, JobIds, Orphan

\* An empty database and idle tasks are well typed.
LEMMA TypeInit == Init => TypeInv
<1> SUFFICES ASSUME Init PROVE TypeInv
  OBVIOUS
<1> USE DEF Init
<1>1. TablesTypeOK
  BY NoJobTyped, NoLeaseTyped, MaxGenAssumption DEF TablesInit, TablesTypeOK, RoomStatus
<1>2. ConnectionTypeOK
  BY IdleTaskTyped DEF ConnectionInit, ConnectionTypeOK
<1>3. WorkerTypeOK
  <2>1. failed \in BOOLEAN /\ deferred \in BOOLEAN
    BY Zenon DEF WorkerIdle
  <2> QED
    BY <2>1, NoJobTyped, GensFacts, RoomDeleteLimitAssumption
    DEF WorkerIdle, WorkerTypeOK, WorkerSteps, LeasedSteps
<1>4. restarts \in 0..MaxRestarts
  BY MaxRestartsAssumption
<1>5. BudgetReserved
  BY DEF WorkerIdle, BudgetReserved
<1> QED
  BY <1>1, <1>2, <1>3, <1>4, <1>5 DEF TypeInv, TypeOK

\* Every value an action writes into a table has the column's type.
LEMMA WithRoomsTyped ==
  ASSUME TablesTypeOK, NEW j \in JobIds, NEW rs
  PROVE  WithRooms(j, rs) \in [JobIds -> [Rooms -> RoomStatus]]
BY DEF TablesTypeOK, WithRooms, RoomStatus

\* enqueue_bridge_cleanup writes well-typed jobs and rooms.
LEMMA EnqueueTyped ==
  ASSUME TablesTypeOK, NEW g \in JobIds, EnqueueBridgeCleanup(g)
  PROVE  jobs' \in [JobIds -> Job] /\ jobRooms' \in [JobIds -> [Rooms -> RoomStatus]]
<1>1. [NoJob EXCEPT !.status = "pending"] \in Job
  BY NoJobTyped DEF Job, OpenStatus
<1>2. jobs' \in [JobIds -> Job]
  BY <1>1 DEF TablesTypeOK, EnqueueBridgeCleanup
<1> QED
  BY <1>2, WithRoomsTyped DEF EnqueueBridgeCleanup

\* Taking and releasing the lease leave a well-typed lease.
LEMMA LeaseTyped ==
  ASSUME TablesTypeOK, NEW role \in Roles, NEW by \in Conns \cup {NoConn},
         TakeLease(role, by) \/ ReleaseLease(role, by) \/ UNCHANGED lease
  PROVE  lease' \in Lease
<1>1. CASE TakeLease(role, by)
  <2>1. [role |-> role, by |-> by, live |-> TRUE] \in Lease
    BY Zenon DEF Lease
  <2> QED
    BY <1>1, <2>1 DEF TakeLease
<1>2. CASE ReleaseLease(role, by)
  BY <1>2, NoLeaseTyped DEF TablesTypeOK, ReleaseLease
<1> QED
  BY <1>1, <1>2 DEF TablesTypeOK

\* create_bridge inserts a well-typed row and stays within the bound on ids.
LEMMA RowsTyped ==
  ASSUME TablesTypeOK, NEW status \in {"connecting", "connected", "cleaning_up"},
         CreateBridge(status)
  PROVE  rows' \subseteq BridgeRow /\ nextId' \in 1..(MaxGen + 1)
BY MaxGenAssumption DEF TablesTypeOK, CreateBridge, BridgeRow, Gens

\* The connect handler and the monitor task keep the types.
LEMMA ConnectNextTyped ==
  ASSUME TablesTypeOK, ConnectionTypeOK, NEW c \in Conns, ConnectNext(c) \/ MonitorNext(c)
  PROVE  TablesTypeOK' /\ ConnectionTypeOK'
<1> USE DEF ConnectionTypeOK, worldVars, connVars, Roles
<1>1. CASE ConnectStart(c)
  BY <1>1, LeaseTyped DEF ConnectStart, DeleteBridge, TablesTypeOK
<1>2. CASE ConnectLeftover(c)
  BY <1>2 DEF ConnectLeftover, DeleteBridge, TablesTypeOK
<1>3. CASE ConnectCreate(c)
  BY <1>3, LeaseTyped, RowsTyped DEF ConnectCreate, TablesTypeOK
<1>4. CASE ConnectFail(c)
  BY <1>4, LeaseTyped DEF ConnectFail, TablesTypeOK
<1>5. CASE MonitorConnected(c)
  BY <1>5, LeaseTyped DEF MonitorConnected, DeleteBridge, TablesTypeOK
<1>6. CASE MonitorCreate(c)
  BY <1>6, RowsTyped DEF MonitorCreate, TablesTypeOK
<1>7. CASE MonitorReturn(c)
  BY <1>7, LeaseTyped DEF MonitorReturn, TablesTypeOK
<1>8. CASE MonitorTimeout(c)
  BY <1>8 DEF MonitorTimeout, DeleteBridge, TablesTypeOK
<1> QED
  BY <1>1, <1>2, <1>3, <1>4, <1>5, <1>6, <1>7, <1>8 DEF ConnectNext, MonitorNext

\* So does the disconnect handler with its background task,
LEMMA DisconnectNextTyped ==
  ASSUME TablesTypeOK, ConnectionTypeOK, DisconnectNext
  PROVE  TablesTypeOK' /\ ConnectionTypeOK'
<1> USE IdleTaskTyped DEF ConnectionTypeOK, tableVars, worldVars, connVars, Roles
<1>0. disc.gen \in JobIds
  BY DEF Task
<1>1. CASE DisconnectRead
  <2> PICK r \in rows : disc' = [pc |-> "read", gen |-> r.id]
    BY <1>1 DEF DisconnectRead
  <2>1. r.id \in JobIds
    BY GensFacts DEF TablesTypeOK, BridgeRow
  <2> QED
    BY <1>1, <2>1 DEF DisconnectRead, TablesTypeOK, Task
<1>2. CASE DisconnectEnqueue
  BY <1>0, <1>2, EnqueueTyped DEF DisconnectEnqueue, TablesTypeOK, Task
<1>3. CASE DisconnectRow
  <2>1. rows' \subseteq BridgeRow
    BY <1>3 DEF DisconnectRow, TablesTypeOK, BridgeRow
  <2> QED
    BY <1>3, <2>1, LeaseTyped DEF DisconnectRow, TablesTypeOK, Task
<1>4. CASE DisconnectPortal
  <2>1. jobs' \in [JobIds -> Job]
    BY <1>0, <1>4 DEF DisconnectPortal, MarkBridgePortalCleanup, TablesTypeOK, Job, PortalStatus
  <2> QED
    BY <1>4, <2>1 DEF DisconnectPortal, TablesTypeOK, Task
<1>5. CASE DisconnectReturn
  BY <1>5, LeaseTyped DEF DisconnectReturn, TablesTypeOK
<1> QED
  BY <1>1, <1>2, <1>3, <1>4, <1>5 DEF DisconnectNext

\* so do the health check and the sweep of stale rows,
LEMMA SchedulerNextTyped ==
  ASSUME TablesTypeOK, ConnectionTypeOK, SchedulerNext
  PROVE  TablesTypeOK' /\ ConnectionTypeOK'
<1> USE IdleTaskTyped DEF ConnectionTypeOK, tableVars, worldVars, connVars
<1>0. health.gen \in JobIds
  BY DEF Task
<1>1. CASE HealthSnapshot
  <2> PICK r \in rows : health' = [pc |-> "probing", gen |-> r.id]
    BY <1>1 DEF HealthSnapshot
  <2>1. r.id \in JobIds
    BY GensFacts DEF TablesTypeOK, BridgeRow
  <2> QED
    BY <1>1, <2>1 DEF HealthSnapshot, TablesTypeOK, Task
<1>2. CASE HealthLeave
  BY <1>2 DEF HealthLeave, TablesTypeOK
<1>3. CASE HealthBad
  BY <1>0, <1>3, EnqueueTyped DEF HealthBad, TablesTypeOK, Task
<1>4. CASE HealthDelete
  BY <1>4 DEF HealthDelete, DeleteBridge, TablesTypeOK
<1>5. CASE SweepSelect
  BY <1>5 DEF SweepSelect, TablesTypeOK
<1>6. CASE SweepDelete
  BY <1>6 DEF SweepDelete, DeleteBridge, TablesTypeOK
<1> QED
  BY <1>1, <1>2, <1>3, <1>4, <1>5, <1>6 DEF SchedulerNext

\* and so do pairing, unlinking and other users.
LEMMA WorldNextTyped ==
  ASSUME TablesTypeOK, ConnectionTypeOK, WorldNext
  PROVE  TablesTypeOK' /\ ConnectionTypeOK'
BY DEF WorldNext, UserPairs, UserUnlinks, OtherUser, TablesTypeOK, ConnectionTypeOK,
       tableVars, connVars

\* The values the worker writes.
Update == [status : OpenStatus \cup ClosedStatus, attempts : Nat]

\* update_bridge_cleanup_job writes a well-typed job.
LEMMA JobWithTyped ==
  ASSUME TablesTypeOK, NEW j \in JobIds, NEW u \in Update
  PROVE  JobWith(j, u) \in [JobIds -> Job]
BY DEF TablesTypeOK, JobWith, Job, Update

\* retry_job computes a well-typed update.
LEMMA RetriedTyped ==
  ASSUME NEW s \in Job
  PROVE  Retried(s) \in Update
BY MaxAttemptsAssumption DEF Retried, Job, Update, OpenStatus, ClosedStatus

\* So does a status change that keeps the attempts.
LEMMA ClosedTyped ==
  ASSUME WorkerTypeOK, NEW j \in JobIds, NEW status \in OpenStatus \cup ClosedStatus
  PROVE  Closed(j, status) \in Update
BY DEF WorkerTypeOK, Closed, Job, Update

\* A job of the snapshot is well typed.
LEMMA SnapTyped ==
  ASSUME WorkerTypeOK, NEW j \in JobIds
  PROVE  snap[j] \in Job
BY DEF WorkerTypeOK

\* record_orphan_bridge_login_proof writes a well-typed job.
LEMMA WithProofTyped ==
  ASSUME TablesTypeOK, NEW proof \in PortalStatus
  PROVE  WithProof(proof) \in [JobIds -> Job]
<1>1. ASSUME NEW x \in Job
      PROVE  [x EXCEPT !.status = "audit_ready", !.portal = proof, !.aged = FALSE] \in Job
  BY DEF Job, OpenStatus
<1> QED
  BY <1>1, GensFacts DEF TablesTypeOK, WithProof

\* A probe that did not find the login absent proves nothing.
LEMMA ProbesTyped ==
  ASSUME NEW answer \in Probes, answer # "absent"
  PROVE  answer \in PortalStatus \ {"absent_verified", "absence_observed"}
BY DEF Probes, PortalStatus

\* update_bridge_cleanup_room writes a well-typed room status.
LEMMA RoomWithTyped ==
  ASSUME TablesTypeOK, WorkerTypeOK, NEW r, NEW status \in RoomStatus
  PROVE  RoomWith(r, status) \in [JobIds -> [Rooms -> RoomStatus]]
BY DEF TablesTypeOK, WorkerTypeOK, RoomWith

\* Returning from process_job keeps the types and reserves no budget.
LEMMA LeaveTyped ==
  ASSUME TablesTypeOK, WorkerTypeOK, Leave
  PROVE  WorkerTypeOK' /\ lease' \in Lease /\ BudgetReserved'
<1>1. failed' \in BOOLEAN /\ deferred' \in BOOLEAN
  BY Zenon DEF Leave
<1>2. lease' \in Lease
  BY LeaseTyped DEF Leave, Roles
<1>3. snap' \in [JobIds -> Job]
  BY NoJobTyped DEF Leave, WorkerTypeOK
<1> QED
  BY <1>1, <1>2, <1>3, GensFacts DEF Leave, WorkerTypeOK, WorkerSteps, BudgetReserved

\* Moving on keeps the types, and the budget if it was reserved.
LEMMA GotoTyped ==
  ASSUME WorkerTypeOK, BudgetReserved, NEW step \in WorkerSteps, Goto(step),
         step \in {"guard", "reprobe", "inflight"} => wpc \in {"guard", "reprobe", "inflight"}
  PROVE  WorkerTypeOK' /\ BudgetReserved'
BY DEF WorkerTypeOK, BudgetReserved, Goto

\* The start and the end of a cycle keep the types.
LEMMA CycleTyped ==
  ASSUME TablesTypeOK, WorkerTypeOK, BudgetReserved,
         OrphanScan \/ (\E due \in SUBSET JobIds : ListDue(due))
         \/ AdminLogin \/ CycleFails \/ CycleEnd
  PROVE  TablesTypeOK' /\ WorkerTypeOK' /\ BudgetReserved'
<1> USE DEF tableVars, worldVars, workerVars
<1>1. CASE OrphanScan
  <2>1. [NoJob EXCEPT !.status = "audit_pending", !.portal = "legacy_unverified"] \in Job
    BY NoJobTyped DEF Job, OpenStatus, PortalStatus
  <2>2. jobs' \in [JobIds -> Job]
    BY <1>1, <2>1, GensFacts DEF OrphanScan, EnqueueOrphanAudit, TablesTypeOK
  <2>3. jobRooms' \in [JobIds -> [Rooms -> RoomStatus]]
    BY <1>1, GensFacts DEF OrphanScan, EnqueueOrphanAudit, TablesTypeOK, RoomStatus
  <2> QED
    BY <1>1, <2>2, <2>3 DEF OrphanScan, TablesTypeOK, WorkerTypeOK, BudgetReserved
<1>2. ASSUME NEW due \in SUBSET JobIds, ListDue(due)
      PROVE  TablesTypeOK' /\ WorkerTypeOK' /\ BudgetReserved'
  <2>1. snap' \in [JobIds -> Job]
    BY <1>2, NoJobTyped DEF ListDue, TablesTypeOK
  <2>2. wpc' = "login" /\ budget' = budget /\ batch' = due
    BY <1>2 DEF ListDue
  <2> QED
    BY <1>2, <2>1, <2>2, RoomDeleteLimitAssumption
    DEF ListDue, TablesTypeOK, WorkerTypeOK, WorkerSteps, BudgetReserved
<1>3. CASE AdminLogin \/ CycleEnd
  BY <1>3, RoomDeleteLimitAssumption
  DEF AdminLogin, CycleEnd, TablesTypeOK, WorkerTypeOK, WorkerSteps, BudgetReserved
<1>4. CASE CycleFails
  BY <1>4, NoJobTyped
  DEF CycleFails, TablesTypeOK, WorkerTypeOK, WorkerSteps, BudgetReserved
<1> QED
  BY <1>1, <1>2, <1>3, <1>4

\* The first look at the bridge row keeps the types.
LEMMA CheckGenerationTyped ==
  ASSUME TablesTypeOK, WorkerTypeOK, BudgetReserved, NEW j \in JobIds, CheckGeneration(j)
  PROVE  TablesTypeOK' /\ WorkerTypeOK' /\ BudgetReserved'
<1> USE DEF worldVars
<1>1. jobs' \in [JobIds -> Job]
  <2>1. /\ Retried(snap[j]) \in Update
        /\ Closed(j, "retrying") \in Update /\ Closed(j, "cancelled_reconnected") \in Update
    BY SnapTyped, RetriedTyped, ClosedTyped DEF OpenStatus, ClosedStatus
  <2>2. /\ JobWith(j, Retried(snap[j])) \in [JobIds -> Job]
        /\ JobWith(j, Closed(j, "retrying")) \in [JobIds -> Job]
        /\ JobWith(j, Closed(j, "cancelled_reconnected")) \in [JobIds -> Job]
    BY <2>1, JobWithTyped
  <2> QED
    BY <2>2 DEF CheckGeneration, TablesTypeOK
<1>2. snap' \in [JobIds -> Job]
  <2>1. [snap EXCEPT ![j].aged = jobs[j].aged] \in [JobIds -> Job]
    BY DEF TablesTypeOK, WorkerTypeOK, Job
  <2> QED
    BY <2>1, NoJobTyped DEF CheckGeneration, WorkerTypeOK
<1>3. wpc' \in {"pick", "probe", "discover"} /\ batch' \subseteq JobIds /\ job' \in JobIds
  BY DEF CheckGeneration, WorkerTypeOK
<1> QED
  BY <1>1, <1>2, <1>3 DEF CheckGeneration, TablesTypeOK, WorkerTypeOK, WorkerSteps, BudgetReserved

\* Every step of process_job keeps the types and never overdraws the budget.
LEMMA ProcessJobTyped ==
  ASSUME TablesTypeOK, WorkerTypeOK, BudgetReserved, ProcessJob
  PROVE  TablesTypeOK' /\ WorkerTypeOK' /\ BudgetReserved'
<1> USE DEF worldVars
<1>0. job \in JobIds /\ snap[job] \in Job /\ Retried(snap[job]) \in Update
      /\ JobWith(job, Retried(snap[job])) \in [JobIds -> Job]
  BY SnapTyped, RetriedTyped, JobWithTyped DEF WorkerTypeOK
<1>1. CASE OrphanProbe
  <2> PICK answer \in Probes :
         IF answer = "absent" /\ OrphanAbsenceProved(snap[job])
         THEN \/ /\ wpc' = "discover"
                 /\ jobs' = IF snap[job].portal = "absent_verified"
                            THEN jobs ELSE WithProof("absent_verified")
                 /\ snap' = [snap EXCEPT ![job].portal = "absent_verified"]
                 /\ UNCHANGED <<lease, batch, job, todo, room, budget, failed, deferred>>
              \/ snap[job].portal # "absent_verified" /\ UNCHANGED jobs /\ Leave
         ELSE /\ jobs' = WithProof(IF answer = "absent" THEN "absence_observed" ELSE answer)
              /\ Leave
    BY <1>1 DEF OrphanProbe
  <2>1. CASE wpc' = "discover"
    <3>1. /\ answer = "absent" /\ OrphanAbsenceProved(snap[job]) /\ ~Leave
      BY <2>1 DEF Leave
    <3>2. jobs' \in [JobIds -> Job]
      BY <3>1, WithProofTyped DEF TablesTypeOK, PortalStatus
    <3>3. snap' \in [JobIds -> Job]
      BY <3>1 DEF WorkerTypeOK, Job, PortalStatus
    <3> QED
      BY <1>1, <2>1, <3>1, <3>2, <3>3
      DEF OrphanProbe, TablesTypeOK, WorkerTypeOK, WorkerSteps, BudgetReserved
  <2>2. CASE Leave
    <3>1. jobs' \in [JobIds -> Job]
      BY <2>2, WithProofTyped, ProbesTyped DEF PortalStatus, TablesTypeOK, Leave
    <3> QED
      BY <1>1, <2>2, <3>1, LeaveTyped DEF OrphanProbe, TablesTypeOK
  <2> QED
    BY <2>1, <2>2
<1>2. ASSUME NEW visible \in SUBSET Rooms, Discover(visible)
      PROVE  TablesTypeOK' /\ WorkerTypeOK' /\ BudgetReserved'
  <2>1. jobRooms' \in [JobIds -> [Rooms -> RoomStatus]]
    BY <1>0, <1>2, WithRoomsTyped DEF Discover
  <2>2. CASE /\ todo' \subseteq Rooms /\ wpc' \in {"acquire", "audit"}
             /\ UNCHANGED <<lease, jobs, batch, snap, job, room, budget, failed, deferred>>
    BY <1>2, <2>1, <2>2
    DEF Discover, TablesTypeOK, WorkerTypeOK, WorkerSteps, LeasedSteps, BudgetReserved
  <2>3. CASE jobs' = JobWith(job, Retried(snap[job])) /\ Leave
    BY <1>0, <1>2, <2>1, <2>3, LeaveTyped DEF Discover, TablesTypeOK
  <2> QED
    BY <1>2, <2>2, <2>3 DEF Discover
<1>3. CASE AcquireCleanupLease
  <2>1. CASE LeaseFree("worker", NoConn) /\ TakeLease("worker", NoConn)
             /\ Goto(IF job = Orphan THEN "final" ELSE "recheck") /\ UNCHANGED jobs
    BY <1>3, <2>1, LeaseTyped, GotoTyped
    DEF AcquireCleanupLease, TablesTypeOK, WorkerSteps, LeasedSteps, Roles
  <2>2. CASE jobs' = JobWith(job, Retried(snap[job])) /\ Leave
    BY <1>0, <1>3, <2>2, LeaveTyped DEF AcquireCleanupLease, TablesTypeOK
  <2> QED
    BY <1>3, <2>1, <2>2 DEF AcquireCleanupLease
<1>4. CASE FinalOrphanCheck
  <2> PICK answer \in Probes :
         IF answer = "absent"
         THEN Goto("recheck") /\ UNCHANGED <<jobs, lease>>
         ELSE jobs' = WithProof(answer) /\ Leave
    BY <1>4 DEF FinalOrphanCheck
  <2>1. CASE answer = "absent"
    BY <1>4, <2>1, GotoTyped DEF FinalOrphanCheck, TablesTypeOK, WorkerSteps, LeasedSteps
  <2>2. CASE answer # "absent"
    BY <1>4, <2>2, LeaveTyped, WithProofTyped, ProbesTyped DEF FinalOrphanCheck, TablesTypeOK
  <2> QED
    BY <2>1, <2>2
<1>5. CASE RecheckGeneration
  <2>1. CASE rows = {} /\ Goto("audit") /\ UNCHANGED <<jobs, lease>>
    BY <1>5, <2>1, GotoTyped DEF RecheckGeneration, TablesTypeOK, WorkerSteps, LeasedSteps
  <2>2. CASE jobs' = JobWith(job, Closed(job, "cancelled_reconnected")) /\ Leave
    <3>1. jobs' \in [JobIds -> Job]
      BY <1>0, <2>2, ClosedTyped, JobWithTyped DEF ClosedStatus
    <3> QED
      BY <1>5, <2>2, <3>1, LeaveTyped DEF RecheckGeneration, TablesTypeOK
  <2>3. CASE jobs' = JobWith(job, Retried(snap[job])) /\ Leave
    BY <1>0, <1>5, <2>3, LeaveTyped DEF RecheckGeneration, TablesTypeOK
  <2> QED
    BY <1>5, <2>1, <2>2, <2>3 DEF RecheckGeneration
<1>6. ASSUME NEW r \in Rooms, AuditRoom(r)
      PROVE  TablesTypeOK' /\ WorkerTypeOK' /\ BudgetReserved'
  <2>1. jobRooms' \in [JobIds -> [Rooms -> RoomStatus]]
    BY <1>6, RoomWithTyped DEF AuditRoom, TablesTypeOK, RoomStatus
  <2>2. deferred' \in BOOLEAN
    BY <1>6, Zenon DEF AuditRoom, WorkerTypeOK
  <2>3. /\ wpc' = "guard" => budget > 0
        /\ wpc' \in {"audit", "guard"} /\ room' \subseteq Rooms /\ todo' \subseteq Rooms
    BY <1>6 DEF AuditRoom, HasBudget, WorkerTypeOK
  <2> QED
    BY <1>6, <2>1, <2>2, <2>3
    DEF AuditRoom, TablesTypeOK, WorkerTypeOK, WorkerSteps, LeasedSteps, BudgetReserved
<1>7. CASE RefreshGuard
  <2>1. jobRooms' \in [JobIds -> [Rooms -> RoomStatus]]
    BY <1>7, RoomWithTyped DEF RefreshGuard, SendDelete, KeepRoom, TablesTypeOK, RoomStatus
  <2>2. CASE /\ LeaseFree("worker", NoConn) /\ TakeLease("worker", NoConn)
             /\ rows = {}
             /\ IF job = Orphan THEN Goto("reprobe") /\ UNCHANGED jobRooms ELSE SendDelete
             /\ UNCHANGED jobs
    <3>1. wpc = "guard" /\ (Goto("reprobe") \/ Goto("inflight"))
      BY <1>7, <2>2 DEF RefreshGuard, SendDelete
    <3> QED
      BY <1>7, <2>1, <2>2, <3>1, LeaseTyped, GotoTyped
      DEF RefreshGuard, TablesTypeOK, WorkerSteps, LeasedSteps, Roles
  <2>3. CASE KeepRoom /\ jobs' = JobWith(job, Retried(snap[job])) /\ Leave
    BY <1>0, <1>7, <2>1, <2>3, LeaveTyped DEF RefreshGuard, TablesTypeOK
  <2> QED
    BY <1>7, <2>2, <2>3 DEF RefreshGuard
<1>8. CASE ReprobeOrphan
  <2> PICK answer \in Probes :
         IF answer = "absent"
         THEN SendDelete /\ UNCHANGED <<jobs, lease>>
         ELSE /\ KeepRoom
              /\ jobs' = [WithProof(answer) EXCEPT
                             ![job].status = Retried(snap[job]).status,
                             ![job].attempts = Retried(snap[job]).attempts]
              /\ Leave
    BY <1>8 DEF ReprobeOrphan
  <2>1. jobRooms' \in [JobIds -> [Rooms -> RoomStatus]]
    BY RoomWithTyped DEF SendDelete, KeepRoom, RoomStatus
  <2>2. CASE answer = "absent"
    BY <1>8, <2>1, <2>2, GotoTyped
    DEF ReprobeOrphan, SendDelete, TablesTypeOK, WorkerSteps, LeasedSteps
  <2>3. CASE answer # "absent"
    <3>1. WithProof(answer) \in [JobIds -> Job]
      BY <2>3, WithProofTyped, ProbesTyped
    <3>2. jobs' \in [JobIds -> Job]
      BY <1>0, <2>3, <3>1 DEF Job, Update
    <3> QED
      BY <1>8, <2>1, <2>3, <3>2, LeaveTyped DEF ReprobeOrphan, TablesTypeOK
  <2> QED
    BY <2>2, <2>3
<1>9. CASE DeleteAnswered
  <2>1. jobRooms' \in [JobIds -> [Rooms -> RoomStatus]]
    BY <1>9, RoomWithTyped DEF DeleteAnswered, RoomStatus
  <2>2. budget' \in 0..RoomDeleteLimit
    BY <1>9, RoomDeleteLimitAssumption DEF DeleteAnswered, WorkerTypeOK, BudgetReserved
  <2>3. failed' \in BOOLEAN
    BY <1>9, Zenon DEF DeleteAnswered, WorkerTypeOK
  <2> QED
    BY <1>9, <2>1, <2>2, <2>3
    DEF DeleteAnswered, TablesTypeOK, WorkerTypeOK, WorkerSteps, LeasedSteps, BudgetReserved
<1>10. CASE FinishJob
  <2>1. Outcome \in Update
    BY <1>0, ClosedTyped DEF Outcome, OpenStatus, ClosedStatus
  <2> QED
    BY <1>0, <1>10, <2>1, JobWithTyped, LeaveTyped DEF FinishJob, TablesTypeOK
<1> QED
  BY <1>1, <1>2, <1>3, <1>4, <1>5, <1>6, <1>7, <1>8, <1>9, <1>10 DEF ProcessJob

\* Every step of the worker and of the homeserver does.
LEMMA WorkerNextTyped ==
  ASSUME TablesTypeOK, WorkerTypeOK, BudgetReserved, WorkerNext
  PROVE  TablesTypeOK' /\ WorkerTypeOK' /\ BudgetReserved'
<1>1. CASE ServerDeletes
  BY <1>1 DEF ServerDeletes, TablesTypeOK, WorkerTypeOK, BudgetReserved, tableVars, workerVars
<1> QED
  BY <1>1, CycleTyped, CheckGenerationTyped, ProcessJobTyped DEF WorkerNext

\* A restart leaves well-typed idle tasks behind.
LEMMA RestartTyped ==
  ASSUME TypeInv, Restart
  PROVE  TypeInv'
<1> USE DEF TypeInv, TypeOK
<1>1. lease' \in Lease
  BY DEF Restart, TablesTypeOK, Lease, Roles
<1>2. TablesTypeOK'
  BY <1>1 DEF Restart, TablesTypeOK, worldVars
<1>3. ConnectionTypeOK'
  BY IdleTaskTyped DEF Restart, ConnectionTypeOK
<1>4. failed' \in BOOLEAN /\ deferred' \in BOOLEAN
  BY Zenon DEF Restart
<1>5. WorkerTypeOK' /\ BudgetReserved'
  BY <1>4, NoJobTyped, GensFacts, RoomDeleteLimitAssumption
  DEF Restart, WorkerTypeOK, WorkerSteps, BudgetReserved
<1>6. (restarts \in 0..MaxRestarts)'
  BY MaxRestartsAssumption DEF Restart
<1> QED
  BY <1>2, <1>3, <1>5, <1>6

\* TypeInv is inductive.
LEMMA TypeStep == TypeInv /\ [Next]_vars => TypeInv'
<1> SUFFICES ASSUME TypeInv, [Next]_vars PROVE TypeInv'
  OBVIOUS
<1> USE DEF TypeInv, TypeOK
<1>1. CASE ConnectionNext /\ UNCHANGED <<workerVars, restarts>>
  <2>1. TablesTypeOK' /\ ConnectionTypeOK'
    BY <1>1, ConnectNextTyped, DisconnectNextTyped, SchedulerNextTyped, WorldNextTyped
    DEF ConnectionNext
  <2> QED
    BY <1>1, <2>1 DEF WorkerTypeOK, BudgetReserved, workerVars
<1>2. CASE WorkerNext /\ UNCHANGED <<connVars, restarts>>
  BY <1>2, WorkerNextTyped DEF ConnectionTypeOK, connVars
<1>3. CASE LeaseExpires
  <2>1. lease' \in Lease
    BY <1>3 DEF LeaseExpires, TablesTypeOK, Lease
  <2> QED
    BY <1>3, <2>1 DEF LeaseExpires, TablesTypeOK, ConnectionTypeOK, WorkerTypeOK,
                      BudgetReserved, worldVars, connVars, workerVars
<1>4. CASE AbsenceAges
  <2>1. jobs' \in [JobIds -> Job]
    BY <1>4, GensFacts DEF AbsenceAges, TablesTypeOK, Job
  <2> QED
    BY <1>4, <2>1 DEF AbsenceAges, TablesTypeOK, ConnectionTypeOK, WorkerTypeOK,
                      BudgetReserved, worldVars, connVars, workerVars
<1>5. CASE Restart
  BY <1>5, RestartTyped
<1>6. CASE UNCHANGED vars
  BY <1>6 DEF vars, tableVars, worldVars, connVars, workerVars, TablesTypeOK,
              ConnectionTypeOK, WorkerTypeOK, BudgetReserved
<1> QED
  BY <1>1, <1>2, <1>3, <1>4, <1>5, <1>6 DEF Next

\* The canary limit is never overdrawn and every table keeps its columns' types.
THEOREM TypeCorrect == Spec => []TypeOK
<1>1. TypeInv => TypeOK
  BY DEF TypeInv
<1> QED
  BY <1>1, TypeInit, TypeStep, PTL DEF Spec

-----------------------------------------------------------------------------
(* Leases.  A renewal finds no row, and only holders of the lease insert   *)
(* one, so none appears before the delete it protects is over.             *)

GuardedQuiet == wpc \in GuardedSteps => rows = {}

LeaseInv == TypeInv /\ LeaseExcludes /\ GuardedQuiet

\* Initially nobody is inside a critical section.
LEMMA LeaseInit == Init => LeaseInv
BY TypeInit DEF Init, ConnectionInit, WorkerIdle, LeaseInv, LeaseExcludes, GuardedQuiet,
                GuardedSteps, ConnHolds, MonHolds

\* Nobody takes a live lease from its holder, and nobody else gives it up.
LEMMA LiveLeaseKept ==
  ASSUME NEW role, NEW by, NEW r, NEW b, lease.live, Holds(role, by),
         r # role \/ b # by,
         (LeaseFree(r, b) /\ TakeLease(r, b)) \/ ReleaseLease(r, b) \/ UNCHANGED lease,
         role # "none"
  PROVE  Holds(role, by)' /\ lease'.live
BY DEF Holds, LeaseFree, TakeLease, ReleaseLease

\* Whoever takes the free lease holds it.
LEMMA TakenLease ==
  ASSUME NEW role, NEW by, TakeLease(role, by)
  PROVE  Holds(role, by)' /\ lease'.live
BY DEF Holds, TakeLease

\* The connect handler respects everybody else's critical section.
LEMMA LeaseConnect ==
  ASSUME LeaseInv, NEW c \in Conns, ConnectNext(c), UNCHANGED <<workerVars, restarts>>
  PROVE  (LeaseExcludes /\ GuardedQuiet)'
<1> USE DEF LeaseInv, LeaseExcludes, GuardedQuiet, GuardedSteps, ConnHolds, MonHolds,
            workerVars, worldVars, connVars
<1>0. conn \in [Conns -> {"idle", "pairing"}]
  BY DEF TypeInv, TypeOK, ConnectionTypeOK
<1>1. CASE ConnectStart(c)
  <2>1. ~(lease.live /\ (\/ Holds("worker", NoConn)
                         \/ \E d \in Conns : Holds("mon", d) \/ (d # c /\ Holds("conn", d))))
    BY <1>1 DEF ConnectStart, LeaseFree, Holds
  <2>2. Holds("conn", c)' /\ lease'.live
    BY <1>1, TakenLease DEF ConnectStart
  <2> QED
    BY <1>0, <1>1, <2>1, <2>2 DEF ConnectStart
<1>2. CASE ConnectLeftover(c)
  BY <1>2 DEF ConnectLeftover, DeleteBridge, Holds
<1>3. CASE ConnectCreate(c) \/ ConnectFail(c)
  <2>1. Holds("conn", c) /\ lease.live
    BY <1>3 DEF ConnectCreate, ConnectFail
  <2>2. wpc \notin GuardedSteps /\ \A d \in Conns : ~MonHolds(d) /\ (d # c => ~ConnHolds(d))
    BY <2>1 DEF Holds
  <2>3. conn' = [conn EXCEPT ![c] = "idle"]
        /\ (mon' = mon \/ mon' = [mon EXCEPT ![c] = "polling"])
    BY <1>3 DEF ConnectCreate, ConnectFail
  <2>4. mon \in [Conns -> {"idle", "polling", "swapping", "created"}]
    BY DEF TypeInv, TypeOK, ConnectionTypeOK
  <2> QED
    BY <1>0, <2>2, <2>3, <2>4
<1> QED
  BY <1>1, <1>2, <1>3 DEF ConnectNext

\* So does the monitor task,
LEMMA LeaseMonitor ==
  ASSUME LeaseInv, NEW c \in Conns, MonitorNext(c), UNCHANGED <<workerVars, restarts>>
  PROVE  (LeaseExcludes /\ GuardedQuiet)'
<1> USE DEF LeaseInv, LeaseExcludes, GuardedQuiet, GuardedSteps, ConnHolds, MonHolds,
            workerVars, worldVars, connVars
<1>0. mon \in [Conns -> {"idle", "polling", "swapping", "created"}]
  BY DEF TypeInv, TypeOK, ConnectionTypeOK
<1>1. CASE MonitorConnected(c)
  <2>1. CASE LeaseFree("mon", c)
    <3>1. ~(lease.live /\ (\/ Holds("worker", NoConn)
                           \/ \E d \in Conns : Holds("conn", d) \/ (d # c /\ Holds("mon", d))))
      BY <2>1 DEF LeaseFree, Holds
    <3>2. Holds("mon", c)' /\ lease'.live
      BY <1>1, <2>1, TakenLease DEF MonitorConnected
    <3> QED
      BY <1>0, <1>1, <2>1, <3>1, <3>2 DEF MonitorConnected
  <2>2. CASE ~LeaseFree("mon", c)
    BY <1>0, <1>1, <2>2 DEF MonitorConnected, Holds
  <2> QED
    BY <2>1, <2>2
<1>2. CASE MonitorCreate(c) \/ MonitorReturn(c)
  <2>1. Holds("mon", c) /\ lease.live
    BY <1>2 DEF MonitorCreate, MonitorReturn
  <2>2. wpc \notin GuardedSteps /\ \A d \in Conns : ~ConnHolds(d) /\ (d # c => ~MonHolds(d))
    BY <2>1 DEF Holds
  <2>3. CASE MonitorCreate(c)
    BY <1>0, <2>1, <2>2, <2>3 DEF MonitorCreate, Holds
  <2>4. CASE MonitorReturn(c)
    BY <1>0, <2>2, <2>4 DEF MonitorReturn
  <2> QED
    BY <1>2, <2>3, <2>4
<1>3. CASE MonitorTimeout(c)
  BY <1>0, <1>3 DEF MonitorTimeout, DeleteBridge, Holds
<1> QED
  BY <1>1, <1>2, <1>3 DEF MonitorNext

\* and so do the tasks that only share the tables with them.
LEMMA LeaseOthers ==
  ASSUME LeaseInv, DisconnectNext \/ SchedulerNext \/ WorldNext,
         UNCHANGED <<workerVars, restarts>>
  PROVE  (LeaseExcludes /\ GuardedQuiet)'
<1>1. /\ UNCHANGED <<conn, mon, wpc>>
      /\ \/ LeaseFree("disc", NoConn) /\ TakeLease("disc", NoConn)
         \/ ReleaseLease("disc", NoConn) \/ UNCHANGED lease
  BY DEF DisconnectNext, DisconnectRead, DisconnectEnqueue, DisconnectRow, DisconnectPortal,
         DisconnectReturn, SchedulerNext, HealthSnapshot, HealthLeave, HealthBad, HealthDelete,
         SweepSelect, SweepDelete, WorldNext, UserPairs, UserUnlinks, OtherUser,
         tableVars, worldVars, connVars, workerVars
<1>2. rows = {} => rows' = {}
  BY DEF DisconnectNext, DisconnectRead, DisconnectEnqueue, DisconnectRow, DisconnectPortal,
         DisconnectReturn, SchedulerNext, HealthSnapshot, HealthLeave, HealthBad, HealthDelete,
         SweepSelect, SweepDelete, WorldNext, UserPairs, UserUnlinks, OtherUser, DeleteBridge,
         tableVars, worldVars, connVars, workerVars
<1> QED
  BY <1>1, <1>2, LiveLeaseKept
  DEF LeaseInv, LeaseExcludes, GuardedQuiet, GuardedSteps, ConnHolds, MonHolds

\* The worker's own steps: it enters a guarded step only by renewing.
LEMMA LeaseWorker ==
  ASSUME LeaseInv, WorkerNext, UNCHANGED <<connVars, restarts>>
  PROVE  (LeaseExcludes /\ GuardedQuiet)'
<1> USE DEF GuardedSteps, worldVars
<1>1. /\ UNCHANGED <<conn, mon>> /\ rows' = rows
      /\ \/ LeaseFree("worker", NoConn) /\ TakeLease("worker", NoConn)
         \/ ReleaseLease("worker", NoConn) \/ UNCHANGED lease
  BY DEF WorkerNext, OrphanScan, ListDue, AdminLogin, CycleFails, CycleEnd, CheckGeneration, ProcessJob, OrphanProbe,
         Discover, AcquireCleanupLease, FinalOrphanCheck, RecheckGeneration, AuditRoom,
         RefreshGuard, ReprobeOrphan, DeleteAnswered, FinishJob, ServerDeletes, SendDelete,
         Goto, Leave, tableVars, connVars, workerVars
<1>2. wpc' \in GuardedSteps =>
        \/ rows = {} /\ TakeLease("worker", NoConn)
        \/ wpc \in GuardedSteps /\ UNCHANGED lease
  BY DEF WorkerNext, OrphanScan, ListDue, AdminLogin, CycleFails, CycleEnd, CheckGeneration, ProcessJob, OrphanProbe,
         Discover, AcquireCleanupLease, FinalOrphanCheck, RecheckGeneration, AuditRoom,
         RefreshGuard, ReprobeOrphan, DeleteAnswered, FinishJob, ServerDeletes, SendDelete,
         Goto, Leave, tableVars, connVars, workerVars
<1>3. \A c \in Conns : /\ ConnHolds(c)' => Holds("conn", c)' /\ lease'.live
                       /\ MonHolds(c)' => Holds("mon", c)' /\ lease'.live
  BY <1>1, LiveLeaseKept DEF LeaseInv, LeaseExcludes, ConnHolds, MonHolds
<1>4. wpc' \in GuardedSteps => Holds("worker", NoConn)' /\ lease'.live /\ rows' = {}
  BY <1>1, <1>2, TakenLease DEF LeaseInv, LeaseExcludes, GuardedQuiet, Holds
<1> QED
  BY <1>3, <1>4 DEF LeaseExcludes, GuardedQuiet

\* LeaseInv is inductive as long as no reconnect outlives its lease.
LEMMA LeaseStep ==
  ASSUME ~ReconnectMayOverrun
  PROVE  LeaseInv /\ [Next]_vars => LeaseInv'
<1> SUFFICES ASSUME LeaseInv, [Next]_vars PROVE (LeaseExcludes /\ GuardedQuiet)'
  BY TypeStep DEF LeaseInv
<1>1. CASE ConnectionNext /\ UNCHANGED <<workerVars, restarts>>
  BY <1>1, LeaseConnect, LeaseMonitor, LeaseOthers DEF ConnectionNext
<1>2. CASE WorkerNext /\ UNCHANGED <<connVars, restarts>>
  BY <1>2, LeaseWorker
<1> USE DEF LeaseInv, LeaseExcludes, GuardedQuiet, GuardedSteps, ConnHolds, MonHolds, Holds,
            worldVars, connVars, workerVars, tableVars
<1>3. CASE LeaseExpires
  <2>1. lease.role \notin {"conn", "mon"}
    BY <1>3 DEF LeaseExpires, MayExpire
  <2>2. lease.role # "worker" \/ wpc \notin GuardedSteps
    BY <1>3 DEF LeaseExpires, MayExpire
  <2> QED
    BY <1>3, <2>1, <2>2 DEF LeaseExpires
<1>4. CASE AbsenceAges
  BY <1>4 DEF AbsenceAges
<1>5. CASE Restart
  BY <1>5 DEF Restart
<1>6. CASE UNCHANGED vars
  BY <1>6 DEF vars
<1> QED
  BY <1>1, <1>2, <1>3, <1>4, <1>5, <1>6 DEF Next

\* While reconnects are faster than their lease, everybody inside a critical
\* section holds a live lease, so reconnects and room deletion never overlap.
THEOREM LeasesExclude ==
  ASSUME ~ReconnectMayOverrun
  PROVE  Spec => []LeaseExcludes
<1>1. LeaseInv => LeaseExcludes
  BY DEF LeaseInv
<1> QED
  BY <1>1, LeaseInit, LeaseStep, PTL DEF Spec

\* Only the homeserver's answer to a delete changes what it stores.
LEMMA PurgeIsInflight ==
  ASSUME TypeInv, [Next]_vars, RoomPurged
  PROVE  wpc = "inflight" /\ job \in JobIds
<1> USE DEF RoomPurged, worldVars, tableVars, connVars, workerVars
<1>1. CASE ConnectionNext /\ UNCHANGED <<workerVars, restarts>>
  BY <1>1 DEF ConnectionNext, ConnectNext, ConnectStart, ConnectLeftover, ConnectCreate,
     ConnectFail, MonitorNext, MonitorConnected, MonitorCreate, MonitorReturn, MonitorTimeout,
     DisconnectNext, DisconnectRead, DisconnectEnqueue, DisconnectRow, DisconnectPortal,
     DisconnectReturn, SchedulerNext, HealthSnapshot, HealthLeave, HealthBad, HealthDelete,
     SweepSelect, SweepDelete, WorldNext, UserPairs, UserUnlinks, OtherUser
<1>2. CASE WorkerNext /\ UNCHANGED <<connVars, restarts>>
  BY <1>2 DEF WorkerNext, OrphanScan, ListDue, AdminLogin, CycleFails, CycleEnd, CheckGeneration, ProcessJob,
     OrphanProbe, Discover, AcquireCleanupLease, FinalOrphanCheck, RecheckGeneration, AuditRoom,
     RefreshGuard, ReprobeOrphan, DeleteAnswered, FinishJob, ServerDeletes,
     TypeInv, TypeOK, WorkerTypeOK
<1>3. CASE LeaseExpires \/ AbsenceAges \/ Restart \/ UNCHANGED vars
  BY <1>3 DEF LeaseExpires, AbsenceAges, Restart, vars
<1> QED
  BY <1>1, <1>2, <1>3 DEF Next

\* Rooms leave the homeserver only when no row exists and no reconnect is
\* inside its lease, if reconnects are faster than their lease.
THEOREM DeletionExcludesReconnect ==
  ASSUME ~ReconnectMayOverrun
  PROVE  Spec => DeleteExcludesReconnect
<1>1. LeaseInv /\ [Next]_vars =>
        [RoomPurged => /\ rows = {}
                       /\ \A c \in Conns : ~ConnHolds(c) /\ ~MonHolds(c)]_vars
  BY PurgeIsInflight DEF LeaseInv, LeaseExcludes, GuardedQuiet, GuardedSteps, Holds
<1> QED
  BY <1>1, LeaseInit, LeaseStep, PTL DEF Spec, DeleteExcludesReconnect

-----------------------------------------------------------------------------
(* Evidence.  The worker acts on a snapshot; what makes that sound is that *)
(* a proof, once in a job's row, is only taken back by the worker itself.  *)

Proofs(j) == IF j = Orphan THEN {"absence_observed", "absent_verified"} ELSE {"confirmed"}
Sufficient(j) == IF j = Orphan THEN "absent_verified" ELSE "confirmed"

\* A proof in the snapshot is still in the row.
SnapProof ==
    wpc # "idle" =>
        \A j \in JobIds : snap[j].portal \in Proofs(j) => jobs[j].portal = snap[j].portal

\* The age of an absence is read from the row.
SnapAged == wpc = "probe" /\ snap[Orphan].portal = "absence_observed" /\ snap[Orphan].aged
               => jobs[Orphan].aged

OrphanSteps == wpc \in {"probe", "final", "reprobe"} => job = Orphan

Executing == wpc \in {"guard", "reprobe", "inflight"} => snap[job].portal = Sufficient(job)

\* A generation's portal cleanup is reported once: the disconnect that reports
\* it read the row before, and the row is gone or marked by then.
RowGone(g) == \A r \in rows : r.id = g => LateRowDelete /\ r.status = "cleaning_up"

RowsOld == \A r \in rows : r.id < nextId

DiscOld ==
    /\ disc.pc # "idle" => disc.gen \in Gens /\ disc.gen < nextId
    /\ disc.pc \in {"queued", "portal"} => jobs[disc.gen].status # "none"
    /\ disc.pc \in {"portal", "marked"} => RowGone(disc.gen)

MarkedOnce ==
    \A g \in Gens : jobs[g].portal # "pending" =>
        /\ g < nextId /\ jobs[g].status # "none"
        /\ RowGone(g)
        /\ disc.pc \in {"read", "queued", "portal"} => disc.gen # g

HealthGen == health.pc # "idle" => health.gen \in Gens

EvidenceInv ==
    /\ TypeInv /\ SnapProof /\ SnapAged /\ OrphanSteps /\ Executing
    /\ RowsOld /\ DiscOld /\ MarkedOnce /\ HealthGen

\* Initially there is no proof anywhere.
LEMMA EvidenceInit == Init => EvidenceInv
BY TypeInit, GensFacts
DEF Init, TablesInit, ConnectionInit, WorkerIdle, EvidenceInv, SnapProof, SnapAged, OrphanSteps,
    Executing, RowsOld, DiscOld, MarkedOnce, HealthGen, Proofs, NoJob, IdleTask

\* The part of EvidenceInv that speaks of the worker survives every step that
\* leaves the worker and the proofs in the jobs' rows alone.
WorkerEvidence == SnapProof /\ SnapAged /\ OrphanSteps /\ Executing
TableEvidence == RowsOld /\ DiscOld /\ MarkedOnce

\* It is enough to keep the proofs the snapshot relies on.
LEMMA WorkerEvidenceKept ==
  ASSUME TypeInv, WorkerEvidence, UNCHANGED workerVars,
         \A j \in JobIds : snap[j].portal \in Proofs(j) /\ jobs[j].portal = snap[j].portal
                             => jobs'[j].portal = jobs[j].portal,
         jobs[Orphan].aged => jobs'[Orphan].aged
  PROVE  WorkerEvidence'
BY GensFacts DEF WorkerEvidence, SnapProof, SnapAged, OrphanSteps, Executing, Proofs, Sufficient,
                 workerVars

\* Queueing a generation again keeps its proof.
LEMMA EnqueueKeepsProof ==
  ASSUME TypeInv, TableEvidence, NEW g \in Gens, EnqueueBridgeCleanup(g)
  PROVE  /\ \A j \in JobIds : jobs'[j].portal = jobs[j].portal
         /\ \A j \in JobIds : jobs[j].status # "none" => jobs'[j].status # "none"
         /\ jobs'[g].status # "none"
         /\ jobs'[Orphan] = jobs[Orphan]
BY GensFacts DEF EnqueueBridgeCleanup, TableEvidence, MarkedOnce, TypeInv, TypeOK, TablesTypeOK,
                 NoJob, Job

\* Reconnects insert only rows of new generations.
LEMMA EvidenceConnect ==
  ASSUME EvidenceInv, NEW c \in Conns, ConnectNext(c) \/ MonitorNext(c),
         UNCHANGED <<workerVars, restarts>>
  PROVE  (WorkerEvidence /\ TableEvidence)'
<1>1. UNCHANGED <<jobs, disc>>
  BY DEF ConnectNext, ConnectStart, ConnectLeftover, ConnectCreate, ConnectFail, MonitorNext,
         MonitorConnected, MonitorCreate, MonitorReturn, MonitorTimeout, worldVars, connVars
<1>2. WorkerEvidence'
  BY <1>1, WorkerEvidenceKept DEF EvidenceInv, WorkerEvidence
<1>3. \/ rows' \subseteq rows /\ nextId' = nextId
      \/ \E status \in {"connecting", "connected"} : CreateBridge(status)
  BY DEF ConnectNext, ConnectStart, ConnectLeftover, ConnectCreate, ConnectFail, MonitorNext,
         MonitorConnected, MonitorCreate, MonitorReturn, MonitorTimeout, DeleteBridge,
         worldVars, connVars
<1>4. nextId \in Nat /\ Gens \subseteq Nat /\ rows \subseteq BridgeRow /\ disc.gen \in Nat
  <2>1. nextId \in 1..(MaxGen + 1) /\ rows \subseteq BridgeRow /\ disc \in Task
    BY DEF EvidenceInv, TypeInv, TypeOK, TablesTypeOK, ConnectionTypeOK
  <2>2. disc.gen \in JobIds
    BY <2>1 DEF Task
  <2>3. nextId \in Nat
    BY <2>1, MaxGenAssumption
  <2> QED
    BY <2>1, <2>2, <2>3, GensFacts
<1>5. TableEvidence'
  <2>1. CASE rows' \subseteq rows /\ nextId' = nextId
    BY <1>1, <2>1 DEF EvidenceInv, TableEvidence, RowsOld, DiscOld, MarkedOnce, RowGone
  <2>2. ASSUME NEW status \in {"connecting", "connected"}, CreateBridge(status)
        PROVE  TableEvidence'
    <3>1. RowsOld' /\ nextId' = nextId + 1
      <4>1. \A r \in rows : r.id < nextId /\ r.id \in Nat
        BY <1>4 DEF EvidenceInv, RowsOld, BridgeRow
      <4> QED
        BY <1>4, <2>2, <4>1 DEF RowsOld, CreateBridge
    <3>2. ASSUME NEW g \in Gens, g < nextId, RowGone(g)
          PROVE  RowGone(g)'
      BY <1>4, <2>2, <3>2 DEF CreateBridge, RowGone
    <3>a. \A g \in Gens : g < nextId => g < nextId'
      BY <1>4, <3>1
    <3>3. DiscOld'
      BY <1>1, <3>2, <3>a DEF EvidenceInv, DiscOld
    <3>4. MarkedOnce'
      BY <1>1, <3>2, <3>a DEF EvidenceInv, MarkedOnce
    <3> QED
      BY <3>1, <3>3, <3>4 DEF TableEvidence
  <2> QED
    BY <1>3, <2>1, <2>2
<1> QED
  BY <1>2, <1>5

\* A disconnect reports a generation whose job had no report yet.
LEMMA EvidenceDisconnect ==
  ASSUME EvidenceInv, DisconnectNext, UNCHANGED <<workerVars, restarts>>
  PROVE  (WorkerEvidence /\ TableEvidence)'
<1> USE DEF tableVars, worldVars
<1>a. /\ TypeInv /\ WorkerEvidence /\ TableEvidence
      /\ rows \subseteq BridgeRow /\ nextId \in Nat
      /\ jobs \in [JobIds -> Job] /\ disc \in Task
  BY MaxGenAssumption DEF EvidenceInv, WorkerEvidence, TableEvidence, TypeInv, TypeOK,
     TablesTypeOK, ConnectionTypeOK
<1>1. CASE DisconnectRead
  <2> PICK r \in rows : (LateRowDelete => r.status # "cleaning_up")
                         /\ disc' = [pc |-> "read", gen |-> r.id]
    BY <1>1 DEF DisconnectRead
  <2>1. WorkerEvidence'
    BY <1>1, <1>a, WorkerEvidenceKept DEF DisconnectRead
  <2>2. ~RowGone(r.id) /\ r.id \in Gens /\ r.id < nextId
    BY <1>a DEF RowGone, BridgeRow, TableEvidence, RowsOld
  <2>3. TableEvidence'
    BY <1>1, <1>a, <2>2 DEF DisconnectRead, TableEvidence, RowsOld, DiscOld, MarkedOnce, RowGone
  <2> QED
    BY <2>1, <2>3
<1>2. CASE DisconnectEnqueue
  <2>1. disc.gen \in Gens /\ disc.gen < nextId
    BY <1>2, <1>a DEF DisconnectEnqueue, TableEvidence, DiscOld
  <2>2. disc'.pc = "queued" /\ disc'.gen = disc.gen /\ UNCHANGED <<rows, nextId>>
    BY <1>2, <1>a DEF DisconnectEnqueue, Task
  <2>3. /\ \A j \in JobIds : jobs'[j].portal = jobs[j].portal
        /\ \A j \in JobIds : jobs[j].status # "none" => jobs'[j].status # "none"
        /\ jobs'[disc.gen].status # "none"
        /\ jobs'[Orphan] = jobs[Orphan]
    BY <1>2, <1>a, <2>1, EnqueueKeepsProof DEF DisconnectEnqueue
  <2>4. WorkerEvidence'
    BY <1>a, <2>3, WorkerEvidenceKept
  <2>5. TableEvidence'
    BY <1>2, <1>a, <2>1, <2>2, <2>3, GensFacts
    DEF DisconnectEnqueue, TableEvidence, RowsOld, DiscOld, MarkedOnce, RowGone
  <2> QED
    BY <2>4, <2>5
<1>3. CASE DisconnectRow
  <2>1. WorkerEvidence'
    BY <1>3, <1>a, WorkerEvidenceKept DEF DisconnectRow
  <2>2. /\ UNCHANGED <<nextId, jobs>> /\ disc.pc = "queued"
        /\ \/ disc'.pc = "portal" /\ disc'.gen = disc.gen
           \/ disc' = IdleTask
    <3>1. disc' = [disc EXCEPT !.pc = "portal"] \/ disc' = IdleTask
      BY <1>3 DEF DisconnectRow
    <3>2. UNCHANGED <<nextId, jobs>> /\ disc.pc = "queued"
      BY <1>3 DEF DisconnectRow
    <3> QED
      BY <1>a, <3>1, <3>2 DEF Task
  <2>3. /\ \A g \in Gens : RowGone(g) => RowGone(g)'
        /\ disc'.pc = "portal" => RowGone(disc.gen)'
        /\ RowsOld'
    <3>1. CASE UNCHANGED rows /\ disc' = IdleTask
      <4>1. disc'.pc # "portal" /\ nextId' = nextId
        BY <2>2, <3>1 DEF IdleTask
      <4> QED
        BY <1>a, <3>1, <4>1 DEF RowGone, TableEvidence, RowsOld
    <3>2. CASE rows' = {}
      BY <3>2 DEF RowGone, RowsOld
    <3>3. CASE LateRowDelete /\ rows' = {[r EXCEPT !.status = "cleaning_up"] : r \in rows}
      <4>1. \A q \in rows' : q.status = "cleaning_up" /\ \E r \in rows : q.id = r.id
        BY <3>3, <1>a DEF BridgeRow
      <4> QED
        BY <2>2, <3>3, <4>1, <1>a DEF RowGone, TableEvidence, RowsOld
    <3> QED
      BY <1>3, <3>1, <3>2, <3>3 DEF DisconnectRow
  <2>4. DiscOld'
    BY <1>a, <2>2, <2>3 DEF TableEvidence, DiscOld, IdleTask
  <2>5. MarkedOnce'
    BY <1>a, <2>2, <2>3 DEF TableEvidence, MarkedOnce, IdleTask
  <2> QED
    BY <2>1, <2>3, <2>4, <2>5 DEF TableEvidence
<1>4. CASE DisconnectPortal
  <2>1. /\ disc.gen \in Gens /\ disc.gen < nextId /\ jobs[disc.gen].status # "none"
        /\ RowGone(disc.gen) /\ jobs[disc.gen].portal = "pending"
    BY <1>4, <1>a DEF DisconnectPortal, TableEvidence, DiscOld, MarkedOnce
  <2>2. /\ disc'.pc = "marked" /\ disc'.gen = disc.gen /\ UNCHANGED <<rows, nextId>>
    BY <1>4, <1>a DEF DisconnectPortal, Task
  <2>3. /\ \A j \in JobIds : j # disc.gen => jobs'[j] = jobs[j]
        /\ \A j \in JobIds : jobs'[j].status = jobs[j].status
    BY <1>4, <1>a DEF DisconnectPortal, MarkBridgePortalCleanup, Job
  <2>4. WorkerEvidence'
    BY <1>a, <2>1, <2>3, WorkerEvidenceKept, GensFacts DEF Proofs
  <2>5. TableEvidence'
    BY <1>a, <2>1, <2>2, <2>3, GensFacts DEF TableEvidence, RowsOld, DiscOld, MarkedOnce, RowGone
  <2> QED
    BY <2>4, <2>5
<1>5. CASE DisconnectReturn
  <2>1. WorkerEvidence'
    BY <1>5, <1>a, WorkerEvidenceKept DEF DisconnectReturn
  <2>2. TableEvidence'
    BY <1>5, <1>a DEF DisconnectReturn, IdleTask, TableEvidence, RowsOld, DiscOld, MarkedOnce, RowGone
  <2> QED
    BY <2>1, <2>2
<1> QED
  BY <1>1, <1>2, <1>3, <1>4, <1>5 DEF DisconnectNext

\* The scheduler queues jobs and deletes rows, and proves nothing.
LEMMA EvidenceOthers ==
  ASSUME EvidenceInv, SchedulerNext \/ WorldNext, UNCHANGED <<workerVars, restarts>>
  PROVE  (WorkerEvidence /\ TableEvidence)'
<1>1. TypeInv /\ WorkerEvidence /\ TableEvidence
  BY DEF EvidenceInv, WorkerEvidence, TableEvidence
<1>2. /\ \A j \in JobIds : jobs'[j].portal = jobs[j].portal
      /\ \A j \in JobIds : jobs[j].status # "none" => jobs'[j].status # "none"
      /\ jobs'[Orphan] = jobs[Orphan]
  <2>1. CASE HealthBad
    BY <1>1, <2>1, EnqueueKeepsProof DEF HealthBad, EvidenceInv, HealthGen
  <2>2. CASE jobs' = jobs
    BY <2>2
  <2> QED
    BY <2>1, <2>2 DEF SchedulerNext, HealthSnapshot, HealthLeave, HealthDelete, SweepSelect,
       SweepDelete, WorldNext, UserPairs, UserUnlinks, OtherUser, tableVars
<1>3. rows' \subseteq rows /\ UNCHANGED <<nextId, disc>>
  BY DEF SchedulerNext, HealthSnapshot, HealthLeave, HealthBad, HealthDelete, SweepSelect,
     SweepDelete, WorldNext, UserPairs, UserUnlinks, OtherUser, DeleteBridge, tableVars, connVars
<1>4. WorkerEvidence'
  BY <1>1, <1>2, WorkerEvidenceKept
<1>5. TableEvidence'
  BY <1>1, <1>2, <1>3, GensFacts DEF TableEvidence, RowsOld, DiscOld, MarkedOnce, RowGone
<1> QED
  BY <1>4, <1>5

\* What the worker does to the tables never disturbs TableEvidence: it
\* touches no row, and no proof of a generation's job.
LEMMA TableEvidenceKept ==
  ASSUME TypeInv, TableEvidence, UNCHANGED <<rows, nextId, disc>>,
         \A g \in Gens : /\ jobs'[g].portal = jobs[g].portal
                         /\ jobs[g].status # "none" => jobs'[g].status # "none"
  PROVE  TableEvidence'
BY GensFacts DEF TableEvidence, RowsOld, DiscOld, MarkedOnce, RowGone

\* update_bridge_cleanup_job keeps the proof, its age and the job's existence.
LEMMA JobWithKeeps ==
  ASSUME TypeInv, NEW j \in JobIds, NEW u \in Update
  PROVE  \A k \in JobIds : /\ JobWith(j, u)[k].portal = jobs[k].portal
                           /\ JobWith(j, u)[k].aged = jobs[k].aged
                           /\ jobs[k].status # "none" => JobWith(j, u)[k].status # "none"
BY DEF TypeInv, TypeOK, TablesTypeOK, JobWith, Job, Update, OpenStatus, ClosedStatus

\* record_orphan_bridge_login_proof replaces the orphan audit's proof, and no other.
LEMMA WithProofIs ==
  ASSUME TypeInv, NEW proof
  PROVE  /\ \A k \in JobIds : k # Orphan => WithProof(proof)[k] = jobs[k]
         /\ WithProof(proof)[Orphan].portal = proof
BY GensFacts DEF TypeInv, TypeOK, TablesTypeOK, WithProof, Job

\* process_job returns: its snapshot is dropped, and with it what it proved.
LEMMA EvidenceLeave ==
  ASSUME TypeInv, WorkerEvidence, wpc # "idle", Leave,
         \A j \in JobIds : j # job => jobs'[j].portal = jobs[j].portal
  PROVE  WorkerEvidence'
<1>1. wpc' = "pick" /\ job \in JobIds /\ snap' = [snap EXCEPT ![job] = NoJob]
      /\ snap \in [JobIds -> Job]
  BY DEF Leave, TypeInv, TypeOK, WorkerTypeOK
<1>2. \A j \in JobIds : NoJob.portal \notin Proofs(j)
  BY DEF NoJob, Proofs
<1> QED
  BY <1>1, <1>2 DEF WorkerEvidence, SnapProof, SnapAged, OrphanSteps, Executing

\* Listing the due jobs copies their proofs; the first check keeps them.
LEMMA EvidenceCycle ==
  ASSUME EvidenceInv, UNCHANGED <<connVars, restarts>>,
         \/ OrphanScan \/ (\E due \in SUBSET JobIds : ListDue(due))
         \/ AdminLogin \/ CycleFails \/ CycleEnd
         \/ (\E j \in JobIds : CheckGeneration(j)) \/ ServerDeletes
  PROVE  (WorkerEvidence /\ TableEvidence)'
<1> USE DEF tableVars, worldVars, connVars, workerVars
<1>a. /\ TypeInv /\ WorkerEvidence /\ TableEvidence
      /\ jobs \in [JobIds -> Job] /\ snap \in [JobIds -> Job] /\ job \in JobIds
  BY DEF EvidenceInv, WorkerEvidence, TableEvidence, TypeInv, TypeOK, TablesTypeOK, WorkerTypeOK
<1>1. CASE OrphanScan
  <2>1. wpc' = "idle" /\ \A g \in Gens : jobs'[g] = jobs[g]
    BY <1>1, <1>a, GensFacts DEF OrphanScan, EnqueueOrphanAudit
  <2>2. WorkerEvidence'
    BY <2>1 DEF WorkerEvidence, SnapProof, SnapAged, OrphanSteps, Executing
  <2> QED
    BY <1>1, <1>a, <2>1, <2>2, TableEvidenceKept DEF OrphanScan
<1>2. ASSUME NEW due \in SUBSET JobIds, ListDue(due)
      PROVE  (WorkerEvidence /\ TableEvidence)'
  <2>1. /\ wpc' = "login" /\ UNCHANGED <<rows, nextId, jobs>>
        /\ \A j \in JobIds : snap'[j] = jobs[j] \/ snap'[j] = NoJob
    BY <1>2 DEF ListDue
  <2>2. WorkerEvidence'
    BY <2>1 DEF WorkerEvidence, SnapProof, SnapAged, OrphanSteps, Executing, NoJob, Proofs
  <2> QED
    BY <1>a, <2>1, <2>2, TableEvidenceKept
<1>3. CASE AdminLogin \/ CycleFails \/ CycleEnd
  <2>1. WorkerEvidence'
    BY <1>3, <1>a DEF AdminLogin, CycleFails, CycleEnd, WorkerEvidence, SnapProof, SnapAged,
       OrphanSteps, Executing
  <2> QED
    BY <1>3, <1>a, <2>1, TableEvidenceKept DEF AdminLogin, CycleFails, CycleEnd
<1>4. ASSUME NEW j \in JobIds, CheckGeneration(j)
      PROVE  (WorkerEvidence /\ TableEvidence)'
  <2>1. \A k \in JobIds : /\ jobs'[k].portal = jobs[k].portal
                          /\ jobs'[k].aged = jobs[k].aged
                          /\ jobs[k].status # "none" => jobs'[k].status # "none"
    <3>1. /\ Retried(snap[j]) \in Update
          /\ Closed(j, "retrying") \in Update /\ Closed(j, "cancelled_reconnected") \in Update
      BY <1>a, RetriedTyped, ClosedTyped DEF TypeInv, TypeOK, OpenStatus, ClosedStatus
    <3>2. jobs' = jobs \/ \E u \in Update : jobs' = JobWith(j, u)
      BY <1>4, <3>1 DEF CheckGeneration
    <3> QED
      BY <1>a, <3>2, JobWithKeeps
  <2>2. \A k \in JobIds : snap'[k].portal = snap[k].portal \/ snap'[k] = NoJob
    BY <1>4, <1>a DEF CheckGeneration, Job
  <2>3. /\ wpc = "pick" /\ wpc' \in {"pick", "probe", "discover"}
        /\ wpc' = "probe" => job' = Orphan /\ snap'[Orphan].aged = jobs[Orphan].aged
    BY <1>4, <1>a DEF CheckGeneration, Job
  <2>4. SnapProof'
    BY <1>a, <2>1, <2>2, <2>3 DEF WorkerEvidence, SnapProof, NoJob, Proofs
  <2>5. SnapAged' /\ OrphanSteps' /\ Executing'
    BY <2>1, <2>3, GensFacts DEF SnapAged, OrphanSteps, Executing
  <2>6. UNCHANGED <<rows, nextId, disc>>
    BY <1>4 DEF CheckGeneration
  <2> QED
    BY <1>a, <2>1, <2>4, <2>5, <2>6, TableEvidenceKept, GensFacts DEF WorkerEvidence
<1>5. CASE ServerDeletes
  BY <1>5, <1>a, WorkerEvidenceKept, TableEvidenceKept DEF ServerDeletes
<1> QED
  BY <1>1, <1>2, <1>3, <1>4, <1>5

\* process_job goes on only with proofs, and drops the snapshot of one it takes back.
LEMMA EvidenceProcessJob ==
  ASSUME EvidenceInv, ProcessJob, UNCHANGED <<connVars, restarts>>
  PROVE  (WorkerEvidence /\ TableEvidence)'
<1> USE DEF worldVars, connVars
<1>a. /\ TypeInv /\ WorkerEvidence /\ TableEvidence /\ TablesTypeOK /\ WorkerTypeOK
      /\ jobs \in [JobIds -> Job] /\ snap \in [JobIds -> Job] /\ job \in JobIds
      /\ Retried(snap[job]) \in Update
  BY RetriedTyped
  DEF EvidenceInv, WorkerEvidence, TableEvidence, TypeInv, TypeOK, TablesTypeOK, WorkerTypeOK
<1>b. ASSUME NEW u \in Update, jobs' = JobWith(job, u), Leave, wpc # "idle",
             UNCHANGED <<rows, nextId>>
      PROVE  (WorkerEvidence /\ TableEvidence)'
  BY <1>a, <1>b, JobWithKeeps, EvidenceLeave, TableEvidenceKept, GensFacts
<1>c. ASSUME NEW proof, jobs' = WithProof(proof), Leave, job = Orphan, wpc # "idle",
             UNCHANGED <<rows, nextId>>
      PROVE  (WorkerEvidence /\ TableEvidence)'
  BY <1>a, <1>c, WithProofIs, EvidenceLeave, TableEvidenceKept, GensFacts
<1>d. ASSUME NEW step, Goto(step), wpc # "idle", UNCHANGED <<rows, nextId, jobs>>,
             step # "probe", step \in {"final", "reprobe"} => job = Orphan,
             step \in {"guard", "reprobe", "inflight"} => wpc \in {"guard", "reprobe", "inflight"}
      PROVE  (WorkerEvidence /\ TableEvidence)'
  BY <1>a, <1>d, TableEvidenceKept, GensFacts
  DEF Goto, WorkerEvidence, SnapProof, SnapAged, OrphanSteps, Executing
<1>1. CASE OrphanProbe
  <2>0. wpc = "probe" /\ job = Orphan /\ UNCHANGED <<rows, nextId>>
    BY <1>1, <1>a DEF OrphanProbe, WorkerEvidence, OrphanSteps
  <2>1. CASE /\ OrphanAbsenceProved(snap[job])
             /\ wpc' = "discover"
             /\ jobs' = IF snap[job].portal = "absent_verified"
                        THEN jobs ELSE WithProof("absent_verified")
             /\ snap' = [snap EXCEPT ![job].portal = "absent_verified"]
             /\ UNCHANGED <<lease, batch, job, todo, room, budget, failed, deferred>>
    <3>1. \A k \in JobIds : k # Orphan => jobs'[k] = jobs[k] /\ snap'[k] = snap[k]
      BY <1>a, <2>0, <2>1, WithProofIs
    <3>2. jobs'[Orphan].portal = "absent_verified" /\ snap'[Orphan].portal = "absent_verified"
      BY <1>a, <2>0, <2>1, WithProofIs, GensFacts
      DEF WorkerEvidence, SnapProof, Proofs, Job
    <3>3. WorkerEvidence'
      BY <1>a, <2>0, <2>1, <3>1, <3>2
      DEF WorkerEvidence, SnapProof, SnapAged, OrphanSteps, Executing
    <3> QED
      BY <1>a, <2>0, <3>1, <3>3, TableEvidenceKept, GensFacts
  <2>2. CASE Leave /\ \E proof \in PortalStatus : jobs' = WithProof(proof)
    BY <1>c, <2>0, <2>2
  <2>3. CASE Leave /\ UNCHANGED jobs
    BY <1>a, <2>0, <2>3, EvidenceLeave, TableEvidenceKept, GensFacts
  <2> QED
    BY <1>1, <2>1, <2>2, <2>3, ProbesTyped DEF OrphanProbe, PortalStatus
<1>2. ASSUME NEW visible \in SUBSET Rooms, Discover(visible)
      PROVE  (WorkerEvidence /\ TableEvidence)'
  <2>1. CASE wpc' \in {"acquire", "audit"} /\ UNCHANGED <<jobs, snap, job>>
    BY <1>a, <1>2, <2>1, TableEvidenceKept, GensFacts
    DEF Discover, WorkerEvidence, SnapProof, SnapAged, OrphanSteps, Executing
  <2>2. CASE jobs' = JobWith(job, Retried(snap[job])) /\ Leave
    BY <1>a, <1>b, <1>2, <2>2 DEF Discover
  <2> QED
    BY <1>2, <2>1, <2>2 DEF Discover
<1>3. CASE AcquireCleanupLease
  BY <1>a, <1>b, <1>d, <1>3 DEF AcquireCleanupLease
<1>4. CASE FinalOrphanCheck
  <2>1. wpc = "final" /\ job = Orphan
    BY <1>4, <1>a DEF FinalOrphanCheck, WorkerEvidence, OrphanSteps
  <2> QED
    BY <1>c, <1>d, <1>4, <2>1 DEF FinalOrphanCheck
<1>5. CASE RecheckGeneration
  BY <1>a, <1>b, <1>d, <1>5, ClosedTyped DEF RecheckGeneration, OpenStatus, ClosedStatus
<1>6. ASSUME NEW r \in Rooms, AuditRoom(r)
      PROVE  (WorkerEvidence /\ TableEvidence)'
  <2>1. /\ wpc = "audit" /\ wpc' \in {"audit", "guard"}
        /\ UNCHANGED <<rows, nextId, jobs, snap, job>>
        /\ wpc' = "guard" => Execute
    BY <1>6 DEF AuditRoom
  <2> QED
    BY <1>a, <2>1, TableEvidenceKept, GensFacts
    DEF WorkerEvidence, SnapProof, SnapAged, OrphanSteps, Executing, Execute, Sufficient
<1>7. CASE RefreshGuard
  <2>1. wpc = "guard" /\ UNCHANGED <<rows, nextId>>
    BY <1>7 DEF RefreshGuard
  <2>2. \/ jobs' = JobWith(job, Retried(snap[job])) /\ Leave
        \/ UNCHANGED jobs /\ job = Orphan /\ Goto("reprobe")
        \/ UNCHANGED jobs /\ Goto("inflight")
    BY <1>7 DEF RefreshGuard, SendDelete
  <2> QED
    BY <1>a, <1>b, <1>d, <2>1, <2>2
<1>8. CASE ReprobeOrphan
  <2>1. wpc = "reprobe" /\ job = Orphan /\ UNCHANGED <<rows, nextId>>
    BY <1>8, <1>a DEF ReprobeOrphan, WorkerEvidence, OrphanSteps
  <2>2. CASE Goto("inflight") /\ UNCHANGED jobs
    BY <1>d, <2>1, <2>2
  <2>3. ASSUME NEW proof \in PortalStatus, Leave,
               jobs' = [WithProof(proof) EXCEPT ![job].status = Retried(snap[job]).status,
                                                ![job].attempts = Retried(snap[job]).attempts]
        PROVE  (WorkerEvidence /\ TableEvidence)'
    <3>1. \A k \in JobIds : k # job => jobs'[k] = jobs[k]
      BY <1>a, <2>1, <2>3, WithProofIs, WithProofTyped
    <3> QED
      BY <1>a, <2>1, <2>3, <3>1, EvidenceLeave, TableEvidenceKept, GensFacts
  <2> QED
    BY <1>8, <2>2, <2>3, ProbesTyped DEF ReprobeOrphan, SendDelete
<1>9. CASE DeleteAnswered
  <2>1. wpc = "inflight" /\ wpc' = "audit" /\ UNCHANGED <<rows, nextId, jobs, snap, job>>
    BY <1>9 DEF DeleteAnswered
  <2> QED
    BY <1>a, <2>1, TableEvidenceKept, GensFacts
    DEF WorkerEvidence, SnapProof, SnapAged, OrphanSteps, Executing
<1>10. CASE FinishJob
  <2>1. Outcome \in Update
    BY <1>a, ClosedTyped DEF Outcome, OpenStatus, ClosedStatus
  <2> QED
    BY <1>b, <1>10, <2>1 DEF FinishJob
<1> QED
  BY <1>1, <1>2, <1>3, <1>4, <1>5, <1>6, <1>7, <1>8, <1>9, <1>10 DEF ProcessJob

\* The health check works on a generation it read from a row.
LEMMA HealthGenStep ==
  ASSUME TypeInv, HealthGen, [Next]_vars
  PROVE  HealthGen'
<1>1. CASE HealthSnapshot
  <2> PICK r \in rows : health' = [pc |-> "probing", gen |-> r.id]
    BY <1>1 DEF HealthSnapshot
  <2>1. r.id \in Gens
    BY DEF TypeInv, TypeOK, TablesTypeOK, BridgeRow
  <2> QED
    BY <2>1 DEF HealthGen
<1>2. CASE HealthBad
  BY <1>2 DEF HealthBad, HealthGen, TypeInv, TypeOK, ConnectionTypeOK, Task
<1>3. CASE health' = IdleTask \/ health' = health
  BY <1>3 DEF HealthGen, IdleTask
<1> QED
  BY <1>1, <1>2, <1>3 DEF Next, ConnectionNext, ConnectNext, ConnectStart, ConnectLeftover,
     ConnectCreate, ConnectFail, MonitorNext, MonitorConnected, MonitorCreate, MonitorReturn,
     MonitorTimeout, DisconnectNext, DisconnectRead, DisconnectEnqueue, DisconnectRow,
     DisconnectPortal, DisconnectReturn, SchedulerNext, HealthLeave, HealthDelete, SweepSelect,
     SweepDelete, WorldNext, UserPairs, UserUnlinks, OtherUser, LeaseExpires, AbsenceAges,
     Restart, vars, connVars

\* EvidenceInv is inductive.
LEMMA EvidenceStep == EvidenceInv /\ [Next]_vars => EvidenceInv'
<1> SUFFICES ASSUME EvidenceInv, [Next]_vars PROVE (WorkerEvidence /\ TableEvidence)'
  BY TypeStep, HealthGenStep DEF EvidenceInv, WorkerEvidence, TableEvidence
<1>a. /\ TypeInv /\ WorkerEvidence /\ TableEvidence
      /\ jobs \in [JobIds -> Job]
  BY DEF EvidenceInv, WorkerEvidence, TableEvidence, TypeInv, TypeOK, TablesTypeOK
<1>1. CASE ConnectionNext /\ UNCHANGED <<workerVars, restarts>>
  BY <1>1, EvidenceConnect, EvidenceDisconnect, EvidenceOthers DEF ConnectionNext
<1>2. CASE WorkerNext /\ UNCHANGED <<connVars, restarts>>
  BY <1>2, EvidenceCycle, EvidenceProcessJob DEF WorkerNext
<1>3. CASE LeaseExpires \/ UNCHANGED vars
  BY <1>a, <1>3, WorkerEvidenceKept, TableEvidenceKept
  DEF LeaseExpires, vars, tableVars, connVars, worldVars
<1>4. CASE AbsenceAges
  <2>1. /\ \A j \in JobIds : jobs'[j].portal = jobs[j].portal /\ jobs'[j].status = jobs[j].status
        /\ jobs'[Orphan].aged /\ UNCHANGED <<rows, nextId, disc, workerVars>>
    BY <1>a, <1>4, GensFacts DEF AbsenceAges, connVars, Job
  <2> QED
    BY <1>a, <2>1, WorkerEvidenceKept, TableEvidenceKept, GensFacts
<1>5. CASE Restart
  BY <1>a, <1>5 DEF Restart, IdleTask, WorkerEvidence, SnapProof, SnapAged, OrphanSteps, Executing,
     TableEvidence, RowsOld, DiscOld, MarkedOnce, RowGone
<1> QED
  BY <1>1, <1>2, <1>3, <1>4, <1>5 DEF Next

\* The job row still carries the evidence when a room is purged, although the
\* worker decided from a snapshot and leases may have run out meanwhile.
THEOREM EvidencePrecedesDelete == Spec => EvidenceBeforeDelete
<1>1. EvidenceInv /\ [Next]_vars =>
        [RoomPurged => jobs[job].portal = IF job = Orphan THEN "absent_verified"
                                                          ELSE "confirmed"]_vars
  <2> SUFFICES ASSUME EvidenceInv, [Next]_vars, RoomPurged
               PROVE  jobs[job].portal = Sufficient(job)
    BY DEF Sufficient
  <2>1. wpc = "inflight" /\ job \in JobIds
    BY PurgeIsInflight DEF EvidenceInv
  <2> QED
    BY <2>1 DEF EvidenceInv, SnapProof, Executing, Sufficient, Proofs
<1> QED
  BY <1>1, EvidenceInit, EvidenceStep, PTL DEF Spec, EvidenceBeforeDelete

\* The connection tasks never write the proof of an orphan audit.
LEMMA ConnectionKeepsOrphan ==
  ASSUME EvidenceInv, ConnectionNext, UNCHANGED <<workerVars, restarts>>
  PROVE  jobs'[Orphan] = jobs[Orphan]
<1>1. TypeInv /\ TableEvidence /\ jobs \in [JobIds -> Job]
  BY DEF EvidenceInv, TableEvidence, TypeInv, TypeOK, TablesTypeOK
<1>2. CASE DisconnectEnqueue
  BY <1>1, <1>2, EnqueueKeepsProof DEF DisconnectEnqueue, TableEvidence, DiscOld
<1>3. CASE HealthBad
  BY <1>1, <1>3, EnqueueKeepsProof DEF HealthBad, EvidenceInv, HealthGen
<1>4. CASE DisconnectPortal
  <2>1. disc.gen \in Gens
    BY <1>1, <1>4 DEF DisconnectPortal, TableEvidence, DiscOld
  <2> QED
    BY <1>1, <1>4, <2>1, GensFacts DEF DisconnectPortal, MarkBridgePortalCleanup
<1>5. CASE UNCHANGED jobs
  BY <1>5
<1> QED
  BY <1>2, <1>3, <1>4, <1>5 DEF ConnectionNext, ConnectNext, ConnectStart, ConnectLeftover,
     ConnectCreate, ConnectFail, MonitorNext, MonitorConnected, MonitorCreate, MonitorReturn,
     MonitorTimeout, DisconnectNext, DisconnectRead, DisconnectRow, DisconnectReturn,
     SchedulerNext, HealthSnapshot, HealthLeave, HealthDelete, SweepSelect, SweepDelete,
     WorldNext, UserPairs, UserUnlinks, OtherUser, tableVars

\* Of the worker's steps only prepare_orphan_login_proof verifies an absence.
LEMMA WorkerVerifies ==
  ASSUME EvidenceInv, WorkerNext,
         jobs'[Orphan].portal = "absent_verified", jobs[Orphan].portal # "absent_verified"
  PROVE  wpc = "probe" /\ snap[Orphan].portal = "absence_observed" /\ snap[Orphan].aged
<1> USE DEF tableVars, worldVars
<1>a. /\ TypeInv /\ WorkerTypeOK /\ jobs \in [JobIds -> Job] /\ snap \in [JobIds -> Job]
      /\ job \in JobIds /\ Retried(snap[job]) \in Update
  BY RetriedTyped DEF EvidenceInv, TypeInv, TypeOK, TablesTypeOK, WorkerTypeOK
<1>b. ASSUME NEW j \in JobIds, NEW u \in Update, jobs' = JobWith(j, u) PROVE FALSE
  BY <1>a, <1>b, JobWithKeeps, GensFacts
<1>c. ASSUME NEW proof \in PortalStatus \ {"absent_verified"}, jobs' = WithProof(proof) PROVE FALSE
  BY <1>a, <1>c, WithProofIs
<1>1. CASE OrphanScan
  BY <1>a, <1>1, GensFacts DEF OrphanScan, EnqueueOrphanAudit, NoJob
<1>2. CASE \E j \in JobIds : CheckGeneration(j)
  <2> PICK j \in JobIds : CheckGeneration(j)
    BY <1>2
  <2>1. /\ Retried(snap[j]) \in Update
        /\ Closed(j, "retrying") \in Update /\ Closed(j, "cancelled_reconnected") \in Update
    BY <1>a, RetriedTyped, ClosedTyped DEF OpenStatus, ClosedStatus
  <2> QED
    BY <1>b, <2>1 DEF CheckGeneration
<1>3. CASE OrphanProbe
  <2>1. wpc = "probe" /\ job = Orphan
    BY <1>3 DEF OrphanProbe, EvidenceInv, OrphanSteps
  <2>2. ASSUME OrphanAbsenceProved(snap[job]),
               jobs' = IF snap[job].portal = "absent_verified" THEN jobs
                       ELSE WithProof("absent_verified")
        PROVE  snap[Orphan].portal = "absence_observed" /\ snap[Orphan].aged
    BY <2>1, <2>2 DEF OrphanAbsenceProved
  <2>3. ~\E answer \in Probes : ~(answer = "absent" /\ OrphanAbsenceProved(snap[job])) /\
           jobs' = WithProof(IF answer = "absent" THEN "absence_observed" ELSE answer)
    BY <1>c, ProbesTyped DEF PortalStatus
  <2> QED
    BY <1>3, <2>1, <2>2, <2>3 DEF OrphanProbe
<1>11. CASE \E visible \in SUBSET Rooms : Discover(visible)
  BY <1>a, <1>b, <1>11 DEF Discover
<1>4. CASE AcquireCleanupLease
  BY <1>a, <1>b, <1>4 DEF AcquireCleanupLease
<1>5. CASE FinalOrphanCheck
  BY <1>c, <1>5, ProbesTyped DEF FinalOrphanCheck
<1>6. CASE RecheckGeneration
  BY <1>a, <1>b, <1>6, ClosedTyped DEF RecheckGeneration, OpenStatus, ClosedStatus
<1>7. CASE RefreshGuard
  BY <1>a, <1>b, <1>7 DEF RefreshGuard
<1>8. CASE ReprobeOrphan
  <2>1. job = Orphan
    BY <1>8 DEF ReprobeOrphan, EvidenceInv, OrphanSteps
  <2>2. ASSUME NEW proof \in PortalStatus \ {"absent_verified"},
               jobs' = [WithProof(proof) EXCEPT ![job].status = Retried(snap[job]).status,
                                                ![job].attempts = Retried(snap[job]).attempts]
        PROVE  FALSE
    <3>1. WithProof(proof) \in [JobIds -> Job] /\ WithProof(proof)[Orphan].portal = proof
      BY <1>a, WithProofIs, WithProofTyped DEF TypeInv, TypeOK
    <3> QED
      BY <2>1, <2>2, <3>1, GensFacts DEF Job
  <2> QED
    BY <1>8, <2>2, ProbesTyped DEF ReprobeOrphan
<1>9. CASE FinishJob
  <2>1. Outcome \in Update
    BY <1>a, ClosedTyped DEF Outcome, OpenStatus, ClosedStatus
  <2> QED
    BY <1>a, <1>b, <1>9, <2>1 DEF FinishJob
<1>10. CASE UNCHANGED jobs
  BY <1>10
<1> QED
  BY <1>1, <1>2, <1>3, <1>4, <1>5, <1>6, <1>7, <1>8, <1>9, <1>10, <1>11
  DEF WorkerNext, ListDue, AdminLogin, CycleFails, CycleEnd, ProcessJob, AuditRoom, DeleteAnswered, ServerDeletes

\* An orphan's login is taken for gone only on a second absence, observed
\* when the first was still on record and had aged.
THEOREM OrphanProofIsDouble == Spec => OrphanProofTakesTwo
<1>1. EvidenceInv /\ [Next]_vars =>
        [jobs'[Orphan].portal = "absent_verified" /\ jobs[Orphan].portal # "absent_verified"
            => jobs[Orphan].portal = "absence_observed" /\ jobs[Orphan].aged]_vars
  <2> SUFFICES ASSUME EvidenceInv, [Next]_vars,
                      jobs'[Orphan].portal = "absent_verified",
                      jobs[Orphan].portal # "absent_verified"
               PROVE  jobs[Orphan].portal = "absence_observed" /\ jobs[Orphan].aged
    OBVIOUS
  <2>1. CASE ConnectionNext /\ UNCHANGED <<workerVars, restarts>>
    BY <2>1, ConnectionKeepsOrphan
  <2>2. CASE WorkerNext /\ UNCHANGED <<connVars, restarts>>
    BY <2>2, WorkerVerifies, GensFacts DEF EvidenceInv, SnapProof, SnapAged, Proofs
  <2>3. CASE AbsenceAges
    <3>1. jobs[Orphan] \in Job /\ jobs \in [JobIds -> Job]
      BY GensFacts DEF EvidenceInv, TypeInv, TypeOK, TablesTypeOK
    <3> QED
      BY <2>3, <3>1, GensFacts DEF AbsenceAges, Job
  <2>4. CASE LeaseExpires \/ Restart \/ UNCHANGED vars
    BY <2>4 DEF LeaseExpires, Restart, vars, tableVars
  <2> QED
    BY <2>1, <2>2, <2>3, <2>4 DEF Next
<1> QED
  BY <1>1, EvidenceInit, EvidenceStep, PTL DEF Spec, OrphanProofTakesTwo

-----------------------------------------------------------------------------
(* Rooms and jobs.  Only the worker closes jobs, and it works on open ones; *)
(* only an answered delete makes a room succeed.                           *)

\* The jobs the worker has listed, and the one it processes, are open.
OpenInv ==
    /\ \A j \in batch : IsOpen(j)
    /\ wpc \notin {"idle", "login", "pick"} => IsOpen(job) /\ job \notin batch

\* The rooms a disconnect names are stored with its job, so that queueing the
\* generation again adds none to a job that is under way or closed.
Seeded == \A g \in Gens : jobs[g].status # "none" => \A r \in SeedRooms : jobRooms[g][r] # "absent"

Settled == {"absent", "succeeded", "blocked_active"}
VisitSteps == {"acquire"} \cup LeasedSteps

\* Every room of the job is settled or yet to be visited, unless the job has
\* failed, deferred or only audited one; at most one room is being deleted.
RoomsAccounted ==
    /\ wpc \in VisitSteps /\ Execute /\ ~failed /\ ~deferred
          => \A r \in Rooms : jobRooms[job][r] \in Settled \/ r \in todo \cup room
    /\ wpc \notin {"guard", "reprobe", "inflight"} => room = {}
    /\ \A r, q \in room : r = q

RoomsInv == EvidenceInv /\ OpenInv /\ Seeded /\ RoomsAccounted /\ SuccessAccountsForEveryRoom

RoomParts == OpenInv /\ Seeded /\ RoomsAccounted /\ SuccessAccountsForEveryRoom

\* What the worker writes while it processes a job: that job's rooms, none of
\* which it forgets.
OwnRooms ==
    /\ \A k \in JobIds : k # job => jobRooms'[k] = jobRooms[k]
    /\ \A r \in Rooms : jobRooms[job][r] # "absent" => jobRooms'[job][r] # "absent"

\* The types the following lemmas need, in one place.
LEMMA TypedParts ==
  ASSUME EvidenceInv
  PROVE  /\ TypeInv /\ jobs \in [JobIds -> Job] /\ snap \in [JobIds -> Job] /\ job \in JobIds
         /\ jobRooms \in [JobIds -> [Rooms -> RoomStatus]] /\ batch \subseteq JobIds
         /\ TablesTypeOK /\ WorkerTypeOK /\ SeedRooms \subseteq Rooms
         /\ todo \subseteq Rooms /\ room \subseteq Rooms
BY RoomsAssumption DEF EvidenceInv, TypeInv, TypeOK, TablesTypeOK, WorkerTypeOK

\* update_bridge_cleanup_room sets the status of one room of the job.
LEMMA RoomWithIs ==
  ASSUME EvidenceInv, NEW r \in Rooms, NEW status
  PROVE  /\ \A k \in JobIds : k # job => RoomWith(r, status)[k] = jobRooms[k]
         /\ \A q \in Rooms : RoomWith(r, status)[job][q] = IF q = r THEN status ELSE jobRooms[job][q]
BY TypedParts DEF RoomWith

\* Rooms that are added are pending; rooms the job has keep their status.
LEMMA WithRoomsIs ==
  ASSUME EvidenceInv, NEW j \in JobIds, NEW rs
  PROVE  /\ \A k \in JobIds : k # j => WithRooms(j, rs)[k] = jobRooms[k]
         /\ WithRooms(j, rs)[j] \in [Rooms -> RoomStatus]
         /\ \A q \in Rooms : WithRooms(j, rs)[j][q] = IF q \in rs /\ jobRooms[j][q] = "absent"
                                                      THEN "pending" ELSE jobRooms[j][q]
BY TypedParts, WithRoomsTyped DEF WithRooms

\* process_job returns.
LEMMA RoomsLeave ==
  ASSUME EvidenceInv, RoomParts, wpc \notin {"idle", "login", "pick"}, Leave, OwnRooms,
         \A k \in JobIds : k # job => jobs'[k] = jobs[k],
         jobs'[job].status = "succeeded" => \A r \in Rooms : jobRooms'[job][r] \in Settled
  PROVE  RoomParts'
<1>1. wpc' = "pick" /\ room' = {} /\ batch' = batch
  BY DEF Leave
<1>2. job \in JobIds /\ job \notin batch /\ IsOpen(job) /\ batch \subseteq JobIds /\ SeedRooms \subseteq Rooms
  BY TypedParts DEF RoomParts, OpenInv
<1>3. OpenInv'
  BY <1>1, <1>2 DEF RoomParts, OpenInv, IsOpen
<1>4. Seeded'
  BY <1>2, GensFacts DEF RoomParts, Seeded, OwnRooms, IsOpen, OpenStatus
<1>5. RoomsAccounted'
  BY <1>1 DEF RoomsAccounted, VisitSteps, LeasedSteps
<1>6. SuccessAccountsForEveryRoom'
  BY <1>2 DEF RoomParts, SuccessAccountsForEveryRoom, OwnRooms, Settled
<1> QED
  BY <1>3, <1>4, <1>5, <1>6 DEF RoomParts

\* process_job goes on with its job.
LEMMA RoomsGoOn ==
  ASSUME EvidenceInv, RoomParts, wpc \notin {"idle", "login", "pick"}, wpc' \notin {"idle", "login", "pick"},
         UNCHANGED <<batch, job>>, OwnRooms, RoomsAccounted',
         \A k \in JobIds : k # job => jobs'[k] = jobs[k],
         jobs'[job].status \in OpenStatus
  PROVE  RoomParts'
<1>1. job \in JobIds /\ job \notin batch /\ IsOpen(job) /\ batch \subseteq JobIds /\ SeedRooms \subseteq Rooms
  BY TypedParts DEF RoomParts, OpenInv
<1>2. OpenInv'
  BY <1>1 DEF RoomParts, OpenInv, IsOpen
<1>3. Seeded'
  BY <1>1, GensFacts DEF RoomParts, Seeded, OwnRooms, IsOpen, OpenStatus
<1>4. SuccessAccountsForEveryRoom'
  BY <1>1 DEF RoomParts, SuccessAccountsForEveryRoom, OwnRooms, OpenStatus
<1> QED
  BY <1>2, <1>3, <1>4 DEF RoomParts

\* The connection tasks give a job its rooms when they create it, and later none.
LEMMA RoomsQueued ==
  ASSUME EvidenceInv, Seeded, NEW g \in Gens, EnqueueBridgeCleanup(g)
  PROVE  \A j \in JobIds :
            \/ jobs'[j].status = jobs[j].status /\ jobRooms'[j] = jobRooms[j]
            \/ /\ j \in Gens /\ jobs[j].status = "none" /\ jobs'[j].status = "pending"
               /\ \A r \in SeedRooms : jobRooms'[j][r] # "absent"
<1>1. g \in JobIds /\ jobRooms' = WithRooms(g, SeedRooms) /\ jobs' = [jobs EXCEPT ![g] =
                   IF jobs[g].status = "none" THEN [NoJob EXCEPT !.status = "pending"] ELSE jobs[g]]
  BY GensFacts DEF EnqueueBridgeCleanup
<1>2. [NoJob EXCEPT !.status = "pending"].status = "pending"
  BY DEF NoJob
<1>3. ASSUME NEW j \in JobIds, j # g
      PROVE  jobs'[j].status = jobs[j].status /\ jobRooms'[j] = jobRooms[j]
  BY <1>1, <1>3, TypedParts, WithRoomsIs
<1>4. CASE jobs[g].status = "none"
  <2>1. jobs'[g].status = "pending" /\ \A r \in SeedRooms : jobRooms'[g][r] # "absent"
    BY <1>1, <1>2, <1>4, TypedParts, WithRoomsIs
  <2> QED
    BY <1>3, <1>4, <2>1
<1>5. CASE jobs[g].status # "none"
  <2>1. jobs'[g] = jobs[g]
    BY <1>1, <1>5, TypedParts
  <2>2. \A q \in Rooms : WithRooms(g, SeedRooms)[g][q] = jobRooms[g][q]
    BY <1>1, <1>5, WithRoomsIs DEF Seeded
  <2>3. jobRooms'[g] = jobRooms[g]
    BY <1>1, <2>2, TypedParts, WithRoomsIs
  <2> QED
    BY <1>3, <2>1, <2>3
<1> QED
  BY <1>4, <1>5

\* So far as jobs' status and rooms go, that is all the connection tasks do.
LEMMA ConnectionRooms ==
  ASSUME EvidenceInv, Seeded, ConnectionNext
  PROVE  \A j \in JobIds :
            \/ jobs'[j].status = jobs[j].status /\ jobRooms'[j] = jobRooms[j]
            \/ /\ j \in Gens /\ jobs[j].status = "none" /\ jobs'[j].status = "pending"
               /\ \A r \in SeedRooms : jobRooms'[j][r] # "absent"
<1>1. CASE DisconnectEnqueue
  BY <1>1, RoomsQueued DEF DisconnectEnqueue, EvidenceInv, DiscOld
<1>2. CASE HealthBad
  BY <1>2, RoomsQueued DEF HealthBad, EvidenceInv, HealthGen
<1>3. CASE DisconnectPortal
  <2>1. jobRooms' = jobRooms /\ \E p : jobs' = [jobs EXCEPT ![disc.gen].portal = p]
    BY <1>3 DEF DisconnectPortal, MarkBridgePortalCleanup
  <2>2. \A j \in JobIds : jobs'[j].status = jobs[j].status
    BY <2>1, TypedParts DEF Job
  <2> QED
    BY <2>1, <2>2
<1>4. CASE UNCHANGED <<jobs, jobRooms>>
  BY <1>4
<1> QED
  BY <1>1, <1>2, <1>3, <1>4 DEF ConnectionNext, ConnectNext, ConnectStart, ConnectLeftover,
     ConnectCreate, ConnectFail, MonitorNext, MonitorConnected, MonitorCreate, MonitorReturn,
     MonitorTimeout, DisconnectNext, DisconnectRead, DisconnectRow, DisconnectReturn,
     SchedulerNext, HealthSnapshot, HealthLeave, HealthDelete, SweepSelect, SweepDelete,
     WorldNext, UserPairs, UserUnlinks, OtherUser, tableVars

\* Steps that leave the worker alone.
LEMMA RoomsElsewhere ==
  ASSUME EvidenceInv, RoomParts, UNCHANGED workerVars,
         \A j \in JobIds :
            \/ jobs'[j].status = jobs[j].status /\ jobRooms'[j] = jobRooms[j]
            \/ /\ j \in Gens /\ jobs[j].status = "none" /\ jobs'[j].status = "pending"
               /\ \A r \in SeedRooms : jobRooms'[j][r] # "absent"
  PROVE  RoomParts'
<1>1. job \in JobIds /\ batch \subseteq JobIds /\ Gens \subseteq JobIds
  BY TypedParts, GensFacts
<1>2. \A j \in JobIds : IsOpen(j) => jobs'[j].status = jobs[j].status /\ jobRooms'[j] = jobRooms[j]
  BY DEF IsOpen, OpenStatus
<1>3. OpenInv'
  BY <1>1, <1>2 DEF RoomParts, OpenInv, IsOpen, workerVars
<1>4. Seeded'
  BY <1>1 DEF RoomParts, Seeded
<1>5. SuccessAccountsForEveryRoom'
  BY DEF RoomParts, SuccessAccountsForEveryRoom
<1>6. RoomsAccounted'
  <2>1. Execute' = Execute /\ (wpc \in VisitSteps => IsOpen(job))
    BY DEF Execute, workerVars, RoomParts, OpenInv, VisitSteps, LeasedSteps
  <2> QED
    BY <1>1, <1>2, <2>1 DEF RoomParts, RoomsAccounted, workerVars
<1> QED
  BY <1>3, <1>4, <1>5, <1>6 DEF RoomParts

\* update_bridge_cleanup_job sets one job's status.
LEMMA JobWithIs ==
  ASSUME EvidenceInv, NEW j \in JobIds, NEW u \in Update
  PROVE  /\ \A k \in JobIds : k # j => JobWith(j, u)[k] = jobs[k]
         /\ JobWith(j, u)[j].status = u.status
BY TypedParts DEF JobWith, Job, Update

\* retry_job never reports success.
LEMMA RetriedIs ==
  ASSUME NEW s \in Job
  PROVE  Retried(s) \in Update /\ Retried(s).status \notin {"none", "succeeded"}
BY RetriedTyped DEF Retried

\* The worker's writes to a room are to one of its own, and forget none.
LEMMA OwnRoomWith ==
  ASSUME EvidenceInv, NEW r \in Rooms, NEW status, status # "absent", jobRooms' = RoomWith(r, status)
  PROVE  OwnRooms
BY RoomWithIs DEF OwnRooms

\* Writing no room forgets none.
LEMMA OwnRoomsKept ==
  ASSUME UNCHANGED jobRooms
  PROVE  OwnRooms
BY DEF OwnRooms

\* process_job returns with the job retried or closed, but not succeeded.
LEMMA RoomsReturn ==
  ASSUME EvidenceInv, RoomParts, wpc \notin {"idle", "login", "pick"}, Leave, OwnRooms,
         NEW u \in Update, u.status # "succeeded", jobs' = JobWith(job, u)
  PROVE  RoomParts'
BY RoomsLeave, JobWithIs, TypedParts

\* A job whose proof is recorded is open, whatever it was.
LEMMA ProofReopens ==
  ASSUME TypeInv, NEW proof
  PROVE  WithProof(proof)[Orphan].status = "audit_ready"
BY GensFacts DEF TypeInv, TypeOK, TablesTypeOK, WithProof, Job

\* An orphan audit whose proof fell, or has to age, waits for another cycle.
LEMMA RoomsReset ==
  ASSUME EvidenceInv, RoomParts, wpc \notin {"idle", "login", "pick"}, Leave, OwnRooms,
         job = Orphan, NEW proof, jobs' = WithProof(proof)
  PROVE  RoomParts'
<1>1. jobs'[Orphan].status = "audit_ready" /\ \A k \in JobIds : k # Orphan => jobs'[k] = jobs[k]
  BY WithProofIs, ProofReopens, TypedParts
<1> QED
  BY <1>1, RoomsLeave

\* The steps before the first room is visited.
LEMMA RoomsPrepare ==
  ASSUME EvidenceInv, RoomParts,
         OrphanProbe \/ AcquireCleanupLease \/ FinalOrphanCheck \/ RecheckGeneration
  PROVE  RoomParts'
<1>0. /\ wpc \notin {"idle", "login", "pick"} /\ OwnRooms /\ job \in JobIds /\ WorkerTypeOK
      /\ Retried(snap[job]) \in Update /\ Retried(snap[job]).status # "succeeded"
      /\ jobs[job].status \in OpenStatus /\ room = {}
  <2>1. wpc \in {"probe", "acquire", "final", "recheck"} /\ UNCHANGED jobRooms
    BY DEF OrphanProbe, AcquireCleanupLease, FinalOrphanCheck, RecheckGeneration
  <2> QED
    BY <2>1, TypedParts, RetriedIs, OwnRoomsKept DEF RoomParts, OpenInv, IsOpen, RoomsAccounted
<1>1. ASSUME NEW step \in VisitSteps, wpc \in VisitSteps, Goto(step), UNCHANGED <<jobs, jobRooms>>
      PROVE  RoomParts'
  <2>1. RoomsAccounted'
    BY <1>0, <1>1 DEF RoomParts, RoomsAccounted, Goto, Execute
  <2>2. wpc' \notin {"idle", "login", "pick"} /\ UNCHANGED <<batch, job>>
    BY <1>1 DEF Goto, VisitSteps, LeasedSteps
  <2> QED
    BY <1>0, <1>1, <2>1, <2>2, RoomsGoOn
<1>2. CASE OrphanProbe
  <2>0. job = Orphan
    BY <1>2 DEF OrphanProbe, EvidenceInv, OrphanSteps
  <2> PICK answer \in Probes :
         IF answer = "absent" /\ OrphanAbsenceProved(snap[job])
         THEN \/ /\ wpc' = "discover"
                 /\ jobs' = IF snap[job].portal = "absent_verified"
                            THEN jobs ELSE WithProof("absent_verified")
                 /\ snap' = [snap EXCEPT ![job].portal = "absent_verified"]
                 /\ UNCHANGED <<lease, batch, job, todo, room, budget, failed, deferred>>
              \/ snap[job].portal # "absent_verified" /\ UNCHANGED jobs /\ Leave
         ELSE /\ jobs' = WithProof(IF answer = "absent" THEN "absence_observed" ELSE answer)
              /\ Leave
    BY <1>2 DEF OrphanProbe
  <2>1. CASE wpc' = "discover"
    <3>0. /\ jobs' = jobs \/ jobs' = WithProof("absent_verified")
          /\ UNCHANGED <<lease, batch, job, todo, room, budget, failed, deferred>>
      BY <2>1 DEF Leave
    <3>1. /\ jobs'[job].status \in OpenStatus
          /\ \A k \in JobIds : k # job => jobs'[k] = jobs[k]
      BY <1>0, <2>0, <3>0, WithProofIs, ProofReopens, TypedParts DEF OpenStatus
    <3>2. RoomsAccounted'
      BY <1>0, <2>1, <3>0 DEF RoomsAccounted, VisitSteps, LeasedSteps
    <3> QED
      BY <1>0, <2>1, <3>0, <3>1, <3>2, RoomsGoOn
  <2>2. CASE Leave /\ UNCHANGED jobs
    BY <1>0, <2>2, RoomsLeave DEF OpenStatus
  <2> QED
    BY <1>0, <2>0, <2>1, <2>2, RoomsReset
<1>3. CASE AcquireCleanupLease
  <2>1. wpc \in VisitSteps /\ (IF job = Orphan THEN "final" ELSE "recheck") \in VisitSteps
    BY <1>3 DEF AcquireCleanupLease, VisitSteps, LeasedSteps
  <2> QED
    BY <1>0, <1>1, <1>3, <2>1, RoomsReturn DEF AcquireCleanupLease
<1>4. CASE FinalOrphanCheck
  <2>1. wpc \in VisitSteps /\ "recheck" \in VisitSteps /\ job = Orphan
    BY <1>4 DEF FinalOrphanCheck, VisitSteps, LeasedSteps, EvidenceInv, OrphanSteps
  <2> QED
    BY <1>0, <1>1, <1>4, <2>1, RoomsReset DEF FinalOrphanCheck
<1>5. CASE RecheckGeneration
  <2>1. wpc \in VisitSteps /\ "audit" \in VisitSteps
    BY <1>5 DEF RecheckGeneration, VisitSteps, LeasedSteps
  <2>2. /\ Closed(job, "cancelled_reconnected") \in Update
        /\ Closed(job, "cancelled_reconnected").status # "succeeded"
    BY <1>0, ClosedTyped DEF OpenStatus, ClosedStatus, Closed
  <2> QED
    BY <1>0, <1>1, <1>5, <2>1, <2>2, RoomsReturn DEF RecheckGeneration
<1> QED
  BY <1>2, <1>3, <1>4, <1>5

\* Discovery: every room that is not settled is on the list to visit.
LEMMA RoomsDiscover ==
  ASSUME EvidenceInv, RoomParts, NEW visible \in SUBSET Rooms, Discover(visible)
  PROVE  RoomParts'
<1>1. wpc = "discover" /\ jobRooms' = WithRooms(job, visible)
  BY DEF Discover
<1>2. OwnRooms
  BY <1>1, WithRoomsIs, TypedParts DEF OwnRooms
<1>3. CASE /\ todo' = {r \in Rooms : jobRooms'[job][r] \notin {"absent", "succeeded"}}
           /\ wpc' \in {"acquire", "audit"}
           /\ UNCHANGED <<jobs, batch, snap, job, room, failed, deferred>>
  <2>1. room' = {}
    BY <1>1, <1>3 DEF RoomParts, RoomsAccounted
  <2>2. RoomsAccounted'
    BY <1>3, <2>1 DEF RoomsAccounted, Settled
  <2>3. jobs'[job].status \in OpenStatus
    BY <1>1, <1>3 DEF RoomParts, OpenInv, IsOpen
  <2> QED
    BY <1>1, <1>2, <1>3, <2>2, <2>3, RoomsGoOn
<1>4. CASE jobs' = JobWith(job, Retried(snap[job])) /\ Leave
  <2>1. Retried(snap[job]) \in Update /\ Retried(snap[job]).status # "succeeded"
    BY TypedParts, RetriedIs
  <2> QED
    BY <1>1, <1>2, <1>4, <2>1, RoomsReturn
<1> QED
  BY <1>3, <1>4 DEF Discover

\* A room that leaves the list is settled, about to be deleted, or remembered
\* by the counters that decide the job's outcome.
LEMMA RoomsVisit ==
  ASSUME EvidenceInv, RoomParts, (\E r \in Rooms : AuditRoom(r)) \/ DeleteAnswered
  PROVE  RoomParts'
<1>0. wpc \in {"audit", "inflight"} /\ wpc \in VisitSteps /\ jobs[job].status \in OpenStatus
  BY DEF AuditRoom, DeleteAnswered, VisitSteps, LeasedSteps, RoomParts, OpenInv, IsOpen
<1>1. ASSUME NEW r \in Rooms, AuditRoom(r) PROVE RoomParts'
  <2>1. /\ todo' = todo \ {r} /\ wpc = "audit" /\ room = {}
        /\ UNCHANGED <<jobs, batch, snap, job, failed>> /\ Execute' = Execute
    BY <1>1 DEF AuditRoom, Execute, RoomParts, RoomsAccounted
  <2>2. CASE jobRooms' = RoomWith(r, "blocked_active") /\ UNCHANGED <<wpc, room, deferred>>
    <3>1. OwnRooms
      BY <2>2, OwnRoomWith
    <3>2. RoomsAccounted'
      BY <2>1, <2>2, RoomWithIs DEF RoomParts, RoomsAccounted, Settled
    <3> QED
      BY <1>0, <2>1, <2>2, <3>1, <3>2, RoomsGoOn
  <2>3. CASE wpc' = "guard" /\ room' = {r} /\ UNCHANGED <<jobRooms, deferred>>
    <3>1. RoomsAccounted'
      BY <1>0, <2>1, <2>3 DEF RoomParts, RoomsAccounted
    <3> QED
      BY <1>0, <2>1, <2>3, <3>1, OwnRoomsKept, RoomsGoOn
  <2>4. CASE /\ jobRooms' = RoomWith(r, "audit_ready")
             /\ deferred' = (deferred \/ Execute) /\ UNCHANGED <<wpc, room>>
    <3>1. OwnRooms
      BY <2>4, OwnRoomWith
    <3>2. ~(Execute' /\ ~deferred')
      BY <2>1, <2>4, Zenon
    <3>3. RoomsAccounted'
      BY <2>1, <2>4, <3>2 DEF RoomsAccounted
    <3> QED
      BY <1>0, <2>1, <2>4, <3>1, <3>3, RoomsGoOn
  <2> QED
    BY <1>1, <2>2, <2>3, <2>4 DEF AuditRoom
<1>2. CASE DeleteAnswered
  <2>1. /\ wpc' = "audit" /\ room' = {} /\ Execute' = Execute /\ wpc = "inflight"
        /\ UNCHANGED <<jobs, batch, snap, job, todo, deferred>>
    BY <1>2 DEF DeleteAnswered, Execute
  <2> PICK r \in room : \/ jobRooms' = RoomWith(r, "succeeded") /\ UNCHANGED failed
                        \/ jobRooms' = RoomWith(r, "retrying") /\ failed' = TRUE
    BY <1>2 DEF DeleteAnswered
  <2>2. r \in Rooms /\ room = {r}
    BY TypedParts DEF RoomParts, RoomsAccounted
  <2>3. OwnRooms
    BY <2>2, OwnRoomWith
  <2>4. RoomsAccounted'
    <3>1. CASE jobRooms' = RoomWith(r, "succeeded") /\ UNCHANGED failed
      BY <1>0, <2>1, <2>2, <3>1, RoomWithIs DEF RoomParts, RoomsAccounted, Settled
    <3>2. CASE failed' = TRUE
      BY <2>1, <3>2 DEF RoomsAccounted
    <3> QED
      BY <3>1, <3>2
  <2> QED
    BY <1>0, <2>1, <2>3, <2>4, RoomsGoOn
<1> QED
  BY <1>1, <1>2

\* A room under deletion stays the worker's until the answer is in.
LEMMA RoomsGuard ==
  ASSUME EvidenceInv, RoomParts, RefreshGuard \/ ReprobeOrphan
  PROVE  RoomParts'
<1>0. /\ wpc \in {"guard", "reprobe"} /\ wpc \in VisitSteps /\ jobs[job].status \in OpenStatus
      /\ job \in JobIds /\ room \subseteq Rooms
      /\ Retried(snap[job]) \in Update /\ Retried(snap[job]).status # "succeeded"
  BY TypedParts, RetriedIs DEF RefreshGuard, ReprobeOrphan, VisitSteps, LeasedSteps, RoomParts, OpenInv, IsOpen
<1>1. ASSUME SendDelete, UNCHANGED jobs PROVE RoomParts'
  <2>1. /\ wpc' = "inflight" /\ Execute' = Execute
        /\ UNCHANGED <<batch, snap, job, todo, room, failed, deferred>>
    BY <1>1 DEF SendDelete, Goto, Execute
  <2> PICK r \in room : jobRooms' = RoomWith(r, "deleting")
    BY <1>1 DEF SendDelete
  <2>2. OwnRooms
    BY <1>0, OwnRoomWith
  <2>3. RoomsAccounted'
    BY <1>0, <2>1, RoomWithIs DEF RoomParts, RoomsAccounted
  <2> QED
    BY <1>0, <1>1, <2>1, <2>2, <2>3, RoomsGoOn
<1>2. ASSUME KeepRoom PROVE OwnRooms
  BY <1>0, <1>2, OwnRoomWith DEF KeepRoom
<1>3. CASE RefreshGuard
  <2>1. ASSUME Goto("reprobe"), UNCHANGED <<jobRooms, jobs>> PROVE RoomParts'
    <3>1. RoomsAccounted'
      BY <1>0, <2>1 DEF RoomParts, RoomsAccounted, Goto, Execute
    <3>2. wpc' \notin {"idle", "login", "pick"} /\ UNCHANGED <<batch, job>>
      BY <2>1 DEF Goto
    <3> QED
      BY <1>0, <2>1, <3>1, <3>2, OwnRoomsKept, RoomsGoOn
  <2> QED
    BY <1>0, <1>1, <1>2, <1>3, <2>1, RoomsReturn DEF RefreshGuard
<1>4. CASE ReprobeOrphan
  <2>1. job = Orphan
    BY <1>4 DEF ReprobeOrphan, EvidenceInv, OrphanSteps
  <2>2. ASSUME NEW proof \in PortalStatus, KeepRoom, Leave,
               jobs' = [WithProof(proof) EXCEPT ![job].status = Retried(snap[job]).status,
                                                ![job].attempts = Retried(snap[job]).attempts]
        PROVE  RoomParts'
    <3>1. /\ WithProof(proof) \in [JobIds -> Job]
          /\ \A k \in JobIds : k # job => WithProof(proof)[k] = jobs[k]
      BY <2>1, WithProofIs, WithProofTyped, TypedParts
    <3>2. /\ \A k \in JobIds : k # job => jobs'[k] = jobs[k]
          /\ jobs'[job].status = Retried(snap[job]).status
      BY <1>0, <2>2, <3>1 DEF Job
    <3> QED
      BY <1>0, <1>2, <2>2, <3>2, RoomsLeave
  <2> QED
    BY <1>1, <1>4, <2>2, ProbesTyped DEF ReprobeOrphan
<1> QED
  BY <1>3, <1>4

\* process_job ends: it reports success only if nothing failed, nothing was
\* deferred and it was allowed to delete, and then every room is settled.
LEMMA RoomsFinish ==
  ASSUME EvidenceInv, RoomParts, FinishJob
  PROVE  RoomParts'
<1>1. /\ wpc = "audit" /\ wpc \in VisitSteps /\ todo = {} /\ jobs' = JobWith(job, Outcome) /\ Leave
      /\ UNCHANGED jobRooms /\ room = {} /\ job \in JobIds /\ WorkerTypeOK
  BY TypedParts DEF FinishJob, VisitSteps, LeasedSteps, RoomParts, RoomsAccounted
<1>2. CASE Execute /\ ~failed /\ ~deferred
  <2>1. \A r \in Rooms : jobRooms'[job][r] \in Settled
    BY <1>1, <1>2 DEF RoomParts, RoomsAccounted
  <2>2. Outcome \in Update
    BY <1>1, <1>2, ClosedTyped DEF Outcome, ClosedStatus
  <2>3. \A k \in JobIds : k # job => jobs'[k] = jobs[k]
    BY <1>1, <2>2, JobWithIs
  <2> QED
    BY <1>1, <2>1, <2>3, OwnRoomsKept, RoomsLeave
<1>3. CASE ~(Execute /\ ~failed /\ ~deferred)
  <2>1. /\ Retried(snap[job]) \in Update /\ Retried(snap[job]).status # "succeeded"
        /\ Closed(job, "audit_ready") \in Update /\ Closed(job, "audit_ready").status # "succeeded"
    BY <1>1, RetriedIs, TypedParts, ClosedTyped DEF OpenStatus, Closed
  <2>2. Outcome \in Update /\ Outcome.status # "succeeded"
    BY <1>3, <2>1 DEF Outcome
  <2> QED
    BY <1>1, <2>2, OwnRoomsKept, RoomsReturn
<1> QED
  BY <1>2, <1>3

\* The cycle: a new audit starts with its own rooms, due jobs are open, and a
\* job whose bridge row is back is set aside before a room is touched.
LEMMA RoomsCycle ==
  ASSUME EvidenceInv, RoomParts,
         \/ OrphanScan \/ (\E due \in SUBSET JobIds : ListDue(due))
         \/ AdminLogin \/ CycleFails \/ CycleEnd
         \/ (\E j \in JobIds : CheckGeneration(j)) \/ ServerDeletes
  PROVE  RoomParts'
<1> USE DEF tableVars, worldVars, workerVars
<1>1. CASE OrphanScan
  <2>1. /\ wpc' = "idle" /\ batch' = batch /\ room' = {}
        /\ jobs' = [jobs EXCEPT ![Orphan] = [NoJob EXCEPT !.status = "audit_pending",
                                                          !.portal = "legacy_unverified"]]
        /\ \A k \in Gens : jobRooms'[k] = jobRooms[k]
    BY <1>1, TypedParts, GensFacts DEF OrphanScan, EnqueueOrphanAudit, RoomParts, RoomsAccounted
  <2>2. [NoJob EXCEPT !.status = "audit_pending", !.portal = "legacy_unverified"].status = "audit_pending"
    BY DEF NoJob
  <2>3. jobs'[Orphan].status = "audit_pending" /\ \A k \in Gens : jobs'[k] = jobs[k]
    BY <2>1, <2>2, TypedParts, GensFacts
  <2>4. \A k \in JobIds : k = Orphan \/ k \in Gens
    BY DEF JobIds
  <2>5. OpenInv'
    BY <2>1, <2>3, <2>4, TypedParts DEF RoomParts, OpenInv, IsOpen, OpenStatus
  <2>6. Seeded' /\ SuccessAccountsForEveryRoom'
    BY <2>1, <2>3, <2>4, GensFacts DEF RoomParts, Seeded, SuccessAccountsForEveryRoom
  <2>7. RoomsAccounted'
    BY <2>1 DEF RoomsAccounted, VisitSteps, LeasedSteps
  <2> QED
    BY <2>5, <2>6, <2>7 DEF RoomParts
<1>2. CASE \/ \E due \in SUBSET JobIds : ListDue(due)
           \/ AdminLogin \/ CycleFails \/ CycleEnd
  <2>1. /\ wpc' \in {"idle", "login", "pick"} /\ room' = {} /\ UNCHANGED <<jobs, jobRooms>>
        /\ \A j \in batch' : IsOpen(j)
    BY <1>2 DEF ListDue, AdminLogin, CycleFails, CycleEnd, RoomParts, OpenInv, RoomsAccounted
  <2>2. OpenInv' /\ RoomsAccounted'
    BY <2>1 DEF OpenInv, IsOpen, RoomsAccounted, VisitSteps, LeasedSteps
  <2>3. Seeded' /\ SuccessAccountsForEveryRoom'
    BY <2>1 DEF RoomParts, Seeded, SuccessAccountsForEveryRoom
  <2> QED
    BY <2>2, <2>3 DEF RoomParts
<1>3. ASSUME NEW j \in JobIds, CheckGeneration(j) PROVE RoomParts'
  <2>1. /\ wpc = "pick" /\ room' = {} /\ UNCHANGED jobRooms /\ j \in batch /\ batch' = batch \ {j}
        /\ IsOpen(j) /\ batch \subseteq JobIds
    BY <1>3, TypedParts DEF CheckGeneration, RoomParts, OpenInv, RoomsAccounted
  <2>2. CASE wpc' \in {"probe", "discover"} /\ job' = j /\ UNCHANGED jobs
    <3>1. OpenInv' /\ RoomsAccounted'
      BY <2>1, <2>2 DEF RoomParts, OpenInv, IsOpen, RoomsAccounted, VisitSteps, LeasedSteps
    <3>2. Seeded' /\ SuccessAccountsForEveryRoom'
      BY <2>1, <2>2 DEF RoomParts, Seeded, SuccessAccountsForEveryRoom
    <3> QED
      BY <3>1, <3>2 DEF RoomParts
  <2>3. ASSUME NEW u \in Update, u.status # "succeeded", jobs' = JobWith(j, u), wpc' = wpc
        PROVE  RoomParts'
    <3>1. /\ \A k \in JobIds : k # j => jobs'[k] = jobs[k]
          /\ jobs'[j].status # "succeeded"
      BY <2>3, JobWithIs
    <3>2. OpenInv' /\ RoomsAccounted'
      BY <2>1, <2>3, <3>1 DEF RoomParts, OpenInv, IsOpen, RoomsAccounted, VisitSteps, LeasedSteps
    <3>3. jobs[j].status # "none"
      BY <2>1 DEF IsOpen, OpenStatus
    <3>4. Seeded' /\ SuccessAccountsForEveryRoom'
      BY <2>1, <3>1, <3>3, GensFacts DEF RoomParts, Seeded, SuccessAccountsForEveryRoom
    <3> QED
      BY <3>2, <3>4 DEF RoomParts
  <2>4. /\ Retried(snap[j]) \in Update /\ Retried(snap[j]).status # "succeeded"
        /\ Closed(j, "retrying") \in Update /\ Closed(j, "retrying").status # "succeeded"
        /\ Closed(j, "cancelled_reconnected") \in Update
        /\ Closed(j, "cancelled_reconnected").status # "succeeded"
    BY TypedParts, RetriedIs, ClosedTyped DEF OpenStatus, ClosedStatus, Closed
  <2> QED
    BY <1>3, <2>2, <2>3, <2>4 DEF CheckGeneration
<1>4. CASE ServerDeletes
  BY <1>4, RoomsElsewhere DEF ServerDeletes
<1> QED
  BY <1>1, <1>2, <1>3, <1>4

\* A restart forgets the cycle, and with it what was left to visit.
LEMMA RoomsRestart ==
  ASSUME EvidenceInv, RoomParts, Restart
  PROVE  RoomParts'
BY DEF Restart, RoomParts, OpenInv, Seeded, RoomsAccounted, SuccessAccountsForEveryRoom, VisitSteps,
       LeasedSteps

\* An empty database has nothing to account for.
LEMMA RoomsInit == Init => RoomsInv
<1> SUFFICES ASSUME Init PROVE RoomsInv
  OBVIOUS
<1>1. wpc = "idle" /\ batch = {} /\ room = {} /\ \A j \in JobIds : jobs[j] = NoJob
  BY DEF Init, TablesInit, WorkerIdle
<1>2. \A j \in JobIds : jobs[j].status = "none"
  BY <1>1 DEF NoJob
<1> QED
  BY <1>1, <1>2, EvidenceInit, GensFacts
  DEF RoomsInv, OpenInv, Seeded, RoomsAccounted, SuccessAccountsForEveryRoom, VisitSteps, LeasedSteps

\* The room accounting is inductive.
LEMMA RoomsStep == RoomsInv /\ [Next]_vars => RoomsInv'
<1> SUFFICES ASSUME RoomsInv, [Next]_vars PROVE RoomParts'
  BY EvidenceStep DEF RoomsInv, RoomParts
<1>0. EvidenceInv /\ RoomParts /\ Seeded
  BY DEF RoomsInv, RoomParts
<1>1. CASE ConnectionNext /\ UNCHANGED <<workerVars, restarts>>
  BY <1>0, <1>1, ConnectionRooms, RoomsElsewhere
<1>2. CASE WorkerNext /\ UNCHANGED <<connVars, restarts>>
  <2>1. ASSUME ProcessJob PROVE RoomParts'
    BY <1>0, <2>1, RoomsPrepare, RoomsDiscover, RoomsVisit, RoomsGuard, RoomsFinish DEF ProcessJob
  <2> QED
    BY <1>0, <1>2, <2>1, RoomsCycle DEF WorkerNext
<1>3. CASE LeaseExpires \/ UNCHANGED vars
  BY <1>0, <1>3, RoomsElsewhere DEF LeaseExpires, vars, tableVars
<1>4. CASE AbsenceAges
  <2>1. \A j \in JobIds : jobs'[j].status = jobs[j].status
    BY <1>0, <1>4, TypedParts, GensFacts DEF AbsenceAges, Job
  <2> QED
    BY <1>0, <1>4, <2>1, RoomsElsewhere DEF AbsenceAges
<1>5. CASE Restart
  BY <1>0, <1>5, RoomsRestart
<1> QED
  BY <1>1, <1>2, <1>3, <1>4, <1>5 DEF Next

\* A job that is reported as succeeded has deleted each of its rooms or found
\* it in use, in every interleaving with disconnects that queue it again.
THEOREM SuccessIsComplete == Spec => []SuccessAccountsForEveryRoom
<1>1. RoomsInv => SuccessAccountsForEveryRoom
  BY DEF RoomsInv
<1> QED
  BY <1>1, RoomsInit, RoomsStep, PTL DEF Spec

\* The worker leaves a closed job of a generation alone: it writes only the
\* open jobs of its batch and the audit of the orphan.
LEMMA WorkerKeepsClosed ==
  ASSUME RoomsInv, WorkerNext, NEW g \in Gens, jobs[g].status \in ClosedStatus
  PROVE  jobs'[g] = jobs[g]
<1> USE DEF tableVars
<1>a. /\ EvidenceInv /\ TypeInv /\ WorkerTypeOK /\ TablesTypeOK /\ job \in JobIds /\ g \in JobIds
      /\ g # Orphan
      /\ jobs \in [JobIds -> Job] /\ snap \in [JobIds -> Job] /\ Retried(snap[job]) \in Update
  BY RetriedTyped, TypedParts, GensFacts DEF RoomsInv
<1>b. ASSUME NEW j \in JobIds, NEW u \in Update, IsOpen(j), jobs' = JobWith(j, u)
      PROVE  jobs'[g] = jobs[g]
  BY <1>a, <1>b, JobWithIs DEF IsOpen, OpenStatus, ClosedStatus
<1>c. ASSUME NEW proof, jobs' = WithProof(proof) PROVE jobs'[g] = jobs[g]
  BY <1>a, <1>c, WithProofIs
<1>d. wpc \notin {"idle", "login", "pick"} => IsOpen(job)
  BY DEF RoomsInv, OpenInv
<1>1. CASE OrphanScan
  BY <1>a, <1>1 DEF OrphanScan, EnqueueOrphanAudit
<1>2. CASE \E j \in JobIds : CheckGeneration(j)
  <2> PICK j \in JobIds : CheckGeneration(j)
    BY <1>2
  <2>1. /\ Retried(snap[j]) \in Update /\ IsOpen(j)
        /\ Closed(j, "retrying") \in Update /\ Closed(j, "cancelled_reconnected") \in Update
    BY <1>a, RetriedTyped, ClosedTyped DEF OpenStatus, ClosedStatus, CheckGeneration, RoomsInv, OpenInv
  <2> QED
    BY <1>b, <2>1 DEF CheckGeneration
<1>3. CASE OrphanProbe
  BY <1>c, <1>3 DEF OrphanProbe
<1>11. CASE \E visible \in SUBSET Rooms : Discover(visible)
  BY <1>a, <1>b, <1>d, <1>11 DEF Discover
<1>4. CASE AcquireCleanupLease
  BY <1>a, <1>b, <1>d, <1>4 DEF AcquireCleanupLease
<1>5. CASE FinalOrphanCheck
  BY <1>c, <1>5 DEF FinalOrphanCheck
<1>6. CASE RecheckGeneration
  BY <1>a, <1>b, <1>d, <1>6, ClosedTyped DEF RecheckGeneration, OpenStatus, ClosedStatus
<1>7. CASE RefreshGuard
  BY <1>a, <1>b, <1>d, <1>7 DEF RefreshGuard
<1>8. CASE ReprobeOrphan
  <2>1. job = Orphan
    BY <1>a, <1>8 DEF ReprobeOrphan, EvidenceInv, OrphanSteps
  <2>2. ASSUME NEW proof \in PortalStatus,
               jobs' = [WithProof(proof) EXCEPT ![job].status = Retried(snap[job]).status,
                                                ![job].attempts = Retried(snap[job]).attempts]
        PROVE  jobs'[g] = jobs[g]
    <3>1. WithProof(proof) \in [JobIds -> Job] /\ WithProof(proof)[g] = jobs[g]
      BY <1>a, WithProofIs, WithProofTyped
    <3> QED
      BY <1>a, <2>1, <2>2, <3>1
  <2> QED
    BY <1>8, <2>2, ProbesTyped DEF ReprobeOrphan
<1>9. CASE FinishJob
  <2>1. Outcome \in Update
    BY <1>a, ClosedTyped DEF Outcome, OpenStatus, ClosedStatus
  <2> QED
    BY <1>a, <1>b, <1>d, <1>9, <2>1 DEF FinishJob
<1>10. CASE UNCHANGED jobs
  BY <1>10
<1> QED
  BY <1>1, <1>2, <1>3, <1>4, <1>5, <1>6, <1>7, <1>8, <1>9, <1>10, <1>11
  DEF WorkerNext, ListDue, AdminLogin, CycleFails, CycleEnd, ProcessJob, AuditRoom, DeleteAnswered, ServerDeletes

\* A job once closed is closed for good: the worker works on open jobs only,
\* and queueing the generation again finds the row.
THEOREM ClosedIsFinal == Spec => ClosedJobsStayClosed
<1>1. RoomsInv /\ [Next]_vars =>
        [\A g \in Gens : jobs[g].status \in ClosedStatus => jobs'[g].status \in ClosedStatus]_vars
  <2> SUFFICES ASSUME RoomsInv, [Next]_vars, NEW g \in Gens, jobs[g].status \in ClosedStatus
               PROVE  jobs'[g].status = jobs[g].status
    BY Zenon
  <2>0. EvidenceInv /\ Seeded /\ g \in JobIds /\ g # Orphan /\ jobs \in [JobIds -> Job]
    BY GensFacts, TypedParts DEF RoomsInv
  <2>1. CASE ConnectionNext /\ UNCHANGED <<workerVars, restarts>>
    BY <2>0, <2>1, ConnectionRooms DEF ClosedStatus
  <2>2. CASE WorkerNext /\ UNCHANGED <<connVars, restarts>>
    BY <2>2, WorkerKeepsClosed
  <2>3. CASE AbsenceAges
    BY <2>0, <2>3 DEF AbsenceAges
  <2>4. CASE LeaseExpires \/ Restart \/ UNCHANGED vars
    BY <2>4 DEF LeaseExpires, Restart, vars, tableVars
  <2> QED
    BY <2>1, <2>2, <2>3, <2>4 DEF Next
<1> QED
  BY <1>1, RoomsInit, RoomsStep, PTL DEF Spec, ClosedJobsStayClosed

-----------------------------------------------------------------------------
(* Rooms recorded as deleted.  Rooms never come back, and only an answer   *)
(* that follows the purge makes a room succeed.                            *)

GoneInv == EvidenceInv /\ DeletedRoomsAreGone

\* What any step may write: no success, unless the room is gone already.
Reported == \A j \in JobIds : \A r \in Rooms :
    jobRooms'[j][r] = "succeeded" => jobRooms[j][r] = "succeeded" \/ r \notin stored

\* Every step keeps to that, and the homeserver gains no room.
LEMMA RoomsReported ==
  ASSUME EvidenceInv, [Next]_vars
  PROVE  Reported /\ stored' \subseteq stored
<1> USE DEF tableVars, worldVars, connVars, workerVars
<1>a. ASSUME NEW j \in JobIds, NEW rs, jobRooms' = WithRooms(j, rs) PROVE Reported
  BY <1>a, WithRoomsIs DEF Reported
<1>b. ASSUME NEW r \in Rooms, NEW status, status # "succeeded" \/ r \notin stored,
             jobRooms' = RoomWith(r, status)
      PROVE  Reported
  BY <1>b, RoomWithIs, TypedParts DEF Reported
<1>c. ASSUME UNCHANGED jobRooms PROVE Reported
  BY <1>c DEF Reported
<1>d. ASSUME KeepRoom \/ SendDelete PROVE Reported
  BY <1>b, <1>d, TypedParts DEF KeepRoom, SendDelete
<1>1. CASE ConnectionNext /\ UNCHANGED <<workerVars, restarts>>
  <2>1. Reported
    <3>1. CASE DisconnectEnqueue \/ HealthBad
      BY <1>a, <3>1, GensFacts DEF DisconnectEnqueue, HealthBad, EnqueueBridgeCleanup, EvidenceInv, DiscOld,
         HealthGen
    <3>2. CASE UNCHANGED jobRooms
      BY <1>c, <3>2
    <3> QED
      BY <1>1, <3>1, <3>2 DEF ConnectionNext, ConnectNext, ConnectStart, ConnectLeftover,
         ConnectCreate, ConnectFail, MonitorNext, MonitorConnected, MonitorCreate, MonitorReturn,
         MonitorTimeout, DisconnectNext, DisconnectRead, DisconnectRow, DisconnectPortal,
         DisconnectReturn, SchedulerNext, HealthSnapshot, HealthLeave, HealthDelete, SweepSelect,
         SweepDelete, WorldNext, UserPairs, UserUnlinks, OtherUser
  <2> QED
    BY <1>1, <2>1 DEF ConnectionNext, ConnectNext,
       ConnectStart, ConnectLeftover, ConnectCreate, ConnectFail, MonitorNext, MonitorConnected,
       MonitorCreate, MonitorReturn, MonitorTimeout, DisconnectNext, DisconnectRead,
       DisconnectEnqueue, DisconnectRow, DisconnectPortal, DisconnectReturn, SchedulerNext,
       HealthSnapshot, HealthLeave, HealthBad, HealthDelete, SweepSelect, SweepDelete,
       WorldNext, UserPairs, UserUnlinks, OtherUser
<1>2. CASE WorkerNext /\ UNCHANGED <<connVars, restarts>>
  <2>0. job \in JobIds /\ room \subseteq Rooms /\ jobRooms \in [JobIds -> [Rooms -> RoomStatus]]
    BY TypedParts
  <2>1. CASE OrphanScan
    BY <2>0, <2>1, GensFacts DEF OrphanScan, EnqueueOrphanAudit, Reported
  <2>2. CASE \E v \in SUBSET Rooms : Discover(v)
    BY <1>a, <2>0, <2>2 DEF Discover
  <2>3. CASE \E r \in Rooms : AuditRoom(r)
    BY <1>b, <1>c, <2>3 DEF AuditRoom
  <2>4. CASE RefreshGuard
    BY <1>c, <1>d, <2>4 DEF RefreshGuard
  <2>5. CASE ReprobeOrphan
    BY <1>d, <2>5 DEF ReprobeOrphan
  <2>6. CASE DeleteAnswered
    BY <1>b, <2>0, <2>6 DEF DeleteAnswered
  <2>7. CASE ServerDeletes
    BY <1>c, <2>7 DEF ServerDeletes
  <2>8. CASE UNCHANGED <<jobRooms, stored>>
    BY <1>c, <2>8
  <2> QED
    BY <1>2, <2>1, <2>2, <2>3, <2>4, <2>5, <2>6, <2>7, <2>8
    DEF WorkerNext, ListDue, AdminLogin, CycleFails, CycleEnd, CheckGeneration, ProcessJob, OrphanProbe,
        AcquireCleanupLease, FinalOrphanCheck, RecheckGeneration, FinishJob
<1>3. CASE LeaseExpires \/ AbsenceAges \/ Restart \/ UNCHANGED vars
  BY <1>c, <1>3 DEF LeaseExpires, AbsenceAges, Restart, vars
<1> QED
  BY <1>1, <1>2, <1>3 DEF Next

\* A room recorded as deleted is gone from the homeserver: a lost or late
\* answer is never taken for success, and a room that is gone stays gone.
THEOREM DeletedIsGone == Spec => []DeletedRoomsAreGone
<1>1. Init => GoneInv
  BY EvidenceInit DEF Init, TablesInit, GoneInv, DeletedRoomsAreGone
<1>2. GoneInv /\ [Next]_vars => GoneInv'
  <2> SUFFICES ASSUME GoneInv, [Next]_vars PROVE DeletedRoomsAreGone'
    BY EvidenceStep DEF GoneInv
  <2> QED
    BY RoomsReported DEF GoneInv, DeletedRoomsAreGone, Reported
<1>3. GoneInv => DeletedRoomsAreGone
  BY DEF GoneInv
<1> QED
  BY <1>1, <1>2, <1>3, PTL DEF Spec

=============================================================================
