------------------------ MODULE BridgeCleanupWorker ------------------------
(***************************************************************************)
(* The disconnected-bridge cleanup worker: the single background task that *)
(* audits orphaned history, and deletes from the homeserver the rooms of   *)
(* connections that are gone (utils/disconnected_bridge_cleanup.rs).       *)
(*                                                                         *)
(* process_job works on a snapshot of the job taken by                     *)
(* list_due_bridge_cleanup_jobs and awaits databases, Matrix and the       *)
(* homeserver between its checks, so every check and the write it decides  *)
(* are a step of their own.                                                *)
(***************************************************************************)
EXTENDS BridgeTables, Integers

CONSTANTS
    AuditEnabled,           \* TUWUNEL_DISCONNECTED_BRIDGE_PURGE_AUDIT_ENABLED
    ExecuteEnabled,         \* TUWUNEL_DISCONNECTED_BRIDGE_PURGE_ENABLED
    OrphanExecuteEnabled,   \* TUWUNEL_DISCONNECTED_BRIDGE_ORPHAN_PURGE_ENABLED
    RoomDeleteLimit         \* config.room_delete_limit, per cycle

ASSUME FlagsAssumption ==
    {AuditEnabled, ExecuteEnabled, OrphanExecuteEnabled} \subseteq BOOLEAN
ASSUME RoomDeleteLimitAssumption == RoomDeleteLimit \in Nat \ {0}

VARIABLES
    wpc,       \* the worker's step
    batch,     \* jobs of this cycle still to process
    snap,      \* their rows as list_due_bridge_cleanup_jobs read them
    job,       \* the job in process_job
    todo,      \* its rooms still to visit
    room,      \* the set holding the room about to be deleted, or {}
    budget,    \* remaining_room_deletes
    failed,    \* failed > 0
    deferred   \* deferred > 0

workerVars == <<wpc, batch, snap, job, todo, room, budget, failed, deferred>>

\* Steps taken under the cleanup lease ...
LeasedSteps == {"final", "recheck", "audit", "guard", "reprobe", "inflight"}
\* ... and those between a renewal and the end of the delete it protects.
GuardedSteps == {"reprobe", "inflight"}

WorkerSteps == {"idle", "login", "pick", "probe", "discover", "acquire"} \cup LeasedSteps

\* Mutant: a disconnect is proof enough.
ExecuteUnproved == ExecuteEnabled

\* bridge_cleanup_execution_allowed
Execute ==
    /\ ExecuteEnabled
    /\ IF job = Orphan
       THEN OrphanExecuteEnabled /\ snap[job].portal = "absent_verified"
       ELSE snap[job].portal = "confirmed"

\* Mutant: the canary limit is not enforced.
BudgetIgnored == TRUE

HasBudget == budget > 0

\* Mutant: attempts never run out.
RetriedForever(s) == [status |-> "retrying", attempts |-> s.attempts]

\* retry_job counts from the snapshot.
Retried(s) == [status |-> IF s.attempts + 1 >= MaxAttempts THEN "exhausted" ELSE "retrying",
               attempts |-> s.attempts + 1]

\* update_bridge_cleanup_job leaves the proof columns alone.
JobWith(j, u) == [jobs EXCEPT ![j].status = u.status, ![j].attempts = u.attempts]
Closed(j, status) == [status |-> status, attempts |-> snap[j].attempts]

\* record_orphan_bridge_login_proof also reopens the job as audit_ready.
WithProof(proof) ==
    [jobs EXCEPT ![Orphan].status = "audit_ready",
                 ![Orphan].portal = proof,
                 ![Orphan].aged = FALSE]

RoomWith(r, status) == [jobRooms EXCEPT ![job][r] = status]

\* process_job returns and drops its lease, if it has one.
Leave ==
    /\ wpc' = "pick" /\ job' = Orphan /\ todo' = {} /\ room' = {}
    /\ snap' = [snap EXCEPT ![job] = NoJob]
    /\ failed' = FALSE /\ deferred' = FALSE
    /\ ReleaseLease("worker", NoConn)
    /\ UNCHANGED <<batch, budget>>

Goto(step) ==
    /\ wpc' = step
    /\ UNCHANGED <<batch, snap, job, todo, room, budget, failed, deferred>>

\* What asking the bridge's database for this user's login can tell: nothing, or the truth.
Probes == {"probe_failed", IF login = "none" THEN "absent" ELSE "present"}

-----------------------------------------------------------------------------
(* start_disconnected_bridge_cleanup_worker and run_cycle                  *)

OrphanScan ==
    /\ wpc = "idle" /\ AuditEnabled
    /\ EnqueueOrphanAudit
    /\ UNCHANGED <<rows, nextId, lease, worldVars, workerVars>>

\* Open jobs that are due; not_before may hold back any of them.
ListDue(due) ==
    /\ wpc = "idle" /\ (AuditEnabled \/ ExecuteEnabled)
    /\ due # {} /\ \A j \in due : IsOpen(j)
    /\ batch' = due
    /\ snap' = [j \in JobIds |-> IF j \in due THEN jobs[j] ELSE NoJob]
    /\ wpc' = "login"
    /\ UNCHANGED <<tableVars, worldVars, job, todo, room, budget, failed, deferred>>

\* admin_access_token
AdminLogin ==
    /\ wpc = "login"
    /\ wpc' = "pick" /\ budget' = RoomDeleteLimit
    /\ UNCHANGED <<tableVars, worldVars, batch, snap, job, todo, room, failed, deferred>>

\* No client or no token: the cycle is given up and no job has used an attempt.
CycleFails ==
    /\ wpc = "login"
    /\ wpc' = "idle" /\ batch' = {} /\ snap' = [j \in JobIds |-> NoJob]
    /\ UNCHANGED <<tableVars, worldVars, job, todo, room, budget, failed, deferred>>

CycleEnd ==
    /\ wpc = "pick" /\ batch = {}
    /\ wpc' = "idle"
    /\ budget' = RoomDeleteLimit
    /\ UNCHANGED <<tableVars, worldVars, batch, snap, job, todo, room, failed, deferred>>

-----------------------------------------------------------------------------
(* process_job: who is connected now, and is the login really gone?        *)

\* process_job starts: the row present now decides.  The clock is read here
\* too, so the first absence has aged by now or it has not.
CheckGeneration(j) ==
    /\ wpc = "pick" /\ j \in batch
    /\ batch' = batch \ {j}
    /\ \/ /\ rows = {}
          /\ wpc' = IF j = Orphan /\ OrphanExecuteEnabled THEN "probe" ELSE "discover"
          /\ job' = j
          /\ snap' = [snap EXCEPT ![j].aged = jobs[j].aged]
          /\ UNCHANGED jobs
       \/ /\ \/ /\ \E r \in rows : CurrentGeneration(r) /\ r.id = j
                /\ jobs' = JobWith(j, Closed(j, "retrying"))
             \/ /\ \E r \in rows : CurrentGeneration(r) /\ r.id # j
                /\ jobs' = JobWith(j, Closed(j, "cancelled_reconnected"))
             \/ jobs' = JobWith(j, Retried(snap[j]))     \* the query failed
          /\ snap' = [snap EXCEPT ![j] = NoJob]
          /\ UNCHANGED <<wpc, job>>
    /\ UNCHANGED <<rows, nextId, lease, jobRooms, worldVars, todo, room, budget, failed, deferred>>

\* Mutant: the first absence counts as proof.
OrphanProofAtOnce(s) == TRUE

\* A second, independent absence, or one that was verified in an earlier cycle.
OrphanAbsenceProved(s) ==
    s.portal = "absent_verified" \/ (s.portal = "absence_observed" /\ s.aged)

\* prepare_orphan_login_proof.  A verified absence that cannot be written
\* proves nothing yet.
OrphanProbe ==
    /\ wpc = "probe"
    /\ \E answer \in Probes :
          IF answer = "absent" /\ OrphanAbsenceProved(snap[job])
          THEN \/ /\ wpc' = "discover"
                  /\ jobs' = IF snap[job].portal = "absent_verified"
                             THEN jobs ELSE WithProof("absent_verified")
                  /\ snap' = [snap EXCEPT ![job].portal = "absent_verified"]
                  /\ UNCHANGED <<lease, batch, job, todo, room, budget, failed, deferred>>
               \/ snap[job].portal # "absent_verified" /\ UNCHANGED jobs /\ Leave
          ELSE /\ jobs' = WithProof(IF answer = "absent" THEN "absence_observed" ELSE answer)
               /\ Leave
    /\ UNCHANGED <<rows, nextId, jobRooms, worldVars>>

\* discover_visible_service_rooms, then list_bridge_cleanup_rooms.  Discovery
\* is best effort: it may fail, time out or see only some of the rooms.  The
\* list itself may fail, and the job is retried.
Discover(visible) ==
    /\ wpc = "discover" /\ visible \subseteq stored
    /\ jobRooms' = WithRooms(job, visible)
    /\ \/ /\ todo' = {r \in Rooms : jobRooms'[job][r] \notin {"absent", "succeeded"}}
          /\ wpc' = IF Execute /\ HasBudget THEN "acquire" ELSE "audit"
          /\ UNCHANGED <<lease, jobs, batch, snap, job, room, budget, failed, deferred>>
       \/ jobs' = JobWith(job, Retried(snap[job])) /\ Leave
    /\ UNCHANGED <<rows, nextId, worldVars>>

-----------------------------------------------------------------------------
(* process_job: the cleanup lease and the checks repeated under it         *)

\* The lease may be refused, or its query fail: the job is retried.
AcquireCleanupLease ==
    /\ wpc = "acquire"
    /\ \/ /\ LeaseFree("worker", NoConn) /\ TakeLease("worker", NoConn)
          /\ Goto(IF job = Orphan THEN "final" ELSE "recheck")
          /\ UNCHANGED jobs
       \/ jobs' = JobWith(job, Retried(snap[job])) /\ Leave
    /\ UNCHANGED <<rows, nextId, jobRooms, worldVars>>

\* final_orphan_login_absence_check
FinalOrphanCheck ==
    /\ wpc = "final"
    /\ \E answer \in Probes :
          IF answer = "absent"
          THEN Goto("recheck") /\ UNCHANGED <<jobs, lease>>
          ELSE jobs' = WithProof(answer) /\ Leave
    /\ UNCHANGED <<rows, nextId, jobRooms, worldVars>>

RecheckGeneration ==
    /\ wpc = "recheck"
    /\ \/ rows = {} /\ Goto("audit") /\ UNCHANGED <<jobs, lease>>
       \/ rows # {} /\ jobs' = JobWith(job, Closed(job, "cancelled_reconnected")) /\ Leave
       \/ jobs' = JobWith(job, Retried(snap[job])) /\ Leave     \* the query failed
    /\ UNCHANGED <<rows, nextId, jobRooms, worldVars>>

-----------------------------------------------------------------------------
(* process_job: room by room                                               *)

\* audit_room: no other active owner, member or login.  It fails closed.
AuditPasses(r) == r \notin shared

AuditRoom(r) ==
    /\ wpc = "audit" /\ r \in todo
    /\ todo' = todo \ {r}
    /\ \/ /\ jobRooms' = RoomWith(r, "blocked_active")
          /\ UNCHANGED <<wpc, room, deferred>>
       \/ /\ AuditPasses(r)
          /\ IF Execute /\ HasBudget
             THEN /\ wpc' = "guard" /\ room' = {r}
                  /\ UNCHANGED <<jobRooms, deferred>>
             ELSE /\ jobRooms' = RoomWith(r, "audit_ready")
                  /\ deferred' = (deferred \/ Execute)
                  /\ UNCHANGED <<wpc, room>>
    /\ UNCHANGED <<rows, nextId, lease, jobs, worldVars, batch, snap, job, budget, failed>>

\* delete_room marks the room and sends the request.
SendDelete ==
    /\ \E r \in room : jobRooms' = RoomWith(r, "deleting")
    /\ Goto("inflight")

\* A failed refresh_cleanup_guard keeps the room.
KeepRoom == \E r \in room : jobRooms' = RoomWith(r, "blocked_active")

\* Mutant: the renewed lease is trusted without looking at the row again.
RefreshGuardLeaseOnly ==
    /\ wpc = "guard"
    /\ LeaseFree("worker", NoConn) /\ TakeLease("worker", NoConn)
    /\ (IF job = Orphan THEN Goto("reprobe") /\ UNCHANGED jobRooms ELSE SendDelete)
    /\ UNCHANGED <<rows, nextId, jobs, worldVars>>

\* refresh_cleanup_guard: renew the lease, and still no bridge row.  Refused,
\* reappeared or failed: the job is retried.
RefreshGuard ==
    /\ wpc = "guard"
    /\ \/ /\ LeaseFree("worker", NoConn) /\ TakeLease("worker", NoConn)
          /\ rows = {}
          /\ IF job = Orphan THEN Goto("reprobe") /\ UNCHANGED jobRooms ELSE SendDelete
          /\ UNCHANGED jobs
       \/ KeepRoom /\ jobs' = JobWith(job, Retried(snap[job])) /\ Leave
    /\ UNCHANGED <<rows, nextId, worldVars>>

\* For an orphan the login is asked for once more.  A proof that fell is
\* reset first; retry_job then overwrites the job's status.
ReprobeOrphan ==
    /\ wpc = "reprobe"
    /\ \E answer \in Probes :
          IF answer = "absent"
          THEN SendDelete /\ UNCHANGED <<jobs, lease>>
          ELSE /\ KeepRoom
               /\ jobs' = [WithProof(answer) EXCEPT
                              ![job].status = Retried(snap[job]).status,
                              ![job].attempts = Retried(snap[job]).attempts]
               /\ Leave
    /\ UNCHANGED <<rows, nextId, worldVars>>

\* The homeserver purges the room, before the answer is on its way.
ServerDeletes ==
    /\ wpc = "inflight" /\ room \subseteq stored
    /\ stored' = stored \ room
    /\ UNCHANGED <<tableVars, login, shared, workerVars>>

\* Mutant: a timeout is taken for success.
DeleteAnsweredOptimistically ==
    /\ wpc = "inflight"
    /\ \E r \in room : jobRooms' = RoomWith(r, "succeeded")
    /\ budget' = budget - 1
    /\ wpc' = "audit" /\ room' = {}
    /\ UNCHANGED <<rows, nextId, lease, jobs, worldVars, batch, snap, job, todo, failed, deferred>>

\* Success (or "room not found"), or an error, which is also what a lost or
\* late answer looks like.
DeleteAnswered ==
    /\ wpc = "inflight"
    /\ \E r \in room :
          \/ /\ r \notin stored
             /\ jobRooms' = RoomWith(r, "succeeded")
             /\ budget' = budget - 1 /\ UNCHANGED failed
          \/ /\ jobRooms' = RoomWith(r, "retrying")
             /\ failed' = TRUE /\ UNCHANGED budget
    /\ wpc' = "audit" /\ room' = {}
    /\ UNCHANGED <<rows, nextId, lease, jobs, worldVars, batch, snap, job, todo, deferred>>

\* Mutant: rooms deferred by the canary limit are forgotten.
OutcomeIgnoringDeferred ==
    IF failed THEN Retried(snap[job])
    ELSE Closed(job, IF Execute THEN "succeeded" ELSE "audit_ready")

\* Rooms that were blocked do not keep a job from succeeding.
Outcome ==
    IF failed THEN Retried(snap[job])
    ELSE Closed(job, IF Execute /\ ~deferred THEN "succeeded" ELSE "audit_ready")

FinishJob ==
    /\ wpc = "audit" /\ todo = {}
    /\ jobs' = JobWith(job, Outcome)
    /\ Leave
    /\ UNCHANGED <<rows, nextId, jobRooms, worldVars>>

-----------------------------------------------------------------------------
WorkerIdle ==
    /\ wpc = "idle" /\ batch = {} /\ snap = [j \in JobIds |-> NoJob] /\ job = Orphan
    /\ todo = {} /\ room = {} /\ budget = RoomDeleteLimit /\ failed = FALSE /\ deferred = FALSE

WorkerTypeOK ==
    /\ wpc \in WorkerSteps
    /\ batch \subseteq JobIds
    /\ snap \in [JobIds -> Job]
    /\ job \in JobIds
    /\ todo \subseteq Rooms
    /\ room \subseteq Rooms
    /\ budget \in 0..RoomDeleteLimit
    /\ failed \in BOOLEAN /\ deferred \in BOOLEAN

ProcessJob ==
    \/ OrphanProbe \/ (\E v \in SUBSET Rooms : Discover(v))
    \/ AcquireCleanupLease \/ FinalOrphanCheck \/ RecheckGeneration
    \/ (\E r \in Rooms : AuditRoom(r))
    \/ RefreshGuard \/ ReprobeOrphan \/ DeleteAnswered \/ FinishJob

WorkerNext ==
    \/ OrphanScan \/ (\E due \in SUBSET JobIds : ListDue(due))
    \/ AdminLogin \/ CycleFails \/ CycleEnd
    \/ (\E j \in JobIds : CheckGeneration(j)) \/ ProcessJob \/ ServerDeletes
=============================================================================
