---------------------------- MODULE BridgeSystem ----------------------------
(***************************************************************************)
(* The connection tasks and the cleanup worker over the same tables, with  *)
(* what happens to all of them: time passing and the process restarting.   *)
(***************************************************************************)
EXTENDS BridgeConnection, BridgeCleanupWorker

CONSTANTS
    ReconnectMayOverrun,   \* may a reconnect outlive its 300 s lease?
    MaxRestarts            \* bound: process restarts

ASSUME OverrunAssumption == ReconnectMayOverrun \in BOOLEAN
ASSUME MaxRestartsAssumption == MaxRestarts \in Nat

VARIABLE restarts

vars == <<tableVars, worldVars, connVars, workerVars, restarts>>

-----------------------------------------------------------------------------
\* Nobody renews a reconnect lease, so only the handler's own speed keeps it
\* live.  The worker renews before every delete, and one delete (a login
\* probe of 10 s and a request of 20 s) fits in 300 s; it may be slower
\* between renewals.  The portal cleanup may be slower than its lease, and
\* nobody is left to hold a dead holder's.
MayExpire ==
    CASE lease.role \in {"conn", "mon"} -> ReconnectMayOverrun
      [] lease.role = "worker" -> wpc \notin GuardedSteps
      [] OTHER -> lease.role # "none"

LeaseExpires ==
    /\ lease.live /\ MayExpire
    /\ lease' = [lease EXCEPT !.live = FALSE]
    /\ UNCHANGED <<rows, nextId, jobs, jobRooms, worldVars, connVars, workerVars, restarts>>

\* orphan_proof_recheck_secs have passed since the first absence.
AbsenceAges ==
    /\ jobs[Orphan].portal = "absence_observed" /\ ~jobs[Orphan].aged
    /\ jobs' = [jobs EXCEPT ![Orphan].aged = TRUE]
    /\ UNCHANGED <<rows, nextId, lease, jobRooms, worldVars, connVars, workerVars, restarts>>

\* Every task dies where it stands; tables and the outside world remain.
Restart ==
    /\ restarts < MaxRestarts
    /\ restarts' = restarts + 1
    /\ lease' = IF lease.role = "none" THEN lease
                ELSE [role |-> "dead", by |-> NoConn, live |-> lease.live]
    /\ conn' = [c \in Conns |-> "idle"] /\ mon' = [c \in Conns |-> "idle"]
    /\ disc' = IdleTask /\ health' = IdleTask /\ sweep' = "idle"
    /\ wpc' = "idle" /\ batch' = {} /\ snap' = [j \in JobIds |-> NoJob] /\ job' = Orphan
    /\ todo' = {} /\ room' = {} /\ budget' = RoomDeleteLimit
    /\ failed' = FALSE /\ deferred' = FALSE
    /\ UNCHANGED <<rows, nextId, jobs, jobRooms, worldVars>>

-----------------------------------------------------------------------------
Init == TablesInit /\ ConnectionInit /\ WorkerIdle /\ restarts = 0

Next ==
    \/ ConnectionNext /\ UNCHANGED <<workerVars, restarts>>
    \/ WorkerNext /\ UNCHANGED <<connVars, restarts>>
    \/ LeaseExpires \/ AbsenceAges \/ Restart

Spec == Init /\ [][Next]_vars

\* The worker's loop keeps running, and a job that stays open is due again
\* and again: not_before is a finite delay and jobs are taken oldest update
\* first.  An assumption, which no code enforces: among the cycles that list
\* a job the admin login succeeds now and then.  Nothing is assumed of users,
\* bridges or the homeserver's other answers.
Fairness ==
    /\ WF_vars(ProcessJob /\ UNCHANGED <<connVars, restarts>>)
    /\ WF_vars((CycleEnd \/ CycleFails) /\ UNCHANGED <<connVars, restarts>>)
    /\ WF_vars((\E j \in JobIds : CheckGeneration(j)) /\ UNCHANGED <<connVars, restarts>>)
    /\ \A g \in Gens :
          /\ SF_vars((\E due \in SUBSET JobIds : g \in due /\ ListDue(due))
                        /\ UNCHANGED <<connVars, restarts>>)
          /\ SF_vars(g \in batch /\ AdminLogin /\ UNCHANGED <<connVars, restarts>>)

FairSpec == Spec /\ Fairness

-----------------------------------------------------------------------------
TypeOK == TablesTypeOK /\ ConnectionTypeOK /\ WorkerTypeOK /\ restarts \in 0..MaxRestarts

\* A connect handler or monitor between acquiring and dropping its lease does
\* hold a live lease, and so does the worker between a renewal and the end of
\* the delete it covers: no two of them are there at once, although leases
\* expire under the worker and outlive dead holders.
LeaseExcludes ==
    /\ \A c \in Conns : ConnHolds(c) => Holds("conn", c) /\ lease.live
    /\ \A c \in Conns : MonHolds(c) => Holds("mon", c) /\ lease.live
    /\ wpc \in GuardedSteps => Holds("worker", NoConn) /\ lease.live

RoomPurged == stored' # stored

\* Rooms leave the homeserver only while no bridge row exists and no
\* reconnect is between acquiring and dropping its lease (migration 51:
\* "Serialize bridge reconnects with destructive Tuwunel room cleanup").
DeleteExcludesReconnect ==
    [][RoomPurged => /\ rows = {}
                     /\ \A c \in Conns : ~ConnHolds(c) /\ ~MonHolds(c)]_vars

\* When a room is purged the job row itself still carries the evidence the
\* worker's snapshot was taken for: a confirmed portal cleanup, or an
\* absence verified twice ("keep evidence that bridge-side portal cleanup
\* completed before room deletion").
EvidenceBeforeDelete ==
    [][RoomPurged => jobs[job].portal = IF job = Orphan THEN "absent_verified"
                                                        ELSE "confirmed"]_vars

\* An orphan's login counts as absent only after an earlier absence that is
\* still on record and has aged; a probe that saw the login, a failed probe
\* and a new audit all start over.
OrphanProofTakesTwo ==
    [][jobs'[Orphan].portal = "absent_verified" /\ jobs[Orphan].portal # "absent_verified"
          => jobs[Orphan].portal = "absence_observed" /\ jobs[Orphan].aged]_vars

\* A job closes as succeeded only when each of its rooms was deleted or found
\* in use by somebody else: none is still pending, deferred or retrying.
SuccessAccountsForEveryRoom ==
    \A j \in JobIds : jobs[j].status = "succeeded" =>
        \A r \in Rooms : jobRooms[j][r] \in {"absent", "succeeded", "blocked_active"}

\* A room recorded as deleted is gone from the homeserver, although the answer
\* to a delete may be lost and the process may stop at any point.
DeletedRoomsAreGone ==
    \A j \in JobIds : \A r \in Rooms : jobRooms[j][r] = "succeeded" => r \notin stored

\* A closed job never opens again: neither a worker that read it while it was
\* open nor a disconnect that queues the same generation revives it.
ClosedJobsStayClosed ==
    [][\A g \in Gens : jobs[g].status \in ClosedStatus => jobs'[g].status \in ClosedStatus]_vars

\* A job whose portal cleanup is confirmed is settled in the end: done,
\* cancelled or out of attempts, whatever becomes of its deletes, unless the
\* row it was queued for never goes.  A cycle whose admin login fails uses no
\* attempt: with the login refused for ever a job stays open for ever, which
\* is why Fairness has to assume one that succeeds.
JobsSettle ==
    \A g \in Gens :
        (IsOpen(g) /\ jobs[g].portal = "confirmed")
            ~> (~IsOpen(g) \/ \E r \in rows : r.id = g)

-----------------------------------------------------------------------------
(* What the documentation says and the code does not keep.                 *)

\* .env.example: "Active bridge generations, bridge logins, reconnects, and
\* shared owners block it", of full room deletion: here, a reconnect younger
\* than the job, whose monitor is still polling for the user to pair.  (With
\* one connect invocation at a time the polling monitor is the youngest's.)
ReconnectBlocksDeletion ==
    [][RoomPurged /\ job < nextId - 1 => \A c \in Conns : mon[c] # "polling"]_vars

\* enqueue_bridge_cleanup: "Persist a disconnect before its bridge row is
\* removed".  A row that a disconnect or the health check removes has a job.
RemovalIsQueued ==
    [][(disc'.pc = "portal" \/ health.pc = "delete") /\ rows' = {}
          => \A r \in rows : jobs[r.id].status # "none"]_vars
=============================================================================
