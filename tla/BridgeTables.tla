---------------------------- MODULE BridgeTables ----------------------------
(***************************************************************************)
(* The durable state behind one user's connection to one bridge (WhatsApp, *)
(* Signal or Telegram), and the repository calls that change it:           *)
(*                                                                         *)
(*   bridges                   UserRepository::{create,delete,get}_bridge  *)
(*   bridge_connection_leases  try_acquire / release                       *)
(*   bridge_cleanup_jobs       enqueue, portal and orphan proofs           *)
(*   bridge_cleanup_rooms      seeding and discovery                       *)
(*                                                                         *)
(* plus the parts of the outside world those rows stand for: the rooms the *)
(* homeserver stores, the login the bridge holds, and the rooms that are   *)
(* shared with another user whose bridge is connected.                     *)
(*                                                                         *)
(* Seconds are abstracted: a lease is live or has run out, a job that is   *)
(* open may be due, and the first absence of an orphan's login has aged    *)
(* past the recheck interval or has not.  Every order of those events that *)
(* the clock allows is a behaviour of the model.                           *)
(***************************************************************************)
EXTENDS Naturals, FiniteSets

CONSTANTS
    Conns,         \* invocations of the connect handler, each with its monitor task
    NoConn,        \* "no connect invocation", for leases of the other holders
    Rooms,         \* Matrix rooms of this user and platform
    SeedRooms,     \* those ont_messages or the management room name at enqueue time
    MaxGen,        \* bound: bridge rows ever inserted (the SERIAL ids 1..MaxGen)
    MaxAttempts    \* config.max_attempts

ASSUME ConnsAssumption == NoConn \notin Conns
ASSUME RoomsAssumption == SeedRooms \subseteq Rooms
ASSUME MaxGenAssumption == MaxGen \in Nat
ASSUME MaxAttemptsAssumption == MaxAttempts \in Nat \ {0}

VARIABLES
    rows,          \* table bridges, restricted to this user and bridge type
    nextId,        \* the id the next inserted bridge row gets
    lease,         \* the row of bridge_connection_leases, role "none" when absent
    jobs,          \* bridge_cleanup_jobs, by the generation they were queued for
    jobRooms,      \* bridge_cleanup_rooms, by job and room
    login,         \* the bridge's own login for this user
    stored,        \* rooms the homeserver still stores
    shared         \* rooms in use by another user's connected bridge

tableVars == <<rows, nextId, lease, jobs, jobRooms>>
worldVars == <<login, stored, shared>>

-----------------------------------------------------------------------------
(* bridges *)

Gens == 1..MaxGen
BridgeRow == [id : Gens, status : {"connecting", "connected", "cleaning_up"}]

CreateBridge(status) ==
    /\ nextId \in Gens
    /\ rows' = rows \cup {[id |-> nextId, status |-> status]}
    /\ nextId' = nextId + 1

\* delete_bridge filters on user and type only: every generation goes.
DeleteBridge == rows' = {}

\* bridge_generation_present: the row with the largest id.
CurrentGeneration(r) == r \in rows /\ \A q \in rows : q.id <= r.id

-----------------------------------------------------------------------------
(* bridge_connection_leases.  A token is fresh for every acquisition, so a *)
(* holder that died keeps a lease that nobody can renew: role "dead".      *)

Roles == {"none", "dead", "conn", "mon", "disc", "worker"}
Lease == [role : Roles, by : Conns \cup {NoConn}, live : BOOLEAN]
NoLease == [role |-> "none", by |-> NoConn, live |-> FALSE]

Holds(role, by) == lease.role = role /\ lease.by = by

\* Mutant: the upsert without its WHERE clause.
LeaseFreeAlways(role, by) == TRUE

\* ON CONFLICT ... WHERE lease_until <= now OR owner_token = EXCLUDED.owner_token
LeaseFree(role, by) == lease.role = "none" \/ ~lease.live \/ Holds(role, by)

TakeLease(role, by) == lease' = [role |-> role, by |-> by, live |-> TRUE]

\* DELETE ... WHERE owner_token = $3: a stolen lease is left to its new owner.
ReleaseLease(role, by) == lease' = IF Holds(role, by) THEN NoLease ELSE lease

-----------------------------------------------------------------------------
(* bridge_cleanup_jobs.  expected_bridge_id is unique among jobs, so the   *)
(* job of generation g is jobs[g]; jobs without one are orphan audits, of  *)
(* which at most one is open: jobs[Orphan] is the latest.                  *)

Orphan == 0
JobIds == {Orphan} \cup Gens

OpenStatus == {"pending", "audit_pending", "audit_ready", "retrying"}
ClosedStatus == {"succeeded", "cancelled_reconnected", "exhausted"}
PortalStatus == {"pending", "confirmed", "failed", "legacy_unverified",
                 "absence_observed", "absent_verified", "present", "probe_failed"}

Job == [status : {"none"} \cup OpenStatus \cup ClosedStatus,
        attempts : Nat,
        portal : PortalStatus,
        aged : BOOLEAN]

NoJob == [status |-> "none", attempts |-> 0, portal |-> "pending", aged |-> FALSE]
IsOpen(j) == jobs[j].status \in OpenStatus

\* "retrying" stands for retrying and exhausted rooms: both are listed again.
RoomStatus == {"absent", "pending", "audit_ready", "blocked_active", "deleting",
               "retrying", "succeeded"}

\* INSERT ... ON CONFLICT (job_id, room_id) DO NOTHING
WithRooms(j, rs) ==
    [jobRooms EXCEPT ![j] =
        [r \in Rooms |-> IF r \in rs /\ jobRooms[j][r] = "absent"
                         THEN "pending" ELSE jobRooms[j][r]]]

\* Mutant: ON CONFLICT (expected_bridge_id) DO UPDATE SET status = 'pending'.
EnqueueReopening(g) ==
    /\ jobs' = [jobs EXCEPT ![g].status = "pending"]
    /\ jobRooms' = WithRooms(g, SeedRooms)

\* An existing job keeps its status, its attempts and its proof.
EnqueueBridgeCleanup(g) ==
    /\ jobs' = [jobs EXCEPT ![g] =
                   IF @.status = "none" THEN [NoJob EXCEPT !.status = "pending"] ELSE @]
    /\ jobRooms' = WithRooms(g, SeedRooms)

\* A new audit row; the rooms of the previous, closed audit are not its own.
EnqueueOrphanAudit ==
    /\ rows = {} /\ ~IsOpen(Orphan) /\ SeedRooms # {}
    /\ jobs' = [jobs EXCEPT ![Orphan] = [NoJob EXCEPT !.status = "audit_pending",
                                                      !.portal = "legacy_unverified"]]
    /\ jobRooms' = [jobRooms EXCEPT ![Orphan] =
                       [r \in Rooms |-> IF r \in SeedRooms THEN "pending" ELSE "absent"]]

MarkBridgePortalCleanup(g, confirmed) ==
    jobs' = [jobs EXCEPT ![g].portal = IF confirmed THEN "confirmed" ELSE "failed"]

-----------------------------------------------------------------------------
TablesInit ==
    /\ rows = {}
    /\ nextId = 1
    /\ lease = NoLease
    /\ jobs = [j \in JobIds |-> NoJob]
    /\ jobRooms = [j \in JobIds |-> [r \in Rooms |-> "absent"]]
    /\ login = "none"
    /\ stored = Rooms
    /\ shared = {}

TablesTypeOK ==
    /\ rows \subseteq BridgeRow
    /\ nextId \in 1..(MaxGen + 1)
    /\ lease \in Lease
    /\ jobs \in [JobIds -> Job]
    /\ jobRooms \in [JobIds -> [Rooms -> RoomStatus]]
    /\ login \in {"none", "connected", "bad_credentials"}
    /\ stored \subseteq Rooms
    /\ shared \subseteq Rooms
=============================================================================
