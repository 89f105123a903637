-------------------------- MODULE BridgeConnection --------------------------
(***************************************************************************)
(* The tasks that create and remove the bridge row of one user and bridge  *)
(* type: the connect handler and the monitor task it spawns, the           *)
(* disconnect handler and its background portal cleanup, the scheduler's   *)
(* login health check, and its sweep of stale "connecting" rows.           *)
(*                                                                         *)
(* A step is a run of repository calls with no await between them, or one  *)
(* awaited exchange with the bridge; tasks run on a multi-threaded runtime,*)
(* so any two of them interleave between any two steps.  A call that fails *)
(* (the database, Matrix, the bridge bot) is the error return that drops   *)
(* the lease.                                                              *)
(***************************************************************************)
EXTENDS BridgeTables

CONSTANTS
    LateRowDelete,   \* Signal: the row turns "cleaning_up" and goes last
    Tasks            \* bound: the tasks that run besides connects and the worker

ASSUME LateRowDeleteAssumption == LateRowDelete \in BOOLEAN
ASSUME TasksAssumption == Tasks \subseteq {"disconnect", "health", "sweep", "others"}

VARIABLES
    conn,      \* [Conns -> step of the connect handler]
    mon,       \* [Conns -> step of the monitor task it spawned]
    disc,      \* step of the disconnect handler, and the generation it read
    health,    \* step of check_all_bridges_health, and the generation it read
    sweep      \* step of cleanup_stale_connecting_bridges

connVars == <<conn, mon, disc, health, sweep>>

Task == [pc : {"idle", "read", "queued", "portal", "marked", "probing", "delete"},
         gen : JobIds]
IdleTask == [pc |-> "idle", gen |-> Orphan]

\* Between acquiring the reconnect lease and dropping it.
ConnHolds(c) == conn[c] = "pairing"
MonHolds(c) == mon[c] \in {"swapping", "created"}

-----------------------------------------------------------------------------
(* start_whatsapp_connection, start_signal_connection,                     *)
(* start_telegram_connection                                               *)

\* A refused lease is answered 409 and changes nothing.  An error deleting
\* the old row is logged and ignored.
ConnectStart(c) ==
    /\ conn[c] = "idle" /\ mon[c] = "idle"
    /\ LeaseFree("conn", c) /\ TakeLease("conn", c)
    /\ DeleteBridge \/ UNCHANGED rows
    /\ conn' = [conn EXCEPT ![c] = "pairing"]
    /\ UNCHANGED <<nextId, jobs, jobRooms, worldVars, mon, disc, health, sweep>>

\* cleanup_whatsapp_if_needed: a row that is still there is logged out and
\* removed; its errors are logged and ignored.
ConnectLeftover(c) ==
    /\ conn[c] = "pairing" /\ rows # {}
    /\ DeleteBridge
    /\ login' \in {login, "none"}
    /\ UNCHANGED <<nextId, lease, jobs, jobRooms, stored, shared, connVars>>

\* The bridge answered with a code: store the row, spawn the monitor, return.
ConnectCreate(c) ==
    /\ conn[c] = "pairing"
    /\ CreateBridge("connecting")
    /\ ReleaseLease("conn", c)
    /\ conn' = [conn EXCEPT ![c] = "idle"]
    /\ mon' = [mon EXCEPT ![c] = "polling"]
    /\ UNCHANGED <<jobs, jobRooms, worldVars, disc, health, sweep>>

\* Matrix, the bridge or the insert failed: the old row is gone, the lease dropped.
ConnectFail(c) ==
    /\ conn[c] = "pairing"
    /\ ReleaseLease("conn", c)
    /\ conn' = [conn EXCEPT ![c] = "idle"]
    /\ UNCHANGED <<rows, nextId, jobs, jobRooms, worldVars, mon, disc, health, sweep>>

-----------------------------------------------------------------------------
(* monitor_whatsapp_connection and its Signal and Telegram counterparts    *)

\* list-logins shows CONNECTED: take the lease and remove the old row.  A
\* refused lease ends the monitor with an error and leaves the row.
MonitorConnected(c) ==
    /\ mon[c] = "polling" /\ login = "connected"
    /\ IF LeaseFree("mon", c)
       THEN TakeLease("mon", c) /\ DeleteBridge /\ mon' = [mon EXCEPT ![c] = "swapping"]
       ELSE UNCHANGED <<lease, rows>> /\ mon' = [mon EXCEPT ![c] = "idle"]
    /\ UNCHANGED <<nextId, jobs, jobRooms, worldVars, conn, disc, health, sweep>>

MonitorCreate(c) ==
    /\ mon[c] = "swapping"
    /\ CreateBridge("connected")
    /\ mon' = [mon EXCEPT ![c] = "created"]
    /\ UNCHANGED <<lease, jobs, jobRooms, worldVars, conn, disc, health, sweep>>

\* The monitor returns and drops its lease: done, or on a database error.
MonitorReturn(c) ==
    /\ MonHolds(c)
    /\ ReleaseLease("mon", c)
    /\ mon' = [mon EXCEPT ![c] = "idle"]
    /\ UNCHANGED <<rows, nextId, jobs, jobRooms, worldVars, conn, disc, health, sweep>>

\* Out of polls, or a fatal reply of the Telegram bot: the row is deleted
\* without a lease and without looking whose row it is.
MonitorTimeout(c) ==
    /\ mon[c] = "polling"
    /\ DeleteBridge
    /\ mon' = [mon EXCEPT ![c] = "idle"]
    /\ UNCHANGED <<nextId, lease, jobs, jobRooms, worldVars, conn, disc, health, sweep>>

-----------------------------------------------------------------------------
(* disconnect_whatsapp, disconnect_signal, disconnect_telegram             *)

\* No row: "was not connected".  Signal: nor a row that is cleaning up.
DisconnectRead ==
    /\ "disconnect" \in Tasks /\ disc.pc = "idle"
    /\ \E r \in rows :
          /\ LateRowDelete => r.status # "cleaning_up"
          /\ disc' = [pc |-> "read", gen |-> r.id]
    /\ UNCHANGED <<tableVars, worldVars, conn, mon, health, sweep>>

DisconnectEnqueue ==
    /\ disc.pc = "read"
    /\ EnqueueBridgeCleanup(disc.gen)
    /\ disc' = [disc EXCEPT !.pc = "queued"]
    /\ UNCHANGED <<rows, nextId, lease, worldVars, conn, mon, health, sweep>>

\* A refused lease is answered 409 and the job stays queued.  Otherwise the
\* row goes (Signal: is marked) and a background task owns the lease.
DisconnectRow ==
    /\ disc.pc = "queued"
    /\ IF LeaseFree("disc", NoConn)
       THEN /\ TakeLease("disc", NoConn)
            /\ rows' = IF LateRowDelete
                       THEN {[r EXCEPT !.status = "cleaning_up"] : r \in rows} ELSE {}
            /\ disc' = [disc EXCEPT !.pc = "portal"]
       ELSE UNCHANGED <<lease, rows>> /\ disc' = IdleTask
    /\ UNCHANGED <<nextId, jobs, jobRooms, worldVars, conn, mon, health, sweep>>

\* The bridge is told to log out and drop its portals, and
\* record_portal_cleanup_outcome stores the result.  Confirmed: every command
\* went out and no service room is visible.  WhatsApp and Signal verify the
\* logout of CONNECTED logins, Telegram only that the message was sent.
DisconnectPortal ==
    /\ disc.pc = "portal"
    /\ login' \in {login, "none"}
    /\ \E confirmed \in BOOLEAN : MarkBridgePortalCleanup(disc.gen, confirmed)
    /\ disc' = [disc EXCEPT !.pc = "marked"]
    /\ UNCHANGED <<rows, nextId, lease, jobRooms, stored, shared, conn, mon, health, sweep>>

\* The background task ends (Signal deletes the row now) and drops the lease.
DisconnectReturn ==
    /\ disc.pc = "marked"
    /\ rows' = IF LateRowDelete THEN {} ELSE rows
    /\ ReleaseLease("disc", NoConn)
    /\ disc' = IdleTask
    /\ UNCHANGED <<nextId, jobs, jobRooms, worldVars, conn, mon, health, sweep>>

-----------------------------------------------------------------------------
(* check_all_bridges_health and cleanup_stale_connecting_bridges           *)

HealthSnapshot ==
    /\ "health" \in Tasks /\ health.pc = "idle"
    /\ \E r \in rows : /\ r.status = "connected"
                       /\ health' = [pc |-> "probing", gen |-> r.id]
    /\ UNCHANGED <<tableVars, worldVars, conn, mon, disc, sweep>>

\* Healthy or inconclusive: left alone.
HealthLeave ==
    /\ health.pc = "probing"
    /\ health' = IdleTask
    /\ UNCHANGED <<tableVars, worldVars, conn, mon, disc, sweep>>

HealthBad ==
    /\ health.pc = "probing" /\ login = "bad_credentials"
    /\ EnqueueBridgeCleanup(health.gen)
    /\ health' = [health EXCEPT !.pc = "delete"]
    /\ UNCHANGED <<rows, nextId, lease, worldVars, conn, mon, disc, sweep>>

HealthDelete ==
    /\ health.pc = "delete"
    /\ DeleteBridge
    /\ health' = IdleTask
    /\ UNCHANGED <<nextId, lease, jobs, jobRooms, worldVars, conn, mon, disc, sweep>>

\* A "connecting" row older than five minutes was selected.
SweepSelect ==
    /\ "sweep" \in Tasks /\ sweep = "idle"
    /\ \E r \in rows : r.status = "connecting"
    /\ sweep' = "delete"
    /\ UNCHANGED <<tableVars, worldVars, conn, mon, disc, health>>

SweepDelete ==
    /\ sweep = "delete"
    /\ DeleteBridge
    /\ sweep' = "idle"
    /\ UNCHANGED <<nextId, lease, jobs, jobRooms, worldVars, conn, mon, disc, health>>

-----------------------------------------------------------------------------
(* The outside world: the user's phone, the messaging service, other users *)

\* A code handed out by a connect can be used as long as the bridge accepts it.
UserPairs ==
    /\ nextId > 1 /\ login # "connected"
    /\ login' = "connected"
    /\ UNCHANGED <<tableVars, stored, shared, connVars>>

UserUnlinks ==
    /\ "health" \in Tasks
    /\ login = "connected"
    /\ login' = "bad_credentials"
    /\ UNCHANGED <<tableVars, stored, shared, connVars>>

\* Another user in room r connects or disconnects.
OtherUser(r) ==
    /\ "others" \in Tasks
    /\ shared' = IF r \in shared THEN shared \ {r} ELSE shared \cup {r}
    /\ UNCHANGED <<tableVars, login, stored, connVars>>

-----------------------------------------------------------------------------
ConnectionInit ==
    /\ conn = [c \in Conns |-> "idle"]
    /\ mon = [c \in Conns |-> "idle"]
    /\ disc = IdleTask
    /\ health = IdleTask
    /\ sweep = "idle"

ConnectionTypeOK ==
    /\ conn \in [Conns -> {"idle", "pairing"}]
    /\ mon \in [Conns -> {"idle", "polling", "swapping", "created"}]
    /\ disc \in Task
    /\ health \in Task
    /\ sweep \in {"idle", "delete"}

ConnectNext(c) ==
    ConnectStart(c) \/ ConnectLeftover(c) \/ ConnectCreate(c) \/ ConnectFail(c)

MonitorNext(c) ==
    MonitorConnected(c) \/ MonitorCreate(c) \/ MonitorReturn(c) \/ MonitorTimeout(c)

DisconnectNext ==
    \/ DisconnectRead \/ DisconnectEnqueue \/ DisconnectRow
    \/ DisconnectPortal \/ DisconnectReturn

SchedulerNext ==
    \/ HealthSnapshot \/ HealthLeave \/ HealthBad \/ HealthDelete
    \/ SweepSelect \/ SweepDelete

WorldNext == UserPairs \/ UserUnlinks \/ \E r \in Rooms : OtherUser(r)

ConnectionNext ==
    \/ \E c \in Conns : ConnectNext(c) \/ MonitorNext(c)
    \/ DisconnectNext \/ SchedulerNext \/ WorldNext
=============================================================================
