----------------------------- MODULE EventPurge -----------------------------
(***************************************************************************)
(* Bridge messages of one portal room: handle_bridge_message stores them   *)
(* in the ontology, and the purge worker then removes them from the        *)
(* homeserver, as room boundaries (tuwunel_cleanup_events) and as room     *)
(* histories found by a census (tuwunel_room_history_purges).              *)
(*                                                                         *)
(* The clock counts retention periods: a row is due one period after it    *)
(* was enqueued.  A handler decides about its event within a period        *)
(* (default 60 s), which is what the purge relies on.  Which blockers are  *)
(* stale and which exhausted rows have cooled down is left open.           *)
(***************************************************************************)
EXTENDS Naturals, FiniteSets

CONSTANTS
    EventCount,     \* events of the room, in timeline order
    MaxTime,        \* bound: the clock
    PurgeAttempts,  \* config.max_attempts
    MaxInFlight,    \* config.purge_max_in_flight
    MaxPurgeFaults, \* bound: restarts, failing writes, redeliveries
    MaxLegacy       \* bound: events stored before the ledger existed

ASSUME PurgeBoundsAssumption ==
    /\ EventCount \in Nat /\ MaxTime \in Nat \ {0} /\ MaxPurgeFaults \in Nat
    /\ PurgeAttempts \in Nat \ {0} /\ MaxInFlight \in Nat \ {0}
    /\ MaxLegacy \in 0..EventCount

Events == 1..EventCount
Sources == {"portal", "server"}

VARIABLES
    forced,      \* config.backfill_execute_blocked_enabled
    now,
    arrived,     \* [Events -> time, 0 before it happens]
    class,       \* what the event is: a payload, a notice to discard, or neither
    handler,     \* [Events -> step of handle_bridge_message]
    stored,      \* events with a row of their own in ont_messages
    row,         \* tuwunel_cleanup_events
    hist,        \* tuwunel_room_history_purges, by source
    purger,      \* the worker
    task,        \* the homeserver's purge tasks, by the event that knows the id
    htask,       \* the same for room histories
    stray,       \* accepted purges whose id nobody knows
    purgedTo,    \* events up to here are gone from the homeserver
    faults,
    late         \* history: events blocked only by a later delivery

purgeVars == <<forced, now, arrived, class, handler, stored, row, hist, purger, task, htask,
               stray, purgedTo, faults, late>>

Blockers == {"ingesting", "ingest_failed"}
Waits == {"pending", "attempting", "retrying"}
Row == [status : {"none", "submitted", "exhausted", "succeeded", "audit_verified",
                  "audit_blocked"} \cup Blockers \cup Waits,
        enq : 0..MaxTime, attempts : 0..PurgeAttempts,
        kind : {"none", "discard", "forced", "purge"}, msg : BOOLEAN]
NoRow == [status |-> "none", enq |-> 0, attempts |-> 0, kind |-> "none", msg |-> FALSE]
History == [status : {"none", "submitted", "exhausted", "succeeded"} \cup Waits,
            cutoff : 0..MaxTime, submitted : 0..MaxTime, attempts : 0..PurgeAttempts]
NoHistory == [status |-> "none", cutoff |-> 0, submitted |-> 0, attempts |-> 0]
PurgeTask == [state : {"none", "active", "complete", "failed"}, upTo : 0..EventCount]
NoTask == [state |-> "none", upTo |-> 0]
Asleep == [pc |-> "idle", event |-> 0, source |-> "none", polls |-> {}, hpolls |-> {}]

PurgeTypeOK ==
    /\ forced \in BOOLEAN /\ now \in 1..MaxTime /\ arrived \in [Events -> 0..MaxTime]
    /\ class \in [Events -> {"payload", "discard", "other"}]
    /\ handler \in [Events -> {"none", "arrived", "marked", "stored", "dup", "done", "legacy"}]
    /\ stored \subseteq Events /\ stray \subseteq Events /\ late \subseteq Events
    /\ row \in [Events -> Row] /\ hist \in [Sources -> History]
    /\ purger \in [pc : {"idle", "backfill", "census", "poll", "list", "attempt", "post",
                         "hattempt", "hpost"},
                   event : 0..EventCount, source : Sources \cup {"none"},
                   polls : SUBSET Events, hpolls : SUBSET Sources]
    /\ purger.pc = "idle" => purger = Asleep
    /\ task \in [Events -> PurgeTask] /\ htask \in [Sources -> PurgeTask]
    /\ purgedTo \in 0..EventCount /\ faults \in 0..MaxPurgeFaults

PurgeInit ==
    /\ forced \in BOOLEAN /\ now = 1
    /\ \E legacy \in 0..MaxLegacy :
          /\ arrived = [e \in Events |-> IF e <= legacy THEN 1 ELSE 0]
          /\ class \in [Events -> {"payload", "discard", "other"}]
          /\ \A e \in 1..legacy : class[e] = "payload"
          /\ handler = [e \in Events |-> IF e <= legacy THEN "legacy" ELSE "none"]
          /\ stored = 1..legacy
    /\ row = [e \in Events |-> NoRow]
    /\ hist = [s \in Sources |-> NoHistory]
    /\ purger = Asleep
    /\ task = [e \in Events |-> NoTask] /\ htask = [s \in Sources |-> NoTask]
    /\ stray = {} /\ purgedTo = 0 /\ faults = 0 /\ late = {}

-----------------------------------------------------------------------------
(* handle_bridge_message and handle_bridge_redaction                       *)

IngestOnly == UNCHANGED <<forced, now, class, hist, purger, task, htask, stray, purgedTo>>
At(e, pc) == handler' = [handler EXCEPT ![e] = pc]

\* The bridge posts the next event; its handler starts.
Arrive(e) ==
    /\ handler[e] = "none" /\ \A f \in 1..(e - 1) : handler[f] # "none"
    /\ arrived' = [arrived EXCEPT ![e] = now]
    /\ At(e, "arrived")
    /\ IngestOnly /\ UNCHANGED <<stored, row, faults, late>>

\* INSERT ... ON CONFLICT (event_id) DO NOTHING
Inserted(e, status, kind) ==
    [row EXCEPT ![e] = IF @.status = "none"
                       THEN [NoRow EXCEPT !.status = status, !.kind = kind, !.enq = now] ELSE @]

\* Edits, old messages and management rooms leave no trace; bridge notices are
\* discarded, and may be purged.
Dismiss(e) ==
    /\ handler[e] = "arrived" /\ class[e] # "payload"
    /\ row' = IF class[e] = "discard" THEN Inserted(e, "pending", "discard") ELSE row
    /\ At(e, "done")
    /\ IngestOnly /\ UNCHANGED <<arrived, stored, faults, late>>

\* A delivery blocks an event that came a period ago, and has no row from then.
Blocks(e) == IF row[e].status = "none" /\ arrived[e] < now THEN late \cup {e} ELSE late

\* A payload that cannot be stored (bridge connecting, no subscription,
\* unsupported type) is kept behind a blocker.
Retain(e) ==
    /\ handler[e] = "arrived" /\ class[e] = "payload"
    /\ row' = Inserted(e, "ingest_failed", "none")
    /\ late' = Blocks(e)
    /\ At(e, "done")
    /\ IngestOnly /\ UNCHANGED <<arrived, stored, faults>>

\* record_bridge_event_ingesting; a failing write is logged and ignored.
Mark(e, ok) ==
    /\ handler[e] = "arrived" /\ class[e] = "payload"
    /\ ok \/ faults < MaxPurgeFaults
    /\ row' = IF ok THEN Inserted(e, "ingesting", "none") ELSE row
    /\ late' = IF ok THEN Blocks(e) ELSE late
    /\ faults' = IF ok THEN faults ELSE faults + 1
    /\ At(e, "marked")
    /\ IngestOnly /\ UNCHANGED <<arrived, stored>>

\* insert_message: a new row, or the row of an equal message of the last five
\* minutes, whose event id is another.
Store(e) ==
    /\ handler[e] = "marked"
    /\ \/ stored' = stored \cup {e} /\ At(e, "stored")
       \/ stored \ {e} # {} /\ stored' = stored /\ At(e, "dup")
    /\ IngestOnly /\ UNCHANGED <<arrived, row, faults, late>>

StoreFails(e) ==
    /\ handler[e] = "marked" /\ faults < MaxPurgeFaults
    /\ faults' = faults + 1
    /\ row' = IF row[e].status = "none" THEN row ELSE [row EXCEPT ![e].status = "ingest_failed"]
    /\ At(e, "done")
    /\ IngestOnly /\ UNCHANGED <<arrived, stored, late>>

\* record_enqueued keeps enqueued_at and the kind of an existing row.
Enqueue(e) ==
    /\ handler[e] \in {"stored", "dup"}
    /\ row' = [row EXCEPT ![e] =
          IF @.status = "none" THEN [NoRow EXCEPT !.status = "pending", !.enq = now, !.msg = TRUE]
          ELSE [@ EXCEPT !.status = "pending", !.attempts = 0, !.msg = TRUE]]
    /\ At(e, "done")
    /\ IngestOnly /\ UNCHANGED <<arrived, stored, faults, late>>

EnqueueFails(e) ==
    /\ handler[e] \in {"stored", "dup"} /\ faults < MaxPurgeFaults
    /\ faults' = faults + 1
    /\ At(e, "done")
    /\ IngestOnly /\ UNCHANGED <<arrived, stored, row, late>>

\* The sync repeats an event that is not purged yet.
Redeliver(e) ==
    /\ handler[e] = "done" /\ purgedTo < e /\ faults < MaxPurgeFaults
    /\ faults' = faults + 1
    /\ At(e, "arrived")
    /\ IngestOnly /\ UNCHANGED <<arrived, stored, row, late>>

\* The sender deletes the message, or purge_old_messages drops it after a month:
\* its ontology row goes, the ledger stays.
Redact(e) ==
    /\ e \in stored
    /\ stored' = stored \ {e}
    /\ IngestOnly /\ UNCHANGED <<arrived, handler, row, faults, late>>

IngestStep(e) ==
    \/ Arrive(e) \/ Dismiss(e) \/ Retain(e) \/ (\E ok \in BOOLEAN : Mark(e, ok))
    \/ Store(e) \/ StoreFails(e) \/ Enqueue(e) \/ EnqueueFails(e)
    \/ Redeliver(e) \/ Redact(e)

-----------------------------------------------------------------------------
(* run_purge_cycle                                                         *)

WorkerOnly == UNCHANGED <<forced, now, arrived, class, handler, stored, faults, late>>
Quiet == UNCHANGED <<task, htask, stray, purgedTo>>

\* Mutant: only a marker that is still open blocks the room.
BlockedWhileIngesting == \E e \in Events : row[e].status = "ingesting"

\* The room_id of some blocker: no event of the room is due.
Blocked == \E e \in Events : row[e].status \in Blockers

\* recover_stale_ingest_blockers finds its events in the ontology, by their own
\* id, and enqueues them anew; exhausted rows are retried after a cooldown.
StartCycle(stale, cooled, rested) ==
    /\ purger.pc = "idle"
    /\ stale \subseteq {e \in stored : row[e].status \in Blockers}
    /\ cooled \subseteq {e \in Events : row[e].status = "exhausted"}
    /\ rested \subseteq {s \in Sources : hist[s].status = "exhausted"}
    /\ row' = [e \in Events |->
          CASE e \in stale -> [row[e] EXCEPT !.status = "pending", !.attempts = 0,
                                             !.msg = TRUE, !.enq = now]
            [] e \in cooled -> [row[e] EXCEPT !.status = "retrying", !.attempts = 0]
            [] OTHER -> row[e]]
    /\ hist' = [s \in Sources |->
          IF s \in rested THEN [hist[s] EXCEPT !.status = "retrying", !.attempts = 0] ELSE hist[s]]
    /\ purger' = [purger EXCEPT !.pc = "backfill"]
    /\ WorkerOnly /\ Quiet

\* The latest stored event of the room, a period old, that the ledger does not
\* know or has only audited.
Candidate(e) ==
    /\ e \in stored /\ arrived[e] < now
    /\ \A f \in stored : arrived[f] < now => f <= e
    /\ row[e].status \in {"none", "audit_verified", "audit_blocked"}
    /\ ~Blocked

\* unproven_event_ids, over the payloads before the boundary.
Proven(e) == e \in stored \/ row[e].msg \/ row[e].kind = "discard"
AuditVerifies(e) == \A f \in 1..(e - 1) : class[f] # "other" => Proven(f)

\* run_historical_backfill_audit: record the verdict, then enqueue what the
\* policy allows; with forced execution no history is scanned at all.
Backfill(e) ==
    /\ purger.pc = "backfill" /\ Candidate(e)
    /\ LET verified == ~forced /\ AuditVerifies(e)
           queued == [NoRow EXCEPT !.status = "pending", !.enq = now, !.msg = TRUE,
                                   !.kind = IF verified THEN "none" ELSE "forced"]
       IN  row' = [row EXCEPT ![e] =
              IF verified \/ forced THEN queued
              ELSE [NoRow EXCEPT !.status = "audit_blocked", !.enq = now, !.msg = TRUE]]
    /\ purger' = [purger EXCEPT !.pc = "census"]
    /\ WorkerOnly /\ Quiet /\ UNCHANGED hist

\* record_portal_census_rooms moves the cutoff of a row that has no task;
\* record_server_census_rooms_once only adds a row.
PortalCensus(h, cutoff) ==
    IF h.status = "none" THEN [NoHistory EXCEPT !.status = "pending", !.cutoff = cutoff]
    ELSE IF h.status = "submitted" THEN h
    ELSE [h EXCEPT !.cutoff = IF cutoff > @ THEN cutoff ELSE @,
                   !.status = IF cutoff > h.submitted THEN "pending" ELSE @,
                   !.attempts = IF cutoff > h.submitted THEN 0 ELSE @]
ServerCensus(h, cutoff) ==
    IF h.status = "none" THEN [NoHistory EXCEPT !.status = "pending", !.cutoff = cutoff] ELSE h

Census(portal, server) ==
    /\ purger.pc \in {"backfill", "census"}
    /\ hist' = [hist EXCEPT
          !["portal"] = IF portal THEN PortalCensus(hist["portal"], now - 1) ELSE @,
          !["server"] = IF server THEN ServerCensus(hist["server"], now - 1) ELSE @]
    /\ purger' = [purger EXCEPT !.pc = "poll",
          !.polls = {e \in Events : row[e].status = "submitted"},
          !.hpolls = {s \in Sources : hist[s].status = "submitted"}]
    /\ WorkerOnly /\ Quiet /\ UNCHANGED row

Failure(r) == [r EXCEPT !.status = IF r.attempts >= PurgeAttempts THEN "exhausted" ELSE "retrying"]

\* record_room_succeeded_through: every row enqueued no later than the boundary.
SucceededThrough(b) ==
    [e \in Events |-> IF row[e].enq <= row[b].enq /\ row[e].status \in Waits \cup {"submitted"}
                      THEN [row[e] EXCEPT !.status = "succeeded"] ELSE row[e]]

\* Mutant: every row of the room, whatever its cutoff.
HistorySucceededWhole(cutoff) ==
    [s \in Sources |-> IF hist[s].status # "none"
                       THEN [hist[s] EXCEPT !.status = "succeeded"] ELSE hist[s]]

\* record_room_history_succeeded: every row of the room the cutoff covers.
HistorySucceeded(cutoff) ==
    [s \in Sources |-> IF hist[s].status # "none" /\ hist[s].cutoff <= cutoff
                       THEN [hist[s] EXCEPT !.status = "succeeded"] ELSE hist[s]]

\* poll_submitted_purge: an unknown task (the homeserver restarted) and an
\* error of the poll itself fail the row, so that the boundary is sent again.
PollEvent(e, error) ==
    /\ purger.pc = "poll" /\ e \in purger.polls
    /\ row' = IF error \/ task[e].state \in {"none", "failed"}
              THEN [row EXCEPT ![e] = Failure(@)]
              ELSE IF task[e].state = "complete" THEN SucceededThrough(e) ELSE row
    /\ purger' = [purger EXCEPT !.polls = @ \ {e}]
    /\ WorkerOnly /\ Quiet /\ UNCHANGED hist

\* poll_submitted_room_history_purge keeps a row whose poll had an error.
PollHistory(s, error) ==
    /\ purger.pc = "poll" /\ s \in purger.hpolls
    /\ hist' = IF error THEN hist
               ELSE IF htask[s].state \in {"none", "failed"} THEN [hist EXCEPT ![s] = Failure(@)]
               ELSE IF htask[s].state = "complete" THEN HistorySucceeded(hist[s].submitted)
               ELSE hist
    /\ purger' = [purger EXCEPT !.hpolls = @ \ {s}]
    /\ WorkerOnly /\ Quiet /\ UNCHANGED row

\* list_due_room_boundaries: the newest due row, unless the room is blocked ...
DueBoundary(e) ==
    /\ row[e].status \in Waits /\ row[e].enq < now
    /\ \A f \in Events : row[f].status \in Waits /\ row[f].enq < now => row[f].enq <= row[e].enq
    /\ ~Blocked
    /\ \A f \in Events : row[f].status # "submitted"
    /\ \A s \in Sources : hist[s].status # "submitted"

\* ... and list_due_room_history_purges: the row that reaches farthest.
DueHistory(s) ==
    /\ hist[s].status \in Waits
    /\ \A q \in Sources : hist[q].status \in Waits => hist[q].cutoff <= hist[s].cutoff
    /\ \A q \in Sources : hist[q].status # "submitted"
    /\ \A e \in Events : row[e].status \notin Blockers \cup {"attempting", "submitted"}

InFlight == Cardinality({e \in Events : row[e].status = "submitted"})
            + Cardinality({s \in Sources : hist[s].status = "submitted"})

\* Mutant: each table counts on the whole allowance.
FreeSlotsEach(taken) == InFlight < MaxInFlight

\* available_purge_slots, after "taken" submissions of this cycle.
FreeSlots(taken) == InFlight + taken < MaxInFlight

\* Both lists are read before anything is submitted.
ListDue ==
    /\ purger.pc = "poll" /\ purger.polls = {} /\ purger.hpolls = {}
    /\ LET due == IF FreeSlots(0) THEN {e \in Events : DueBoundary(e)} ELSE {}
           room == IF due = {} THEN 0 ELSE 1
           old == IF FreeSlots(room) THEN {s \in Sources : DueHistory(s)} ELSE {}
       IN  \E e \in (IF due = {} THEN {0} ELSE due), s \in (IF old = {} THEN {"none"} ELSE old) :
             purger' = [Asleep EXCEPT
                !.pc = IF e # 0 THEN "attempt" ELSE IF s # "none" THEN "hattempt" ELSE "idle",
                !.event = e, !.source = s]
    /\ WorkerOnly /\ Quiet /\ UNCHANGED <<row, hist>>

AttemptEvent ==
    /\ purger.pc = "attempt"
    /\ row' = [row EXCEPT ![purger.event].status = "attempting",
                          ![purger.event].attempts = IF @ < PurgeAttempts THEN @ + 1 ELSE @]
    /\ purger' = [purger EXCEPT !.pc = "post"]
    /\ WorkerOnly /\ Quiet /\ UNCHANGED hist

\* A forced purge is bounded by the time its message was stored, in which later
\* events may have come; any other by its event.
UpTo(e) == IF row[e].kind = "forced"
           THEN {b \in Events : b >= e /\ arrived[b] # 0 /\ arrived[b] <= arrived[e]} ELSE {e}

\* Mutant: the cycle ends on the event it has just handled.
AfterEventKept ==
    [purger EXCEPT !.pc = IF @ = "post" /\ purger.source # "none" THEN "hattempt" ELSE "idle"]

\* The histories of the cycle come after its events.
AfterEvent == [purger EXCEPT !.pc = IF @ = "post" /\ purger.source # "none" THEN "hattempt" ELSE "idle",
                             !.event = 0]
Gone(e) == row[e].kind # "forced" /\ e <= purgedTo
NewerSucceeded(e) == \E f \in Events : f > e /\ row[f].status = "succeeded" /\ row[f].msg

\* submit_purge: the homeserver accepts, and the row learns the task's id ...
PostEvent(b) ==
    /\ purger.pc = "post" /\ ~Gone(purger.event) /\ b \in UpTo(purger.event)
    /\ task' = [task EXCEPT ![purger.event] = [state |-> "active", upTo |-> b]]
    /\ row' = [row EXCEPT ![purger.event].status = "submitted", ![purger.event].kind = "purge"]
    /\ purger' = AfterEvent
    /\ WorkerOnly /\ UNCHANGED <<hist, htask, stray, purgedTo>>

\* ... or it accepts and the answer is lost, or it refuses ...
PostEventFails(b, lost) ==
    /\ purger.pc = "post" /\ ~Gone(purger.event) /\ b \in UpTo(purger.event)
    /\ stray' = IF lost THEN stray \cup {b} ELSE stray
    /\ row' = [row EXCEPT ![purger.event] = Failure(@)]
    /\ purger' = AfterEvent
    /\ WorkerOnly /\ UNCHANGED <<hist, task, htask, purgedTo>>

\* ... or the boundary is gone, which counts if a newer boundary succeeded.
PostEventGone ==
    /\ purger.pc = "post" /\ Gone(purger.event)
    /\ row' = IF NewerSucceeded(purger.event) THEN SucceededThrough(purger.event)
              ELSE [row EXCEPT ![purger.event] = Failure(@)]
    /\ purger' = AfterEvent
    /\ WorkerOnly /\ Quiet /\ UNCHANGED hist

AttemptHistory ==
    /\ purger.pc = "hattempt"
    /\ hist' = [hist EXCEPT ![purger.source].status = "attempting",
                            ![purger.source].attempts = IF @ < PurgeAttempts THEN @ + 1 ELSE @]
    /\ purger' = [purger EXCEPT !.pc = "hpost"]
    /\ WorkerOnly /\ Quiet /\ UNCHANGED row

\* The events a cutoff covers; the homeserver says so when there are none left.
Covered(cutoff) == {e \in Events : arrived[e] # 0 /\ arrived[e] <= cutoff}
LastCovered(cutoff) == Cardinality(Covered(cutoff))
Clean(cutoff) == LastCovered(cutoff) <= purgedTo

PostHistory(accepted, lost) ==
    /\ purger.pc = "hpost"
    /\ LET s == purger.source
           c == hist[s].cutoff
       IN  /\ ~Clean(c)
           /\ hist' = [hist EXCEPT ![s] = IF accepted /\ ~lost
                          THEN [@ EXCEPT !.status = "submitted", !.submitted = c] ELSE Failure(@)]
           /\ htask' = IF accepted /\ ~lost
                       THEN [htask EXCEPT ![s] = [state |-> "active", upTo |-> LastCovered(c)]]
                       ELSE htask
           /\ stray' = IF accepted /\ lost THEN stray \cup {LastCovered(c)} ELSE stray
    /\ purger' = Asleep
    /\ WorkerOnly /\ UNCHANGED <<row, task, purgedTo>>

PostHistoryClean ==
    /\ purger.pc = "hpost"
    /\ LET c == hist[purger.source].cutoff
       IN  /\ Clean(c)
           /\ hist' = [s \in Sources |->
                 IF hist[s].status # "none" /\ hist[s].cutoff <= c
                 THEN [hist[s] EXCEPT !.status = "succeeded",
                                      !.submitted = IF c > @ THEN c ELSE @] ELSE hist[s]]
    /\ purger' = Asleep
    /\ WorkerOnly /\ Quiet /\ UNCHANGED row

PurgerStep ==
    \/ \E stale, cooled \in SUBSET Events, rested \in SUBSET Sources : StartCycle(stale, cooled, rested)
    \/ \E e \in Events : Backfill(e)
    \/ \E portal, server \in BOOLEAN : Census(portal, server)
    \/ \E e \in Events, error \in BOOLEAN : PollEvent(e, error)
    \/ \E s \in Sources, error \in BOOLEAN : PollHistory(s, error)
    \/ ListDue \/ AttemptEvent \/ AttemptHistory \/ PostEventGone \/ PostHistoryClean
    \/ \E b \in Events : PostEvent(b)
    \/ \E b \in Events, lost \in BOOLEAN : PostEventFails(b, lost)
    \/ \E accepted, lost \in BOOLEAN : PostHistory(accepted, lost)

-----------------------------------------------------------------------------
(* The homeserver, the clock and the process                               *)

Raised(b) == purgedTo' = IF b > purgedTo THEN b ELSE purgedTo

Ended(t, ok) == [t EXCEPT !.state = IF ok THEN "complete" ELSE "failed"]
OutsideOnly == UNCHANGED <<forced, arrived, class, stored, row, hist, late>>

TaskRuns(e, ok) ==
    /\ task[e].state = "active"
    /\ task' = [task EXCEPT ![e] = Ended(@, ok)]
    /\ IF ok THEN Raised(task[e].upTo) ELSE UNCHANGED purgedTo
    /\ OutsideOnly /\ UNCHANGED <<now, handler, purger, htask, stray, faults>>

HistoryTaskRuns(s, ok) ==
    /\ htask[s].state = "active"
    /\ htask' = [htask EXCEPT ![s] = Ended(@, ok)]
    /\ IF ok THEN Raised(htask[s].upTo) ELSE UNCHANGED purgedTo
    /\ OutsideOnly /\ UNCHANGED <<now, handler, purger, task, stray, faults>>

StrayRuns(b) ==
    /\ b \in stray
    /\ stray' = stray \ {b}
    /\ Raised(b)
    /\ OutsideOnly /\ UNCHANGED <<now, handler, purger, task, htask, faults>>

\* No handler takes a whole period to decide.
PurgeTick ==
    /\ now < MaxTime
    /\ \A e \in Events : handler[e] # "arrived"
    /\ now' = now + 1
    /\ OutsideOnly /\ UNCHANGED <<handler, purger, task, htask, stray, purgedTo, faults>>

\* A restart of the backend, or of the homeserver, which forgets its tasks.
PurgeRestart(backend) ==
    /\ faults < MaxPurgeFaults
    /\ faults' = faults + 1
    /\ handler' = IF backend
                  THEN [e \in Events |-> IF handler[e] \in {"none", "legacy"} THEN handler[e]
                                                     ELSE "done"]
                  ELSE handler
    /\ purger' = IF backend THEN Asleep ELSE purger
    /\ task' = IF backend THEN task ELSE [e \in Events |-> NoTask]
    /\ htask' = IF backend THEN htask ELSE [s \in Sources |-> NoTask]
    /\ OutsideOnly /\ UNCHANGED <<now, stray, purgedTo>>

PurgeNext ==
    \/ \E e \in Events : IngestStep(e)
    \/ PurgerStep
    \/ \E e \in Events, ok \in BOOLEAN : TaskRuns(e, ok)
    \/ \E s \in Sources, ok \in BOOLEAN : HistoryTaskRuns(s, ok)
    \/ \E b \in Events : StrayRuns(b)
    \/ PurgeTick
    \/ \E backend \in BOOLEAN : PurgeRestart(backend)

PurgeSpec == PurgeInit /\ [][PurgeNext]_purgeVars

-----------------------------------------------------------------------------
(* Properties                                                              *)

\* An event that is kept behind a blocker, and was never enqueued as stored,
\* stays on the homeserver: neither a boundary nor a census purge reaches over it
\* (utils/bridge.rs: "event retained because ontology persistence was not
\* proven").  The purge looks at the blockers once, when it lists what is due: an
\* event whose first handler died without a row, and which a delivery a period
\* later blocks, may be in the range of a purge that is under way.
UnprovenIsKept ==
    [][\A e \in Events : purgedTo < e /\ e <= purgedTo' /\ row[e].status \in Blockers
          => row[e].msg \/ e \in late]_purgeVars

\* A room history recorded as purged is gone up to its cutoff, although rows of
\* several sources complete each other and tasks are lost.
HistoryIsGone ==
    \A s \in Sources : hist[s].status = "succeeded" => LastCovered(hist[s].cutoff) <= purgedTo

\* At most MaxInFlight tasks are known to run, whichever table they come from.
InFlightIsBounded == InFlight <= MaxInFlight

=============================================================================
