----------------------------- MODULE UsageOutbox -----------------------------
(***************************************************************************)
(* Metered usage: an intent is stored before a paid action, finalized into *)
(* the outbox when its cost is known, and sent to the provider by the      *)
(* flush job, which runs every ten seconds whether or not the last one has *)
(* ended.  Delivery callbacks of SMS providers enqueue usage directly,     *)
(* under the provider's message id.                                        *)
(***************************************************************************)
EXTENDS Naturals, FiniteSets

CONSTANTS
    Turns,         \* transactions of agent turns (web chat, Light Tool)
    Messages,      \* transactions named after an SMS provider's message
    Flushes,       \* invocations of flush_usage_outbox that may run at once
    MaxCrashes,    \* restarts and failing database writes
    MaxLate        \* leases that run out during a flush

ASSUME TxAssumption == Turns \cap Messages = {}
ASSUME OutboxBoundsAssumption == MaxCrashes \in Nat /\ MaxLate \in Nat

Tx == Turns \cup Messages

VARIABLES
    intent,      \* billing_usage_intents
    event,       \* billing_usage_events: status, due, provider_status
    turn,        \* [Turns -> step of the turn]
    cost,        \* the turn has cost the provider's tokens
    flush,       \* [Flushes -> the batch and what became of it]
    ingested,    \* transactions the provider has accepted; it keeps ids unique
    crashes, late

outboxVars == <<intent, event, turn, cost, flush, ingested, crashes, late>>

OutboxTypeOK ==
    /\ intent \in [Turns -> {"none", "open", "finalized", "abandoned"}]
    /\ event \in [Tx -> [status : {"none", "pending", "sending", "failed", "sent"},
                         due : BOOLEAN, verdict : {"unverified", "matched", "unmatched", "missing"}]]
    /\ turn \in [Turns -> {"idle", "intended", "ran", "answered", "refused"}]
    /\ cost \in [Turns -> BOOLEAN]
    /\ flush \in [Flushes -> [pc : {"idle", "claim", "ingest", "ok", "error"},
                              todo : SUBSET Tx, batch : SUBSET Tx]]
    /\ ingested \subseteq Tx
    /\ crashes \in 0..MaxCrashes /\ late \in 0..MaxLate

NoEvent == [status |-> "none", due |-> FALSE, verdict |-> "unverified"]
Resting == [pc |-> "idle", todo |-> {}, batch |-> {}]

OutboxInit ==
    /\ intent = [t \in Turns |-> "none"]
    /\ event = [t \in Tx |-> NoEvent]
    /\ turn = [t \in Turns |-> "idle"]
    /\ cost = [t \in Turns |-> FALSE]
    /\ flush = [f \in Flushes |-> Resting]
    /\ ingested = {}
    /\ crashes = 0 /\ late = 0

\* enqueue_usage: an id that is already there is left alone.
Enqueued(t) == [event EXCEPT ![t] = IF @.status = "none"
                                    THEN [@ EXCEPT !.status = "pending", !.due = TRUE] ELSE @]

-----------------------------------------------------------------------------
(* Turns and callbacks                                                     *)

TurnOnly == UNCHANGED <<flush, ingested, crashes, late>>

\* begin_usage_intent, before the agent is run.
BeginIntent(t) ==
    /\ turn[t] = "idle"
    /\ intent' = [intent EXCEPT ![t] = "open"]
    /\ turn' = [turn EXCEPT ![t] = "intended"]
    /\ TurnOnly
    /\ UNCHANGED <<event, cost>>

\* Mutant: a turn that fails gives its intent up, whatever it has cost.
RunAgentAbandoning(t, paid, ok) ==
    /\ turn[t] = "intended"
    /\ cost' = [cost EXCEPT ![t] = paid]
    /\ turn' = [turn EXCEPT ![t] = IF ok THEN "ran" ELSE "refused"]
    /\ intent' = [intent EXCEPT ![t] = IF ok THEN @ ELSE "abandoned"]
    /\ TurnOnly
    /\ UNCHANGED event

\* The agent loop; it may cost nothing, and may fail after it has cost.
RunAgent(t, paid, ok) ==
    /\ turn[t] = "intended"
    /\ cost' = [cost EXCEPT ![t] = paid]
    /\ turn' = [turn EXCEPT ![t] = IF ok THEN "ran" ELSE "refused"]
    /\ TurnOnly
    /\ UNCHANGED <<intent, event>>

\* finalize_usage_intent: a turn without cost abandons its intent, any other
\* writes the event and closes the intent in one transaction.  Only then is the
\* answer delivered.
FinalizeIntent(t) ==
    /\ turn[t] = "ran"
    /\ intent[t] = "open"
    /\ intent' = [intent EXCEPT ![t] = IF cost[t] THEN "finalized" ELSE "abandoned"]
    /\ event' = IF cost[t] THEN Enqueued(t) ELSE event
    /\ turn' = [turn EXCEPT ![t] = "answered"]
    /\ TurnOnly
    /\ UNCHANGED cost

\* deduct_from_twilio_price in a delivery callback, which providers repeat.
MessageCallback(t) ==
    /\ event' = Enqueued(t)
    /\ event' # event
    /\ TurnOnly
    /\ UNCHANGED <<intent, turn, cost>>

TurnStep(t) ==
    \/ BeginIntent(t) \/ FinalizeIntent(t)
    \/ \E paid, ok \in BOOLEAN : RunAgent(t, paid, ok)

-----------------------------------------------------------------------------
(* flush_usage_outbox and reconcile_usage_outbox                           *)

FlushOnly == UNCHANGED <<intent, turn, cost, crashes, late>>
Waiting == {"pending", "failed", "sending"}
DueUnclaimed(t) == event[t].status \in Waiting \ {"sending"} /\ event[t].due   \* mutant
Due(t) == event[t].status \in Waiting /\ event[t].due

\* claim_due_usage reads the candidates ...
ReadDue(f) ==
    /\ flush[f].pc = "idle"
    /\ \E t \in Tx : Due(t)
    /\ flush' = [flush EXCEPT ![f] = [pc |-> "claim", todo |-> {t \in Tx : Due(t)}, batch |-> {}]]
    /\ FlushOnly
    /\ UNCHANGED <<event, ingested>>

\* ... and takes them one by one, those that still wait.
ClaimDue(f, t) ==
    /\ flush[f].pc = "claim" /\ t \in flush[f].todo
    /\ event' = IF Due(t) THEN [event EXCEPT ![t].status = "sending", ![t].due = FALSE] ELSE event
    /\ flush' = [flush EXCEPT ![f].todo = @ \ {t}, ![f].batch = IF Due(t) THEN @ \cup {t} ELSE @]
    /\ FlushOnly
    /\ UNCHANGED ingested

StartIngest(f) ==
    /\ flush[f].pc = "claim" /\ flush[f].todo = {}
    /\ flush' = [flush EXCEPT ![f] = IF @.batch = {} THEN Resting ELSE [@ EXCEPT !.pc = "ingest"]]
    /\ FlushOnly
    /\ UNCHANGED <<event, ingested>>

\* Mutant: a request that was made counts as accepted.
IngestUnanswered(f, served, answered) ==
    /\ flush[f].pc = "ingest"
    /\ ingested' = IF served THEN ingested \cup flush[f].batch ELSE ingested
    /\ flush' = [flush EXCEPT ![f].pc = "ok"]
    /\ FlushOnly
    /\ UNCHANGED event

\* The provider accepts the batch or not, and the answer may be lost either way.
Ingest(f, served, answered) ==
    /\ flush[f].pc = "ingest"
    /\ answered => served
    /\ ingested' = IF served THEN ingested \cup flush[f].batch ELSE ingested
    /\ flush' = [flush EXCEPT ![f].pc = IF answered THEN "ok" ELSE "error"]
    /\ FlushOnly
    /\ UNCHANGED event

Marked(f, t) ==
    LET rest == flush[f].batch \ {t}
    IN  flush' = [flush EXCEPT ![f] = IF rest = {} THEN Resting ELSE [@ EXCEPT !.batch = rest]]

MarkSent(f, t) ==
    /\ flush[f].pc = "ok" /\ t \in flush[f].batch
    /\ event' = [event EXCEPT ![t].status = "sent"]
    /\ Marked(f, t)
    /\ FlushOnly
    /\ UNCHANGED ingested

\* mark_usage_failed looks at no status either.
MarkFailed(f, t) ==
    /\ flush[f].pc = "error" /\ t \in flush[f].batch
    /\ event' = [event EXCEPT ![t].status = "failed", ![t].due = FALSE]
    /\ Marked(f, t)
    /\ FlushOnly
    /\ UNCHANGED ingested

\* next_attempt_at is reached.  For a claimed event that is the end of its
\* minute; the flush that claimed it has usually ended (late counts the others).
BecomesDue(t) ==
    /\ event[t].status \in Waiting /\ ~event[t].due
    /\ event' = [event EXCEPT ![t].due = TRUE]
    /\ late' = IF \E f \in Flushes : t \in flush[f].batch THEN late + 1 ELSE late
    /\ late' <= MaxLate
    /\ UNCHANGED <<intent, turn, cost, flush, ingested, crashes>>

\* The verdict on a sent event; the search index may lag behind.
Reconcile(t, verdict) ==
    /\ event[t].status = "sent" /\ event[t].verdict # verdict
    /\ verdict # "missing" => t \in ingested
    /\ event' = [event EXCEPT ![t].verdict = verdict]
    /\ FlushOnly
    /\ UNCHANGED <<flush, ingested>>

\* A restart loses turns and flushes; so does, for one of them, a database
\* write that fails.
Crash ==
    /\ crashes < MaxCrashes
    /\ crashes' = crashes + 1
    /\ turn' = [t \in Turns |-> IF turn[t] \in {"intended", "ran"} THEN "refused" ELSE turn[t]]
    /\ flush' = [f \in Flushes |-> Resting]
    /\ \E T \in SUBSET {t \in Turns : turn[t] = "intended"} :
          cost' = [t \in Turns |-> cost[t] \/ t \in T]
    /\ UNCHANGED <<intent, event, ingested, late>>

WriteFails(f, t) ==
    /\ crashes < MaxCrashes
    /\ crashes' = crashes + 1
    /\ flush[f].pc \in {"ok", "error"} /\ t \in flush[f].batch
    /\ Marked(f, t)
    /\ UNCHANGED <<intent, event, turn, cost, ingested, late>>

FlushStep(f) ==
    \/ ReadDue(f) \/ StartIngest(f)
    \/ \E t \in Tx : ClaimDue(f, t) \/ MarkSent(f, t) \/ MarkFailed(f, t) \/ WriteFails(f, t)
    \/ \E served, answered \in BOOLEAN : Ingest(f, served, answered)

OutboxNext ==
    \/ \E t \in Turns : TurnStep(t)
    \/ \E t \in Messages : MessageCallback(t)
    \/ \E f \in Flushes : FlushStep(f)
    \/ \E t \in Tx : BecomesDue(t)
    \/ \E t \in Tx, v \in {"matched", "unmatched", "missing"} : Reconcile(t, v)
    \/ Crash

OutboxSpec == OutboxInit /\ [][OutboxNext]_outboxVars

-----------------------------------------------------------------------------
(* Properties                                                              *)

\* What a turn has cost is on record at every moment: as an event on its way to
\* the provider or, before its answer is delivered, as an intent still open
\* (twilio_sms.rs: a crash leaves an auditable open intent instead of silent
\* revenue loss).
CostIsOnRecord ==
    \A t \in Turns : cost[t] =>
        event[t].status # "none" \/ (intent[t] = "open" /\ turn[t] # "answered")

\* An event is "sent" only when the provider has it, whatever two overlapping
\* flushes, lost answers and restarts did in between.
SentWasIngested == \A t \in Tx : event[t].status = "sent" => t \in ingested

\* Every event reaches the provider, if the provider accepts what is sent to it
\* again and again (an outbox backlog retries, docs/METRONOME_BILLING.md).
UsageArrives == \A t \in Tx : event[t].status # "none" ~> t \in ingested

=============================================================================
