-------------------------- MODULE UsageOutboxProofs --------------------------
(***************************************************************************)
(* Proofs about UsageOutbox, for every number of turns, messages, flushes, *)
(* restarts and late leases.                                               *)
(***************************************************************************)
EXTENDS UsageOutbox, TLAPS

-----------------------------------------------------------------------------
(* Type correctness *)

Event == [status : {"none", "pending", "sending", "failed", "sent"}, due : BOOLEAN,
          verdict : {"unverified", "matched", "unmatched", "missing"}]
Flush == [pc : {"idle", "claim", "ingest", "ok", "error"}, todo : SUBSET Tx, batch : SUBSET Tx]

\* The absent event and the flush at rest have their types.
LEMMA OutboxEmptyTyped == NoEvent \in Event /\ Resting \in Flush
BY DEF NoEvent, Event, Resting, Flush

\* enqueue_usage leaves typed events, touches no other transaction and never
\* takes an event back.
LEMMA EnqueuedFacts ==
  ASSUME event \in [Tx -> Event], NEW t \in Tx
  PROVE  /\ Enqueued(t) \in [Tx -> Event]
         /\ Enqueued(t)[t].status # "none"
         /\ \A x \in Tx : x # t => Enqueued(t)[x] = event[x]
         /\ \A x \in Tx : event[x].status # "none" => Enqueued(t)[x] = event[x]
         /\ \A x \in Tx : Enqueued(t)[x].status = "sent" => event[x].status = "sent"
<1> DEFINE new == IF event[t].status = "none"
                  THEN [event[t] EXCEPT !.status = "pending", !.due = TRUE] ELSE event[t]
<1>1. /\ new \in Event /\ new.status # "none"
      /\ event[t].status # "none" => new = event[t]
      /\ new.status = "sent" => event[t].status = "sent"
  BY DEF Event
<1>2. Enqueued(t) = [event EXCEPT ![t] = new]
  BY DEF Enqueued
<1> QED
  BY <1>1, <1>2

\* An event that is claimed or that failed waits again and keeps its verdict.
LEMMA RestatusedFacts ==
  ASSUME event \in [Tx -> Event], NEW t \in Tx,
         NEW s \in {"none", "pending", "sending", "failed", "sent"}
  PROVE  /\ [event EXCEPT ![t].status = s, ![t].due = FALSE] \in [Tx -> Event]
         /\ [event EXCEPT ![t].status = s, ![t].due = FALSE][t].status = s
         /\ \A x \in Tx : x # t =>
               [event EXCEPT ![t].status = s, ![t].due = FALSE][x] = event[x]
<1> DEFINE new == [event[t] EXCEPT !.status = s, !.due = FALSE]
<1>1. [event EXCEPT ![t].status = s, ![t].due = FALSE] = [event EXCEPT ![t] = new]
  BY DEF Event
<1>2. new \in Event /\ new.status = s
  BY DEF Event
<1> QED
  BY <1>1, <1>2

\* A flush that has marked one event of its batch still has its type, and its
\* batch has lost nothing but that event.
LEMMA MarkedFacts ==
  ASSUME flush \in [Flushes -> Flush], NEW f \in Flushes, NEW t \in Tx, Marked(f, t)
  PROVE  /\ flush' \in [Flushes -> Flush]
         /\ \A g \in Flushes : g # f => flush'[g] = flush[g]
         /\ flush'[f].pc \in {"idle", flush[f].pc}
         /\ flush'[f].batch \subseteq flush[f].batch
<1> DEFINE rest == flush[f].batch \ {t}
           new == IF rest = {} THEN Resting ELSE [flush[f] EXCEPT !.batch = rest]
<1>1. new \in Flush /\ new.pc \in {"idle", flush[f].pc} /\ new.batch \subseteq flush[f].batch
  BY DEF Flush, Resting
<1>2. flush' = [flush EXCEPT ![f] = new]
  BY DEF Marked
<1> QED
  BY <1>1, <1>2

\* The turns and callbacks keep the types.
LEMMA TurnTyped ==
  ASSUME OutboxTypeOK,
         (\E t \in Turns : TurnStep(t)) \/ (\E t \in Messages : MessageCallback(t))
  PROVE  OutboxTypeOK'
<1> USE DEF OutboxTypeOK, TurnOnly
<1>0. event \in [Tx -> Event] /\ Turns \subseteq Tx /\ Messages \subseteq Tx
  BY DEF Event, Tx
<1>1. ASSUME NEW t \in Turns, BeginIntent(t)
      PROVE  OutboxTypeOK'
  BY <1>1 DEF BeginIntent
<1>2. ASSUME NEW t \in Turns, FinalizeIntent(t)
      PROVE  OutboxTypeOK'
  <2>1. event' \in [Tx -> Event]
    BY <1>0, <1>2, EnqueuedFacts DEF FinalizeIntent
  <2> QED
    BY <1>2, <2>1 DEF FinalizeIntent, Event
<1>3. ASSUME NEW t \in Turns, NEW paid \in BOOLEAN, NEW ok \in BOOLEAN, RunAgent(t, paid, ok)
      PROVE  OutboxTypeOK'
  BY <1>3 DEF RunAgent
<1>4. ASSUME NEW t \in Messages, MessageCallback(t)
      PROVE  OutboxTypeOK'
  <2>1. event' \in [Tx -> Event]
    BY <1>0, <1>4, EnqueuedFacts DEF MessageCallback
  <2> QED
    BY <1>4, <2>1 DEF MessageCallback, Event
<1> QED
  BY <1>1, <1>2, <1>3, <1>4 DEF TurnStep

\* The flushes keep the types.
LEMMA FlushTyped ==
  ASSUME OutboxTypeOK, NEW f \in Flushes, FlushStep(f)
  PROVE  OutboxTypeOK'
<1> USE DEF OutboxTypeOK, FlushOnly
<1>0. event \in [Tx -> Event] /\ flush \in [Flushes -> Flush]
  BY DEF Event, Flush
<1>1. CASE ReadDue(f)
  <2>1. flush' \in [Flushes -> Flush]
    BY <1>0, <1>1 DEF ReadDue, Flush
  <2> QED
    BY <1>1, <2>1 DEF ReadDue, Flush
<1>2. CASE StartIngest(f)
  <2>1. (IF flush[f].batch = {} THEN Resting ELSE [flush[f] EXCEPT !.pc = "ingest"]) \in Flush
    BY <1>0, OutboxEmptyTyped DEF Flush
  <2>2. flush' \in [Flushes -> Flush]
    BY <1>0, <1>2, <2>1 DEF StartIngest
  <2> QED
    BY <1>2, <2>2 DEF StartIngest, Flush
<1>3. ASSUME NEW t \in Tx, ClaimDue(f, t)
      PROVE  OutboxTypeOK'
  <2>1. [event EXCEPT ![t].status = "sending", ![t].due = FALSE] \in [Tx -> Event]
    BY <1>0, RestatusedFacts
  <2>2. flush' \in [Flushes -> Flush]
    <3> DEFINE todo == flush[f].todo \ {t}
               batch == IF Due(t) THEN flush[f].batch \cup {t} ELSE flush[f].batch
    <3>1. flush' = [flush EXCEPT ![f] = [flush[f] EXCEPT !.todo = todo, !.batch = batch]]
      BY <1>0, <1>3 DEF ClaimDue, Flush
    <3>2. [flush[f] EXCEPT !.todo = todo, !.batch = batch] \in Flush
      BY <1>0 DEF Flush
    <3> QED
      BY <1>0, <3>1, <3>2
  <2> QED
    BY <1>3, <2>1, <2>2 DEF ClaimDue, Event, Flush
<1>4. ASSUME NEW t \in Tx, MarkSent(f, t) \/ MarkFailed(f, t)
      PROVE  OutboxTypeOK'
  <2>1. event' \in [Tx -> Event]
    <3>1. [event EXCEPT ![t].status = "failed", ![t].due = FALSE] \in [Tx -> Event]
      BY <1>0, RestatusedFacts
    <3>2. [event EXCEPT ![t].status = "sent"] \in [Tx -> Event]
      BY <1>0 DEF Event
    <3> QED
      BY <1>4, <3>1, <3>2 DEF MarkSent, MarkFailed
  <2>2. flush' \in [Flushes -> Flush]
    BY <1>0, <1>4, MarkedFacts DEF MarkSent, MarkFailed
  <2> QED
    BY <1>4, <2>1, <2>2 DEF MarkSent, MarkFailed, Event, Flush
<1>5. ASSUME NEW t \in Tx, WriteFails(f, t)
      PROVE  OutboxTypeOK'
  <2>1. flush' \in [Flushes -> Flush]
    BY <1>0, <1>5, MarkedFacts DEF WriteFails
  <2>2. crashes' \in 0..MaxCrashes
    BY <1>5, OutboxBoundsAssumption DEF WriteFails
  <2> QED
    BY <1>5, <2>1, <2>2 DEF WriteFails, Flush
<1>6. ASSUME NEW served \in BOOLEAN, NEW answered \in BOOLEAN, Ingest(f, served, answered)
      PROVE  OutboxTypeOK'
  <2>1. flush' \in [Flushes -> Flush] /\ ingested' \subseteq Tx
    BY <1>0, <1>6 DEF Ingest, Flush
  <2> QED
    BY <1>6, <2>1 DEF Ingest, Flush
<1> QED
  BY <1>1, <1>2, <1>3, <1>4, <1>5, <1>6 DEF FlushStep

\* The clock, reconcile_usage_outbox and a restart keep the types.
LEMMA OutboxEnvTyped ==
  ASSUME OutboxTypeOK,
         \/ \E t \in Tx : BecomesDue(t)
         \/ \E t \in Tx, v \in {"matched", "unmatched", "missing"} : Reconcile(t, v)
         \/ Crash
  PROVE  OutboxTypeOK'
<1> USE DEF OutboxTypeOK, FlushOnly
<1>0. event \in [Tx -> Event] /\ flush \in [Flushes -> Flush]
  BY DEF Event, Flush
<1>1. ASSUME NEW t \in Tx, BecomesDue(t)
      PROVE  OutboxTypeOK'
  <2>1. event' \in [Tx -> Event]
    BY <1>0, <1>1 DEF BecomesDue, Event
  <2>2. late' \in 0..MaxLate
    BY <1>1, OutboxBoundsAssumption DEF BecomesDue
  <2> QED
    BY <1>1, <2>1, <2>2 DEF BecomesDue, Event
<1>2. ASSUME NEW t \in Tx, NEW v \in {"matched", "unmatched", "missing"}, Reconcile(t, v)
      PROVE  OutboxTypeOK'
  <2>1. event' \in [Tx -> Event]
    BY <1>0, <1>2 DEF Reconcile, Event
  <2> QED
    BY <1>2, <2>1 DEF Reconcile, Event
<1>3. CASE Crash
  <2>1. flush' \in [Flushes -> Flush]
    BY <1>3, OutboxEmptyTyped DEF Crash
  <2>2. crashes' \in 0..MaxCrashes
    BY <1>3, OutboxBoundsAssumption DEF Crash
  <2>3. turn' \in [Turns -> {"idle", "intended", "ran", "answered", "refused"}]
    BY <1>3 DEF Crash
  <2>4. cost' \in [Turns -> BOOLEAN]
    <3>1. PICK T : cost' = [t \in Turns |-> cost[t] \/ t \in T]
      BY <1>3, Zenon DEF Crash
    <3> QED
      BY <3>1, Zenon
  <2> QED
    BY <1>3, <2>1, <2>2, <2>3, <2>4 DEF Crash, Flush
<1> QED
  BY <1>1, <1>2, <1>3

\* The usage tables, turns and flushes keep their types (begin_usage_intent,
\* finalize_usage_intent, enqueue_usage and flush_usage_outbox).
THEOREM OutboxTypeCorrect == OutboxSpec => []OutboxTypeOK
<1>1. OutboxInit => OutboxTypeOK
  BY OutboxEmptyTyped, OutboxBoundsAssumption DEF OutboxInit, OutboxTypeOK, Event, Flush
<1>2. OutboxTypeOK /\ [OutboxNext]_outboxVars => OutboxTypeOK'
  <2> SUFFICES ASSUME OutboxTypeOK, [OutboxNext]_outboxVars PROVE OutboxTypeOK'
    OBVIOUS
  <2>1. CASE OutboxNext
    BY <2>1, TurnTyped, FlushTyped, OutboxEnvTyped DEF OutboxNext
  <2>2. CASE UNCHANGED outboxVars
    BY <2>2 DEF outboxVars, OutboxTypeOK
  <2> QED
    BY <2>1, <2>2
<1> QED
  BY <1>1, <1>2, PTL DEF OutboxSpec

-----------------------------------------------------------------------------
(* What a turn has cost is on record *)

\* How far a turn has come decides where its cost is recorded: nowhere before
\* begin_usage_intent, in the open intent until finalize_usage_intent (a turn
\* that fails or is lost to a restart leaves it open), then in an event.
CostInv ==
    \A t \in Turns :
       /\ turn[t] = "idle" => ~cost[t]
       /\ turn[t] \in {"intended", "ran", "refused"} => intent[t] = "open"
       /\ turn[t] = "answered" /\ cost[t] => event[t].status # "none"

\* CostInv is enough.
LEMMA CostInvSuffices == OutboxTypeOK /\ CostInv => CostIsOnRecord
BY DEF OutboxTypeOK, CostInv, CostIsOnRecord

\* No step of the flush, the clock or reconcile_usage_outbox takes an event back.
LEMMA EventsStay ==
  ASSUME OutboxTypeOK, OutboxNext
  PROVE  \A x \in Tx : event[x].status # "none" => event'[x].status # "none"
<1> USE DEF FlushOnly, TurnOnly
<1>0. event \in [Tx -> Event] /\ Turns \subseteq Tx /\ Messages \subseteq Tx
  BY DEF OutboxTypeOK, Event, Tx
<1>1. ASSUME NEW t \in Turns, TurnStep(t)
      PROVE  \A x \in Tx : event[x].status # "none" => event'[x].status # "none"
  BY <1>0, <1>1, EnqueuedFacts DEF TurnStep, BeginIntent, RunAgent, FinalizeIntent
<1>2. ASSUME NEW t \in Messages, MessageCallback(t)
      PROVE  \A x \in Tx : event[x].status # "none" => event'[x].status # "none"
  BY <1>0, <1>2, EnqueuedFacts DEF MessageCallback
<1>3. ASSUME NEW f \in Flushes, FlushStep(f)
      PROVE  \A x \in Tx : event[x].status # "none" => event'[x].status # "none"
  <2>1. ASSUME NEW t \in Tx, ClaimDue(f, t)
        PROVE  \A x \in Tx : event[x].status # "none" => event'[x].status # "none"
    <3> DEFINE new == [event EXCEPT ![t].status = "sending", ![t].due = FALSE]
    <3>1. new[t].status = "sending" /\ \A x \in Tx : x # t => new[x] = event[x]
      BY <1>0, RestatusedFacts
    <3>2. event' = new \/ event' = event
      BY <2>1 DEF ClaimDue
    <3> QED
      BY <3>1, <3>2
  <2>2. ASSUME NEW t \in Tx, MarkSent(f, t)
        PROVE  \A x \in Tx : event[x].status # "none" => event'[x].status # "none"
    BY <1>0, <2>2 DEF MarkSent, Event
  <2>3. ASSUME NEW t \in Tx, MarkFailed(f, t)
        PROVE  \A x \in Tx : event[x].status # "none" => event'[x].status # "none"
    <3> DEFINE new == [event EXCEPT ![t].status = "failed", ![t].due = FALSE]
    <3>1. new[t].status = "failed" /\ \A x \in Tx : x # t => new[x] = event[x]
      BY <1>0, RestatusedFacts
    <3>2. event' = new
      BY <2>3 DEF MarkFailed
    <3> QED
      BY <3>1, <3>2
  <2> QED
    BY <1>3, <2>1, <2>2, <2>3 DEF FlushStep, ReadDue, StartIngest, WriteFails, Ingest
<1>4. ASSUME NEW t \in Tx, BecomesDue(t)
      PROVE  \A x \in Tx : event[x].status # "none" => event'[x].status # "none"
  BY <1>0, <1>4 DEF BecomesDue, Event
<1>5. ASSUME NEW t \in Tx, NEW v \in {"matched", "unmatched", "missing"}, Reconcile(t, v)
      PROVE  \A x \in Tx : event[x].status # "none" => event'[x].status # "none"
  BY <1>0, <1>5 DEF Reconcile, Event
<1> QED
  BY <1>1, <1>2, <1>3, <1>4, <1>5 DEF OutboxNext, Crash

\* A turn's own steps record what it costs.
LEMMA TurnKeepsCost ==
  ASSUME OutboxTypeOK, CostInv, NEW t \in Turns, TurnStep(t)
  PROVE  CostInv'
<1> USE DEF OutboxTypeOK, CostInv
<1>0. event \in [Tx -> Event] /\ Turns \subseteq Tx
  BY DEF Event, Tx
<1>1. CASE BeginIntent(t)
  BY <1>1 DEF BeginIntent
<1>2. CASE FinalizeIntent(t)
  <2>1. CASE cost[t]
    <3>1. /\ event'[t].status # "none"
          /\ \A x \in Turns : x # t => event'[x] = event[x]
      BY <1>0, <1>2, <2>1, EnqueuedFacts DEF FinalizeIntent
    <3> QED
      BY <1>2, <2>1, <3>1 DEF FinalizeIntent
  <2>2. CASE ~cost[t]
    BY <1>2, <2>2 DEF FinalizeIntent
  <2> QED
    BY <2>1, <2>2
<1>3. ASSUME NEW paid \in BOOLEAN, NEW ok \in BOOLEAN, RunAgent(t, paid, ok)
      PROVE  CostInv'
  BY <1>3 DEF RunAgent
<1> QED
  BY <1>1, <1>2, <1>3 DEF TurnStep

\* A restart leaves the intents of the turns it interrupts open.
LEMMA CrashKeepsCost ==
  ASSUME OutboxTypeOK, CostInv, Crash
  PROVE  CostInv'
<1>1. PICK T \in SUBSET {t \in Turns : turn[t] = "intended"} :
         cost' = [t \in Turns |-> cost[t] \/ t \in T]
  BY DEF Crash
<1> SUFFICES ASSUME NEW t \in Turns
             PROVE  /\ turn'[t] = "idle" => ~cost'[t]
                    /\ turn'[t] \in {"intended", "ran", "refused"} => intent'[t] = "open"
                    /\ turn'[t] = "answered" /\ cost'[t] => event'[t].status # "none"
  BY DEF CostInv
<1>2. turn'[t] = IF turn[t] \in {"intended", "ran"} THEN "refused" ELSE turn[t]
  BY DEF Crash
<1>3. turn[t] # "intended" => (cost'[t] <=> cost[t])
  BY <1>1
<1> QED
  BY <1>2, <1>3 DEF Crash, CostInv, OutboxTypeOK

\* No step loses the record.
LEMMA CostInvInductive ==
  ASSUME OutboxTypeOK, CostInv, OutboxNext
  PROVE  CostInv'
<1>1. CASE \E t \in Turns : TurnStep(t)
  BY <1>1, TurnKeepsCost
<1>2. CASE Crash
  BY <1>2, CrashKeepsCost
<1>3. CASE /\ UNCHANGED <<intent, turn, cost>>
  BY <1>3, EventsStay DEF CostInv, Tx
<1>4. \/ \E t \in Turns : TurnStep(t)
      \/ Crash
      \/ UNCHANGED <<intent, turn, cost>>
  <2>1. ASSUME NEW t \in Messages, MessageCallback(t)
        PROVE  UNCHANGED <<intent, turn, cost>>
    BY <2>1 DEF MessageCallback
  <2>2. ASSUME NEW f \in Flushes, FlushStep(f)
        PROVE  UNCHANGED <<intent, turn, cost>>
    BY <2>2 DEF FlushStep, ReadDue, StartIngest, ClaimDue, MarkSent, MarkFailed, WriteFails,
                Ingest, FlushOnly
  <2>3. ASSUME NEW t \in Tx, BecomesDue(t)
        PROVE  UNCHANGED <<intent, turn, cost>>
    BY <2>3 DEF BecomesDue
  <2>4. ASSUME NEW t \in Tx, NEW v \in {"matched", "unmatched", "missing"}, Reconcile(t, v)
        PROVE  UNCHANGED <<intent, turn, cost>>
    BY <2>4 DEF Reconcile, FlushOnly
  <2> QED
    BY <2>1, <2>2, <2>3, <2>4 DEF OutboxNext
<1> QED
  BY <1>1, <1>2, <1>3, <1>4

\* What a turn has cost is on record at every moment, whatever fails or restarts
\* between begin_usage_intent, the agent loop and finalize_usage_intent.
THEOREM CostIsRecorded == OutboxSpec => []CostIsOnRecord
<1>1. OutboxInit => CostInv
  BY DEF OutboxInit, CostInv
<1>2. OutboxTypeOK /\ CostInv /\ [OutboxNext]_outboxVars => CostInv'
  <2>1. UNCHANGED outboxVars /\ CostInv => CostInv'
    BY DEF outboxVars, CostInv
  <2> QED
    BY <2>1, CostInvInductive
<1> QED
  BY <1>1, <1>2, OutboxTypeCorrect, CostInvSuffices, PTL DEF OutboxSpec

-----------------------------------------------------------------------------
(* An event is marked sent only when the provider has it *)

\* A flush that may mark its batch sent has had it accepted.
SentInv ==
    /\ SentWasIngested
    /\ \A f \in Flushes : flush[f].pc = "ok" => flush[f].batch \subseteq ingested

\* Marking an event of such a batch, and any other step of a flush.
LEMMA FlushKeepsSent ==
  ASSUME OutboxTypeOK, SentInv, NEW f \in Flushes, FlushStep(f)
  PROVE  SentInv'
<1> USE DEF SentInv, SentWasIngested, FlushOnly
<1>0. event \in [Tx -> Event] /\ flush \in [Flushes -> Flush] /\ ingested \subseteq Tx
  BY DEF OutboxTypeOK, Event, Flush
<1>1. CASE ReadDue(f)
  BY <1>0, <1>1 DEF ReadDue
<1>2. CASE StartIngest(f)
  <2>1. flush'[f].pc # "ok"
    BY <1>0, <1>2 DEF StartIngest, Resting, Flush
  <2> QED
    BY <1>0, <1>2, <2>1 DEF StartIngest
<1>3. ASSUME NEW t \in Tx, ClaimDue(f, t)
      PROVE  SentInv'
  <2>1. \A x \in Tx : event'[x].status = "sent" => event[x].status = "sent"
    BY <1>0, <1>3, RestatusedFacts DEF ClaimDue
  <2>2. flush'[f].pc # "ok" /\ \A g \in Flushes : g # f => flush'[g] = flush[g]
    BY <1>0, <1>3 DEF ClaimDue, Flush
  <2> QED
    BY <1>3, <2>1, <2>2 DEF ClaimDue
<1>4. ASSUME NEW t \in Tx, MarkSent(f, t)
      PROVE  SentInv'
  <2>1. \A x \in Tx : event'[x].status = "sent" => event[x].status = "sent" \/ x = t
    BY <1>0, <1>4 DEF MarkSent, Event
  <2>2. t \in ingested /\ ingested' = ingested
    BY <1>4 DEF MarkSent
  <2> QED
    BY <1>0, <1>4, <2>1, <2>2, MarkedFacts DEF MarkSent
<1>5. ASSUME NEW t \in Tx, MarkFailed(f, t)
      PROVE  SentInv'
  <2>1. \A x \in Tx : event'[x].status = "sent" => event[x].status = "sent"
    BY <1>0, <1>5, RestatusedFacts DEF MarkFailed
  <2> QED
    BY <1>0, <1>5, <2>1, MarkedFacts DEF MarkFailed
<1>6. ASSUME NEW t \in Tx, WriteFails(f, t)
      PROVE  SentInv'
  BY <1>0, <1>6, MarkedFacts DEF WriteFails
<1>7. ASSUME NEW served \in BOOLEAN, NEW answered \in BOOLEAN, Ingest(f, served, answered)
      PROVE  SentInv'
  <2>1. /\ ingested \subseteq ingested'
        /\ answered => flush[f].batch \subseteq ingested'
    BY <1>7 DEF Ingest
  <2>2. /\ flush'[f].pc = "ok" => answered
        /\ flush'[f].batch = flush[f].batch
        /\ \A g \in Flushes : g # f => flush'[g] = flush[g]
    BY <1>0, <1>7 DEF Ingest, Flush
  <2> QED
    BY <1>7, <2>1, <2>2 DEF Ingest
<1> QED
  BY <1>1, <1>2, <1>3, <1>4, <1>5, <1>6, <1>7 DEF FlushStep

\* Nothing else marks an event sent.
LEMMA SentInvInductive ==
  ASSUME OutboxTypeOK, SentInv, OutboxNext
  PROVE  SentInv'
<1> USE DEF SentInv, SentWasIngested
<1>0. event \in [Tx -> Event] /\ Turns \subseteq Tx /\ Messages \subseteq Tx
  BY DEF OutboxTypeOK, Event, Tx
<1>1. ASSUME NEW t \in Turns, TurnStep(t)
      PROVE  SentInv'
  BY <1>0, <1>1, EnqueuedFacts DEF TurnStep, BeginIntent, RunAgent, FinalizeIntent, TurnOnly
<1>2. ASSUME NEW t \in Messages, MessageCallback(t)
      PROVE  SentInv'
  BY <1>0, <1>2, EnqueuedFacts DEF MessageCallback, TurnOnly
<1>3. ASSUME NEW t \in Tx, BecomesDue(t)
      PROVE  SentInv'
  BY <1>0, <1>3 DEF BecomesDue, Event
<1>4. ASSUME NEW t \in Tx, NEW v \in {"matched", "unmatched", "missing"}, Reconcile(t, v)
      PROVE  SentInv'
  BY <1>0, <1>4 DEF Reconcile, Event, FlushOnly
<1>5. CASE Crash
  BY <1>5 DEF Crash, Resting
<1> QED
  BY <1>1, <1>2, <1>3, <1>4, <1>5, FlushKeepsSent DEF OutboxNext

\* An event is "sent" only when the provider has accepted it, however many
\* invocations of flush_usage_outbox overlap, lose their answers or are cut off.
THEOREM SentUsageWasIngested == OutboxSpec => []SentWasIngested
<1>1. OutboxInit => SentInv
  BY DEF OutboxInit, SentInv, SentWasIngested, NoEvent, Resting
<1>2. OutboxTypeOK /\ SentInv /\ [OutboxNext]_outboxVars => SentInv'
  <2>1. UNCHANGED outboxVars /\ SentInv => SentInv'
    BY DEF outboxVars, SentInv, SentWasIngested
  <2> QED
    BY <2>1, SentInvInductive
<1>3. SentInv => SentWasIngested
  BY DEF SentInv
<1> QED
  BY <1>1, <1>2, <1>3, OutboxTypeCorrect, PTL DEF OutboxSpec

=============================================================================
