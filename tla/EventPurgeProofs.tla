-------------------------- MODULE EventPurgeProofs --------------------------
(***************************************************************************)
(* Proofs about the purge of bridge events: types, the limit of tasks in   *)
(* flight, histories recorded as purged and the events kept behind a       *)
(* blocker, for every number of events, faults and retention periods.      *)
(***************************************************************************)
EXTENDS EventPurge, FiniteSetTheorems, TLAPS

-----------------------------------------------------------------------------
(* Rows                                                                    *)

RowStatus == {"none", "submitted", "exhausted", "succeeded", "audit_verified", "audit_blocked"}
             \cup Blockers \cup Waits
RowKind == {"none", "discard", "forced", "purge"}

\* The bounds, as numbers.
LEMMA BoundsTyped ==
    /\ EventCount \in Nat /\ MaxTime \in Nat /\ MaxTime > 0 /\ MaxPurgeFaults \in Nat
    /\ PurgeAttempts \in Nat /\ PurgeAttempts > 0 /\ MaxInFlight \in Nat /\ MaxInFlight > 0
    /\ MaxLegacy \in Nat /\ MaxLegacy <= EventCount
    /\ \A e \in Events : e \in Nat /\ e >= 1 /\ e <= EventCount
  BY PurgeBoundsAssumption DEF Events

\* A new row, and a row with other values of the right types.
LEMMA NoRowTyped ==
    NoRow \in Row /\ NoRow.msg = FALSE /\ NoRow.status = "none" /\ NoRow.enq = 0
  BY BoundsTyped DEF Row, NoRow

\* A new row of the purge queue has its type.
LEMMA NewRowTyped ==
    ASSUME NEW s \in RowStatus, NEW k \in RowKind, NEW t \in 0..MaxTime
    PROVE  /\ [NoRow EXCEPT !.status = s, !.kind = k, !.enq = t] \in Row
           /\ [NoRow EXCEPT !.status = s, !.enq = t, !.msg = TRUE] \in Row
           /\ [NoRow EXCEPT !.status = s, !.enq = t, !.msg = TRUE, !.kind = k] \in Row
  <1>1. NoRow \in Row
    BY NoRowTyped
  <1>2. [NoRow EXCEPT !.status = s, !.kind = k, !.enq = t] \in Row
    BY <1>1 DEF Row, RowStatus, RowKind
  <1>3. [NoRow EXCEPT !.status = s, !.enq = t, !.msg = TRUE] \in Row
    BY <1>1 DEF Row, RowStatus, RowKind
  <1>4. [NoRow EXCEPT !.status = s, !.enq = t, !.msg = TRUE, !.kind = k] \in Row
    BY <1>1 DEF Row, RowStatus, RowKind
  <1> QED  BY <1>2, <1>3, <1>4

\* So has a row that is edited.
LEMMA RowEdited ==
    ASSUME NEW r \in Row, NEW s \in RowStatus, NEW n \in 0..PurgeAttempts
    PROVE  /\ [r EXCEPT !.status = s] \in Row
           /\ [r EXCEPT !.status = s, !.attempts = n] \in Row
           /\ [r EXCEPT !.status = s, !.kind = "purge"] \in Row
           /\ [r EXCEPT !.status = s, !.attempts = n, !.msg = TRUE] \in Row
           /\ \A t \in 0..MaxTime : [r EXCEPT !.status = s, !.attempts = n, !.msg = TRUE, !.enq = t] \in Row
           /\ Failure(r) \in Row
  <1>1. [r EXCEPT !.status = s] \in Row
    BY DEF Row, RowStatus
  <1>2. [r EXCEPT !.status = s, !.attempts = n] \in Row
    BY DEF Row, RowStatus
  <1>3. [r EXCEPT !.status = s, !.kind = "purge"] \in Row
    BY DEF Row, RowStatus
  <1>4. [r EXCEPT !.status = s, !.attempts = n, !.msg = TRUE] \in Row
    BY DEF Row, RowStatus
  <1>5. \A t \in 0..MaxTime : [r EXCEPT !.status = s, !.attempts = n, !.msg = TRUE, !.enq = t] \in Row
    BY DEF Row, RowStatus
  <1>6. Failure(r) \in Row
    BY DEF Failure, Row, Waits
  <1> QED  BY <1>1, <1>2, <1>3, <1>4, <1>5, <1>6

-----------------------------------------------------------------------------
(* What a step may do to the row of an event                               *)

\* An unproven blocker is only written to an event without a row, in the period
\* in which it arrived or late; a row never goes, its marks of proof neither.
Becomes(e, r) ==
    /\ r \in Row
    /\ r.enq \in {row[e].enq, now}
    /\ row[e].status # "none" => r.status # "none" /\ (row[e].msg => r.msg)
    /\ row[e].status = "none" /\ r.status # "none" => r.enq = now /\ arrived[e] # 0
    /\ r.status \in Blockers
          => r.msg \/ row[e].status \in Blockers \/ arrived[e] = now \/ e \in late'
    /\ r.status \notin Blockers \cup {"none"} => r.msg \/ class[e] # "payload"
RowsMove == row' \in [Events -> Row] /\ \A e \in Events : Becomes(e, row'[e])

\* Types, and what relates rows, handlers and arrivals.
RowInv ==
    /\ row \in [Events -> Row]
    /\ \A e \in Events :
          /\ handler[e] = "none" <=> arrived[e] = 0
          /\ e \in stored => arrived[e] # 0
          /\ handler[e] = "marked" => class[e] = "payload"
          /\ row[e].enq <= now
          /\ row[e].status # "none" => arrived[e] # 0 /\ arrived[e] <= row[e].enq
          /\ row[e].status \notin Blockers \cup {"none"} => row[e].msg \/ class[e] # "payload"

PurgerRecord ==
    [pc : {"idle", "backfill", "census", "poll", "list", "attempt", "post", "hattempt", "hpost"},
     event : 0..EventCount, source : Sources \cup {"none"},
     polls : SUBSET Events, hpolls : SUBSET Sources]

\* Nothing is left of the cycle when the worker sleeps.
WellFormed(q) ==
    /\ q \in PurgerRecord
    /\ q.pc # "poll" => q.polls = {} /\ q.hpolls = {}
    /\ q.event # 0 <=> q.pc \in {"attempt", "post"}
    /\ q.pc \in {"hattempt", "hpost"} => q.source # "none"
    /\ q.source # "none" => q.pc \in {"attempt", "post", "hattempt", "hpost"}
PurgerInv == WellFormed(purger)

\* Events arrive in timeline order, and no time is ahead of the clock.
ArrivalInv ==
    /\ \A e, f \in Events : f <= e /\ arrived[e] # 0 => arrived[f] # 0 /\ arrived[f] <= arrived[e]
    /\ \A e \in Events : arrived[e] <= now
    /\ \A s \in Sources : hist[s].cutoff < now /\ hist[s].submitted < now

\* A row that is no payload's, or that says its payload was enqueued.
Provable(e) == row[e].status # "none" /\ (row[e].msg \/ class[e] # "payload")

\* Leaving the rows alone is a move of the rows.
LEMMA RowsStay ==
    ASSUME RowInv, UNCHANGED row
    PROVE  RowsMove
  <1>1. ASSUME NEW e \in Events
        PROVE  Becomes(e, row'[e])
    <2>1. row[e] \in Row /\ row[e].enq \in Nat
      BY BoundsTyped DEF RowInv, Row
    <2> QED  BY <2>1 DEF RowInv, Becomes
  <1> QED  BY <1>1 DEF RowsMove, RowInv

\* So is writing one that becomes what a row may become.
LEMMA RowWritten ==
    ASSUME RowInv, NEW e \in Events, NEW r, Becomes(e, r), row' = [row EXCEPT ![e] = r]
    PROVE  RowsMove
  <1>1. r \in Row /\ row \in [Events -> Row]
    BY DEF Becomes, RowInv
  <1>2. row' \in [Events -> Row] /\ \A f \in Events : row'[f] = IF f = e THEN r ELSE row[f]
    BY <1>1
  <1>3. ASSUME NEW f \in Events, f # e
        PROVE  Becomes(f, row[f])
    <2>1. row[f] \in Row /\ row[f].enq \in Nat
      BY BoundsTyped DEF RowInv, Row
    <2> QED  BY <2>1 DEF RowInv, Becomes
  <1> QED  BY <1>2, <1>3 DEF RowsMove

\* The worker changes the status of a row it may work on ...
LEMMA RowWorked ==
    ASSUME RowInv, NEW e \in Events, Provable(e), NEW r \in Row,
           r.msg = row[e].msg, r.enq = row[e].enq, r.status \notin Blockers \cup {"none"}
    PROVE  Becomes(e, r)
  <1>1. row[e] \in Row /\ row[e].enq \in Nat
    BY BoundsTyped DEF RowInv, Row
  <1> QED  BY <1>1 DEF Becomes, Provable

\* ... and whoever enqueues a stored event says so.
LEMMA RowEnqueued ==
    ASSUME RowInv, NEW e \in Events, NEW r \in Row, r.msg = TRUE, r.status \notin Blockers \cup {"none"},
           row[e].status = "none" => r.enq = now /\ arrived[e] # 0,
           r.enq \in {row[e].enq, now}
    PROVE  Becomes(e, r)
  BY DEF Becomes

\* INSERT ... ON CONFLICT DO NOTHING of a blocker or a discarded notice.
LEMMA RowInserted ==
    ASSUME RowInv, ArrivalInv, PurgeTypeOK, NEW e \in Events, arrived[e] # 0,
           NEW s \in {"ingesting", "ingest_failed", "pending"}, NEW k \in RowKind,
           s = "pending" => class[e] # "payload",
           s # "pending" => late' = Blocks(e),
           row' = Inserted(e, s, k)
    PROVE  RowsMove
  <1> DEFINE r == [NoRow EXCEPT !.status = s, !.kind = k, !.enq = now]
  <1>1. row[e] \in Row /\ row[e].enq \in Nat
    BY BoundsTyped DEF RowInv, Row
  <1>2. now \in 1..MaxTime /\ arrived[e] \in Nat /\ arrived[e] <= now
    BY BoundsTyped DEF PurgeTypeOK, ArrivalInv
  <1>3. CASE row[e].status = "none"
    <2>1. r \in Row /\ r.status = s /\ r.enq = now /\ r.msg = FALSE
      <3>1. s \in RowStatus /\ now \in 0..MaxTime
        BY <1>2, BoundsTyped DEF RowStatus, Blockers, Waits
      <3>2. r \in Row
        BY <3>1, NewRowTyped
      <3>3. r.status = s /\ r.enq = now /\ r.msg = FALSE
        BY NoRowTyped DEF Row
      <3> QED  BY <3>2, <3>3
    <2>2. s # "pending" /\ arrived[e] # now => e \in late'
      BY <1>2, <1>3, BoundsTyped DEF Blocks
    <2> HIDE DEF r
    <2>3. Becomes(e, r)
      BY <1>3, <2>1, <2>2 DEF Becomes, Blockers
    <2>4. row' = [row EXCEPT ![e] = r]
      BY <1>3 DEF Inserted, r
    <2> QED  BY <2>3, <2>4, RowWritten
  <1>4. CASE row[e].status # "none"
    <2>1. row' = row
      BY <1>4 DEF Inserted, RowInv
    <2> QED  BY <2>1, RowsStay
  <1> QED  BY <1>3, <1>4

\* The handler of an event moves the rows only that way.
LEMMA IngestRows ==
    ASSUME RowInv, ArrivalInv, PurgeTypeOK, NEW e \in Events, IngestStep(e)
    PROVE  RowsMove
  <1>1. row \in [Events -> Row] /\ row[e] \in Row /\ row[e].enq \in Nat /\ row[e].enq \in 0..MaxTime
    BY BoundsTyped DEF RowInv, Row
  <1>2. now \in 1..MaxTime /\ now \in Nat /\ now \in 0..MaxTime
    BY BoundsTyped DEF PurgeTypeOK
  <1>3. handler[e] # "none" => arrived[e] # 0
    BY DEF RowInv
  <1>4. CASE Dismiss(e)
    BY <1>3, <1>4, RowsStay, RowInserted DEF Dismiss, RowKind
  <1>5. CASE Retain(e)
    BY <1>3, <1>5, RowInserted DEF Retain, RowKind
  <1>6. ASSUME NEW ok \in BOOLEAN, Mark(e, ok)
        PROVE  RowsMove
    BY <1>3, <1>6, RowsStay, RowInserted DEF Mark, RowKind
  <1>7. CASE StoreFails(e)
    <2>1. CASE row[e].status = "none"
      BY <1>7, <2>1, RowsStay DEF StoreFails
    <2>2. CASE row[e].status # "none"
      <3> DEFINE r == [row[e] EXCEPT !.status = "ingest_failed"]
      <3>1. row' = [row EXCEPT ![e] = r]
        BY <1>1, <1>7, <2>2 DEF StoreFails
      <3>2. r \in Row /\ r.status = "ingest_failed" /\ r.msg = row[e].msg /\ r.enq = row[e].enq
        BY <1>1 DEF Row, Blockers
      <3> HIDE DEF r
      <3>3. row[e].status \in Blockers \/ row[e].msg
        BY <1>7, <2>2 DEF StoreFails, RowInv
      <3>4. Becomes(e, r)
        BY <1>1, <2>2, <3>2, <3>3 DEF Becomes, Blockers
      <3> QED  BY <3>1, <3>4, RowWritten
    <2> QED  BY <2>1, <2>2
  <1>8. CASE Enqueue(e)
    <2>1. CASE row[e].status = "none"
      <3> DEFINE r == [NoRow EXCEPT !.status = "pending", !.enq = now, !.msg = TRUE]
      <3>1. r \in Row /\ r.status = "pending" /\ r.msg = TRUE /\ r.enq = now
        <4>1. "pending" \in RowStatus /\ "none" \in RowKind
          BY DEF RowStatus, RowKind, Waits
        <4>2. r \in Row
          BY <1>2, <4>1, NewRowTyped
        <4>3. r.status = "pending" /\ r.msg = TRUE /\ r.enq = now
          BY NoRowTyped DEF Row
        <4> QED  BY <4>2, <4>3
      <3>2. row' = [row EXCEPT ![e] = r]
        BY <1>8, <2>1 DEF Enqueue
      <3> HIDE DEF r
      <3>3. Becomes(e, r)
        BY <1>3, <1>8, <2>1, <3>1, RowEnqueued DEF Enqueue, Blockers
      <3> QED  BY <3>2, <3>3, RowWritten
    <2>2. CASE row[e].status # "none"
      <3> DEFINE r == [row[e] EXCEPT !.status = "pending", !.attempts = 0, !.msg = TRUE]
      <3>1. r \in Row
        <4>1. 0 \in 0..PurgeAttempts /\ "pending" \in Waits
          BY BoundsTyped DEF Waits
        <4> QED  BY <1>1, <4>1 DEF Row
      <3>2. r.status = "pending" /\ r.msg = TRUE /\ r.enq = row[e].enq
        BY <1>1 DEF Row
      <3>3. row' = [row EXCEPT ![e] = r]
        BY <1>8, <2>2 DEF Enqueue
      <3> HIDE DEF r
      <3>4. Becomes(e, r)
        BY <1>1, <2>2, <3>1, <3>2 DEF Becomes, Blockers
      <3> QED  BY <3>3, <3>4, RowWritten
    <2> QED  BY <2>1, <2>2
  <1>9. CASE Arrive(e) \/ Store(e) \/ EnqueueFails(e) \/ Redeliver(e) \/ Redact(e)
    BY <1>9, RowsStay DEF Arrive, Store, EnqueueFails, Redeliver, Redact
  <1> QED  BY <1>4, <1>5, <1>6, <1>7, <1>8, <1>9 DEF IngestStep

HandlerStep == {"none", "arrived", "marked", "stored", "dup", "done", "legacy"}

\* At moves the handler of one event.
LEMMA AtTyped ==
    ASSUME handler \in [Events -> HandlerStep], NEW e \in Events,
           NEW pc \in HandlerStep, At(e, pc)
    PROVE  /\ handler' \in [Events -> HandlerStep]
           /\ \A f \in Events : handler'[f] = IF f = e THEN pc ELSE handler[f]
  BY DEF At

\* What a step of the handler of event e changes: its own place, and for
\* arriving and redactions the arrival and the ontology.
HandlerMoves(e) ==
    /\ handler' \in [Events -> HandlerStep]
    /\ \A f \in Events : f # e => handler'[f] = handler[f]
    /\ handler'[e] # "none" \/ UNCHANGED handler
    /\ handler'[e] = "marked" => class[e] = "payload"
    /\ stored' \subseteq stored \cup {e}
    /\ e \in stored' => e \in stored \/ handler[e] # "none"
    /\ faults' \in 0..MaxPurgeFaults /\ late' \subseteq Events
    /\ \/ UNCHANGED arrived /\ (handler[e] # "none" \/ UNCHANGED handler)
       \/ Arrive(e)

\* What a step of a handler changes, and that it leaves the worker alone.
LEMMA IngestMoves ==
    ASSUME RowInv, PurgeTypeOK, NEW e \in Events, IngestStep(e)
    PROVE  HandlerMoves(e) /\ IngestOnly
  <1>1. /\ handler \in [Events -> HandlerStep] /\ stored \subseteq Events
        /\ faults \in Nat /\ faults <= MaxPurgeFaults /\ late \subseteq Events
        /\ faults \in 0..MaxPurgeFaults
    BY BoundsTyped DEF PurgeTypeOK, HandlerStep
  <1>2. faults < MaxPurgeFaults => faults + 1 \in 0..MaxPurgeFaults
    BY <1>1, BoundsTyped
  <1>3. Blocks(e) \subseteq Events
    BY <1>1 DEF Blocks
  <1>4. IngestOnly
    BY DEF IngestStep, Arrive, Dismiss, Retain, Mark, Store, StoreFails, Enqueue, EnqueueFails,
       Redeliver, Redact
  <1>5. ASSUME NEW pc \in {"marked", "stored", "dup", "done", "arrived"}, At(e, pc),
               handler[e] # "none", stored' \subseteq stored \cup {e},
               faults' \in 0..MaxPurgeFaults, late' \subseteq Events,
               UNCHANGED arrived, pc = "marked" => class[e] = "payload"
        PROVE  HandlerMoves(e)
    <2>1. pc \in HandlerStep
      BY DEF HandlerStep
    <2>2. /\ handler' \in [Events -> HandlerStep]
          /\ \A f \in Events : handler'[f] = IF f = e THEN pc ELSE handler[f]
      BY <1>1, <1>5, <2>1, AtTyped
    <2> QED  BY <1>5, <2>2 DEF HandlerMoves
  <1>6. CASE Arrive(e)
    <2>1. /\ handler' \in [Events -> HandlerStep]
          /\ \A f \in Events : handler'[f] = IF f = e THEN "arrived" ELSE handler[f]
      BY <1>1, <1>6, AtTyped DEF Arrive, HandlerStep
    <2> QED  BY <1>1, <1>6, <2>1 DEF Arrive, HandlerMoves
  <1>7. CASE Dismiss(e)
    BY <1>1, <1>5, <1>7 DEF Dismiss
  <1>8. CASE Retain(e)
    BY <1>1, <1>3, <1>5, <1>8 DEF Retain
  <1>9. ASSUME NEW ok \in BOOLEAN, Mark(e, ok)
        PROVE  HandlerMoves(e)
    <2>1. faults' \in 0..MaxPurgeFaults /\ late' \subseteq Events
      BY <1>1, <1>2, <1>3, <1>9 DEF Mark
    <2> QED  BY <1>1, <1>5, <1>9, <2>1 DEF Mark
  <1>10. CASE Store(e)
    BY <1>1, <1>5, <1>10 DEF Store
  <1>11. CASE StoreFails(e)
    BY <1>1, <1>2, <1>5, <1>11 DEF StoreFails
  <1>12. CASE Enqueue(e)
    BY <1>1, <1>5, <1>12 DEF Enqueue
  <1>13. CASE EnqueueFails(e)
    BY <1>1, <1>2, <1>5, <1>13 DEF EnqueueFails
  <1>14. CASE Redeliver(e)
    BY <1>1, <1>2, <1>5, <1>14 DEF Redeliver
  <1>15. CASE Redact(e)
    BY <1>1, <1>15 DEF Redact, HandlerMoves, RowInv
  <1> QED
    BY <1>4, <1>6, <1>7, <1>8, <1>9, <1>10, <1>11, <1>12, <1>13, <1>14, <1>15 DEF IngestStep

\* A step of a handler keeps the types, the rows and the arrivals.
LEMMA IngestKeeps ==
    ASSUME RowInv, ArrivalInv, PurgeTypeOK, NEW e \in Events, IngestStep(e)
    PROVE  PurgeTypeOK' /\ RowInv' /\ ArrivalInv'
  <1>1. HandlerMoves(e) /\ IngestOnly /\ RowsMove
    BY IngestMoves, IngestRows
  <1>2. now \in Nat /\ now >= 1 /\ now \in 0..MaxTime /\ arrived \in [Events -> 0..MaxTime]
    BY BoundsTyped DEF PurgeTypeOK
  <1>3. /\ arrived' \in [Events -> 0..MaxTime]
        /\ \A f \in Events : f # e => arrived'[f] = arrived[f]
        /\ arrived'[e] = arrived[e] \/ (arrived[e] = 0 /\ arrived'[e] = now /\ Arrive(e))
    <2>1. CASE UNCHANGED arrived
      BY <1>2, <2>1
    <2>2. CASE Arrive(e)
      BY <1>2, <2>2 DEF Arrive, RowInv
    <2> QED  BY <1>1, <2>1, <2>2 DEF HandlerMoves
  <1>4. PurgeTypeOK'
    <2>1. stored' \subseteq Events
      BY <1>1 DEF HandlerMoves, PurgeTypeOK
    <2> QED  BY <1>1, <1>3, <2>1 DEF PurgeTypeOK, HandlerMoves, HandlerStep, IngestOnly, RowsMove
  <1>5. \A f \in Events : arrived[f] # 0 => arrived'[f] = arrived[f]
    BY <1>3
  <1>6. \A f \in Events : arrived[f] \in Nat /\ arrived'[f] \in Nat
    BY <1>2, <1>3, BoundsTyped
  <1>7. ASSUME NEW f \in Events
        PROVE  handler'[f] = "none" <=> arrived'[f] = 0
    <2>1. handler[f] = "none" <=> arrived[f] = 0
      BY DEF RowInv
    <2>2. CASE f # e
      BY <1>1, <1>3, <2>1, <2>2 DEF HandlerMoves
    <2>3. CASE f = e /\ UNCHANGED arrived /\ (handler[e] # "none" \/ UNCHANGED handler)
      BY <1>1, <2>1, <2>3 DEF HandlerMoves
    <2>4. CASE f = e /\ Arrive(e)
      <3>1. handler' = [handler EXCEPT ![e] = "arrived"] /\ arrived' = [arrived EXCEPT ![e] = now]
        BY <2>4 DEF Arrive, At
      <3>2. handler'[e] = "arrived" /\ arrived'[e] = now
        BY <1>2, <3>1 DEF PurgeTypeOK
      <3> QED  BY <1>2, <2>4, <3>2
    <2> QED  BY <1>1, <2>2, <2>3, <2>4 DEF HandlerMoves
  <1>8. ASSUME NEW f \in Events
        PROVE  /\ f \in stored' => arrived'[f] # 0
               /\ handler'[f] = "marked" => class'[f] = "payload"
    BY <1>1, <1>5, <1>8 DEF RowInv, HandlerMoves, IngestOnly
  <1>9. ASSUME NEW f \in Events
        PROVE  /\ row'[f].enq <= now'
               /\ row'[f].status # "none" => arrived'[f] # 0 /\ arrived'[f] <= row'[f].enq
               /\ row'[f].status \notin Blockers \cup {"none"} => row'[f].msg \/ class'[f] # "payload"
    <2>1. Becomes(f, row'[f])
      BY <1>1 DEF RowsMove
    <2>2. row[f].enq \in Nat /\ row'[f].enq \in Nat /\ row[f].enq <= now /\ arrived[f] <= now
      BY <2>1, BoundsTyped DEF RowInv, Row, Becomes, ArrivalInv
    <2>3. /\ row'[f].enq <= now
          /\ row'[f].status # "none" => arrived[f] # 0 /\ arrived[f] <= row'[f].enq
      BY <1>2, <1>6, <2>1, <2>2 DEF Becomes, RowInv
    <2> QED  BY <1>1, <1>5, <2>1, <2>3 DEF Becomes, IngestOnly
  <1>10. RowInv'
    BY <1>1, <1>7, <1>8, <1>9 DEF RowInv, RowsMove
  <1>11. ArrivalInv'
    <2>1. \A f \in Events : arrived'[f] <= now'
      BY <1>1, <1>2, <1>3 DEF ArrivalInv, IngestOnly
    <2>2. ASSUME NEW f \in Events, NEW g \in Events, g <= f, arrived'[f] # 0
          PROVE  arrived'[g] # 0 /\ arrived'[g] <= arrived'[f]
      <3>1. CASE arrived[f] # 0
        BY <1>5, <2>2, <3>1 DEF ArrivalInv
      <3>2. CASE arrived[f] = 0
        <4>1. f = e /\ arrived'[f] = now /\ Arrive(e)
          BY <1>3, <2>2, <3>2
        <4>2. g # e => g \in 1..(e - 1)
          BY <2>2, <4>1, BoundsTyped
        <4>3. g # e => arrived[g] # 0
          BY <4>1, <4>2 DEF Arrive, RowInv
        <4> QED  BY <1>1, <1>2, <1>3, <2>1, <2>2, <4>1, <4>3 DEF IngestOnly
      <3> QED  BY <3>1, <3>2
    <2>3. \A s \in Sources : hist'[s].cutoff < now' /\ hist'[s].submitted < now'
      BY <1>1 DEF IngestOnly, ArrivalInv
    <2> QED  BY <2>1, <2>2, <2>3 DEF ArrivalInv
  <1> QED  BY <1>4, <1>10, <1>11

-----------------------------------------------------------------------------
(* The worker                                                              *)

\* The worker between cycles is well formed, and the only one that is idle.
LEMMA AsleepTyped ==
    /\ WellFormed(Asleep)
    /\ \A q : WellFormed(q) /\ q.pc = "idle" => q = Asleep
  <1>1. Asleep \in PurgerRecord
    BY BoundsTyped DEF Asleep, PurgerRecord
  <1>2. WellFormed(Asleep)
    BY <1>1 DEF WellFormed, Asleep
  <1>3. ASSUME NEW q, WellFormed(q), q.pc = "idle"
        PROVE  q = Asleep
    BY <1>3 DEF WellFormed, PurgerRecord, Asleep
  <1> QED  BY <1>2, <1>3

\* The rows the worker has in hand were enqueued, or discarded.
HandledInv ==
    /\ purger.event # 0 => Provable(purger.event)
    /\ \A e \in purger.polls : Provable(e)

\* The worker with boundary e and history s in hand.
Listed(e, s) ==
    [Asleep EXCEPT !.pc = IF e # 0 THEN "attempt" ELSE IF s # "none" THEN "hattempt" ELSE "idle",
                   !.event = e, !.source = s]

\* What the worker has in hand after listing the due rows.
LEMMA ListedTyped ==
    ASSUME NEW e \in Events \cup {0}, NEW s \in Sources \cup {"none"}
    PROVE  /\ WellFormed(Listed(e, s)) /\ Listed(e, s).event = e /\ Listed(e, s).source = s
           /\ Listed(e, s).polls = {}
           /\ Listed(e, s).pc = IF e # 0 THEN "attempt" ELSE IF s # "none" THEN "hattempt" ELSE "idle"
  <1> DEFINE q == Listed(e, s)
             pc == IF e # 0 THEN "attempt" ELSE IF s # "none" THEN "hattempt" ELSE "idle"
  <1>1. pc \in {"attempt", "hattempt", "idle"} /\ e \in 0..EventCount
    BY BoundsTyped
  <1>2. (e # 0 <=> pc = "attempt") /\ (pc = "hattempt" => s # "none") /\ (pc = "idle" => s = "none")
    OBVIOUS
  <1> HIDE DEF pc
  <1>3. q = [Asleep EXCEPT !.pc = pc, !.event = e, !.source = s]
    BY DEF pc, Listed
  <1> HIDE DEF q
  <1>4. Asleep \in PurgerRecord /\ Asleep.polls = {} /\ Asleep.hpolls = {}
    BY AsleepTyped DEF WellFormed, Asleep
  <1>5. q \in PurgerRecord
    BY <1>1, <1>3, <1>4 DEF PurgerRecord
  <1>6. q.pc = pc /\ q.event = e /\ q.source = s /\ q.polls = {} /\ q.hpolls = {}
    BY <1>3, <1>4 DEF PurgerRecord
  <1>7. WellFormed(q)
    BY <1>1, <1>2, <1>5, <1>6 DEF WellFormed
  <1> QED  BY <1>6, <1>7 DEF q, pc

\* After the row of an event the worker turns to the history, or sleeps.
LEMMA AfterEventTyped ==
    ASSUME WellFormed(purger), purger.pc = "post", NEW q, q = AfterEvent
    PROVE  /\ WellFormed(q) /\ q.event = 0 /\ q.source = purger.source /\ q.polls = {}
           /\ q.pc \in {"hattempt", "idle"}
  <1> DEFINE pc == IF purger.source # "none" THEN "hattempt" ELSE "idle"
  <1>1. purger \in PurgerRecord /\ purger.polls = {} /\ purger.hpolls = {} /\ 0 \in 0..EventCount
    BY BoundsTyped DEF WellFormed
  <1>2. q = [purger EXCEPT !.pc = pc, !.event = 0]
    BY <1>1 DEF AfterEvent, PurgerRecord
  <1>3. pc \in {"hattempt", "idle"} /\ (pc = "hattempt" <=> purger.source # "none")
    OBVIOUS
  <1> HIDE DEF pc
  <1>4. q \in PurgerRecord
    BY <1>1, <1>2, <1>3 DEF PurgerRecord
  <1>5. q.pc = pc /\ q.event = 0 /\ q.source = purger.source /\ q.polls = {} /\ q.hpolls = {}
    BY <1>1, <1>2 DEF PurgerRecord
  <1> QED  BY <1>3, <1>4, <1>5 DEF WellFormed

\* The worker moves on with what it has in hand.
LEMMA GoesTo ==
    ASSUME WellFormed(purger), NEW pc, purger' = [purger EXCEPT !.pc = pc],
           \/ purger.pc = "idle" /\ pc = "backfill"
           \/ purger.pc = "backfill" /\ pc = "census"
           \/ purger.pc = "attempt" /\ pc = "post"
           \/ purger.pc = "hattempt" /\ pc = "hpost"
    PROVE  /\ WellFormed(purger') /\ purger'.event = purger.event
           /\ purger'.source = purger.source /\ purger'.polls = {} /\ purger'.pc = pc
  <1>1. purger \in PurgerRecord /\ purger.polls = {} /\ purger.hpolls = {}
    BY DEF WellFormed
  <1>2. purger' \in PurgerRecord
    BY <1>1 DEF PurgerRecord
  <1>3. /\ purger'.pc = pc /\ purger'.event = purger.event /\ purger'.source = purger.source
        /\ purger'.polls = {} /\ purger'.hpolls = {}
    BY <1>1 DEF PurgerRecord
  <1> QED  BY <1>2, <1>3 DEF WellFormed

PurgerGoes ==
    /\ WellFormed(purger')
    /\ purger'.event # 0 => purger'.event = purger.event \/ DueBoundary(purger'.event)
    /\ purger'.source # "none" => purger'.source = purger.source \/ DueHistory(purger'.source)
    /\ \A e \in purger'.polls : e \in purger.polls \/ row[e].status = "submitted"

\* Falling asleep is a move of the worker.
LEMMA AsleepGoes ==
    ASSUME purger' = Asleep
    PROVE  PurgerGoes
  <1>1. Asleep.event = 0 /\ Asleep.source = "none" /\ Asleep.polls = {}
    BY DEF Asleep
  <1> QED  BY <1>1, AsleepTyped DEF PurgerGoes

\* Every step of the worker is such a move.
LEMMA PurgerStepGoes ==
    ASSUME PurgerInv, PurgerStep
    PROVE  PurgerGoes
  <1>1. WellFormed(purger) /\ purger \in PurgerRecord
    BY DEF PurgerInv, WellFormed
  <1>2. ASSUME NEW stale \in SUBSET Events, NEW cooled \in SUBSET Events, NEW rested \in SUBSET Sources,
               StartCycle(stale, cooled, rested)
        PROVE  PurgerGoes
    BY <1>1, <1>2, GoesTo DEF StartCycle, PurgerGoes
  <1>3. ASSUME NEW e \in Events, Backfill(e)
        PROVE  PurgerGoes
    BY <1>1, <1>3, GoesTo DEF Backfill, PurgerGoes
  <1>4. ASSUME NEW b \in BOOLEAN, NEW c \in BOOLEAN, Census(b, c)
        PROVE  PurgerGoes
    <2> DEFINE P == {e \in Events : row[e].status = "submitted"}
               H == {s \in Sources : hist[s].status = "submitted"}
    <2>1. purger' = [purger EXCEPT !.pc = "poll", !.polls = P, !.hpolls = H]
      BY <1>4 DEF Census
    <2>2. P \subseteq Events /\ H \subseteq Sources /\ \A e \in P : row[e].status = "submitted"
      OBVIOUS
    <2>3. purger.event = 0 /\ purger.source = "none"
      BY <1>1, <1>4 DEF WellFormed, Census
    <2> HIDE DEF P, H
    <2>4. purger' \in PurgerRecord
      BY <1>1, <2>1, <2>2 DEF PurgerRecord
    <2>5. /\ purger'.pc = "poll" /\ purger'.event = 0 /\ purger'.source = "none"
          /\ purger'.polls = P
      BY <1>1, <2>1, <2>3 DEF PurgerRecord
    <2> QED  BY <2>2, <2>4, <2>5 DEF WellFormed, PurgerGoes
  <1>5. ASSUME NEW e \in Events, NEW b \in BOOLEAN, PollEvent(e, b)
        PROVE  PurgerGoes
    <2> DEFINE P == purger.polls \ {e}
    <2>1. purger' = [purger EXCEPT !.polls = P] /\ purger.pc = "poll"
      BY <1>5 DEF PollEvent
    <2>2. P \subseteq Events /\ P \subseteq purger.polls
      BY <1>1 DEF PurgerRecord
    <2> HIDE DEF P
    <2>3. purger' \in PurgerRecord
      BY <1>1, <2>1, <2>2 DEF PurgerRecord
    <2>4. /\ purger'.pc = "poll" /\ purger'.event = purger.event /\ purger'.source = purger.source
          /\ purger'.polls = P
      BY <1>1, <2>1 DEF PurgerRecord
    <2> QED  BY <1>1, <2>1, <2>2, <2>3, <2>4 DEF WellFormed, PurgerGoes
  <1>6. ASSUME NEW s \in Sources, NEW b \in BOOLEAN, PollHistory(s, b)
        PROVE  PurgerGoes
    <2> DEFINE H == purger.hpolls \ {s}
    <2>1. purger' = [purger EXCEPT !.hpolls = H] /\ purger.pc = "poll"
      BY <1>6 DEF PollHistory
    <2>2. H \subseteq Sources
      BY <1>1 DEF PurgerRecord
    <2> HIDE DEF H
    <2>3. purger' \in PurgerRecord
      BY <1>1, <2>1, <2>2 DEF PurgerRecord
    <2>4. /\ purger'.pc = "poll" /\ purger'.event = purger.event /\ purger'.source = purger.source
          /\ purger'.polls = purger.polls
      BY <1>1, <2>1 DEF PurgerRecord
    <2> QED  BY <1>1, <2>1, <2>3, <2>4 DEF WellFormed, PurgerGoes
  <1>7. CASE ListDue
    <2>1. PICK e \in Events \cup {0}, s \in Sources \cup {"none"} :
             purger' = Listed(e, s) /\ (e # 0 => DueBoundary(e)) /\ (s # "none" => DueHistory(s))
      BY <1>7 DEF ListDue, Listed
    <2>2. /\ WellFormed(purger') /\ purger'.event = e /\ purger'.source = s /\ purger'.polls = {}
      BY <2>1, ListedTyped
    <2> QED  BY <2>1, <2>2 DEF PurgerGoes
  <1>8. CASE AttemptEvent \/ AttemptHistory
    BY <1>1, <1>8, GoesTo DEF AttemptEvent, AttemptHistory, PurgerGoes
  <1>9. CASE \/ PostEventGone \/ \E b \in Events : PostEvent(b)
             \/ \E b \in Events, lost \in BOOLEAN : PostEventFails(b, lost)
    <2>1. purger.pc = "post" /\ purger' = AfterEvent
      BY <1>9 DEF PostEventGone, PostEvent, PostEventFails
    <2> QED  BY <1>1, <2>1, AfterEventTyped DEF PurgerGoes
  <1>10. CASE PostHistoryClean \/ \E accepted, lost \in BOOLEAN : PostHistory(accepted, lost)
    BY <1>10, AsleepGoes DEF PostHistoryClean, PostHistory
  <1> QED
    BY <1>2, <1>3, <1>4, <1>5, <1>6, <1>7, <1>8, <1>9, <1>10 DEF PurgerStep

-----------------------------------------------------------------------------

\* A failed attempt keeps the row, to be retried or exhausted.
LEMMA FailureIs ==
    ASSUME NEW r \in Row
    PROVE  /\ Failure(r) \in Row /\ Failure(r).msg = r.msg /\ Failure(r).enq = r.enq
           /\ Failure(r).status \in {"exhausted", "retrying"}
  BY DEF Failure, Row, Waits

\* Every row that stands for a boundary succeeds with it.
LEMMA ThroughMoves ==
    ASSUME RowInv, NEW b \in Events, row' = SucceededThrough(b)
    PROVE  RowsMove
  <1>1. row' = [e \in Events |->
           IF row[e].enq <= row[b].enq /\ row[e].status \in Waits \cup {"submitted"}
           THEN [row[e] EXCEPT !.status = "succeeded"] ELSE row[e]]
    BY DEF SucceededThrough
  <1>2. ASSUME NEW e \in Events
        PROVE  row'[e] \in Row /\ Becomes(e, row'[e])
    <2>1. row[e] \in Row /\ row[e].enq \in Nat
      BY BoundsTyped DEF RowInv, Row
    <2>2. CASE row'[e] = row[e]
      BY <2>1, <2>2 DEF Becomes, RowInv
    <2>3. CASE row'[e] # row[e]
      <3> DEFINE r == [row[e] EXCEPT !.status = "succeeded"]
      <3>1. row'[e] = r /\ row[e].status \in Waits \cup {"submitted"}
        BY <1>1, <2>3
      <3>2. r \in Row /\ r.status = "succeeded" /\ r.msg = row[e].msg /\ r.enq = row[e].enq
        BY <2>1 DEF Row
      <3>3. Provable(e)
        BY <3>1 DEF Provable, RowInv, Waits, Blockers
      <3> HIDE DEF r
      <3> QED  BY <3>1, <3>2, <3>3, RowWorked DEF Blockers
    <2> QED  BY <2>2, <2>3
  <1>3. row' \in [Events -> Row]
    BY <1>1, <1>2
  <1> QED  BY <1>2, <1>3 DEF RowsMove

\* The worker moves the rows only the way rows move.
LEMMA PurgerRows ==
    ASSUME RowInv, ArrivalInv, PurgeTypeOK, PurgerInv, HandledInv, PurgerStep
    PROVE  RowsMove
  <1>1. /\ row \in [Events -> Row]
        /\ \A e \in Events : row[e] \in Row /\ row[e].enq \in Nat /\ row[e].enq <= now
                             /\ row[e].attempts \in 0..PurgeAttempts
    BY BoundsTyped DEF RowInv, Row
  <1>2. now \in Nat /\ now \in 0..MaxTime /\ 0 \in 0..PurgeAttempts
    BY BoundsTyped DEF PurgeTypeOK
  <1>3. ASSUME NEW stale \in SUBSET Events, NEW cooled \in SUBSET Events, NEW rested \in SUBSET Sources,
               StartCycle(stale, cooled, rested)
        PROVE  RowsMove
    <2> DEFINE R(e) == [row[e] EXCEPT !.status = "pending", !.attempts = 0, !.msg = TRUE, !.enq = now]
               C(e) == [row[e] EXCEPT !.status = "retrying", !.attempts = 0]
    <2>1. row' = [e \in Events |-> CASE e \in stale -> R(e) [] e \in cooled -> C(e) [] OTHER -> row[e]]
      BY <1>3 DEF StartCycle
    <2>2. ASSUME NEW e \in Events, e \in stale
          PROVE  R(e) \in Row /\ Becomes(e, R(e))
      <3>1. R(e) \in Row
        BY <1>1, <1>2 DEF Row, Waits
      <3>2. R(e).status = "pending" /\ R(e).msg = TRUE /\ R(e).enq = now
        BY <1>1 DEF Row
      <3>3. row[e].status # "none"
        BY <1>3, <2>2 DEF StartCycle, Blockers
      <3> HIDE DEF R
      <3> QED  BY <3>1, <3>2, <3>3 DEF Becomes, Blockers
    <2>3. ASSUME NEW e \in Events, e \in cooled
          PROVE  C(e) \in Row /\ Becomes(e, C(e))
      <3>1. C(e) \in Row
        BY <1>1, <1>2 DEF Row, Waits
      <3>2. C(e).status = "retrying" /\ C(e).msg = row[e].msg /\ C(e).enq = row[e].enq
        BY <1>1 DEF Row
      <3>3. Provable(e)
        BY <1>3, <2>3 DEF StartCycle, Provable, RowInv, Blockers
      <3> HIDE DEF C
      <3> QED  BY <3>1, <3>2, <3>3, RowWorked DEF Blockers
    <2>4. ASSUME NEW e \in Events
          PROVE  Becomes(e, row[e])
      BY <1>1, <2>4 DEF Becomes, RowInv
    <2>5. ASSUME NEW e \in Events
          PROVE  row'[e] \in Row /\ Becomes(e, row'[e])
      <3> HIDE DEF R, C
      <3>1. row'[e] = CASE e \in stale -> R(e) [] e \in cooled -> C(e) [] OTHER -> row[e]
        BY <2>1
      <3>2. CASE e \in stale /\ row'[e] = R(e)
        BY <2>2, <3>2
      <3>3. CASE e \in cooled /\ row'[e] = C(e)
        BY <2>3, <3>3
      <3>4. CASE row'[e] = row[e]
        BY <1>1, <2>4, <3>4
      <3> QED  BY <3>1, <3>2, <3>3, <3>4
    <2> DEFINE F(e) == CASE e \in stale -> R(e) [] e \in cooled -> C(e) [] OTHER -> row[e]
    <2>6. row' = [e \in Events |-> F(e)]
      BY <2>1
    <2> HIDE DEF F
    <2>7. row' \in [Events -> Row]
      BY <2>5, <2>6
    <2> QED  BY <2>5, <2>7 DEF RowsMove
  <1>4. ASSUME NEW e \in Events, Backfill(e)
        PROVE  RowsMove
    <2> DEFINE k == IF ~forced /\ AuditVerifies(e) THEN "none" ELSE "forced"
               Q == [NoRow EXCEPT !.status = "pending", !.enq = now, !.msg = TRUE, !.kind = k]
               A == [NoRow EXCEPT !.status = "audit_blocked", !.enq = now, !.msg = TRUE]
    <2>1. row' = [row EXCEPT ![e] = Q] \/ row' = [row EXCEPT ![e] = A]
      BY <1>4 DEF Backfill
    <2>2. arrived[e] # 0
      BY <1>4 DEF Backfill, Candidate, RowInv
    <2>3. k \in RowKind /\ "pending" \in RowStatus /\ "audit_blocked" \in RowStatus /\ NoRow \in Row
      BY NoRowTyped DEF RowKind, RowStatus, Waits
    <2> HIDE DEF k
    <2>4. Q \in Row /\ Q.status = "pending" /\ Q.msg = TRUE /\ Q.enq = now
      <3>1. Q \in Row
        BY <1>2, <2>3, NewRowTyped
      <3>2. Q.status = "pending" /\ Q.msg = TRUE /\ Q.enq = now
        BY <2>3 DEF Row
      <3> QED  BY <3>1, <3>2
    <2>5. A \in Row /\ A.status = "audit_blocked" /\ A.msg = TRUE /\ A.enq = now
      <3>1. A \in Row
        BY <1>2, <2>3, NewRowTyped
      <3>2. A.status = "audit_blocked" /\ A.msg = TRUE /\ A.enq = now
        BY <2>3 DEF Row
      <3> QED  BY <3>1, <3>2
    <2> HIDE DEF Q, A
    <2>6. Becomes(e, Q) /\ Becomes(e, A)
      BY <2>2, <2>4, <2>5, RowEnqueued DEF Blockers
    <2> QED  BY <2>1, <2>6, RowWritten
  <1>5. ASSUME NEW e \in Events, Provable(e), row' = [row EXCEPT ![e] = Failure(row[e])]
        PROVE  RowsMove
    <2>1. /\ Failure(row[e]) \in Row /\ Failure(row[e]).msg = row[e].msg
          /\ Failure(row[e]).enq = row[e].enq /\ Failure(row[e]).status \in {"exhausted", "retrying"}
      BY <1>1, FailureIs
    <2>2. Becomes(e, Failure(row[e]))
      BY <1>5, <2>1, RowWorked DEF Blockers
    <2> QED  BY <1>5, <2>2, RowWritten
  <1>6. ASSUME NEW e \in Events, NEW b \in BOOLEAN, PollEvent(e, b)
        PROVE  RowsMove
    <2>1. Provable(e)
      BY <1>6 DEF PollEvent, HandledInv
    <2> QED  BY <1>5, <1>6, <2>1, ThroughMoves, RowsStay DEF PollEvent
  <1>7. purger.event # 0 => purger.event \in Events /\ Provable(purger.event)
    BY BoundsTyped DEF HandledInv, PurgerInv, WellFormed, PurgerRecord, Events
  <1>8. purger.pc \in {"attempt", "post"} => purger.event # 0
    BY DEF PurgerInv, WellFormed
  <1>9. CASE AttemptEvent
    <2> DEFINE e == purger.event
               n == IF row[e].attempts < PurgeAttempts THEN row[e].attempts + 1 ELSE row[e].attempts
               r == [row[e] EXCEPT !.status = "attempting", !.attempts = n]
    <2>1. e \in Events /\ Provable(e)
      BY <1>7, <1>8, <1>9 DEF AttemptEvent
    <2>2. row' = [row EXCEPT ![e] = r]
      BY <1>1, <1>9, <2>1 DEF AttemptEvent, Row
    <2>3. n \in 0..PurgeAttempts
      BY <1>1, <2>1, BoundsTyped
    <2> HIDE DEF e, n
    <2>4. r \in Row /\ r.status = "attempting" /\ r.msg = row[e].msg /\ r.enq = row[e].enq
      BY <1>1, <2>1, <2>3 DEF Row, Waits
    <2> HIDE DEF r
    <2>5. Becomes(e, r)
      BY <2>1, <2>4, RowWorked DEF Blockers
    <2> QED  BY <2>1, <2>2, <2>5, RowWritten
  <1>10. ASSUME NEW b \in Events, PostEvent(b)
         PROVE  RowsMove
    <2> DEFINE e == purger.event
               r == [row[e] EXCEPT !.status = "submitted", !.kind = "purge"]
    <2>1. e \in Events /\ Provable(e)
      BY <1>7, <1>8, <1>10 DEF PostEvent
    <2>2. row' = [row EXCEPT ![e] = r]
      BY <1>1, <1>10, <2>1 DEF PostEvent
    <2> HIDE DEF e
    <2>4. r \in Row /\ r.status = "submitted" /\ r.msg = row[e].msg /\ r.enq = row[e].enq
      BY <1>1, <2>1 DEF Row
    <2> HIDE DEF r
    <2>5. Becomes(e, r)
      BY <2>1, <2>4, RowWorked DEF Blockers
    <2> QED  BY <2>1, <2>2, <2>5, RowWritten
  <1>11. ASSUME NEW b \in Events, NEW lost \in BOOLEAN, PostEventFails(b, lost)
         PROVE  RowsMove
    BY <1>5, <1>7, <1>8, <1>11 DEF PostEventFails
  <1>12. CASE PostEventGone
    BY <1>5, <1>7, <1>8, <1>12, ThroughMoves DEF PostEventGone
  <1>13. CASE UNCHANGED row
    BY <1>13, RowsStay
  <1>14. \/ UNCHANGED row
         \/ \E stale, cooled \in SUBSET Events, rested \in SUBSET Sources : StartCycle(stale, cooled, rested)
         \/ \E e \in Events : Backfill(e)
         \/ \E e \in Events, error \in BOOLEAN : PollEvent(e, error)
         \/ AttemptEvent \/ PostEventGone
         \/ \E b \in Events : PostEvent(b)
         \/ \E b \in Events, lost \in BOOLEAN : PostEventFails(b, lost)
    BY DEF PurgerStep, Census, PollHistory, ListDue, AttemptHistory, PostHistoryClean, PostHistory
  <1> QED  BY <1>3, <1>4, <1>6, <1>9, <1>10, <1>11, <1>12, <1>13, <1>14

-----------------------------------------------------------------------------
(* Room histories                                                          *)

\* What a cutoff covers is a part of the timeline, and more of it for a later one.
LEMMA CoveredTyped ==
    ASSUME PurgeTypeOK, NEW c \in Nat
    PROVE  /\ Covered(c) \subseteq Events /\ IsFiniteSet(Covered(c))
           /\ LastCovered(c) \in 0..EventCount
           /\ \A d \in Nat : c <= d => LastCovered(c) <= LastCovered(d)
  <1>1. IsFiniteSet(Events) /\ Cardinality(Events) = EventCount
    BY BoundsTyped, FS_Interval DEF Events
  <1>2. \A d \in Nat : /\ Covered(d) \subseteq Events /\ IsFiniteSet(Covered(d))
                       /\ Cardinality(Covered(d)) <= EventCount
                       /\ Cardinality(Covered(d)) \in Nat
    BY <1>1, FS_Subset, FS_CardinalityType DEF Covered
  <1>3. ASSUME NEW d \in Nat, c <= d
        PROVE  LastCovered(c) <= LastCovered(d)
    <2>1. \A e \in Events : arrived[e] \in Nat
      BY BoundsTyped DEF PurgeTypeOK
    <2>2. Covered(c) \subseteq Covered(d)
      BY <1>3, <2>1 DEF Covered
    <2> QED  BY <1>2, <2>2, FS_Subset DEF LastCovered
  <1> QED  BY <1>2, <1>3, BoundsTyped DEF LastCovered

\* The homeserver has nothing left of what cutoff c covers.
GoneTo(c) == LastCovered(c) <= purgedTo

\* What is gone up to a time is gone up to an earlier one.
LEMMA GoneBefore ==
    ASSUME PurgeTypeOK, NEW c \in Nat, NEW d \in Nat, c <= d, GoneTo(d)
    PROVE  GoneTo(c)
  <1>1. LastCovered(c) \in Nat /\ LastCovered(d) \in Nat /\ purgedTo \in Nat
    BY CoveredTyped, BoundsTyped DEF PurgeTypeOK
  <1>2. LastCovered(c) <= LastCovered(d)
    BY CoveredTyped
  <1> QED  BY <1>1, <1>2 DEF GoneTo

\* A record of a history that says no more than is so.
Honest(h) ==
    /\ h \in History
    /\ h.cutoff < now /\ h.submitted < now
    /\ h.submitted <= h.cutoff \/ GoneTo(h.submitted)
    /\ h.status = "succeeded" => GoneTo(h.cutoff) /\ GoneTo(h.submitted)

\* A task that runs reaches as far as its row was submitted for, or that much is
\* gone; what a completed one was submitted for is gone.
HistoryInv ==
    \A s \in Sources :
        /\ Honest(hist[s])
        /\ htask[s].state = "complete" => GoneTo(hist[s].submitted)
        /\ htask[s].state = "active"
              => LastCovered(hist[s].submitted) <= htask[s].upTo \/ GoneTo(hist[s].submitted)

\* What a step may make of a history.
HistoryBecomes(s, h) ==
    /\ Honest(h)
    /\ \/ h.submitted = hist[s].submitted /\ htask'[s] = htask[s]
       \/ GoneTo(h.submitted) /\ htask'[s] = htask[s]
       \/ htask'[s] = [state |-> "active", upTo |-> LastCovered(h.submitted)]
HistoriesMove == /\ hist' \in [Sources -> History] /\ htask' \in [Sources -> PurgeTask]
                 /\ \A s \in Sources : HistoryBecomes(s, hist'[s])

\* Another status and number of attempts claim nothing.
LEMMA StatusHonest ==
    ASSUME NEW h, Honest(h), NEW g \in History, g.cutoff = h.cutoff, g.submitted = h.submitted,
           g.status # "succeeded"
    PROVE  Honest(g)
  BY DEF Honest

\* A failed attempt keeps the record of a history.
LEMMA HistoryFailure ==
    ASSUME NEW h \in History
    PROVE  /\ Failure(h) \in History
           /\ Failure(h).cutoff = h.cutoff /\ Failure(h).submitted = h.submitted
           /\ Failure(h).status \in {"exhausted", "retrying"}
  BY DEF Failure, History, Waits

\* A census claims nothing that is not gone.
LEMMA CensusHonest ==
    ASSUME PurgeTypeOK, NEW h, Honest(h)
    PROVE  /\ Honest(PortalCensus(h, now - 1)) /\ Honest(ServerCensus(h, now - 1))
           /\ \/ PortalCensus(h, now - 1).submitted = h.submitted
              \/ GoneTo(PortalCensus(h, now - 1).submitted)
           /\ \/ ServerCensus(h, now - 1).submitted = h.submitted
              \/ GoneTo(ServerCensus(h, now - 1).submitted)
  <1> DEFINE c == now - 1
  <1>1. now \in Nat /\ c \in 0..MaxTime /\ c \in Nat /\ c < now /\ 0 \in 0..PurgeAttempts /\ purgedTo \in Nat
    BY BoundsTyped DEF PurgeTypeOK
  <1>2. h \in History /\ h.cutoff \in Nat /\ h.submitted \in Nat /\ h.cutoff < now /\ h.submitted < now
    BY BoundsTyped DEF Honest, History
  <1>3. GoneTo(0)
    <2>1. Covered(0) = {}
      <3>1. \A e \in Events : arrived[e] \in Nat
        BY BoundsTyped DEF PurgeTypeOK
      <3> QED  BY <3>1 DEF Covered
    <2> QED  BY <1>1, <2>1, FS_EmptySet DEF GoneTo, LastCovered
  <1> HIDE DEF c
  <1> DEFINE n == [NoHistory EXCEPT !.status = "pending", !.cutoff = c]
  <1>4. n \in History /\ n.cutoff = c /\ n.submitted = 0 /\ n.status = "pending"
    <2>1. NoHistory \in History /\ NoHistory.submitted = 0
      BY BoundsTyped DEF NoHistory, History
    <2>2. n \in History
      BY <1>1, <2>1 DEF History, Waits
    <2> QED  BY <2>1, <2>2 DEF History
  <1> HIDE DEF n
  <1>5. Honest(n) /\ GoneTo(n.submitted)
    BY <1>1, <1>3, <1>4 DEF Honest
  <1>6. ServerCensus(h, c) = n \/ ServerCensus(h, c) = h
    BY DEF ServerCensus, n
  <1>7. CASE h.status = "none" \/ h.status = "submitted"
    BY <1>5, <1>6, <1>7 DEF PortalCensus, n, c
  <1>8. CASE h.status # "none" /\ h.status # "submitted"
    <2> DEFINE k == IF c > h.cutoff THEN c ELSE h.cutoff
               st == IF c > h.submitted THEN "pending" ELSE h.status
               m == IF c > h.submitted THEN 0 ELSE h.attempts
               g == [h EXCEPT !.cutoff = k, !.status = st, !.attempts = m]
    <2>1. PortalCensus(h, c) = g
      BY <1>2, <1>8 DEF PortalCensus, History
    <2>2. k \in 0..MaxTime /\ k \in Nat /\ k >= h.cutoff /\ k < now /\ m \in 0..PurgeAttempts
      BY <1>1, <1>2 DEF History
    <2>3. st \in {"pending", h.status}
      OBVIOUS
    <2>4. st = "succeeded" => c <= h.submitted /\ h.status = "succeeded"
      BY <1>1, <1>2
    <2>5. k = c \/ k = h.cutoff
      OBVIOUS
    <2> HIDE DEF k, st, m
    <2>6. g \in History
      BY <1>2, <2>2, <2>3 DEF History, Waits
    <2>7. g.cutoff = k /\ g.submitted = h.submitted /\ g.status = st
      BY <1>2 DEF History
    <2> HIDE DEF g
    <2>8. g.submitted <= g.cutoff \/ GoneTo(g.submitted)
      BY <1>2, <2>2, <2>7 DEF Honest
    <2>9. g.status = "succeeded" => GoneTo(g.cutoff) /\ GoneTo(g.submitted)
      <3> SUFFICES ASSUME g.status = "succeeded" PROVE GoneTo(g.cutoff) /\ GoneTo(g.submitted)
        OBVIOUS
      <3>1. c <= h.submitted /\ GoneTo(h.cutoff) /\ GoneTo(h.submitted)
        BY <2>4, <2>7 DEF Honest
      <3>2. GoneTo(c)
        BY <1>1, <1>2, <3>1, GoneBefore
      <3> QED  BY <2>5, <2>7, <3>1, <3>2
    <2>10. Honest(g)
      BY <1>2, <2>2, <2>6, <2>7, <2>8, <2>9 DEF Honest
    <2> QED  BY <1>5, <1>6, <2>1, <2>7, <2>10 DEF c
  <1> QED  BY <1>7, <1>8

\* Leaving the histories alone is a move of the histories.
LEMMA HistoriesStay ==
    ASSUME PurgeTypeOK, HistoryInv, UNCHANGED <<hist, htask>>
    PROVE  HistoriesMove
  BY DEF HistoriesMove, HistoryBecomes, HistoryInv, PurgeTypeOK

\* One row is written and no task is started.
LEMMA HistoryWritten ==
    ASSUME PurgeTypeOK, HistoryInv, NEW s \in Sources, NEW h, Honest(h),
           h.submitted = hist[s].submitted \/ GoneTo(h.submitted),
           hist' = [hist EXCEPT ![s] = h], UNCHANGED htask
    PROVE  HistoriesMove
  <1>1. hist \in [Sources -> History] /\ h \in History
    BY DEF PurgeTypeOK, Honest
  <1>2. hist' \in [Sources -> History] /\ \A q \in Sources : hist'[q] = IF q = s THEN h ELSE hist[q]
    BY <1>1
  <1>3. ASSUME NEW q \in Sources
        PROVE  HistoryBecomes(q, hist'[q])
    BY <1>2 DEF HistoryBecomes, HistoryInv
  <1> QED  BY <1>2, <1>3 DEF HistoriesMove, PurgeTypeOK

\* Rows that a purge up to a cutoff covers succeed, when that much is gone.
LEMMA CoveredHonest ==
    ASSUME PurgeTypeOK, NEW h, Honest(h), NEW c \in Nat, c < now, c \in 0..MaxTime, GoneTo(c), h.cutoff <= c,
           NEW m, m = h.submitted \/ m = c, m \in 0..MaxTime
    PROVE  /\ Honest([h EXCEPT !.status = "succeeded", !.submitted = m])
           /\ [h EXCEPT !.status = "succeeded", !.submitted = m].submitted = m
           /\ GoneTo(m)
  <1> DEFINE g == [h EXCEPT !.status = "succeeded", !.submitted = m]
  <1>1. h \in History /\ h.cutoff \in Nat /\ h.submitted \in Nat /\ m \in Nat
    BY BoundsTyped DEF Honest, History
  <1>2. g \in History
    BY <1>1 DEF History
  <1>3. g.cutoff = h.cutoff /\ g.submitted = m /\ g.status = "succeeded"
    BY <1>1 DEF History
  <1> HIDE DEF g
  <1>4. GoneTo(h.cutoff)
    BY <1>1, GoneBefore
  <1>5. GoneTo(h.submitted)
    BY <1>1, <1>4, GoneBefore DEF Honest
  <1>6. Honest(g) /\ GoneTo(m)
    BY <1>2, <1>3, <1>4, <1>5 DEF Honest
  <1> QED  BY <1>3, <1>6 DEF g

\* The worker moves the histories only that way: honest records stay honest.
LEMMA PurgerHistories ==
    ASSUME PurgeTypeOK, PurgerInv, HistoryInv, PurgerStep
    PROVE  HistoriesMove
  <1>1. /\ hist \in [Sources -> History] /\ htask \in [Sources -> PurgeTask]
        /\ now \in Nat /\ 0 \in 0..PurgeAttempts
        /\ \A s \in Sources : /\ hist[s] \in History /\ Honest(hist[s])
                              /\ hist[s].cutoff \in Nat /\ hist[s].submitted \in Nat
                              /\ hist[s].cutoff \in 0..MaxTime /\ hist[s].submitted \in 0..MaxTime
                              /\ hist[s].cutoff < now /\ hist[s].submitted < now
                              /\ hist[s].attempts \in 0..PurgeAttempts
    BY BoundsTyped DEF PurgeTypeOK, HistoryInv, Honest, History
  <1>2. ASSUME NEW s \in Sources, hist' = [hist EXCEPT ![s] = Failure(hist[s])], UNCHANGED htask
        PROVE  HistoriesMove
    <2>1. /\ Failure(hist[s]) \in History /\ Failure(hist[s]).submitted = hist[s].submitted
          /\ Failure(hist[s]).cutoff = hist[s].cutoff /\ Failure(hist[s]).status # "succeeded"
      BY <1>1, HistoryFailure
    <2>2. Honest(Failure(hist[s]))
      BY <1>1, <2>1, StatusHonest
    <2> QED  BY <1>2, <2>1, <2>2, HistoryWritten
  <1>3. ASSUME NEW stale \in SUBSET Events, NEW cooled \in SUBSET Events, NEW rested \in SUBSET Sources,
               StartCycle(stale, cooled, rested)
        PROVE  HistoriesMove
    <2> DEFINE R(s) == [hist[s] EXCEPT !.status = "retrying", !.attempts = 0]
    <2>1. hist' = [s \in Sources |-> IF s \in rested THEN R(s) ELSE hist[s]] /\ UNCHANGED htask
      BY <1>3 DEF StartCycle, Quiet
    <2>2. ASSUME NEW s \in Sources
          PROVE  Honest(R(s)) /\ R(s) \in History /\ R(s).submitted = hist[s].submitted
      <3>1. R(s) \in History
        BY <1>1 DEF History, Waits
      <3>2. R(s).cutoff = hist[s].cutoff /\ R(s).submitted = hist[s].submitted /\ R(s).status # "succeeded"
        BY <1>1 DEF History
      <3> HIDE DEF R
      <3> QED  BY <1>1, <3>1, <3>2, StatusHonest
    <2> HIDE DEF R
    <2>3. hist' \in [Sources -> History]
      BY <1>1, <2>1, <2>2
    <2>4. ASSUME NEW s \in Sources
          PROVE  HistoryBecomes(s, hist'[s])
      <3>1. hist'[s] = R(s) \/ hist'[s] = hist[s]
        BY <2>1
      <3> QED  BY <1>1, <2>1, <2>2, <3>1 DEF HistoryBecomes
    <2> QED  BY <1>1, <2>1, <2>3, <2>4 DEF HistoriesMove
  <1>4. ASSUME NEW b \in BOOLEAN, NEW c \in BOOLEAN, Census(b, c)
        PROVE  HistoriesMove
    <2> DEFINE P == IF b THEN PortalCensus(hist["portal"], now - 1) ELSE hist["portal"]
               V == IF c THEN ServerCensus(hist["server"], now - 1) ELSE hist["server"]
    <2>1. hist' = [hist EXCEPT !["portal"] = P, !["server"] = V] /\ UNCHANGED htask
      BY <1>4 DEF Census, Quiet
    <2>2. /\ Honest(P) /\ (P.submitted = hist["portal"].submitted \/ GoneTo(P.submitted))
          /\ Honest(V) /\ (V.submitted = hist["server"].submitted \/ GoneTo(V.submitted))
      BY <1>1, CensusHonest DEF Sources
    <2> HIDE DEF P, V
    <2>3. P \in History /\ V \in History
      BY <2>2 DEF Honest
    <2>4. hist' \in [Sources -> History] /\ hist'["portal"] = P /\ hist'["server"] = V
      BY <1>1, <2>1, <2>3 DEF Sources
    <2>5. HistoryBecomes("portal", P) /\ HistoryBecomes("server", V)
      BY <2>1, <2>2 DEF HistoryBecomes
    <2> QED  BY <1>1, <2>1, <2>4, <2>5 DEF HistoriesMove, Sources
  <1>5. ASSUME NEW s \in Sources, NEW error \in BOOLEAN, PollHistory(s, error)
        PROVE  HistoriesMove
    <2>1. UNCHANGED htask
      BY <1>5 DEF PollHistory, Quiet
    <2>2. CASE hist' = hist
      BY <2>1, <2>2, HistoriesStay
    <2>3. CASE hist' = [hist EXCEPT ![s] = Failure(hist[s])]
      BY <1>2, <2>1, <2>3
    <2>4. CASE htask[s].state = "complete" /\ hist' = HistorySucceeded(hist[s].submitted)
      <3> DEFINE c == hist[s].submitted
                 G(q) == [hist[q] EXCEPT !.status = "succeeded"]
      <3>1. GoneTo(c)
        BY <2>4 DEF HistoryInv
      <3>2. hist' = [q \in Sources |-> IF hist[q].status # "none" /\ hist[q].cutoff <= c
                                       THEN G(q) ELSE hist[q]]
        BY <2>4 DEF HistorySucceeded
      <3>3. ASSUME NEW q \in Sources, hist[q].cutoff <= c
            PROVE  Honest(G(q)) /\ G(q).submitted = hist[q].submitted
        <4>1. G(q) = [hist[q] EXCEPT !.status = "succeeded", !.submitted = hist[q].submitted]
          BY <1>1 DEF History
        <4>2. Honest([hist[q] EXCEPT !.status = "succeeded", !.submitted = hist[q].submitted])
          BY <1>1, <3>1, <3>3, CoveredHonest
        <4> QED  BY <1>1, <4>1, <4>2 DEF History
      <3>4. ASSUME NEW q \in Sources
            PROVE  hist'[q] \in History /\ HistoryBecomes(q, hist'[q])
        <4>1. hist'[q] = hist[q] \/ (hist[q].cutoff <= c /\ hist'[q] = G(q))
          BY <3>2
        <4> HIDE DEF G
        <4> QED  BY <1>1, <2>1, <3>3, <4>1 DEF HistoryBecomes, Honest
      <3> HIDE DEF G, c
      <3>5. hist' \in [Sources -> History]
        BY <3>2, <3>4
      <3> QED  BY <1>1, <2>1, <3>4, <3>5 DEF HistoriesMove
    <2> QED  BY <1>5, <2>2, <2>3, <2>4 DEF PollHistory
  <1>6. purger.pc \in {"hattempt", "hpost"} => purger.source \in Sources
    BY DEF PurgerInv, WellFormed, PurgerRecord
  <1>7. CASE AttemptHistory
    <2> DEFINE s == purger.source
               n == IF hist[s].attempts < PurgeAttempts THEN hist[s].attempts + 1 ELSE hist[s].attempts
               h == [hist[s] EXCEPT !.status = "attempting", !.attempts = n]
    <2>1. s \in Sources
      BY <1>6, <1>7 DEF AttemptHistory
    <2>2. hist' = [hist EXCEPT ![s] = h] /\ UNCHANGED htask
      BY <1>1, <1>7, <2>1 DEF AttemptHistory, Quiet, History
    <2>3. n \in 0..PurgeAttempts
      BY <1>1, <2>1, BoundsTyped
    <2> HIDE DEF s, n
    <2>4. h \in History /\ h.cutoff = hist[s].cutoff /\ h.submitted = hist[s].submitted /\ h.status # "succeeded"
      BY <1>1, <2>1, <2>3 DEF History, Waits
    <2> HIDE DEF h
    <2>5. Honest(h)
      BY <1>1, <2>1, <2>4, StatusHonest
    <2> QED  BY <2>1, <2>2, <2>4, <2>5, HistoryWritten
  <1>8. ASSUME NEW accepted \in BOOLEAN, NEW lost \in BOOLEAN, PostHistory(accepted, lost)
        PROVE  HistoriesMove
    <2> DEFINE s == purger.source
               c == hist[s].cutoff
               h == [hist[s] EXCEPT !.status = "submitted", !.submitted = c]
               t == [state |-> "active", upTo |-> LastCovered(c)]
    <2>1. s \in Sources
      BY <1>6, <1>8 DEF PostHistory
    <2>2. CASE ~(accepted /\ ~lost)
      <3>1. hist' = [hist EXCEPT ![s] = Failure(hist[s])] /\ UNCHANGED htask
        BY <1>8, <2>2 DEF PostHistory
      <3> HIDE DEF s
      <3> QED  BY <1>2, <2>1, <3>1
    <2>3. CASE accepted /\ ~lost
      <3>1. hist' = [hist EXCEPT ![s] = h] /\ htask' = [htask EXCEPT ![s] = t]
        BY <1>8, <2>3 DEF PostHistory
      <3>2. t \in PurgeTask
        BY <1>1, <2>1, CoveredTyped DEF PurgeTask
      <3> HIDE DEF s
      <3>3. h \in History /\ h.cutoff = c /\ h.submitted = c /\ h.status = "submitted"
        BY <1>1, <2>1 DEF History
      <3> HIDE DEF h
      <3>4. Honest(h)
        BY <1>1, <2>1, <3>3 DEF Honest
      <3> HIDE DEF t
      <3>5. /\ hist' \in [Sources -> History] /\ htask' \in [Sources -> PurgeTask]
            /\ \A q \in Sources : /\ hist'[q] = IF q = s THEN h ELSE hist[q]
                                  /\ htask'[q] = IF q = s THEN t ELSE htask[q]
        BY <1>1, <2>1, <3>1, <3>2, <3>3
      <3>6. HistoryBecomes(s, h)
        BY <2>1, <3>3, <3>4, <3>5 DEF HistoryBecomes, t
      <3>7. ASSUME NEW q \in Sources, q # s
            PROVE  HistoryBecomes(q, hist[q])
        BY <1>1, <3>5, <3>7 DEF HistoryBecomes
      <3> QED  BY <3>5, <3>6, <3>7 DEF HistoriesMove
    <2> QED  BY <2>2, <2>3
  <1>9. CASE PostHistoryClean
    <2> DEFINE c == hist[purger.source].cutoff
               M(q) == IF c > hist[q].submitted THEN c ELSE hist[q].submitted
               G(q) == [hist[q] EXCEPT !.status = "succeeded", !.submitted = M(q)]
    <2>1. purger.source \in Sources
      BY <1>6, <1>9 DEF PostHistoryClean
    <2>2. GoneTo(c)
      BY <1>9 DEF PostHistoryClean, Clean, GoneTo
    <2>3. /\ hist' = [q \in Sources |-> IF hist[q].status # "none" /\ hist[q].cutoff <= c
                                        THEN G(q) ELSE hist[q]]
          /\ UNCHANGED htask
      BY <1>1, <1>9 DEF PostHistoryClean, Quiet, History
    <2>4. c \in Nat /\ c < now /\ c \in 0..MaxTime
      BY <1>1, <2>1
    <2> HIDE DEF c
    <2>5. ASSUME NEW q \in Sources, hist[q].cutoff <= c
          PROVE  Honest(G(q)) /\ GoneTo(G(q).submitted)
      <3>1. (M(q) = hist[q].submitted \/ M(q) = c) /\ M(q) \in 0..MaxTime
        BY <1>1, <2>4
      <3> HIDE DEF M
      <3> QED  BY <1>1, <2>2, <2>4, <2>5, <3>1, CoveredHonest
    <2> HIDE DEF M, G
    <2>6. ASSUME NEW q \in Sources
          PROVE  hist'[q] \in History /\ HistoryBecomes(q, hist'[q])
      <3>1. hist'[q] = hist[q] \/ (hist[q].cutoff <= c /\ hist'[q] = G(q))
        BY <2>3
      <3> QED  BY <1>1, <2>3, <2>5, <3>1 DEF HistoryBecomes, Honest
    <2>7. hist' \in [Sources -> History]
      BY <2>3, <2>6
    <2> QED  BY <1>1, <2>3, <2>6, <2>7 DEF HistoriesMove
  <1>10. \/ UNCHANGED <<hist, htask>>
         \/ \E stale, cooled \in SUBSET Events, rested \in SUBSET Sources : StartCycle(stale, cooled, rested)
         \/ \E portal, server \in BOOLEAN : Census(portal, server)
         \/ \E s \in Sources, error \in BOOLEAN : PollHistory(s, error)
         \/ AttemptHistory \/ PostHistoryClean
         \/ \E accepted, lost \in BOOLEAN : PostHistory(accepted, lost)
    BY DEF PurgerStep, Backfill, PollEvent, ListDue, AttemptEvent, PostEventGone, PostEvent,
       PostEventFails, Quiet
  <1> QED  BY <1>3, <1>4, <1>5, <1>7, <1>8, <1>9, <1>10, HistoriesStay

-----------------------------------------------------------------------------
(* Every step keeps what the proofs below rest on                          *)

PurgeInv ==
    PurgeTypeOK /\ PurgerInv /\ RowInv /\ ArrivalInv /\ HandledInv /\ HistoryInv

\* A row in hand stays one that was enqueued.
LEMMA ProvableStays ==
    ASSUME RowsMove, UNCHANGED class, NEW e \in Events, Provable(e)
    PROVE  Provable(e)'
  BY DEF RowsMove, Becomes, Provable

\* When the clock and the arrivals of the past stay, so does what is covered,
\* and nothing comes back to the homeserver.
LEMMA GoneStays ==
    ASSUME PurgeTypeOK, NEW c \in Nat, purgedTo' \in Nat, purgedTo <= purgedTo',
           \A e \in Events : \/ arrived'[e] = arrived[e]
                             \/ arrived[e] = 0 /\ arrived'[e] \in Nat /\ arrived'[e] > c
    PROVE  /\ LastCovered(c)' = LastCovered(c)
           /\ GoneTo(c) => GoneTo(c)'
  <1>1. \A e \in Events : arrived[e] \in Nat
    BY BoundsTyped DEF PurgeTypeOK
  <1>2. Covered(c)' = Covered(c)
    BY <1>1 DEF Covered
  <1>3. LastCovered(c)' = LastCovered(c)
    BY <1>2 DEF LastCovered
  <1>4. LastCovered(c) \in Nat /\ purgedTo \in Nat
    BY CoveredTyped, BoundsTyped DEF PurgeTypeOK
  <1> QED  BY <1>3, <1>4 DEF GoneTo

\* An honest record stays honest while time passes and nothing comes back.
LEMMA HonestStays ==
    ASSUME PurgeTypeOK, NEW h, Honest(h), now <= now', now' \in Nat,
           \A c \in Nat : c < now => (GoneTo(c) => GoneTo(c)')
    PROVE  Honest(h)'
  <1>1. now \in Nat /\ h.cutoff \in Nat /\ h.submitted \in Nat
    BY BoundsTyped DEF PurgeTypeOK, Honest, History
  <1> QED  BY <1>1 DEF Honest

\* The handlers keep the whole invariant,
LEMMA IngestKeepsAll ==
    ASSUME PurgeInv, NEW e \in Events, IngestStep(e)
    PROVE  PurgeInv'
  <1>1. /\ PurgeTypeOK /\ PurgerInv /\ RowInv /\ ArrivalInv /\ HandledInv /\ HistoryInv
        /\ PurgeTypeOK' /\ RowInv' /\ ArrivalInv'
    BY IngestKeeps DEF PurgeInv
  <1>2. RowsMove /\ IngestOnly /\ HandlerMoves(e)
    BY <1>1, IngestRows, IngestMoves
  <1>3. PurgerInv'
    BY <1>1, <1>2 DEF PurgerInv, IngestOnly
  <1>4. HandledInv'
    <2>1. purger' = purger /\ UNCHANGED class
      BY <1>2 DEF IngestOnly
    <2>2. purger.polls \subseteq Events /\ (purger.event # 0 => purger.event \in Events)
      BY <1>1, BoundsTyped DEF PurgerInv, WellFormed, PurgerRecord, Events
    <2> QED  BY <1>1, <1>2, <2>1, <2>2, ProvableStays DEF HandledInv
  <1>5. now \in Nat /\ purgedTo \in Nat /\ now' = now /\ purgedTo' = purgedTo /\ arrived \in [Events -> 0..MaxTime]
    BY <1>1, <1>2, BoundsTyped DEF PurgeTypeOK, IngestOnly
  <1>6. \A f \in Events : arrived'[f] = arrived[f] \/ (arrived[f] = 0 /\ arrived'[f] = now)
    BY <1>1, <1>2, <1>5 DEF HandlerMoves, Arrive, RowInv
  <1>7. ASSUME NEW c \in Nat, c < now
        PROVE  LastCovered(c)' = LastCovered(c) /\ (GoneTo(c) => GoneTo(c)')
    <2>1. \A f \in Events : \/ arrived'[f] = arrived[f]
                            \/ arrived[f] = 0 /\ arrived'[f] \in Nat /\ arrived'[f] > c
      BY <1>5, <1>6, <1>7
    <2> QED  BY <1>1, <1>5, <2>1, GoneStays
  <1>8. ASSUME NEW s \in Sources
        PROVE  /\ Honest(hist[s])'
               /\ htask[s].state = "complete" => GoneTo(hist[s].submitted)'
               /\ htask[s].state = "active"
                     => \/ LastCovered(hist[s].submitted)' <= htask[s].upTo
                        \/ GoneTo(hist[s].submitted)'
    <2> DEFINE h == hist[s]
               c == hist[s].submitted
    <2>1. hist' = hist
      BY <1>2 DEF IngestOnly
    <2>2. Honest(h) /\ c \in Nat /\ c < now
      BY <1>1, BoundsTyped DEF HistoryInv, Honest, History
    <2>3. ASSUME NEW d \in Nat, d < now
          PROVE  GoneTo(d) => GoneTo(d)'
      BY <1>7, <2>3
    <2>4. ASSUME NEW g, Honest(g)
          PROVE  Honest(g)'
      BY <1>1, <1>5, <2>3, <2>4, HonestStays
    <2>5. \A d \in Nat : d < now => LastCovered(d)' = LastCovered(d) /\ (GoneTo(d) => GoneTo(d)')
      BY <1>7
    <2>6. \A g : Honest(g) => Honest(g)'
      BY <2>4
    <2> QED  BY <1>1, <2>1, <2>2, <2>5, <2>6 DEF HistoryInv
  <1>9. HistoryInv'
    BY <1>2, <1>8 DEF HistoryInv, IngestOnly
  <1> QED  BY <1>1, <1>3, <1>4, <1>9 DEF PurgeInv

\* What the worker starts at the homeserver, and what it leaves to others.
LEMMA PurgerFrame ==
    ASSUME PurgeTypeOK, PurgerInv, PurgerStep
    PROVE  /\ WorkerOnly /\ UNCHANGED purgedTo
           /\ task' \in [Events -> PurgeTask] /\ stray' \subseteq Events
  <1>1. WorkerOnly /\ UNCHANGED purgedTo
    BY DEF PurgerStep, StartCycle, Backfill, Census, PollEvent, PollHistory, ListDue, AttemptEvent,
       PostEvent, PostEventFails, PostEventGone, AttemptHistory, PostHistory, PostHistoryClean, Quiet
  <1>2. task \in [Events -> PurgeTask] /\ stray \subseteq Events
    BY DEF PurgeTypeOK
  <1>3. ASSUME NEW b \in Events, PostEvent(b)
        PROVE  task' \in [Events -> PurgeTask] /\ stray' \subseteq Events
    <2>1. [state |-> "active", upTo |-> b] \in PurgeTask
      BY BoundsTyped DEF PurgeTask
    <2> QED  BY <1>2, <1>3, <2>1 DEF PostEvent
  <1>4. ASSUME NEW b \in Events, NEW lost \in BOOLEAN, PostEventFails(b, lost)
        PROVE  task' \in [Events -> PurgeTask] /\ stray' \subseteq Events
    BY <1>2, <1>4 DEF PostEventFails
  <1>5. ASSUME NEW accepted \in BOOLEAN, NEW lost \in BOOLEAN, PostHistory(accepted, lost)
        PROVE  task' \in [Events -> PurgeTask] /\ stray' \subseteq Events
    <2> DEFINE c == hist[purger.source].cutoff
    <2>1. purger.source \in Sources
      BY <1>5 DEF PostHistory, PurgerInv, WellFormed, PurgerRecord
    <2>2. c \in Nat /\ purgedTo \in Nat
      BY <2>1, BoundsTyped DEF PurgeTypeOK, History
    <2>3. ~Clean(c) /\ stray' \subseteq stray \cup {LastCovered(c)} /\ UNCHANGED task
      BY <1>5 DEF PostHistory
    <2> HIDE DEF c
    <2>4. LastCovered(c) \in 0..EventCount
      BY <2>2, CoveredTyped
    <2>5. LastCovered(c) \in Events
      BY <2>2, <2>3, <2>4, BoundsTyped DEF Clean, Events
    <2> QED  BY <1>2, <2>3, <2>5
  <1>6. \/ UNCHANGED <<task, stray>>
        \/ \E b \in Events : PostEvent(b)
        \/ \E b \in Events, lost \in BOOLEAN : PostEventFails(b, lost)
        \/ \E accepted, lost \in BOOLEAN : PostHistory(accepted, lost)
    BY DEF PurgerStep, StartCycle, Backfill, Census, PollEvent, PollHistory, ListDue, AttemptEvent,
       PostEventGone, AttemptHistory, PostHistoryClean, Quiet
  <1> QED  BY <1>1, <1>2, <1>3, <1>4, <1>5, <1>6

\* so does the worker,
LEMMA PurgerKeepsAll ==
    ASSUME PurgeInv, PurgerStep
    PROVE  PurgeInv'
  <1>1. PurgeTypeOK /\ PurgerInv /\ RowInv /\ ArrivalInv /\ HandledInv /\ HistoryInv
    BY DEF PurgeInv
  <1>2. RowsMove /\ PurgerGoes /\ HistoriesMove
    BY <1>1, PurgerRows, PurgerStepGoes, PurgerHistories
  <1>3. /\ WorkerOnly /\ UNCHANGED purgedTo
        /\ task' \in [Events -> PurgeTask] /\ stray' \subseteq Events
    BY <1>1, PurgerFrame
  <1>4. PurgerInv' /\ purger' \in PurgerRecord /\ (purger'.pc = "idle" => purger' = Asleep)
    BY <1>2, AsleepTyped DEF PurgerGoes, PurgerInv, WellFormed
  <1>5. PurgeTypeOK'
    BY <1>1, <1>2, <1>3, <1>4 DEF PurgeTypeOK, WorkerOnly, RowsMove, HistoriesMove, PurgerRecord
  <1>6. ASSUME NEW f \in Events
        PROVE  /\ row'[f].enq <= now
               /\ row'[f].status # "none" => arrived[f] # 0 /\ arrived[f] <= row'[f].enq
               /\ row'[f].status \notin Blockers \cup {"none"} => row'[f].msg \/ class[f] # "payload"
    <2>1. Becomes(f, row'[f])
      BY <1>2 DEF RowsMove
    <2>2. /\ row[f].enq \in Nat /\ row'[f].enq \in Nat /\ row[f].enq <= now /\ arrived[f] <= now
          /\ now \in Nat /\ arrived[f] \in Nat
      BY <1>1, <2>1, BoundsTyped DEF RowInv, Row, Becomes, ArrivalInv, PurgeTypeOK
    <2> QED  BY <1>1, <2>1, <2>2 DEF Becomes, RowInv
  <1>7. RowInv'
    BY <1>1, <1>2, <1>3, <1>6 DEF RowInv, RowsMove, WorkerOnly
  <1>8. ArrivalInv'
    BY <1>1, <1>2, <1>3 DEF ArrivalInv, WorkerOnly, HistoriesMove, HistoryBecomes, Honest
  <1>9. HandledInv'
    <2>1. UNCHANGED class
      BY <1>3 DEF WorkerOnly
    <2>2. /\ purger'.polls \subseteq Events
          /\ purger'.event # 0 => purger'.event \in Events
      BY <1>4, BoundsTyped DEF PurgerRecord, Events
    <2>3. ASSUME NEW e \in Events, row[e].status \in Waits \cup {"submitted"}
          PROVE  Provable(e)
      BY <1>1, <2>3 DEF RowInv, Provable, Waits, Blockers
    <2>4. purger'.event # 0 => Provable(purger'.event)
      BY <1>1, <1>2, <2>2, <2>3 DEF PurgerGoes, DueBoundary, HandledInv
    <2>5. \A e \in purger'.polls : Provable(e)
      BY <1>1, <1>2, <2>2, <2>3 DEF PurgerGoes, HandledInv
    <2>6. \A e \in Events : Provable(e) => Provable(e)'
      BY <1>2, <2>1, ProvableStays
    <2> QED  BY <2>2, <2>4, <2>5, <2>6 DEF HandledInv
  <1>10. HistoryInv'
    <2>1. now' = now /\ arrived' = arrived /\ purgedTo' = purgedTo
      BY <1>3 DEF WorkerOnly
    <2>2. ASSUME NEW s \in Sources
          PROVE  /\ Honest(hist'[s])
                 /\ htask'[s].state = "complete" => GoneTo(hist'[s].submitted)
                 /\ htask'[s].state = "active"
                       => LastCovered(hist'[s].submitted) <= htask'[s].upTo \/ GoneTo(hist'[s].submitted)
      <3>1. HistoryBecomes(s, hist'[s])
        BY <1>2 DEF HistoriesMove
      <3>2. hist'[s].submitted \in Nat
        BY <3>1, BoundsTyped DEF HistoryBecomes, Honest, History
      <3>3. LastCovered(hist'[s].submitted) \in Nat
        BY <1>1, <3>2, CoveredTyped, BoundsTyped
      <3> QED  BY <1>1, <3>1, <3>3 DEF HistoryBecomes, HistoryInv
    <2>3. \A h : Honest(h) => Honest(h)'
      BY <2>1 DEF Honest, GoneTo, LastCovered, Covered
    <2>4. \A c : /\ LastCovered(c)' = LastCovered(c)
                 /\ GoneTo(c) => GoneTo(c)'
      BY <2>1 DEF GoneTo, LastCovered, Covered
    <2> QED  BY <2>2, <2>3, <2>4 DEF HistoryInv
  <1> QED  BY <1>4, <1>5, <1>7, <1>8, <1>9, <1>10 DEF PurgeInv

\* The homeserver, the clock and restarts.
OutsideStep ==
    \/ \E e \in Events, ok \in BOOLEAN : TaskRuns(e, ok)
    \/ \E s \in Sources, ok \in BOOLEAN : HistoryTaskRuns(s, ok)
    \/ \E b \in Events : StrayRuns(b)
    \/ PurgeTick
    \/ \E backend \in BOOLEAN : PurgeRestart(backend)

\* A task that ends keeps how far it reaches.
LEMMA EndedTyped ==
    ASSUME NEW t \in PurgeTask, NEW ok \in BOOLEAN
    PROVE  /\ Ended(t, ok) \in PurgeTask /\ Ended(t, ok).upTo = t.upTo
           /\ Ended(t, ok).state = IF ok THEN "complete" ELSE "failed"
  BY DEF Ended, PurgeTask

\* Purging raises the watermark and never lowers it.
LEMMA RaisedTyped ==
    ASSUME purgedTo \in 0..EventCount, NEW b \in 0..EventCount, Raised(b) \/ UNCHANGED purgedTo
    PROVE  /\ purgedTo' \in 0..EventCount /\ purgedTo <= purgedTo'
           /\ Raised(b) => b <= purgedTo'
  BY BoundsTyped DEF Raised

\* A purge that the homeserver has accepted, and how far it reaches.
Accepted(b) ==
    \/ \E e \in Events : task[e].state = "active" /\ task[e].upTo = b
    \/ \E s \in Sources : htask[s].state = "active" /\ htask[s].upTo = b
    \/ b \in stray

OutsideMoves ==
    /\ OutsideOnly
    /\ purgedTo' \in 0..EventCount /\ purgedTo <= purgedTo'
    /\ purgedTo' = purgedTo \/ Accepted(purgedTo')
    /\ now' \in 1..MaxTime /\ now <= now' /\ faults' \in 0..MaxPurgeFaults
    /\ handler' \in [Events -> HandlerStep]
    /\ \A e \in Events : /\ handler'[e] = "none" <=> handler[e] = "none"
                         /\ handler'[e] \in {"done", handler[e]}
    /\ purger' = purger \/ purger' = Asleep
    /\ task' \in [Events -> PurgeTask] /\ htask' \in [Sources -> PurgeTask] /\ stray' \subseteq stray
    /\ \A e \in Events : task'[e].state = "active" => task'[e] = task[e]
    /\ \A s \in Sources :
          /\ htask'[s].state = "active" => htask'[s] = htask[s]
          /\ htask'[s].state = "complete"
                => htask'[s] = htask[s] \/ (htask[s].state = "active" /\ htask[s].upTo <= purgedTo')

\* The homeserver ends a purge it has accepted.
LEMMA PurgeRuns ==
    ASSUME PurgeTypeOK, OutsideOnly, UNCHANGED <<now, handler, purger, faults>>,
           NEW b \in 0..EventCount, Accepted(b), Raised(b) \/ UNCHANGED purgedTo,
           task' \in [Events -> PurgeTask], htask' \in [Sources -> PurgeTask], stray' \subseteq stray,
           \A e \in Events : task'[e].state = "active" => task'[e] = task[e],
           \A s \in Sources :
              /\ htask'[s].state = "active" => htask'[s] = htask[s]
              /\ htask'[s].state = "complete"
                    => htask'[s] = htask[s] \/ (htask[s].state = "active" /\ htask[s].upTo <= purgedTo')
    PROVE  OutsideMoves
  <1>1. /\ purgedTo \in 0..EventCount /\ now \in 1..MaxTime /\ now <= now
        /\ handler \in [Events -> HandlerStep] /\ faults \in 0..MaxPurgeFaults
    BY BoundsTyped DEF PurgeTypeOK, HandlerStep
  <1>2. purgedTo' \in 0..EventCount /\ purgedTo <= purgedTo'
    BY <1>1, RaisedTyped
  <1>3. purgedTo' = purgedTo \/ purgedTo' = b
    BY DEF Raised
  <1> QED  BY <1>1, <1>2, <1>3 DEF OutsideMoves

\* The homeserver, the clock and a restart: what they change.
LEMMA OutsideStepMoves ==
    ASSUME PurgeTypeOK, OutsideStep
    PROVE  OutsideMoves
  <1>1. /\ purgedTo \in 0..EventCount /\ purgedTo \in Nat /\ now \in 1..MaxTime /\ now \in Nat
        /\ handler \in [Events -> HandlerStep] /\ faults \in 0..MaxPurgeFaults /\ faults \in Nat
        /\ task \in [Events -> PurgeTask] /\ htask \in [Sources -> PurgeTask]
        /\ stray \subseteq Events
    BY BoundsTyped DEF PurgeTypeOK, HandlerStep
  <1>2. ASSUME NEW e \in Events, NEW ok \in BOOLEAN, TaskRuns(e, ok)
        PROVE  OutsideMoves
    <2> DEFINE b == task[e].upTo
    <2>1. task[e] \in PurgeTask /\ b \in 0..EventCount /\ Accepted(b)
      BY <1>1, <1>2 DEF PurgeTask, TaskRuns, Accepted
    <2>2. Raised(b) \/ UNCHANGED purgedTo
      BY <1>2 DEF TaskRuns
    <2> HIDE DEF b
    <2>3. task' = [task EXCEPT ![e] = Ended(task[e], ok)]
      BY <1>2 DEF TaskRuns
    <2>4. Ended(task[e], ok) \in PurgeTask /\ Ended(task[e], ok).state # "active"
      BY <2>1, EndedTyped
    <2>5. /\ task' \in [Events -> PurgeTask]
          /\ \A f \in Events : task'[f].state = "active" => task'[f] = task[f]
      BY <1>1, <2>3, <2>4
    <2>6. OutsideOnly /\ UNCHANGED <<now, handler, purger, htask, stray, faults>>
      BY <1>2 DEF TaskRuns
    <2> QED  BY <1>1, <2>1, <2>2, <2>5, <2>6, PurgeRuns
  <1>3. ASSUME NEW s \in Sources, NEW ok \in BOOLEAN, HistoryTaskRuns(s, ok)
        PROVE  OutsideMoves
    <2> DEFINE b == htask[s].upTo
    <2>1. htask[s] \in PurgeTask /\ b \in 0..EventCount /\ Accepted(b) /\ htask[s].state = "active"
      BY <1>1, <1>3 DEF PurgeTask, HistoryTaskRuns, Accepted
    <2>2. /\ Raised(b) \/ UNCHANGED purgedTo
          /\ ok => Raised(b)
      BY <1>3 DEF HistoryTaskRuns
    <2>3. htask' = [htask EXCEPT ![s] = Ended(htask[s], ok)]
      BY <1>3 DEF HistoryTaskRuns
    <2>4. /\ Ended(htask[s], ok) \in PurgeTask /\ Ended(htask[s], ok).state # "active"
          /\ Ended(htask[s], ok).state = "complete" => ok
      BY <2>1, EndedTyped
    <2>5. ok => b <= purgedTo'
      BY <1>1, <2>1, <2>2, RaisedTyped
    <2>6. /\ htask' \in [Sources -> PurgeTask]
          /\ \A q \in Sources :
                /\ htask'[q].state = "active" => htask'[q] = htask[q]
                /\ htask'[q].state = "complete"
                      => htask'[q] = htask[q] \/ (htask[q].state = "active" /\ htask[q].upTo <= purgedTo')
      BY <1>1, <2>1, <2>3, <2>4, <2>5
    <2>7. OutsideOnly /\ UNCHANGED <<now, handler, purger, task, stray, faults>>
      BY <1>3 DEF HistoryTaskRuns
    <2> HIDE DEF b
    <2> QED  BY <1>1, <2>1, <2>2, <2>6, <2>7, PurgeRuns
  <1>4. ASSUME NEW b \in Events, StrayRuns(b)
        PROVE  OutsideMoves
    <2>1. b \in 0..EventCount /\ Accepted(b) /\ Raised(b) /\ stray' \subseteq stray
      BY <1>4, BoundsTyped DEF StrayRuns, Accepted
    <2>2. OutsideOnly /\ UNCHANGED <<now, handler, purger, task, htask, faults>>
      BY <1>4 DEF StrayRuns
    <2> QED  BY <1>1, <2>1, <2>2, PurgeRuns
  <1>5. CASE PurgeTick
    <2>1. now' \in 1..MaxTime /\ now <= now' /\ purgedTo <= purgedTo
      BY <1>1, <1>5, BoundsTyped DEF PurgeTick
    <2>2. OutsideOnly /\ UNCHANGED <<handler, purger, task, htask, stray, purgedTo, faults>>
      BY <1>5 DEF PurgeTick
    <2> QED  BY <1>1, <2>1, <2>2 DEF OutsideMoves
  <1>6. ASSUME NEW backend \in BOOLEAN, PurgeRestart(backend)
        PROVE  OutsideMoves
    <2>1. faults' \in 0..MaxPurgeFaults /\ now <= now /\ purgedTo <= purgedTo
      BY <1>1, <1>6, BoundsTyped DEF PurgeRestart
    <2>2. /\ handler' \in [Events -> HandlerStep]
          /\ \A e \in Events : /\ handler'[e] = "none" <=> handler[e] = "none"
                               /\ handler'[e] \in {"done", handler[e]}
      BY <1>1, <1>6 DEF PurgeRestart, HandlerStep
    <2>3. NoTask \in PurgeTask /\ NoTask.state = "none"
      BY BoundsTyped DEF NoTask, PurgeTask
    <2>4. /\ task' = task \/ task' = [e \in Events |-> NoTask]
          /\ htask' = htask \/ htask' = [s \in Sources |-> NoTask]
      BY <1>6 DEF PurgeRestart
    <2>5. /\ task' \in [Events -> PurgeTask] /\ htask' \in [Sources -> PurgeTask]
          /\ \A e \in Events : task'[e].state = "active" => task'[e] = task[e]
          /\ \A s \in Sources : htask'[s].state \in {"active", "complete"} => htask'[s] = htask[s]
      BY <1>1, <2>3, <2>4
    <2>6. /\ OutsideOnly /\ UNCHANGED <<now, stray, purgedTo>>
          /\ purger' = purger \/ purger' = Asleep
      BY <1>6 DEF PurgeRestart
    <2> QED  BY <1>1, <2>1, <2>2, <2>5, <2>6 DEF OutsideMoves
  <1> QED  BY <1>2, <1>3, <1>4, <1>5, <1>6 DEF OutsideStep

\* The outside keeps the whole invariant too.
LEMMA OutsideKeepsAll ==
    ASSUME PurgeInv, OutsideStep
    PROVE  PurgeInv'
  <1>1. PurgeTypeOK /\ PurgerInv /\ RowInv /\ ArrivalInv /\ HandledInv /\ HistoryInv /\ OutsideMoves
    BY OutsideStepMoves DEF PurgeInv
  <1>2. /\ now \in Nat /\ now' \in Nat /\ now <= now' /\ purgedTo \in Nat /\ purgedTo' \in Nat
        /\ purgedTo <= purgedTo'
        /\ UNCHANGED <<forced, arrived, class, stored, row, hist, late>>
    BY <1>1, BoundsTyped DEF OutsideMoves, OutsideOnly, PurgeTypeOK
  <1>3. /\ PurgerInv' /\ purger' \in PurgerRecord /\ (purger'.pc = "idle" => purger' = Asleep)
        /\ purger' = purger \/ (purger'.event = 0 /\ purger'.polls = {})
    <2>1. WellFormed(purger') /\ (purger' = purger \/ purger' = Asleep)
      BY <1>1, AsleepTyped DEF OutsideMoves, PurgerInv
    <2> QED  BY <2>1, AsleepTyped DEF PurgerInv, WellFormed, Asleep
  <1>4. PurgeTypeOK'
    BY <1>1, <1>2, <1>3 DEF PurgeTypeOK, OutsideMoves, PurgerRecord, HandlerStep
  <1>5. RowInv'
    <2>1. ASSUME NEW e \in Events
          PROVE  /\ handler'[e] = "none" <=> arrived[e] = 0
                 /\ handler'[e] = "marked" => class[e] = "payload"
                 /\ row[e].enq <= now'
      <3>1. row[e].enq \in Nat /\ row[e].enq <= now
        BY <1>1, BoundsTyped DEF RowInv, Row
      <3> QED  BY <1>1, <1>2, <3>1 DEF OutsideMoves, RowInv
    <2> QED  BY <1>1, <1>2, <2>1 DEF RowInv
  <1>6. ArrivalInv'
    <2>1. \A e \in Events : arrived[e] \in Nat
      BY <1>1, BoundsTyped DEF PurgeTypeOK
    <2>2. \A s \in Sources : hist[s].cutoff \in Nat /\ hist[s].submitted \in Nat
      BY <1>1, BoundsTyped DEF PurgeTypeOK, History
    <2> QED  BY <1>1, <1>2, <2>1, <2>2 DEF ArrivalInv
  <1>7. HandledInv'
    BY <1>1, <1>2, <1>3 DEF HandledInv, Provable
  <1>8. HistoryInv'
    <2>1. \A c \in Nat : LastCovered(c)' = LastCovered(c) /\ (GoneTo(c) => GoneTo(c)')
      BY <1>1, <1>2, GoneStays
    <2>2. \A h : Honest(h) => Honest(h)'
      BY <1>1, <1>2, <2>1, HonestStays
    <2>3. ASSUME NEW s \in Sources
          PROVE  /\ Honest(hist[s])'
                 /\ htask'[s].state = "complete" => GoneTo(hist[s].submitted)'
                 /\ htask'[s].state = "active"
                       => \/ LastCovered(hist[s].submitted)' <= htask'[s].upTo
                          \/ GoneTo(hist[s].submitted)'
      <3> DEFINE c == hist[s].submitted
      <3>1. Honest(hist[s]) /\ c \in Nat
        BY <1>1, BoundsTyped DEF HistoryInv, Honest, History
      <3>2. Honest(hist[s])'
        BY <1>2, <2>2, <3>1
      <3>3. /\ htask[s].state = "complete" => GoneTo(c)
            /\ htask[s].state = "active" => LastCovered(c) <= htask[s].upTo \/ GoneTo(c)
        BY <1>1 DEF HistoryInv
      <3>4. /\ LastCovered(c)' = LastCovered(c) /\ (GoneTo(c) => GoneTo(c)') /\ c' = c
            /\ LastCovered(c) \in Nat /\ htask[s].upTo \in Nat
            /\ GoneTo(c)' <=> LastCovered(c) <= purgedTo'
        <4>1. LastCovered(c)' = LastCovered(c) /\ (GoneTo(c) => GoneTo(c)') /\ c' = c
          BY <1>2, <2>1, <3>1
        <4>2. LastCovered(c) \in Nat /\ htask[s].upTo \in Nat
          BY <1>1, <3>1, CoveredTyped, BoundsTyped DEF PurgeTypeOK, PurgeTask
        <4> QED  BY <4>1, <4>2 DEF GoneTo
      <3> HIDE DEF c
      <3>5. /\ htask'[s].state = "active" => htask'[s] = htask[s]
            /\ htask'[s].state = "complete"
                  => htask'[s] = htask[s] \/ (htask[s].state = "active" /\ htask[s].upTo <= purgedTo')
        BY <1>1 DEF OutsideMoves
      <3>6. /\ htask'[s].state = "complete" => GoneTo(c)'
            /\ htask'[s].state = "active" => LastCovered(c)' <= htask'[s].upTo \/ GoneTo(c)'
        BY <1>2, <3>3, <3>4, <3>5
      <3> QED  BY <3>2, <3>6 DEF c
    <2> QED  BY <1>2, <2>3 DEF HistoryInv
  <1> QED  BY <1>3, <1>4, <1>5, <1>6, <1>7, <1>8 DEF PurgeInv

\* It holds initially, with any number of events from before the upgrade,
LEMMA PurgeInitial ==
    ASSUME PurgeInit
    PROVE  PurgeInv
  <1>1. /\ now = 1 /\ row = [e \in Events |-> NoRow] /\ hist = [s \in Sources |-> NoHistory]
        /\ purger = Asleep /\ task = [e \in Events |-> NoTask] /\ htask = [s \in Sources |-> NoTask]
        /\ stray = {} /\ purgedTo = 0 /\ faults = 0 /\ late = {} /\ forced \in BOOLEAN
    BY DEF PurgeInit
  <1>2. PICK legacy \in 0..MaxLegacy :
           /\ arrived = [e \in Events |-> IF e <= legacy THEN 1 ELSE 0]
           /\ class \in [Events -> {"payload", "discard", "other"}]
           /\ handler = [e \in Events |-> IF e <= legacy THEN "legacy" ELSE "none"]
           /\ stored = 1..legacy
    BY DEF PurgeInit
  <1>3. legacy \in Nat /\ legacy <= EventCount /\ \A e \in Events : e \in Nat /\ e >= 1
    BY BoundsTyped
  <1>4. /\ now \in 1..MaxTime /\ purgedTo \in 0..EventCount /\ faults \in 0..MaxPurgeFaults
        /\ arrived \in [Events -> 0..MaxTime]
    BY <1>1, <1>2, BoundsTyped
  <1>5. handler \in [Events -> HandlerStep] /\ stored \subseteq Events
    BY <1>2, <1>3, BoundsTyped DEF HandlerStep, Events
  <1>6. NoHistory \in History /\ NoHistory.cutoff = 0 /\ NoHistory.submitted = 0 /\ NoHistory.status = "none"
    BY BoundsTyped DEF NoHistory, History
  <1>7. NoTask \in PurgeTask /\ NoTask.state = "none"
    BY BoundsTyped DEF NoTask, PurgeTask
  <1>8. /\ row \in [Events -> Row] /\ hist \in [Sources -> History]
        /\ task \in [Events -> PurgeTask] /\ htask \in [Sources -> PurgeTask]
    BY <1>1, <1>6, <1>7, NoRowTyped
  <1>9. PurgerInv /\ purger \in PurgerRecord
    BY <1>1, AsleepTyped DEF PurgerInv, WellFormed
  <1>10. PurgeTypeOK
    BY <1>1, <1>2, <1>4, <1>5, <1>8, <1>9 DEF PurgeTypeOK, PurgerRecord, HandlerStep
  <1>11. RowInv
    <2>1. ASSUME NEW e \in Events
          PROVE  row[e].status = "none" /\ row[e].enq <= now
      BY <1>1, NoRowTyped
    <2>2. ASSUME NEW e \in Events
          PROVE  /\ handler[e] = "none" <=> arrived[e] = 0
                 /\ e \in stored => arrived[e] # 0
                 /\ handler[e] # "marked"
      BY <1>2, <1>3
    <2> QED  BY <1>8, <2>1, <2>2 DEF RowInv
  <1>12. ArrivalInv
    BY <1>1, <1>2, <1>3, <1>6 DEF ArrivalInv
  <1>13. HandledInv
    BY <1>1 DEF HandledInv, Asleep
  <1>14. HistoryInv
    BY <1>1, <1>6, <1>7 DEF HistoryInv, Honest
  <1> QED  BY <1>9, <1>10, <1>11, <1>12, <1>13, <1>14 DEF PurgeInv

\* in a step that changes nothing,
LEMMA PurgeStutters ==
    ASSUME PurgeInv, UNCHANGED purgeVars
    PROVE  PurgeInv'
  <1>1. PurgeTypeOK /\ PurgerInv /\ RowInv /\ ArrivalInv /\ HandledInv /\ HistoryInv
    BY DEF PurgeInv
  <1>2. PurgeTypeOK' /\ PurgerInv'
    BY <1>1 DEF purgeVars, PurgeTypeOK, PurgerInv
  <1>3. RowInv' /\ ArrivalInv'
    BY <1>1 DEF purgeVars, RowInv, ArrivalInv
  <1>4. HandledInv'
    BY <1>1 DEF purgeVars, HandledInv, Provable
  <1>5. \A c : GoneTo(c)' = GoneTo(c) /\ LastCovered(c)' = LastCovered(c)
    BY DEF purgeVars, GoneTo, LastCovered, Covered
  <1>6. HistoryInv'
    BY <1>1, <1>5 DEF purgeVars, HistoryInv, Honest
  <1> QED  BY <1>2, <1>3, <1>4, <1>6 DEF PurgeInv

\* and after every step.
LEMMA PurgeStepKeeps ==
    ASSUME PurgeInv, [PurgeNext]_purgeVars
    PROVE  PurgeInv'
  <1>1. \/ \E e \in Events : IngestStep(e)
        \/ PurgerStep
        \/ OutsideStep
        \/ UNCHANGED purgeVars
    BY DEF PurgeNext, OutsideStep
  <1> QED  BY <1>1, IngestKeepsAll, PurgerKeepsAll, OutsideKeepsAll, PurgeStutters

\* The types, and with them: a row belongs to an event that has arrived, arrivals
\* follow the timeline, the worker has only proven rows in hand, and a record of
\* a history claims no more than is gone.
THEOREM PurgeIsInductive == PurgeSpec => []PurgeInv
  BY PurgeInitial, PurgeStepKeeps, PTL DEF PurgeSpec

\* handle_bridge_message, the purge worker and the homeserver's tasks keep the
\* types of every table, for any number of events, faults and periods.
THEOREM PurgeTypeCorrect == PurgeSpec => []PurgeTypeOK
  BY PurgeIsInductive, PTL DEF PurgeInv

\* A room history recorded as purged is gone up to its cutoff, whichever source's
\* task did it and whatever was lost on the way (record_room_history_succeeded).
THEOREM HistoriesAreGone == PurgeSpec => []HistoryIsGone
  <1>1. PurgeInv => HistoryIsGone
    BY DEF PurgeInv, HistoryInv, Honest, GoneTo, HistoryIsGone
  <1> QED  BY <1>1, PurgeIsInductive, PTL

-----------------------------------------------------------------------------
(* The limit of tasks in flight                                            *)

SubmittedRows == {e \in Events : row[e].status = "submitted"}
SubmittedHistories == {s \in Sources : hist[s].status = "submitted"}
EventInHand == IF purger.event # 0 THEN 1 ELSE 0
HistoryInHand == IF purger.source # "none" THEN 1 ELSE 0

\* The worker has a free slot for all it has listed.
SlotInv == InFlight + EventInHand + HistoryInHand <= MaxInFlight

\* Purges in flight are counted over finite sets.
LEMMA InFlightIs ==
    /\ InFlight = Cardinality(SubmittedRows) + Cardinality(SubmittedHistories)
    /\ IsFiniteSet(SubmittedRows) /\ IsFiniteSet(SubmittedHistories)
    /\ Cardinality(SubmittedRows) \in Nat /\ Cardinality(SubmittedHistories) \in Nat
    /\ EventInHand \in {0, 1} /\ HistoryInHand \in {0, 1}
  <1>1. IsFiniteSet(Events) /\ IsFiniteSet(Sources)
    <2>1. IsFiniteSet({"portal"}) /\ {"portal"} \cup {"server"} = Sources
      BY FS_Singleton DEF Sources
    <2>2. IsFiniteSet(Sources)
      BY <2>1, FS_AddElement
    <2>3. IsFiniteSet(Events)
      BY BoundsTyped, FS_Interval DEF Events
    <2> QED  BY <2>2, <2>3
  <1>2. IsFiniteSet(SubmittedRows) /\ IsFiniteSet(SubmittedHistories)
    BY <1>1, FS_Subset DEF SubmittedRows, SubmittedHistories
  <1> QED
    BY <1>2, FS_CardinalityType DEF InFlight, SubmittedRows, SubmittedHistories, EventInHand, HistoryInHand

\* Nothing new is submitted, and nothing new is in hand.
LEMMA SlotsStay ==
    ASSUME SlotInv, SubmittedRows' \subseteq SubmittedRows,
           SubmittedHistories' \subseteq SubmittedHistories,
           purger'.event # 0 => purger.event # 0,
           purger'.source # "none" => purger.source # "none"
    PROVE  SlotInv'
  <1>1. /\ Cardinality(SubmittedRows') <= Cardinality(SubmittedRows)
        /\ Cardinality(SubmittedHistories') <= Cardinality(SubmittedHistories)
        /\ Cardinality(SubmittedRows') \in Nat /\ Cardinality(SubmittedHistories') \in Nat
    BY InFlightIs, FS_Subset, FS_CardinalityType
  <1>2. InFlight' = Cardinality(SubmittedRows') + Cardinality(SubmittedHistories')
    BY DEF InFlight, SubmittedRows, SubmittedHistories
  <1>3. EventInHand' <= EventInHand /\ HistoryInHand' <= HistoryInHand
        /\ EventInHand' \in {0, 1} /\ HistoryInHand' \in {0, 1}
    BY DEF EventInHand, HistoryInHand
  <1> QED  BY <1>1, <1>2, <1>3, InFlightIs, BoundsTyped DEF SlotInv

\* The boundary or the history in hand is submitted, and takes the slot it had.
LEMMA SlotsMove ==
    ASSUME SlotInv, NEW E, NEW S,
           \/ E = {} /\ EventInHand' = EventInHand
           \/ (\E e : E = {e}) /\ EventInHand = 1 /\ EventInHand' = 0,
           \/ S = {} /\ HistoryInHand' = HistoryInHand
           \/ (\E s : S = {s}) /\ HistoryInHand = 1 /\ HistoryInHand' = 0,
           SubmittedRows' \subseteq SubmittedRows \cup E,
           SubmittedHistories' \subseteq SubmittedHistories \cup S
    PROVE  SlotInv'
  <1>1. ASSUME NEW A, NEW B, NEW x, IsFiniteSet(A), B \subseteq A \cup {x}
        PROVE  /\ IsFiniteSet(B) /\ Cardinality(B) \in Nat /\ Cardinality(A) \in Nat
               /\ Cardinality(B) <= Cardinality(A) + 1
    <2>1. /\ IsFiniteSet(A \cup {x}) /\ Cardinality(A \cup {x}) <= Cardinality(A) + 1
          /\ Cardinality(A) \in Nat /\ Cardinality(A \cup {x}) \in Nat
      BY <1>1, FS_AddElement, FS_CardinalityType
    <2> QED  BY <1>1, <2>1, FS_Subset, FS_CardinalityType
  <1>2. ASSUME NEW A, NEW B, IsFiniteSet(A), B \subseteq A
        PROVE  /\ IsFiniteSet(B) /\ Cardinality(B) \in Nat /\ Cardinality(A) \in Nat
               /\ Cardinality(B) <= Cardinality(A)
    BY <1>2, FS_Subset, FS_CardinalityType
  <1>3. /\ Cardinality(SubmittedRows') \in Nat
        /\ Cardinality(SubmittedRows') + EventInHand' <= Cardinality(SubmittedRows) + EventInHand
    <2>1. CASE E = {} /\ EventInHand' = EventInHand
      BY <1>2, <2>1, InFlightIs
    <2>2. CASE (\E e : E = {e}) /\ EventInHand = 1 /\ EventInHand' = 0
      <3>1. PICK e : E = {e}
        BY <2>2
      <3>2. /\ Cardinality(SubmittedRows') \in Nat /\ Cardinality(SubmittedRows) \in Nat
            /\ Cardinality(SubmittedRows') <= Cardinality(SubmittedRows) + 1
        BY <1>1, <3>1, InFlightIs
      <3> QED  BY <2>2, <3>2
    <2> QED  BY <2>1, <2>2
  <1>4. /\ Cardinality(SubmittedHistories') \in Nat
        /\ Cardinality(SubmittedHistories') + HistoryInHand'
              <= Cardinality(SubmittedHistories) + HistoryInHand
    <2>1. CASE S = {} /\ HistoryInHand' = HistoryInHand
      BY <1>2, <2>1, InFlightIs
    <2>2. CASE (\E s : S = {s}) /\ HistoryInHand = 1 /\ HistoryInHand' = 0
      <3>1. PICK s : S = {s}
        BY <2>2
      <3>2. /\ Cardinality(SubmittedHistories') \in Nat /\ Cardinality(SubmittedHistories) \in Nat
            /\ Cardinality(SubmittedHistories') <= Cardinality(SubmittedHistories) + 1
        BY <1>1, <3>1, InFlightIs
      <3> QED  BY <2>2, <3>2
    <2> QED  BY <2>1, <2>2
  <1>5. /\ InFlight' = Cardinality(SubmittedRows') + Cardinality(SubmittedHistories')
        /\ EventInHand' \in {0, 1} /\ HistoryInHand' \in {0, 1}
    BY DEF InFlight, SubmittedRows, SubmittedHistories, EventInHand, HistoryInHand
  <1> QED  BY <1>3, <1>4, <1>5, InFlightIs, BoundsTyped DEF SlotInv

\* The handlers submit nothing.
LEMMA IngestSlots ==
    ASSUME SlotInv, PurgeInv, NEW e \in Events, IngestStep(e)
    PROVE  SlotInv'
  <1>1. row \in [Events -> Row] /\ IngestOnly
    BY IngestMoves DEF PurgeInv, RowInv
  <1>2. ASSUME NEW s \in {"ingesting", "ingest_failed", "pending"}, NEW k, row' = Inserted(e, s, k)
        PROVE  SubmittedRows' \subseteq SubmittedRows
    <2>1. [NoRow EXCEPT !.status = s, !.kind = k, !.enq = now].status = s
      BY DEF NoRow
    <2> QED  BY <1>1, <1>2, <2>1 DEF Inserted, SubmittedRows
  <1>3. CASE Dismiss(e) \/ Retain(e) \/ \E ok \in BOOLEAN : Mark(e, ok)
    <2>1. \/ row' = row
          \/ \E s \in {"ingesting", "ingest_failed", "pending"}, k \in RowKind : row' = Inserted(e, s, k)
      BY <1>3 DEF Dismiss, Retain, Mark, RowKind
    <2>2. SubmittedRows' \subseteq SubmittedRows
      BY <1>2, <2>1 DEF SubmittedRows
    <2> QED  BY <1>1, <2>2, SlotsStay DEF IngestOnly, SubmittedHistories
  <1>4. CASE StoreFails(e) \/ Enqueue(e)
    <2>1. row[e] \in Row
      BY <1>1
    <2>2. /\ [NoRow EXCEPT !.status = "pending", !.enq = now, !.msg = TRUE].status = "pending"
          /\ [row[e] EXCEPT !.status = "pending", !.attempts = 0, !.msg = TRUE].status = "pending"
          /\ [row[e] EXCEPT !.status = "ingest_failed"].status = "ingest_failed"
      BY <2>1 DEF NoRow, Row
    <2>3. \/ row' = row
          \/ \E r : row' = [row EXCEPT ![e] = r] /\ r.status # "submitted"
      BY <1>4, <2>2 DEF StoreFails, Enqueue
    <2>4. SubmittedRows' \subseteq SubmittedRows
      BY <1>1, <2>3 DEF SubmittedRows
    <2> QED  BY <1>1, <2>4, SlotsStay DEF IngestOnly, SubmittedHistories
  <1>5. CASE row' = row
    <2>1. SubmittedRows' \subseteq SubmittedRows
      BY <1>5 DEF SubmittedRows
    <2> QED  BY <1>1, <2>1, SlotsStay DEF IngestOnly, SubmittedHistories
  <1> QED
    BY <1>3, <1>4, <1>5 DEF IngestStep, Arrive, Store, EnqueueFails, Redeliver, Redact

\* In every step but the listing, what is in hand was in hand.
LEMMA HandKept ==
    ASSUME PurgerInv, PurgerStep, ~ListDue
    PROVE  /\ purger'.event \in {0, purger.event}
           /\ purger'.source \in {"none", purger.source}
  <1>1. WellFormed(purger) /\ purger \in PurgerRecord
    BY DEF PurgerInv, WellFormed
  <1>2. ASSUME NEW stale \in SUBSET Events, NEW cooled \in SUBSET Events, NEW rested \in SUBSET Sources,
               StartCycle(stale, cooled, rested)
        PROVE  purger'.event = purger.event /\ purger'.source = purger.source
    BY <1>1, <1>2, GoesTo DEF StartCycle
  <1>3. ASSUME NEW e \in Events, Backfill(e)
        PROVE  purger'.event = purger.event /\ purger'.source = purger.source
    BY <1>1, <1>3, GoesTo DEF Backfill
  <1>4. ASSUME NEW b \in BOOLEAN, NEW c \in BOOLEAN, Census(b, c)
        PROVE  purger'.event = purger.event /\ purger'.source = purger.source
    BY <1>1, <1>4 DEF Census, PurgerRecord
  <1>5. ASSUME NEW e \in Events, NEW b \in BOOLEAN, PollEvent(e, b)
        PROVE  purger'.event = purger.event /\ purger'.source = purger.source
    BY <1>1, <1>5 DEF PollEvent, PurgerRecord
  <1>6. ASSUME NEW s \in Sources, NEW b \in BOOLEAN, PollHistory(s, b)
        PROVE  purger'.event = purger.event /\ purger'.source = purger.source
    BY <1>1, <1>6 DEF PollHistory, PurgerRecord
  <1>7. CASE AttemptEvent \/ AttemptHistory
    BY <1>1, <1>7, GoesTo DEF AttemptEvent, AttemptHistory
  <1>8. CASE \/ PostEventGone \/ \E b \in Events : PostEvent(b)
             \/ \E b \in Events, lost \in BOOLEAN : PostEventFails(b, lost)
    <2>1. purger.pc = "post" /\ purger' = AfterEvent
      BY <1>8 DEF PostEventGone, PostEvent, PostEventFails
    <2> QED  BY <1>1, <2>1, AfterEventTyped
  <1>9. CASE PostHistoryClean \/ \E accepted, lost \in BOOLEAN : PostHistory(accepted, lost)
    <2>1. purger' = Asleep
      BY <1>9 DEF PostHistoryClean, PostHistory
    <2> QED  BY <2>1 DEF Asleep
  <1> QED
    BY <1>2, <1>3, <1>4, <1>5, <1>6, <1>7, <1>8, <1>9 DEF PurgerStep

\* Only an accepted boundary makes its row a submitted one ...
LEMMA RowsSubmitted ==
    ASSUME PurgeInv, PurgerStep, ~\E b \in Events : PostEvent(b)
    PROVE  SubmittedRows' \subseteq SubmittedRows
  <1>1. /\ row \in [Events -> Row] /\ purger \in PurgerRecord
        /\ purger.pc \in {"attempt", "post"} => purger.event \in Events
    BY BoundsTyped DEF PurgeInv, RowInv, PurgerInv, WellFormed, PurgerRecord, Events
  <1>2. ASSUME NEW stale \in SUBSET Events, NEW cooled \in SUBSET Events, NEW rested \in SUBSET Sources,
               StartCycle(stale, cooled, rested)
        PROVE  SubmittedRows' \subseteq SubmittedRows
    <2>1. row' = [e \in Events |->
             CASE e \in stale -> [row[e] EXCEPT !.status = "pending", !.attempts = 0,
                                                !.msg = TRUE, !.enq = now]
               [] e \in cooled -> [row[e] EXCEPT !.status = "retrying", !.attempts = 0]
               [] OTHER -> row[e]]
      BY <1>2 DEF StartCycle
    <2>2. ASSUME NEW e \in Events, row'[e].status = "submitted"
          PROVE  row[e].status = "submitted"
      <3>1. row[e] \in Row
        BY <1>1
      <3>2. /\ [row[e] EXCEPT !.status = "pending", !.attempts = 0, !.msg = TRUE, !.enq = now].status = "pending"
            /\ [row[e] EXCEPT !.status = "retrying", !.attempts = 0].status = "retrying"
        BY <3>1 DEF Row
      <3> QED  BY <2>1, <2>2, <3>2
    <2> QED  BY <2>2 DEF SubmittedRows
  <1>3. ASSUME NEW e \in Events, NEW r, row' = [row EXCEPT ![e] = r], r.status # "submitted"
        PROVE  SubmittedRows' \subseteq SubmittedRows
    BY <1>1, <1>3 DEF SubmittedRows
  <1>4. ASSUME NEW b \in Events, row' = SucceededThrough(b)
        PROVE  SubmittedRows' \subseteq SubmittedRows
    <2>1. ASSUME NEW e \in Events, row'[e].status = "submitted"
          PROVE  row[e].status = "submitted"
      <3>1. row[e] \in Row /\ [row[e] EXCEPT !.status = "succeeded"].status = "succeeded"
        BY <1>1 DEF Row
      <3> QED  BY <1>4, <2>1, <3>1 DEF SucceededThrough
    <2> QED  BY <2>1 DEF SubmittedRows
  <1>5. ASSUME NEW e \in Events, Backfill(e)
        PROVE  SubmittedRows' \subseteq SubmittedRows
    <2>1. \A k : /\ [NoRow EXCEPT !.status = "pending", !.enq = now, !.msg = TRUE, !.kind = k].status = "pending"
                 /\ [NoRow EXCEPT !.status = "audit_blocked", !.enq = now, !.msg = TRUE].status = "audit_blocked"
      BY DEF NoRow
    <2>2. \E r : row' = [row EXCEPT ![e] = r] /\ r.status # "submitted"
      BY <1>5, <2>1 DEF Backfill
    <2> QED  BY <1>3, <2>2
  <1>6. ASSUME NEW e \in Events, row' = [row EXCEPT ![e] = Failure(row[e])]
        PROVE  SubmittedRows' \subseteq SubmittedRows
    <2>1. row[e] \in Row /\ Failure(row[e]).status # "submitted"
      BY <1>1, FailureIs
    <2> QED  BY <1>3, <1>6, <2>1
  <1>7. ASSUME NEW e \in Events, NEW b \in BOOLEAN, PollEvent(e, b)
        PROVE  SubmittedRows' \subseteq SubmittedRows
    <2>1. row' = [row EXCEPT ![e] = Failure(row[e])] \/ row' = SucceededThrough(e) \/ row' = row
      BY <1>7 DEF PollEvent
    <2> QED  BY <1>4, <1>6, <2>1 DEF SubmittedRows
  <1>8. CASE AttemptEvent
    <2> DEFINE e == purger.event
               n == IF row[e].attempts < PurgeAttempts THEN row[e].attempts + 1 ELSE row[e].attempts
    <2>1. e \in Events /\ row[e] \in Row
      BY <1>1, <1>8 DEF AttemptEvent
    <2>2. row' = [row EXCEPT ![e] = [row[e] EXCEPT !.status = "attempting", !.attempts = n]]
      BY <1>1, <1>8, <2>1 DEF AttemptEvent, Row
    <2> HIDE DEF e, n
    <2>3. [row[e] EXCEPT !.status = "attempting", !.attempts = n].status = "attempting"
      BY <2>1 DEF Row
    <2> QED  BY <1>3, <2>1, <2>2, <2>3
  <1>9. CASE PostEventGone \/ \E b \in Events, lost \in BOOLEAN : PostEventFails(b, lost)
    <2> DEFINE e == purger.event
    <2>1. e \in Events
      BY <1>1, <1>9 DEF PostEventGone, PostEventFails
    <2>2. row' = [row EXCEPT ![e] = Failure(row[e])] \/ row' = SucceededThrough(e)
      BY <1>9 DEF PostEventGone, PostEventFails
    <2> HIDE DEF e
    <2> QED  BY <1>4, <1>6, <2>1, <2>2
  <1>10. CASE row' = row
    BY <1>10 DEF SubmittedRows
  <1> QED
    BY <1>2, <1>5, <1>7, <1>8, <1>9, <1>10
    DEF PurgerStep, Census, PollHistory, ListDue, AttemptHistory, PostHistory, PostHistoryClean

\* ... and only an accepted history its own.
LEMMA HistoriesSubmitted ==
    ASSUME PurgeInv, PurgerStep
    PROVE  \/ SubmittedHistories' \subseteq SubmittedHistories
           \/ /\ SubmittedHistories' \subseteq SubmittedHistories \cup {purger.source}
              /\ purger.pc = "hpost" /\ purger' = Asleep
  <1>1. /\ hist \in [Sources -> History] /\ purger \in PurgerRecord
        /\ purger.pc \in {"hattempt", "hpost"} => purger.source \in Sources
    BY DEF PurgeInv, PurgeTypeOK, PurgerInv, WellFormed, PurgerRecord
  <1>2. ASSUME NEW s \in Sources, NEW h, hist' = [hist EXCEPT ![s] = h], h.status # "submitted"
        PROVE  SubmittedHistories' \subseteq SubmittedHistories
    BY <1>1, <1>2 DEF SubmittedHistories
  <1>3. ASSUME NEW stale \in SUBSET Events, NEW cooled \in SUBSET Events, NEW rested \in SUBSET Sources,
               StartCycle(stale, cooled, rested)
        PROVE  SubmittedHistories' \subseteq SubmittedHistories
    <2>1. hist' = [s \in Sources |->
             IF s \in rested THEN [hist[s] EXCEPT !.status = "retrying", !.attempts = 0] ELSE hist[s]]
      BY <1>3 DEF StartCycle
    <2>2. ASSUME NEW s \in Sources, hist'[s].status = "submitted"
          PROVE  hist[s].status = "submitted"
      <3>1. hist[s] \in History /\ [hist[s] EXCEPT !.status = "retrying", !.attempts = 0].status = "retrying"
        BY <1>1 DEF History
      <3> QED  BY <2>1, <2>2, <3>1
    <2> QED  BY <2>2 DEF SubmittedHistories
  <1>4. ASSUME NEW b \in BOOLEAN, NEW c \in BOOLEAN, Census(b, c)
        PROVE  SubmittedHistories' \subseteq SubmittedHistories
    <2> DEFINE p == PortalCensus(hist["portal"], now - 1)
               q == ServerCensus(hist["server"], now - 1)
    <2>1. "portal" \in Sources /\ "server" \in Sources /\ hist["portal"] \in History /\ hist["server"] \in History
      BY <1>1 DEF Sources
    <2>2. /\ hist'["portal"] \in {p, hist["portal"]} /\ hist'["server"] \in {q, hist["server"]}
          /\ \A s \in Sources : s \in {"portal", "server"}
      BY <1>1, <1>4, <2>1 DEF Census, Sources
    <2>3. p.status = "submitted" => hist["portal"].status = "submitted"
      <3> DEFINE h == hist["portal"]
                 c1 == now - 1
      <3>1. h \in History
        BY <2>1
      <3> HIDE DEF h, c1
      <3>2. PortalCensus(h, c1).status = "submitted" => h.status = "submitted"
        BY <3>1 DEF PortalCensus, History, NoHistory
      <3> QED  BY <3>2 DEF h, c1
    <2>4. q.status = "submitted" => hist["server"].status = "submitted"
      <3> DEFINE h == hist["server"]
                 c1 == now - 1
      <3>1. h \in History
        BY <2>1
      <3> HIDE DEF h, c1
      <3>2. ServerCensus(h, c1).status = "submitted" => h.status = "submitted"
        BY <3>1 DEF ServerCensus, History, NoHistory
      <3> QED  BY <3>2 DEF h, c1
    <2> HIDE DEF p, q
    <2>5. ASSUME NEW s \in Sources, hist'[s].status = "submitted"
          PROVE  hist[s].status = "submitted"
      BY <2>2, <2>3, <2>4, <2>5
    <2> QED  BY <2>5 DEF SubmittedHistories
  <1>5. ASSUME NEW s \in Sources, hist' = [hist EXCEPT ![s] = Failure(hist[s])]
        PROVE  SubmittedHistories' \subseteq SubmittedHistories
    <2>1. hist[s] \in History /\ Failure(hist[s]).status # "submitted"
      BY <1>1, HistoryFailure
    <2> QED  BY <1>2, <1>5, <2>1
  <1>6. ASSUME NEW s \in Sources, NEW b \in BOOLEAN, PollHistory(s, b)
        PROVE  SubmittedHistories' \subseteq SubmittedHistories
    <2> DEFINE c == hist[s].submitted
    <2>1. hist' = [hist EXCEPT ![s] = Failure(hist[s])] \/ hist' = HistorySucceeded(c) \/ hist' = hist
      BY <1>6 DEF PollHistory
    <2> HIDE DEF c
    <2>2. CASE hist' = HistorySucceeded(c)
      <3>1. ASSUME NEW q \in Sources, hist'[q].status = "submitted"
            PROVE  hist[q].status = "submitted"
        <4>1. hist[q] \in History /\ [hist[q] EXCEPT !.status = "succeeded"].status = "succeeded"
          BY <1>1 DEF History
        <4> QED  BY <2>2, <3>1, <4>1 DEF HistorySucceeded
      <3> QED  BY <3>1 DEF SubmittedHistories
    <2> QED  BY <1>5, <2>1, <2>2 DEF SubmittedHistories
  <1>7. CASE AttemptHistory
    <2> DEFINE s == purger.source
               n == IF hist[s].attempts < PurgeAttempts THEN hist[s].attempts + 1 ELSE hist[s].attempts
    <2>1. s \in Sources /\ hist[s] \in History
      BY <1>1, <1>7 DEF AttemptHistory
    <2>2. hist' = [hist EXCEPT ![s] = [hist[s] EXCEPT !.status = "attempting", !.attempts = n]]
      BY <1>1, <1>7, <2>1 DEF AttemptHistory, History
    <2> HIDE DEF s, n
    <2>3. [hist[s] EXCEPT !.status = "attempting", !.attempts = n].status = "attempting"
      BY <2>1 DEF History
    <2> QED  BY <1>2, <2>1, <2>2, <2>3
  <1>8. ASSUME NEW accepted \in BOOLEAN, NEW lost \in BOOLEAN, PostHistory(accepted, lost)
        PROVE  /\ SubmittedHistories' \subseteq SubmittedHistories \cup {purger.source}
               /\ purger.pc = "hpost" /\ purger' = Asleep
    <2>1. \E h : hist' = [hist EXCEPT ![purger.source] = h]
      BY <1>8 DEF PostHistory
    <2>2. \A q \in Sources : q # purger.source => hist'[q] = hist[q]
      BY <1>1, <2>1
    <2> QED  BY <1>8, <2>2 DEF PostHistory, SubmittedHistories
  <1>9. CASE PostHistoryClean
    <2> DEFINE c == hist[purger.source].cutoff
    <2>1. hist' = [s \in Sources |->
                 IF hist[s].status # "none" /\ hist[s].cutoff <= c
                 THEN [hist[s] EXCEPT !.status = "succeeded",
                                      !.submitted = IF c > @ THEN c ELSE @] ELSE hist[s]]
      BY <1>9 DEF PostHistoryClean
    <2> HIDE DEF c
    <2>2. ASSUME NEW q \in Sources, hist'[q].status = "submitted"
          PROVE  hist[q].status = "submitted"
      <3>1. hist[q] \in History /\ \A m : [hist[q] EXCEPT !.status = "succeeded", !.submitted = m].status = "succeeded"
        BY <1>1 DEF History
      <3>2. hist'[q] = hist[q] \/ \E m : hist'[q] = [hist[q] EXCEPT !.status = "succeeded", !.submitted = m]
        BY <2>1
      <3> QED  BY <2>2, <3>1, <3>2
    <2> QED  BY <2>2 DEF SubmittedHistories
  <1>10. CASE hist' = hist
    BY <1>10 DEF SubmittedHistories
  <1> QED
    BY <1>3, <1>4, <1>6, <1>7, <1>8, <1>9, <1>10
    DEF PurgerStep, Backfill, PollEvent, ListDue, AttemptEvent, PostEventGone, PostEvent, PostEventFails

\* The worker submits only what it took into a free slot.
LEMMA PurgerSlots ==
    ASSUME SlotInv, PurgeInv, PurgerStep
    PROVE  SlotInv'
  <1>1. PurgerInv /\ WellFormed(purger) /\ purger \in PurgerRecord
    BY DEF PurgeInv, PurgerInv, WellFormed
  <1>2. CASE ListDue
    <2>1. UNCHANGED <<row, hist>> /\ InFlight' = InFlight /\ InFlight \in Nat
      BY <1>2, InFlightIs DEF ListDue, InFlight
    <2>2. PICK e \in Events \cup {0}, s \in Sources \cup {"none"} :
             /\ purger' = Listed(e, s)
             /\ e # 0 => FreeSlots(0)
             /\ s # "none" => FreeSlots(IF e # 0 THEN 1 ELSE 0)
      <3> DEFINE due == IF FreeSlots(0) THEN {e \in Events : DueBoundary(e)} ELSE {}
                 room == IF due = {} THEN 0 ELSE 1
                 old == IF FreeSlots(room) THEN {s \in Sources : DueHistory(s)} ELSE {}
      <3>1. PICK e \in (IF due = {} THEN {0} ELSE due), s \in (IF old = {} THEN {"none"} ELSE old) :
               purger' = Listed(e, s)
        BY <1>2 DEF ListDue, Listed
      <3>2. /\ due \subseteq Events /\ old \subseteq Sources /\ 0 \notin Events /\ "none" \notin Sources
            /\ due # {} => FreeSlots(0)
            /\ old # {} => FreeSlots(room)
        BY BoundsTyped DEF Sources
      <3>3. room = IF e # 0 THEN 1 ELSE 0
        BY <3>1, <3>2
      <3> HIDE DEF due, old, room
      <3> QED  BY <3>1, <3>2, <3>3
    <2>3. purger'.event = e /\ purger'.source = s
      BY <2>2, ListedTyped
    <2> QED  BY <2>1, <2>2, <2>3, BoundsTyped, InFlightIs DEF SlotInv, EventInHand, HistoryInHand, FreeSlots
  <1>3. CASE ~ListDue
    <2>1. /\ purger'.event # 0 => purger.event # 0
          /\ purger'.source # "none" => purger.source # "none"
      BY <1>1, <1>3, HandKept
    <2>2. CASE \E b \in Events : PostEvent(b)
      <3>1. PICK b \in Events : PostEvent(b)
        BY <2>2
      <3>2. purger.pc = "post" /\ purger' = AfterEvent /\ purger.event # 0
        BY <1>1, <3>1 DEF PostEvent, WellFormed
      <3>3. purger'.event = 0 /\ purger'.source = purger.source
        BY <1>1, <3>2, AfterEventTyped
      <3>4. row \in [Events -> Row] /\ purger.event \in Events
        BY <1>1, <3>2, BoundsTyped DEF PurgeInv, RowInv, PurgerRecord, Events
      <3>5. \A f \in Events : f # purger.event => row'[f] = row[f]
        BY <3>1, <3>4 DEF PostEvent
      <3>6. SubmittedRows' \subseteq SubmittedRows \cup {purger.event}
        BY <3>5 DEF SubmittedRows
      <3>7. SubmittedHistories' \subseteq SubmittedHistories \cup {}
        BY <3>1 DEF PostEvent, SubmittedHistories
      <3>8. EventInHand = 1 /\ EventInHand' = 0 /\ HistoryInHand' = HistoryInHand
        BY <3>2, <3>3 DEF EventInHand, HistoryInHand
      <3> QED  BY <3>6, <3>7, <3>8, SlotsMove
    <2>3. CASE ~\E b \in Events : PostEvent(b)
      <3>1. SubmittedRows' \subseteq SubmittedRows
        BY <2>3, RowsSubmitted
      <3>2. CASE SubmittedHistories' \subseteq SubmittedHistories
        BY <2>1, <3>1, <3>2, SlotsStay
      <3>3. CASE /\ SubmittedHistories' \subseteq SubmittedHistories \cup {purger.source}
                 /\ purger.pc = "hpost" /\ purger' = Asleep
        <4>1. purger.event = 0 /\ purger.source # "none"
          BY <1>1, <3>3 DEF WellFormed
        <4>2. purger'.event = 0 /\ purger'.source = "none"
          BY <3>3 DEF Asleep
        <4>3. EventInHand' = EventInHand /\ HistoryInHand = 1 /\ HistoryInHand' = 0
          BY <4>1, <4>2 DEF EventInHand, HistoryInHand
        <4>4. SubmittedRows' \subseteq SubmittedRows \cup {}
          BY <3>1
        <4> QED  BY <3>3, <4>3, <4>4, SlotsMove
      <3> QED  BY <3>2, <3>3, HistoriesSubmitted
    <2> QED  BY <2>2, <2>3
  <1> QED  BY <1>2, <1>3

\* available_purge_slots is computed before the cycle submits anything, for both
\* tables; the tasks known to run never exceed purge_max_in_flight.
THEOREM FlightsAreBounded == PurgeSpec => []InFlightIsBounded
  <1>1. PurgeInit => SlotInv
    <2>1. ASSUME PurgeInit
          PROVE  SlotInv
      <3>1. SubmittedRows = {} /\ SubmittedHistories = {} /\ purger = Asleep
        BY <2>1 DEF PurgeInit, SubmittedRows, SubmittedHistories, NoRow, NoHistory
      <3>2. EventInHand = 0 /\ HistoryInHand = 0
        BY <3>1 DEF EventInHand, HistoryInHand, Asleep
      <3> QED  BY <3>1, <3>2, FS_EmptySet, InFlightIs, BoundsTyped DEF SlotInv
    <2> QED  BY <2>1
  <1>2. PurgeInv /\ SlotInv /\ [PurgeNext]_purgeVars => SlotInv'
    <2> SUFFICES ASSUME PurgeInv, SlotInv, [PurgeNext]_purgeVars
                 PROVE  SlotInv'
      OBVIOUS
    <2>1. CASE OutsideStep
      <3>1. OutsideMoves
        BY <2>1, OutsideStepMoves DEF PurgeInv
      <3>2. SubmittedRows' = SubmittedRows /\ SubmittedHistories' = SubmittedHistories
        BY <3>1 DEF OutsideMoves, OutsideOnly, SubmittedRows, SubmittedHistories
      <3>3. purger' = purger \/ (purger'.event = 0 /\ purger'.source = "none")
        BY <3>1 DEF OutsideMoves, Asleep
      <3> QED  BY <3>2, <3>3, SlotsStay
    <2>2. CASE UNCHANGED purgeVars
      BY <2>2 DEF purgeVars, SlotInv, InFlight, EventInHand, HistoryInHand
    <2>3. \/ \E e \in Events : IngestStep(e)
          \/ PurgerStep
          \/ OutsideStep
          \/ UNCHANGED purgeVars
      BY DEF PurgeNext, OutsideStep
    <2> QED  BY <2>1, <2>2, <2>3, IngestSlots, PurgerSlots
  <1>3. SlotInv => InFlightIsBounded
    BY InFlightIs, BoundsTyped DEF SlotInv, InFlightIsBounded
  <1> QED  BY <1>1, <1>2, <1>3, PurgeIsInductive, PTL DEF PurgeSpec

-----------------------------------------------------------------------------
(* Events kept behind a blocker                                            *)

\* A blocker over an event that was never enqueued, written in its own period.
Kept(e) == row[e].status \in Blockers /\ ~row[e].msg /\ e \notin late

\* A purge of the events up to u, and one of what came up to t, take no such
\* event, and never will: all they cover is in the past.
SafeTo(u) == \A f \in Events : f <= u => arrived[f] # 0 /\ arrived[f] < now /\ ~Kept(f)
SafeAt(t) == t < now /\ \A f \in Events : arrived[f] # 0 /\ arrived[f] <= t => ~Kept(f)

\* This holds from the listing of a boundary or a history to the end of its task,
\* also of a task whose id was lost.
KeptInv ==
    /\ purger.event # 0 => arrived[purger.event] # 0 /\ SafeAt(arrived[purger.event])
    /\ purger.source # "none" => SafeAt(hist[purger.source].cutoff)
    /\ \A b \in 0..EventCount : Accepted(b) => SafeTo(b)

\* What every step leaves of the past: arrivals, late deliveries, rows.
Advances ==
    /\ now' \in Nat /\ now <= now' /\ late \subseteq late' /\ RowsMove
    /\ \A f \in Events : arrived'[f] = arrived[f] \/ (arrived[f] = 0 /\ arrived'[f] = now)

\* Time and arrivals only advance, and a late delivery is remembered.
LEMMA StepAdvances ==
    ASSUME PurgeInv, PurgeNext
    PROVE  Advances
  <1>1. /\ PurgeTypeOK /\ PurgerInv /\ RowInv /\ ArrivalInv /\ HandledInv /\ HistoryInv
        /\ now \in Nat /\ now <= now /\ arrived \in [Events -> 0..MaxTime]
    BY BoundsTyped DEF PurgeInv, PurgeTypeOK
  <1>2. ASSUME NEW e \in Events, IngestStep(e)
        PROVE  Advances
    <2>1. RowsMove /\ IngestOnly /\ HandlerMoves(e)
      BY <1>1, <1>2, IngestRows, IngestMoves
    <2>2. late \subseteq late'
      BY <1>2 DEF IngestStep, Arrive, Dismiss, Retain, Mark, Store, StoreFails, Enqueue, EnqueueFails,
         Redeliver, Redact, Blocks
    <2>3. \A f \in Events : arrived'[f] = arrived[f] \/ (arrived[f] = 0 /\ arrived'[f] = now)
      BY <1>1, <2>1 DEF HandlerMoves, Arrive, RowInv
    <2> QED  BY <1>1, <2>1, <2>2, <2>3 DEF Advances, IngestOnly
  <1>3. CASE PurgerStep
    BY <1>1, <1>3, PurgerRows, PurgerFrame DEF Advances, WorkerOnly
  <1>4. CASE OutsideStep
    <2>1. OutsideMoves
      BY <1>1, <1>4, OutsideStepMoves
    <2>2. RowsMove
      BY <1>1, <2>1, RowsStay DEF OutsideMoves, OutsideOnly
    <2> QED  BY <1>1, <2>1, <2>2, BoundsTyped DEF Advances, OutsideMoves, OutsideOnly
  <1> QED  BY <1>2, <1>3, <1>4 DEF PurgeNext, OutsideStep

\* A blocker is not written over the past.
LEMMA KeptIsFresh ==
    ASSUME Advances, NEW f \in Events, arrived[f] # now, ~Kept(f)
    PROVE  ~Kept(f)'
  <1>1. Becomes(f, row'[f])
    BY DEF Advances, RowsMove
  <1> QED  BY <1>1 DEF Becomes, Kept, Advances, Blockers

\* What is safe to purge stays so.
LEMMA SafetyStays ==
    ASSUME PurgeTypeOK, Advances
    PROVE  /\ \A u \in Nat : SafeTo(u) => SafeTo(u)'
           /\ \A t \in Nat : SafeAt(t) => SafeAt(t)'
  <1>1. /\ now \in Nat /\ now' \in Nat /\ now <= now'
        /\ \A f \in Events : arrived[f] \in Nat
        /\ \A f \in Events : arrived'[f] = arrived[f] \/ (arrived[f] = 0 /\ arrived'[f] = now)
    BY BoundsTyped DEF PurgeTypeOK, Advances
  <1>2. ASSUME NEW u \in Nat, SafeTo(u), NEW f \in Events, f <= u
        PROVE  arrived'[f] # 0 /\ arrived'[f] < now' /\ ~Kept(f)'
    <2>1. arrived[f] # 0 /\ arrived[f] < now /\ ~Kept(f)
      BY <1>2 DEF SafeTo
    <2> QED  BY <1>1, <2>1, KeptIsFresh
  <1>3. ASSUME NEW t \in Nat, SafeAt(t)
        PROVE  SafeAt(t)'
    <2>1. t < now /\ t < now'
      BY <1>1, <1>3 DEF SafeAt
    <2>2. ASSUME NEW f \in Events, arrived'[f] # 0, arrived'[f] <= t
          PROVE  ~Kept(f)'
      <3>1. arrived[f] # 0 /\ arrived[f] <= t /\ arrived[f] # now
        BY <1>1, <2>1, <2>2
      <3>2. ~Kept(f)
        BY <1>3, <3>1 DEF SafeAt
      <3> QED  BY <3>1, <3>2, KeptIsFresh
    <2> QED  BY <2>1, <2>2 DEF SafeAt
  <1> QED  BY <1>2, <1>3 DEF SafeTo

\* A purge up to an event that came by t is safe when t is.
LEMMA SafeUpTo ==
    ASSUME PurgeTypeOK, ArrivalInv, NEW b \in Events, NEW t \in Nat, arrived[b] # 0, arrived[b] <= t, SafeAt(t)
    PROVE  SafeTo(b)
  <1>1. now \in Nat /\ \A f \in Events : arrived[f] \in Nat
    BY BoundsTyped DEF PurgeTypeOK
  <1>2. ASSUME NEW f \in Events, f <= b
        PROVE  arrived[f] # 0 /\ arrived[f] < now /\ ~Kept(f)
    <2>1. arrived[f] # 0 /\ arrived[f] <= arrived[b]
      BY <1>2 DEF ArrivalInv
    <2> QED  BY <1>1, <2>1 DEF SafeAt
  <1> QED  BY <1>2 DEF SafeTo

\* A cutoff covers a beginning of the timeline, so that its last event is the
\* number of events it covers.
LEMMA CoveredIsPrefix ==
    ASSUME PurgeTypeOK, ArrivalInv, NEW c \in Nat, NEW f \in Events, f <= LastCovered(c)
    PROVE  arrived[f] # 0 /\ arrived[f] <= c
  <1>1. \A e \in Events : arrived[e] \in Nat /\ e \in Nat /\ e >= 1
    BY BoundsTyped DEF PurgeTypeOK
  <1> SUFFICES ASSUME f \notin Covered(c)
               PROVE  FALSE
    BY DEF Covered
  <1>2. Covered(c) \subseteq 1..(f - 1)
    <2>1. ASSUME NEW e \in Events, arrived[e] # 0, arrived[e] <= c, f <= e
          PROVE  FALSE
      <3>1. arrived[f] # 0 /\ arrived[f] <= arrived[e]
        BY <2>1 DEF ArrivalInv
      <3>2. arrived[f] <= c
        BY <1>1, <2>1, <3>1
      <3> QED  BY <3>1, <3>2 DEF Covered
    <2> QED  BY <1>1, <2>1 DEF Covered
  <1>3. IsFiniteSet(1..(f - 1)) /\ Cardinality(1..(f - 1)) = f - 1
    <2>1. /\ 1 \in Int /\ f - 1 \in Int
          /\ (IF 1 > f - 1 THEN 0 ELSE (f - 1) - 1 + 1) = f - 1
      BY <1>1
    <2>2. /\ IsFiniteSet(1..(f - 1))
          /\ Cardinality(1..(f - 1)) = IF 1 > f - 1 THEN 0 ELSE (f - 1) - 1 + 1
      BY <2>1, FS_Interval
    <2> QED  BY <2>1, <2>2
  <1>4. LastCovered(c) <= f - 1 /\ LastCovered(c) \in Nat
    BY <1>2, <1>3, FS_Subset, FS_CardinalityType DEF LastCovered
  <1> QED  BY <1>1, <1>4

\* What a safe cutoff covers is safe.
LEMMA SafeCovered ==
    ASSUME PurgeTypeOK, ArrivalInv, NEW c \in Nat, SafeAt(c)
    PROVE  SafeTo(LastCovered(c))
  <1>1. now \in Nat /\ \A f \in Events : arrived[f] \in Nat
    BY BoundsTyped DEF PurgeTypeOK
  <1>2. ASSUME NEW f \in Events, f <= LastCovered(c)
        PROVE  arrived[f] # 0 /\ arrived[f] < now /\ ~Kept(f)
    <2>1. arrived[f] # 0 /\ arrived[f] <= c
      BY <1>2, CoveredIsPrefix
    <2> QED  BY <1>1, <2>1 DEF SafeAt
  <1> QED  BY <1>2 DEF SafeTo

\* What is due is safe: its time is past, and nothing in the room is blocked.
LEMMA DueIsSafe ==
    ASSUME PurgeInv
    PROVE  /\ \A e \in Events : DueBoundary(e) => arrived[e] # 0 /\ SafeAt(arrived[e])
           /\ \A s \in Sources : DueHistory(s) => SafeAt(hist[s].cutoff)
  <1>1. now \in Nat /\ \A f \in Events : arrived[f] \in Nat /\ row[f].enq \in Nat
    BY BoundsTyped DEF PurgeInv, PurgeTypeOK, Row
  <1>2. ASSUME NEW e \in Events, DueBoundary(e)
        PROVE  arrived[e] # 0 /\ SafeAt(arrived[e])
    <2>1. arrived[e] # 0 /\ arrived[e] <= row[e].enq /\ row[e].enq < now
      BY <1>2 DEF PurgeInv, RowInv, DueBoundary, Waits
    <2>2. \A f \in Events : ~Kept(f)
      BY <1>2 DEF DueBoundary, Blocked, Kept
    <2> QED  BY <1>1, <2>1, <2>2 DEF SafeAt
  <1>3. ASSUME NEW s \in Sources, DueHistory(s)
        PROVE  SafeAt(hist[s].cutoff)
    BY <1>3 DEF PurgeInv, ArrivalInv, DueHistory, Kept, SafeAt
  <1> QED  BY <1>2, <1>3

\* The cutoff of the history in hand does not move.
LEMMA CutoffStays ==
    ASSUME PurgeInv, PurgerStep, purger'.source # "none", purger'.source = purger.source
    PROVE  hist'[purger.source].cutoff = hist[purger.source].cutoff
  <1>1. /\ purger \in PurgerRecord /\ purger.source \in Sources
        /\ purger.pc \in {"attempt", "post", "hattempt", "hpost"}
        /\ hist \in [Sources -> History] /\ hist[purger.source] \in History
    BY DEF PurgeInv, PurgerInv, WellFormed, PurgerRecord, PurgeTypeOK
  <1>2. purger' # Asleep
    BY DEF Asleep
  <1>3. CASE AttemptHistory
    <2> DEFINE s == purger.source
               n == IF hist[s].attempts < PurgeAttempts THEN hist[s].attempts + 1 ELSE hist[s].attempts
    <2>1. s \in Sources /\ hist[s] \in History
      BY <1>1
    <2>2. hist' = [hist EXCEPT ![s] = [hist[s] EXCEPT !.status = "attempting", !.attempts = n]]
      BY <1>1, <1>3, <2>1 DEF AttemptHistory, History
    <2> HIDE DEF n
    <2>3. [hist[s] EXCEPT !.status = "attempting", !.attempts = n].cutoff = hist[s].cutoff
      BY <2>1 DEF History
    <2> QED  BY <1>1, <2>2, <2>3
  <1>4. hist' = hist \/ AttemptHistory
    BY <1>1, <1>2 DEF PurgerStep, StartCycle, Backfill, Census, PollEvent, PollHistory, ListDue,
       AttemptEvent, PostEvent, PostEventFails, PostEventGone, PostHistory, PostHistoryClean
  <1> QED  BY <1>3, <1>4

\* What the worker hands to the homeserver is safe.
LEMMA AcceptedIsSafe ==
    ASSUME PurgeInv, KeptInv, PurgerStep, NEW b \in 0..EventCount, Accepted(b)'
    PROVE  SafeTo(b)
  <1>1. /\ PurgeTypeOK /\ ArrivalInv /\ purger \in PurgerRecord /\ WellFormed(purger)
        /\ task \in [Events -> PurgeTask] /\ htask \in [Sources -> PurgeTask]
        /\ \A f \in Events : arrived[f] \in Nat
    BY BoundsTyped DEF PurgeInv, PurgeTypeOK, PurgerInv, WellFormed
  <1>2. CASE Accepted(b)
    BY <1>2 DEF KeptInv
  <1>3. ASSUME NEW u \in Events, purger.pc = "post", u \in UpTo(purger.event)
        PROVE  SafeTo(u)
    <2> DEFINE e == purger.event
    <2>1. e \in Events /\ arrived[e] # 0 /\ SafeAt(arrived[e])
      BY <1>1, <1>3, BoundsTyped DEF WellFormed, PurgerRecord, Events, KeptInv
    <2>2. arrived[u] # 0 /\ arrived[u] <= arrived[e]
      BY <1>1, <1>3, <2>1 DEF UpTo
    <2> QED  BY <1>1, <2>1, <2>2, SafeUpTo
  <1>4. ASSUME NEW u \in Events, PostEvent(u)
        PROVE  SafeTo(b)
    <2>1. purger.pc = "post" /\ u \in UpTo(purger.event) /\ purger.event \in Events
      BY <1>1, <1>4, BoundsTyped DEF PostEvent, WellFormed, PurgerRecord, Events
    <2>2. \A e \in Events : task'[e] = task[e] \/ task'[e].upTo = u
      BY <1>1, <1>4, <2>1 DEF PostEvent
    <2>3. Accepted(b) \/ b = u
      BY <1>4, <2>2 DEF PostEvent, Accepted
    <2> QED  BY <1>2, <1>3, <2>1, <2>3
  <1>5. ASSUME NEW u \in Events, NEW lost \in BOOLEAN, PostEventFails(u, lost)
        PROVE  SafeTo(b)
    <2>1. purger.pc = "post" /\ u \in UpTo(purger.event)
      BY <1>5 DEF PostEventFails
    <2>2. Accepted(b) \/ b = u
      BY <1>5 DEF PostEventFails, Accepted
    <2> QED  BY <1>2, <1>3, <2>1, <2>2
  <1>6. ASSUME NEW accepted \in BOOLEAN, NEW lost \in BOOLEAN, PostHistory(accepted, lost)
        PROVE  SafeTo(b)
    <2> DEFINE s == purger.source
               c == hist[s].cutoff
    <2>1. s \in Sources /\ c \in Nat /\ SafeAt(c)
      <3>1. s # "none" /\ s \in Sources
        BY <1>1, <1>6 DEF PostHistory, WellFormed, PurgerRecord
      <3> QED  BY <1>1, <3>1, BoundsTyped DEF KeptInv, PurgeTypeOK, History
    <2>2. /\ htask' = htask \/ htask' = [htask EXCEPT ![s] = [state |-> "active", upTo |-> LastCovered(c)]]
          /\ stray' \subseteq stray \cup {LastCovered(c)}
          /\ task' = task
      BY <1>6 DEF PostHistory
    <2> HIDE DEF c
    <2>3. \A q \in Sources : htask'[q] = htask[q] \/ htask'[q].upTo = LastCovered(c)
      BY <1>1, <2>1, <2>2
    <2>4. Accepted(b) \/ b = LastCovered(c)
      BY <2>2, <2>3 DEF Accepted
    <2> QED  BY <1>1, <1>2, <2>1, <2>4, SafeCovered
  <1>7. CASE UNCHANGED <<task, htask, stray>>
    BY <1>2, <1>7 DEF Accepted
  <1> QED
    BY <1>4, <1>5, <1>6, <1>7 DEF PurgerStep, StartCycle, Backfill, Census, PollEvent, PollHistory,
       ListDue, AttemptEvent, PostEventGone, AttemptHistory, PostHistoryClean, Quiet

\* Every step keeps what is in hand or accepted within what is safe.
LEMMA KeptKeeps ==
    ASSUME PurgeInv, KeptInv, PurgeNext
    PROVE  KeptInv'
  <1>1. /\ PurgeTypeOK /\ PurgerInv /\ Advances /\ purger \in PurgerRecord
        /\ \A u \in Nat : SafeTo(u) => SafeTo(u)'
        /\ \A t \in Nat : SafeAt(t) => SafeAt(t)'
    BY StepAdvances, SafetyStays DEF PurgeInv, PurgerInv, WellFormed
  <1>2. /\ \A f \in Events : arrived[f] \in Nat /\ (arrived[f] # 0 => arrived'[f] = arrived[f])
        /\ \A s \in Sources : hist[s].cutoff \in Nat
        /\ \A b \in 0..EventCount : b \in Nat
    BY <1>1, BoundsTyped DEF PurgeTypeOK, History, Advances
  <1>3. /\ purger.event # 0 => purger.event \in Events
        /\ purger.source # "none" => purger.source \in Sources
    BY <1>1, BoundsTyped DEF PurgerRecord, Events
  <1>4. ASSUME purger' = purger \/ purger' = Asleep, hist' = hist,
               \A b \in 0..EventCount : Accepted(b)' => Accepted(b)
        PROVE  KeptInv'
    <2>1. \/ purger' = purger
          \/ purger'.event = 0 /\ purger'.source = "none"
      BY <1>4 DEF Asleep
    <2>2. purger'.event # 0 => arrived'[purger'.event] # 0 /\ SafeAt(arrived[purger.event])'
      BY <1>1, <1>2, <1>3, <2>1 DEF KeptInv
    <2>3. purger'.source # "none" => SafeAt(hist[purger.source].cutoff)'
      BY <1>1, <1>2, <1>3, <1>4, <2>1 DEF KeptInv
    <2>4. \A b \in 0..EventCount : Accepted(b)' => SafeTo(b)'
      BY <1>1, <1>2, <1>4 DEF KeptInv
    <2> QED  BY <2>2, <2>3, <2>4 DEF KeptInv
  <1>5. ASSUME NEW e \in Events, IngestStep(e)
        PROVE  KeptInv'
    <2>1. IngestOnly
      BY <1>5, IngestMoves DEF PurgeInv
    <2> QED  BY <1>4, <2>1 DEF IngestOnly, Accepted
  <1>6. CASE OutsideStep
    <2>1. OutsideMoves
      BY <1>1, <1>6, OutsideStepMoves
    <2>2. \A b \in 0..EventCount : Accepted(b)' => Accepted(b)
      BY <2>1 DEF OutsideMoves, Accepted
    <2> QED  BY <1>4, <2>1, <2>2 DEF OutsideMoves, OutsideOnly
  <1>7. CASE PurgerStep
    <2>1. PurgerGoes /\ arrived' = arrived /\ purger' \in PurgerRecord
      BY <1>1, <1>7, PurgerStepGoes, PurgerFrame DEF WorkerOnly, PurgerGoes, WellFormed
    <2>2. /\ purger'.event # 0 => purger'.event \in Events
          /\ purger'.source # "none" => purger'.source \in Sources
      BY <2>1, BoundsTyped DEF PurgerRecord, Events
    <2>3. purger'.event # 0 => arrived[purger'.event] # 0 /\ SafeAt(arrived[purger'.event])
      BY <2>1, <2>2, DueIsSafe DEF PurgerGoes, KeptInv
    <2>4. purger'.source # "none"
             => SafeAt(hist[purger'.source].cutoff) /\ hist'[purger'.source].cutoff = hist[purger'.source].cutoff
      <3>1. CASE purger'.source = purger.source
        BY <1>7, <3>1, CutoffStays DEF KeptInv
      <3>2. CASE purger'.source # purger.source
        <4>1. CASE ListDue
          BY <2>1, <2>2, <3>2, <4>1, DueIsSafe DEF PurgerGoes, ListDue
        <4>2. CASE ~ListDue
          BY <1>1, <1>7, <3>2, <4>2, HandKept
        <4> QED  BY <4>1, <4>2
      <3> QED  BY <3>1, <3>2
    <2>5. purger'.event # 0 => arrived'[purger'.event] # 0 /\ SafeAt(arrived[purger.event])'
      BY <1>1, <1>2, <2>1, <2>2, <2>3
    <2>6. purger'.source # "none" => SafeAt(hist[purger.source].cutoff)'
      BY <1>1, <1>2, <2>2, <2>4
    <2>7. \A b \in 0..EventCount : Accepted(b)' => SafeTo(b)'
      BY <1>1, <1>2, <1>7, AcceptedIsSafe
    <2> QED  BY <2>5, <2>6, <2>7 DEF KeptInv
  <1> QED  BY <1>5, <1>6, <1>7 DEF PurgeNext, OutsideStep

\* No purge, of a boundary or of a history, takes an event that is kept behind a
\* blocker and was never enqueued, however tasks, answers and restarts interleave
\* (utils/bridge.rs: "event retained because ontology persistence was not proven").
THEOREM UnprovenEventsAreKept == PurgeSpec => UnprovenIsKept
  <1>1. PurgeInit => KeptInv
    <2>1. ASSUME PurgeInit
          PROVE  KeptInv
      <3>1. purger.event = 0 /\ purger.source = "none"
        BY <2>1 DEF PurgeInit, Asleep
      <3>2. \A b \in 0..EventCount : ~Accepted(b)
        BY <2>1 DEF PurgeInit, Accepted, NoTask
      <3> QED  BY <3>1, <3>2 DEF KeptInv
    <2> QED  BY <2>1
  <1>2. PurgeInv /\ KeptInv /\ [PurgeNext]_purgeVars => KeptInv'
    <2>1. ASSUME KeptInv, UNCHANGED purgeVars
          PROVE  KeptInv'
      <3>1. \A b : SafeTo(b)' = SafeTo(b) /\ SafeAt(b)' = SafeAt(b) /\ Accepted(b)' = Accepted(b)
        BY <2>1 DEF purgeVars, SafeTo, SafeAt, Accepted, Kept
      <3> QED  BY <2>1, <3>1 DEF purgeVars, KeptInv
    <2> QED  BY <2>1, KeptKeeps
  <1>3. ASSUME PurgeInv, KeptInv, [PurgeNext]_purgeVars, NEW e \in Events,
               purgedTo < e, e <= purgedTo', row[e].status \in Blockers
        PROVE  row[e].msg \/ e \in late
    <2>1. purgedTo \in Nat /\ e \in Nat /\ purgedTo' # purgedTo
      BY <1>3, BoundsTyped DEF PurgeInv, PurgeTypeOK
    <2>2. OutsideStep
      <3>1. ~(\E f \in Events : IngestStep(f)) /\ ~PurgerStep /\ ~UNCHANGED purgeVars
        BY <1>3, <2>1, IngestMoves, PurgerFrame DEF PurgeInv, IngestOnly, purgeVars
      <3> QED  BY <1>3, <3>1 DEF PurgeNext, OutsideStep
    <2>3. Accepted(purgedTo') /\ purgedTo' \in 0..EventCount
      BY <1>3, <2>1, <2>2, OutsideStepMoves DEF PurgeInv, OutsideMoves
    <2> QED  BY <1>3, <2>3 DEF KeptInv, SafeTo, Kept
  <1>4. PurgeInv /\ KeptInv /\ [PurgeNext]_purgeVars
           => [\A e \in Events : purgedTo < e /\ e <= purgedTo' /\ row[e].status \in Blockers
                  => row[e].msg \/ e \in late]_purgeVars
    BY <1>3
  <1> QED  BY <1>1, <1>2, <1>4, PurgeIsInductive, PTL DEF PurgeSpec, UnprovenIsKept

=============================================================================
