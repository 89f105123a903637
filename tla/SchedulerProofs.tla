--------------------------- MODULE SchedulerProofs ---------------------------
(***************************************************************************)
(* Proofs about the jobs of the scheduler and the handlers that work on    *)
(* the same tables: reminders, reply watches, rules, commitment prompts    *)
(* and digests, for every number of rows, passes, handlers and faults.     *)
(***************************************************************************)
EXTENDS EventReminders, ReplyWatches, RuleFiring, Commitments, Digests, FiniteSetTheorems, TLAPS

-----------------------------------------------------------------------------
(* Reminders: types                                                        *)

\* A row with other values of the right type is a row.
LEMMA RowTyped ==
    ASSUME NEW row \in ReminderRow,
           NEW status \in {"none", "active", "reminder_sending", "notified", "cancelled",
                           "dismissed", "completed", "expired", "purged"},
           NEW remind \in When, NEW deadline \in When,
           NEW waits \in BOOLEAN, NEW lease \in {"none", "held", "over"},
           NEW delivered \in BOOLEAN
    PROVE  /\ [row EXCEPT !.status = status] \in ReminderRow
           /\ [row EXCEPT !.remind = remind] \in ReminderRow
           /\ [row EXCEPT !.deadline = deadline] \in ReminderRow
           /\ [row EXCEPT !.waits = waits] \in ReminderRow
           /\ [row EXCEPT !.lease = lease] \in ReminderRow
           /\ [row EXCEPT !.friend = waits] \in ReminderRow
           /\ [row EXCEPT !.status = status, !.lease = lease] \in ReminderRow
           /\ [row EXCEPT !.status = status, !.remind = remind, !.deadline = deadline]
                 \in ReminderRow
           /\ [row EXCEPT !.status = status, !.waits = waits, !.lease = lease] \in ReminderRow
           /\ [row EXCEPT !.status = status, !.remind = remind, !.deadline = deadline,
                          !.waits = waits] \in ReminderRow
           /\ [row EXCEPT !.status = status, !.waits = waits, !.lease = lease,
                          !.delivered = delivered] \in ReminderRow
           /\ [row EXCEPT !.status = status, !.delivered = delivered, !.lease = lease]
                 \in ReminderRow
  <1>1. [row EXCEPT !.status = status] \in ReminderRow
    BY DEF ReminderRow, When
  <1>2. [row EXCEPT !.remind = remind] \in ReminderRow
    BY DEF ReminderRow, When
  <1>3. [row EXCEPT !.deadline = deadline] \in ReminderRow
    BY DEF ReminderRow, When
  <1>4. [row EXCEPT !.waits = waits] \in ReminderRow
    BY DEF ReminderRow, When
  <1>5. [row EXCEPT !.lease = lease] \in ReminderRow
    BY DEF ReminderRow, When
  <1>6. [row EXCEPT !.friend = waits] \in ReminderRow
    BY DEF ReminderRow, When
  <1>7. [row EXCEPT !.status = status, !.lease = lease] \in ReminderRow
    BY DEF ReminderRow, When
  <1>8. [row EXCEPT !.status = status, !.remind = remind, !.deadline = deadline] \in ReminderRow
    BY DEF ReminderRow, When
  <1>9. [row EXCEPT !.status = status, !.waits = waits, !.lease = lease] \in ReminderRow
    BY DEF ReminderRow, When
  <1>10. [row EXCEPT !.status = status, !.remind = remind, !.deadline = deadline, !.waits = waits] \in ReminderRow
    BY DEF ReminderRow, When
  <1>11. [row EXCEPT !.status = status, !.waits = waits, !.lease = lease, !.delivered = delivered] \in ReminderRow
    BY DEF ReminderRow, When
  <1>12. [row EXCEPT !.status = status, !.delivered = delivered, !.lease = lease] \in ReminderRow
    BY DEF ReminderRow, When
  <1> QED  BY <1>1, <1>2, <1>3, <1>4, <1>5, <1>6, <1>7, <1>8, <1>9, <1>10, <1>11, <1>12

\* Writing one reminder keeps the type of the table.
LEMMA RemWritten ==
    ASSUME rem \in [Reminders -> ReminderRow], NEW e \in Reminders, NEW row \in ReminderRow
    PROVE  [rem EXCEPT ![e] = row] \in [Reminders -> ReminderRow]
  OBVIOUS

\* A step of the user, the agent or the clock keeps the types.
LEMMA UserStepTyped ==
    ASSUME ReminderTypeOK, NEW e \in Reminders, UserStep(e)
    PROVE  ReminderTypeOK'
  <1> DEFINE row == rem[e]
  <1>1. row \in ReminderRow
    BY DEF ReminderTypeOK
  <1>2. /\ row.remind \in When /\ row.deadline \in When
        /\ "ahead" \in When /\ "past" \in When /\ "none" \in When
    BY <1>1 DEF ReminderRow, When
  <1>3. CASE CreateReminder(e)
    <2>1. rem' \in [Reminders -> ReminderRow]
      BY <1>1, <1>2, <1>3, RowTyped, RemWritten DEF CreateReminder, ReminderTypeOK
    <2> QED  BY <2>1, <1>3 DEF CreateReminder, EditOnly, ReminderTypeOK
  <1>4. ASSUME NEW r \in {"none", "ahead"}, NEW d \in {"none", "ahead"}, CreateEvent(e, r, d)
        PROVE  ReminderTypeOK'
    <2>1. r \in When /\ d \in When
      BY DEF When
    <2>2. rem' \in [Reminders -> ReminderRow]
      BY <1>1, <1>4, <2>1, RowTyped, RemWritten DEF CreateEvent, ReminderTypeOK
    <2> QED  BY <2>2, <1>4 DEF CreateEvent, EditOnly, ReminderTypeOK
  <1>5. ASSUME Edit(e) PROVE edits' \in 0..MaxEdits
    BY <1>5, ReminderBoundsAssumption DEF Edit, ReminderTypeOK
  <1>6. CASE CancelReminder(e)
    <2>0. [rem[e] EXCEPT !.status = "cancelled", !.waits = FALSE, !.lease = "none"] \in ReminderRow
      BY <1>1 DEF ReminderRow
    <2>1. rem' \in [Reminders -> ReminderRow]
      BY <2>0, <1>6, RemWritten DEF CancelReminder, ReminderTypeOK
    <2> QED  BY <2>1, <1>5, <1>6 DEF CancelReminder, EditOnly, ReminderTypeOK
  <1>7. ASSUME NEW s \in {"active", "dismissed", "completed"}, UpdateEventStatus(e, s)
        PROVE  ReminderTypeOK'
    <2>0. [rem[e] EXCEPT !.status = s] \in ReminderRow
      BY <1>1 DEF ReminderRow
    <2>1. rem' \in [Reminders -> ReminderRow]
      BY <2>0, <1>7, RemWritten DEF UpdateEventStatus, ReminderTypeOK
    <2> QED  BY <2>1, <1>5, <1>7 DEF UpdateEventStatus, EditOnly, ReminderTypeOK
  <1>8. ASSUME NEW r \in BOOLEAN, NEW d \in BOOLEAN, UpdateEvent(e, r, d)
        PROVE  ReminderTypeOK'
    <2>1. PICK x \in When, y \in When : rem' = [rem EXCEPT ![e] =
              [row EXCEPT !.status = "active", !.remind = x, !.deadline = y]]
      BY <1>2, <1>8 DEF UpdateEvent
    <2>2. rem' \in [Reminders -> ReminderRow]
      BY <1>1, <2>1, RowTyped, RemWritten DEF ReminderTypeOK
    <2>3. moves' \in 0..MaxMoves
      BY <1>8, ReminderBoundsAssumption DEF UpdateEvent, ReminderTypeOK
    <2>4. told' \in [Reminders -> {"no", "yes", "overtaken"}] /\ resetting' \subseteq Reminders
      BY <1>8 DEF UpdateEvent, ReminderTypeOK
    <2> QED  BY <2>2, <2>3, <2>4, <1>5, <1>8 DEF UpdateEvent, EditOnly, ReminderTypeOK
  <1>9. ASSUME NEW r \in {"ahead", "past"}, NEW w \in BOOLEAN, DeadlineUpdate(e, r, w)
        PROVE  ReminderTypeOK'
    <2>1. r \in When
      BY DEF When
    <2>2. rem' \in [Reminders -> ReminderRow]
      BY <1>1, <1>2, <1>9, <2>1, RowTyped, RemWritten DEF DeadlineUpdate, ReminderTypeOK
    <2>3. moves' \in 0..MaxMoves
      BY <1>9, ReminderBoundsAssumption DEF DeadlineUpdate, ReminderTypeOK
    <2>4. told' \in [Reminders -> {"no", "yes", "overtaken"}]
      BY <1>9 DEF DeadlineUpdate, ReminderTypeOK
    <2> QED  BY <2>2, <2>3, <2>4, <1>5, <1>9 DEF DeadlineUpdate, EditOnly, ReminderTypeOK
  <1>10. CASE ResetReminderDelivery(e)
    <2>0. [rem[e] EXCEPT !.status = "active", !.waits = FALSE, !.lease = "none",
                         !.delivered = FALSE] \in ReminderRow
      BY <1>1 DEF ReminderRow
    <2>1. rem' \in [Reminders -> ReminderRow]
      BY <2>0, <1>10, RemWritten DEF ResetReminderDelivery, ReminderTypeOK
    <2> QED  BY <2>1, <1>10 DEF ResetReminderDelivery, EditOnly, ReminderTypeOK
  <1>11. CASE PurgeOldEvent(e)
    <2>0. [rem[e] EXCEPT !.status = "purged"] \in ReminderRow
      BY <1>1 DEF ReminderRow
    <2>1. rem' \in [Reminders -> ReminderRow]
      BY <2>0, <1>11, RemWritten DEF PurgeOldEvent, ReminderTypeOK
    <2> QED  BY <2>1, <1>11 DEF PurgeOldEvent, EditOnly, ReminderTypeOK
  <1>12. CASE TimePasses(e)
    <2>1. PICK x \in When : \/ rem' = [rem EXCEPT ![e] = [row EXCEPT !.remind = x]]
                            \/ rem' = [rem EXCEPT ![e] = [row EXCEPT !.deadline = x]]
                            \/ rem' = [rem EXCEPT ![e] = [row EXCEPT !.waits = FALSE]]
      BY <1>2, <1>12 DEF TimePasses
    <2>0. /\ [row EXCEPT !.remind = x] \in ReminderRow /\ [row EXCEPT !.deadline = x] \in ReminderRow
          /\ [row EXCEPT !.waits = FALSE] \in ReminderRow
      BY <1>1 DEF ReminderRow
    <2>2. rem' \in [Reminders -> ReminderRow]
      BY <2>0, <2>1, RemWritten DEF ReminderTypeOK
    <2> QED  BY <2>2, <1>12 DEF TimePasses, EditOnly, ReminderTypeOK
  <1>13. CASE LeaseEnds(e)
    <2>0. [rem[e] EXCEPT !.lease = "over"] \in ReminderRow
      BY <1>1 DEF ReminderRow
    <2>1. rem' \in [Reminders -> ReminderRow]
      BY <2>0, <1>13, RemWritten DEF LeaseEnds, ReminderTypeOK
    <2>2. passFaults' \in 0..MaxReminderFaults
      BY <1>13, ReminderBoundsAssumption DEF LeaseEnds, ReminderTypeOK
    <2> QED  BY <2>1, <2>2, <1>13 DEF LeaseEnds, ReminderTypeOK
  <1> QED
    BY <1>3, <1>4, <1>6, <1>7, <1>8, <1>9, <1>10, <1>11, <1>12, <1>13 DEF UserStep

\* Writing one pass keeps the type of them all.
LEMMA PassWritten ==
    ASSUME pass \in [Passes -> Pass], NEW p \in Passes, NEW q \in Pass
    PROVE  [pass EXCEPT ![p] = q] \in [Passes -> Pass]
  OBVIOUS

\* A settled reminder has its type.
LEMMA SettledTyped ==
    ASSUME rem \in [Reminders -> ReminderRow], NEW e \in Reminders, NEW ok \in BOOLEAN
    PROVE  Settled(e, ok) \in ReminderRow
  <1>1. rem[e] \in ReminderRow
    OBVIOUS
  <1>2. [rem[e] EXCEPT !.status = "notified", !.delivered = TRUE, !.lease = "none"] \in ReminderRow
    BY <1>1 DEF ReminderRow
  <1>3. [rem[e] EXCEPT !.status = "active", !.waits = TRUE, !.lease = "none"] \in ReminderRow
    BY <1>1 DEF ReminderRow
  <1> QED  BY <1>1, <1>2, <1>3 DEF Settled

\* A step of a pass keeps the types.
LEMMA PassStepTyped ==
    ASSUME ReminderTypeOK, NEW p \in Passes, PassStep(p) \/ SettleReminder(p, FALSE)
    PROVE  ReminderTypeOK'
  <1>1. /\ pass[p] \in Pass
        /\ pass[p].todo \subseteq Reminders /\ pass[p].cur \subseteq Reminders
        /\ pass[p].ok \in BOOLEAN
    BY DEF ReminderTypeOK, Pass
  <1>2. CASE ClaimDueReminders(p)
    <2>1. PICK D \in SUBSET Reminders :
             /\ rem' = [e \in Reminders |-> IF e \in D
                          THEN [rem[e] EXCEPT !.status = "reminder_sending", !.lease = "held"]
                          ELSE rem[e]]
             /\ pass' = [pass EXCEPT ![p] = [AtRest EXCEPT !.pc = "send", !.todo = D]]
             /\ told' = [e \in Reminders |-> IF e \in D /\ Unsettled(e) /\ told[e] = "no"
                                             THEN "overtaken" ELSE told[e]]
      BY <1>2 DEF ClaimDueReminders
    <2>2. \A e \in Reminders :
             [rem[e] EXCEPT !.status = "reminder_sending", !.lease = "held"] \in ReminderRow
      BY DEF ReminderTypeOK, ReminderRow
    <2>3. rem' \in [Reminders -> ReminderRow]
      BY <2>1, <2>2 DEF ReminderTypeOK
    <2>4. [AtRest EXCEPT !.pc = "send", !.todo = D] \in Pass
      BY DEF AtRest, Pass
    <2>5. pass' \in [Passes -> Pass]
      BY <2>1, <2>4, PassWritten DEF ReminderTypeOK
    <2>6. told' \in [Reminders -> {"no", "yes", "overtaken"}]
      BY <2>1 DEF ReminderTypeOK
    <2> QED  BY <2>3, <2>5, <2>6, <1>2 DEF ClaimDueReminders, PassOnly, ReminderTypeOK
  <1>3. ASSUME NEW w \in BOOLEAN, SettleReminder(p, w)
        PROVE  ReminderTypeOK'
    <2>1. rem' \in [Reminders -> ReminderRow]
      BY <1>1, <1>3, SettledTyped DEF SettleReminder, ReminderTypeOK
    <2>2. [pass[p] EXCEPT !.pc = "send", !.cur = {}, !.ok = FALSE] \in Pass
      BY <1>1 DEF Pass
    <2>3. pass' \in [Passes -> Pass]
      BY <1>3, <2>2, PassWritten DEF SettleReminder, ReminderTypeOK
    <2>4. passFaults' \in 0..MaxReminderFaults
      BY <1>3, ReminderBoundsAssumption DEF SettleReminder, ReminderTypeOK
    <2> QED  BY <2>1, <2>3, <2>4, <1>3 DEF SettleReminder, ReminderTypeOK
  <1>4. CASE StartNudging(p)
    <2>1. pass' = [pass EXCEPT ![p] = [pass[p] EXCEPT !.pc = "nudge", !.todo = ToNudge]]
      BY <1>1, <1>4 DEF StartNudging, ReminderTypeOK, Pass
    <2>2. [pass[p] EXCEPT !.pc = "nudge", !.todo = ToNudge] \in Pass
      BY <1>1 DEF Pass, ToNudge
    <2>3. pass' \in [Passes -> Pass]
      BY <2>1, <2>2, PassWritten DEF ReminderTypeOK
    <2> QED  BY <2>3, <1>4 DEF StartNudging, PassOnly, ReminderTypeOK
  <1>5. CASE StartExpiring(p)
    <2>1. PICK S \in SUBSET Reminders :
             pass' = [pass EXCEPT ![p] = [pass[p] EXCEPT !.pc = "expire", !.todo = S]]
      <3>1. PICK S \in SUBSET Inactive :
               pass' = [pass EXCEPT ![p].pc = "expire",
                                    ![p].todo = {e \in Reminders : Over(e)} \cup S]
        BY <1>5 DEF StartExpiring
      <3>2. {e \in Reminders : Over(e)} \cup S \in SUBSET Reminders
        BY DEF Inactive
      <3> QED  BY <3>1, <3>2, <1>1 DEF ReminderTypeOK, Pass
    <2>2. [pass[p] EXCEPT !.pc = "expire", !.todo = S] \in Pass
      BY <1>1 DEF Pass
    <2>3. pass' \in [Passes -> Pass]
      BY <2>1, <2>2, PassWritten DEF ReminderTypeOK
    <2> QED  BY <2>3, <1>5 DEF StartExpiring, PassOnly, ReminderTypeOK
  <1>6. CASE EndPass(p)
    <2>1. AtRest \in Pass
      BY DEF AtRest, Pass
    <2>2. pass' \in [Passes -> Pass]
      BY <1>6, <2>1, PassWritten DEF EndPass, ReminderTypeOK
    <2> QED  BY <2>2, <1>6 DEF EndPass, PassOnly, ReminderTypeOK
  <1>7. ASSUME NEW e \in Reminders
        PROVE  /\ [pass[p] EXCEPT !.todo = pass[p].todo \ {e}] \in Pass
               /\ rem[e] \in ReminderRow
    BY <1>1 DEF Pass, ReminderTypeOK
  <1>8. ASSUME NEW e \in Reminders, ExpireEvent(p, e)
        PROVE  ReminderTypeOK'
    <2>1. [rem[e] EXCEPT !.status = "expired"] \in ReminderRow
      BY <1>7 DEF ReminderRow
    <2>2. rem' \in [Reminders -> ReminderRow]
      BY <2>1, <1>8, RemWritten DEF ExpireEvent, ReminderTypeOK
    <2>3. pass' \in [Passes -> Pass]
      BY <1>7, <1>8, PassWritten DEF ExpireEvent, ReminderTypeOK
    <2> QED  BY <2>2, <2>3, <1>8 DEF ExpireEvent, PassOnly, ReminderTypeOK
  <1>9. ASSUME NEW e \in Reminders, NEW ok \in BOOLEAN, SendReminder(p, e, ok)
        PROVE  ReminderTypeOK'
    <2>1. [pc |-> "settle", todo |-> pass[p].todo \ {e}, cur |-> {e}, ok |-> ok] \in Pass
      BY <1>1 DEF Pass
    <2>2. pass' \in [Passes -> Pass]
      BY <1>9, <2>1, PassWritten DEF SendReminder, ReminderTypeOK
    <2>3. told' \in [Reminders -> {"no", "yes", "overtaken"}]
      BY <1>9 DEF SendReminder, ReminderTypeOK
    <2> QED  BY <2>2, <2>3, <1>9 DEF SendReminder, PassOnly, ReminderTypeOK
  <1>10. ASSUME NEW e \in Reminders, NEW ok \in BOOLEAN, NudgeFriend(p, e, ok)
         PROVE  ReminderTypeOK'
    <2>1. \A b \in BOOLEAN : [rem[e] EXCEPT !.friend = b] \in ReminderRow
      BY <1>7 DEF ReminderRow
    <2>2. (rem[e].friend \/ (ok /\ Exists(e))) \in BOOLEAN
      BY <1>7, Zenon DEF ReminderRow, Exists
    <2>3. rem' \in [Reminders -> ReminderRow]
      BY <1>10, <2>1, <2>2, RemWritten DEF NudgeFriend, ReminderTypeOK
    <2>4. pass' \in [Passes -> Pass]
      BY <1>7, <1>10, PassWritten DEF NudgeFriend, ReminderTypeOK
    <2> QED  BY <2>3, <2>4, <1>10 DEF NudgeFriend, PassOnly, ReminderTypeOK
  <1> QED
    BY <1>2, <1>3, <1>4, <1>5, <1>6, <1>8, <1>9, <1>10 DEF PassStep

\* The rows of tracked events, the passes over them and the counters keep
\* their types, whatever users, agents and passes do in which order.
THEOREM ReminderTypeCorrect == ReminderSpec => []ReminderTypeOK
  <1>1. ReminderInit => ReminderTypeOK
    <2> SUFFICES ASSUME ReminderInit PROVE ReminderTypeOK
      OBVIOUS
    <2>1. NoEventRow \in ReminderRow /\ AtRest \in Pass
      BY DEF NoEventRow, ReminderRow, When, AtRest, Pass
    <2> QED  BY <2>1, ReminderBoundsAssumption DEF ReminderInit, ReminderTypeOK
  <1>2. ReminderTypeOK /\ [ReminderNext]_reminderVars => ReminderTypeOK'
    <2> SUFFICES ASSUME ReminderTypeOK, [ReminderNext]_reminderVars PROVE ReminderTypeOK'
      OBVIOUS
    <2>1. CASE RestartScheduler
      <3>1. AtRest \in Pass
        BY DEF AtRest, Pass
      <3>2. pass' \in [Passes -> Pass] /\ passFaults' \in 0..MaxReminderFaults
        BY <2>1, <3>1, ReminderBoundsAssumption DEF RestartScheduler, ReminderTypeOK
      <3> QED  BY <3>2, <2>1 DEF RestartScheduler, ReminderTypeOK
    <2>2. CASE UNCHANGED reminderVars
      BY <2>2 DEF reminderVars, ReminderTypeOK
    <2> QED  BY <2>1, <2>2, UserStepTyped, PassStepTyped DEF ReminderNext
  <1> QED  BY <1>1, <1>2, PTL DEF ReminderSpec

-----------------------------------------------------------------------------
(* Reminders: notified means sent                                          *)

\* What NotifiedWasSent rests on: while a pass that has sent a reminder has
\* not written that down, a row in sending is one the user was notified of,
\* or one that has been claimed anew under that pass.
NotifiedInv ==
    \A e \in Reminders :
        /\ rem[e].status = "notified" => told[e] # "no"
        /\ rem[e].status = "reminder_sending" /\ Unsettled(e) => told[e] # "no"

\* A step that brings no row into sending or notified and no pass to a
\* reminder it has sent.
LEMMA QuietReminders ==
    ASSUME NotifiedInv,
           \A e \in Reminders : rem'[e].status \in {"notified", "reminder_sending"} =>
                                   rem[e].status = rem'[e].status /\ told'[e] = told[e],
           \A e \in Reminders : Unsettled(e)' => Unsettled(e)
    PROVE  NotifiedInv'
  BY DEF NotifiedInv

\* A pass that works on no reminder after the step has sent none.
LEMMA PassMovesOn ==
    ASSUME ReminderTypeOK, NEW p \in Passes, NEW q, pass' = [pass EXCEPT ![p] = q],
           q.cur = {} \/ (q.cur = pass[p].cur /\ q.ok = pass[p].ok),
           NEW e \in Reminders, Unsettled(e)'
    PROVE  Unsettled(e)
  BY DEF ReminderTypeOK, Unsettled

\* The user and the clock mark no reminder as notified;
LEMMA UserStepKeepsNotified ==
    ASSUME ReminderTypeOK, NotifiedInv, NEW e \in Reminders, UserStep(e)
    PROVE  NotifiedInv'
  <1>1. pass' = pass
    BY DEF UserStep, CreateReminder, CreateEvent, CancelReminder, UpdateEventStatus, UpdateEvent,
           DeadlineUpdate, ResetReminderDelivery, PurgeOldEvent, TimePasses, LeaseEnds, EditOnly
  <1>2. \A x \in Reminders : Unsettled(x)' => Unsettled(x)
    BY <1>1 DEF Unsettled
  <1>3. rem[e] \in ReminderRow /\ rem \in [Reminders -> ReminderRow]
        /\ told \in [Reminders -> {"no", "yes", "overtaken"}]
    BY DEF ReminderTypeOK
  <1> DEFINE Quiet == \A x \in Reminders : rem'[x].status \in {"notified", "reminder_sending"} =>
                          rem[x].status = rem'[x].status /\ told'[x] = told[x]
  <1> SUFFICES Quiet
    BY <1>2, QuietReminders
  <1>4. CASE CreateReminder(e)
    BY <1>3, <1>4 DEF CreateReminder, ReminderRow
  <1>5. ASSUME NEW r, NEW d, CreateEvent(e, r, d) PROVE Quiet
    BY <1>3, <1>5 DEF CreateEvent, ReminderRow
  <1>6. CASE CancelReminder(e)
    BY <1>3, <1>6 DEF CancelReminder, ReminderRow
  <1>7. ASSUME NEW s \in {"active", "dismissed", "completed"}, UpdateEventStatus(e, s)
        PROVE  Quiet
    BY <1>3, <1>7 DEF UpdateEventStatus, ReminderRow
  <1>8. ASSUME NEW r, NEW d, UpdateEvent(e, r, d) PROVE Quiet
    <2>1. rem'[e].status = "active" /\ \A x \in Reminders : x # e => rem'[x] = rem[x] /\ told'[x] = told[x]
      BY <1>3, <1>8 DEF UpdateEvent, ReminderRow
    <2> QED  BY <2>1
  <1>9. ASSUME NEW r, NEW w, DeadlineUpdate(e, r, w) PROVE Quiet
    BY <1>3, <1>9 DEF DeadlineUpdate, ReminderRow
  <1>10. CASE ResetReminderDelivery(e)
    BY <1>3, <1>10 DEF ResetReminderDelivery, ReminderRow
  <1>11. CASE PurgeOldEvent(e)
    BY <1>3, <1>11 DEF PurgeOldEvent, ReminderRow
  <1>12. CASE TimePasses(e)
    <2>1. \A x \in Reminders : rem'[x].status = rem[x].status
      BY <1>3, <1>12 DEF TimePasses, ReminderRow
    <2> QED  BY <2>1, <1>12 DEF TimePasses
  <1>13. CASE LeaseEnds(e)
    BY <1>3, <1>13 DEF LeaseEnds, ReminderRow
  <1> QED
    BY <1>4, <1>5, <1>6, <1>7, <1>8, <1>9, <1>10, <1>11, <1>12, <1>13 DEF UserStep

\* a pass does so only after it has sent.
LEMMA PassStepKeepsNotified ==
    ASSUME ReminderTypeOK, NotifiedInv, NEW p \in Passes, PassStep(p) \/ SettleReminder(p, FALSE)
    PROVE  NotifiedInv'
  <1>1. /\ pass \in [Passes -> Pass] /\ pass[p] \in Pass
        /\ rem \in [Reminders -> ReminderRow]
        /\ told \in [Reminders -> {"no", "yes", "overtaken"}]
    BY DEF ReminderTypeOK
  <1>2. CASE ClaimDueReminders(p)
    <2>1. \A e \in Reminders : Unsettled(e)' => Unsettled(e)
      <3>1. pass' = [pass EXCEPT ![p] = [AtRest EXCEPT !.pc = "send",
                                                       !.todo = {e \in Reminders : Claimable(e)}]]
        BY <1>2 DEF ClaimDueReminders
      <3>2. [AtRest EXCEPT !.pc = "send", !.todo = {e \in Reminders : Claimable(e)}].cur = {}
        BY DEF AtRest
      <3> QED  BY <3>1, <3>2, PassMovesOn
    <2> SUFFICES ASSUME NEW e \in Reminders
                 PROVE  /\ rem'[e].status = "notified" => told'[e] # "no"
                        /\ rem'[e].status = "reminder_sending" /\ Unsettled(e) => told'[e] # "no"
      BY <2>1 DEF NotifiedInv
    <2>2. CASE Claimable(e)
      <3>1. rem'[e].status = "reminder_sending"
        BY <1>1, <1>2, <2>2 DEF ClaimDueReminders, ReminderRow
      <3>2. Unsettled(e) => told'[e] # "no"
        BY <1>2, <2>2 DEF ClaimDueReminders
      <3> QED  BY <3>1, <3>2
    <2>3. CASE ~Claimable(e)
      <3>1. rem'[e] = rem[e] /\ told'[e] = told[e]
        BY <1>2, <2>3 DEF ClaimDueReminders
      <3> QED  BY <3>1 DEF NotifiedInv
    <2> QED  BY <2>2, <2>3
  <1>3. ASSUME NEW w \in BOOLEAN, SettleReminder(p, w)
        PROVE  NotifiedInv'
    <2>1. \A e \in Reminders : Unsettled(e)' => Unsettled(e)
      <3>1. pass' = [pass EXCEPT ![p] = [pass[p] EXCEPT !.pc = "send", !.cur = {}, !.ok = FALSE]]
        BY <1>3 DEF SettleReminder
      <3>2. [pass[p] EXCEPT !.pc = "send", !.cur = {}, !.ok = FALSE].cur = {}
        BY <1>1 DEF Pass
      <3> QED  BY <3>1, <3>2, PassMovesOn
    <2> SUFFICES ASSUME NEW e \in Reminders
                 PROVE  /\ rem'[e].status = "notified" => told'[e] # "no"
                        /\ rem'[e].status = "reminder_sending" /\ Unsettled(e) => told'[e] # "no"
      BY <2>1 DEF NotifiedInv
    <2>2. told' = told
      BY <1>3 DEF SettleReminder
    <2>3. rem'[e] = rem[e] \/ (e \in pass[p].cur /\ rem'[e] = Settled(e, pass[p].ok))
      BY <1>3 DEF SettleReminder
    <2>4. CASE rem'[e] = rem[e]
      BY <2>2, <2>4 DEF NotifiedInv
    <2>5. CASE e \in pass[p].cur /\ rem'[e] = Settled(e, pass[p].ok) /\ rem'[e] # rem[e]
      <3>1. rem[e].status = "reminder_sending"
        BY <2>5 DEF Settled
      <3>2. rem'[e].status = IF pass[p].ok THEN "notified" ELSE "active"
        BY <1>1, <2>5, <3>1 DEF Settled, ReminderRow
      <3>3. pass[p].ok => Unsettled(e)
        BY <2>5 DEF Unsettled
      <3> QED  BY <2>2, <3>1, <3>2, <3>3 DEF NotifiedInv
    <2> QED  BY <2>3, <2>4, <2>5
  <1>4. CASE StartNudging(p)
    <2>1. pass' = [pass EXCEPT ![p] = [pass[p] EXCEPT !.pc = "nudge", !.todo = ToNudge]]
      BY <1>1, <1>4 DEF StartNudging, Pass
    <2>2. \A e \in Reminders : Unsettled(e)' => Unsettled(e)
      BY <1>1, <2>1, PassMovesOn DEF Pass
    <2> QED  BY <2>2, <1>4, QuietReminders DEF StartNudging
  <1>5. CASE StartExpiring(p)
    <2>1. PICK S : pass' = [pass EXCEPT ![p] = [pass[p] EXCEPT !.pc = "expire", !.todo = S]]
      BY <1>1, <1>5 DEF StartExpiring, Pass
    <2>2. \A e \in Reminders : Unsettled(e)' => Unsettled(e)
      BY <1>1, <2>1, PassMovesOn DEF Pass
    <2> QED  BY <2>2, <1>5, QuietReminders DEF StartExpiring
  <1>6. CASE EndPass(p)
    <2>1. \A e \in Reminders : Unsettled(e)' => Unsettled(e)
      <3>1. AtRest.cur = {}
        BY DEF AtRest
      <3> QED  BY <1>6, <3>1, PassMovesOn DEF EndPass
    <2> QED  BY <2>1, <1>6, QuietReminders DEF EndPass
  <1>7. ASSUME NEW S, pass' = [pass EXCEPT ![p] = [pass[p] EXCEPT !.todo = S]]
        PROVE  \A x \in Reminders : Unsettled(x)' => Unsettled(x)
    BY <1>1, <1>7, PassMovesOn DEF Pass
  <1>8. ASSUME NEW e \in Reminders, ExpireEvent(p, e)
        PROVE  NotifiedInv'
    <2>1. \A x \in Reminders : rem'[x] = rem[x] \/ rem'[x].status = "expired"
      BY <1>1, <1>8 DEF ExpireEvent, ReminderRow
    <2>2. \A x \in Reminders : Unsettled(x)' => Unsettled(x)
      BY <1>7, <1>8 DEF ExpireEvent
    <2> QED  BY <2>1, <2>2, <1>8, QuietReminders DEF ExpireEvent
  <1>9. ASSUME NEW e \in Reminders, NEW ok \in BOOLEAN, SendReminder(p, e, ok)
        PROVE  NotifiedInv'
    <2>1. /\ pass' = [pass EXCEPT ![p] = [pc |-> "settle", todo |-> pass[p].todo \ {e},
                                          cur |-> {e}, ok |-> ok]]
          /\ told' = [told EXCEPT ![e] = IF ok THEN "yes" ELSE told[e]]
          /\ rem' = rem
      BY <1>9 DEF SendReminder
    <2>2. \A x \in Reminders : Unsettled(x)' => Unsettled(x) \/ (x = e /\ ok)
      BY <1>1, <2>1 DEF Unsettled
    <2> SUFFICES ASSUME NEW x \in Reminders
                 PROVE  /\ rem[x].status = "notified" => told'[x] # "no"
                        /\ rem[x].status = "reminder_sending" /\ Unsettled(x)' => told'[x] # "no"
      BY <2>1 DEF NotifiedInv
    <2>3. told'[x] = told[x] \/ told'[x] = "yes"
      BY <1>1, <2>1
    <2>4. x = e /\ ok => told'[x] = "yes"
      BY <1>1, <2>1
    <2> QED  BY <2>2, <2>3, <2>4 DEF NotifiedInv
  <1>10. ASSUME NEW e \in Reminders, NEW ok \in BOOLEAN, NudgeFriend(p, e, ok)
         PROVE  NotifiedInv'
    <2>1. \A x \in Reminders : rem'[x].status = rem[x].status
      BY <1>1, <1>10 DEF NudgeFriend, ReminderRow
    <2>2. \A x \in Reminders : Unsettled(x)' => Unsettled(x)
      BY <1>7, <1>10 DEF NudgeFriend
    <2> QED  BY <2>1, <2>2, <1>10, QuietReminders DEF NudgeFriend
  <1> QED
    BY <1>2, <1>3, <1>4, <1>5, <1>6, <1>8, <1>9, <1>10 DEF PassStep

\* A reminder is recorded as notified only if the user was notified since its
\* time was last set, or another pass claimed it anew under the one that
\* recorded it (claim_due_reminders, mark_reminder_delivered): for every
\* number of passes at once, moved times, failing writes and restarts.
THEOREM NotifiedMeansSent == ReminderSpec => []NotifiedWasSent
  <1>1. ReminderInit => NotifiedInv
    BY DEF ReminderInit, NotifiedInv, NoEventRow
  <1>2. ReminderTypeOK /\ NotifiedInv /\ [ReminderNext]_reminderVars => NotifiedInv'
    <2> SUFFICES ASSUME ReminderTypeOK, NotifiedInv, [ReminderNext]_reminderVars
                 PROVE  NotifiedInv'
      OBVIOUS
    <2>1. CASE RestartScheduler
      <3>1. \A e \in Reminders : ~Unsettled(e)'
        BY <2>1 DEF RestartScheduler, Unsettled, AtRest
      <3> QED  BY <2>1, <3>1 DEF RestartScheduler, NotifiedInv
    <2>2. CASE UNCHANGED reminderVars
      BY <2>2 DEF reminderVars, NotifiedInv, Unsettled
    <2> QED  BY <2>1, <2>2, UserStepKeepsNotified, PassStepKeepsNotified DEF ReminderNext
  <1>3. NotifiedInv => NotifiedWasSent
    BY DEF NotifiedInv, NotifiedWasSent
  <1> QED  BY <1>1, <1>2, <1>3, ReminderTypeCorrect, PTL DEF ReminderSpec

-----------------------------------------------------------------------------
(* Reply watches                                                           *)

\* A handler holds one row at most.
HoldsOne == \A h \in Handlers : holding[h] = {} \/ \E w \in Watch : holding[h] = {w}

\* WatchTypeOK with the sizes left to HoldsOne; a lost answer is a fault.
WatchTypes ==
    /\ watches \subseteq Watch
    /\ over \subseteq asked /\ asked \subseteq Arms
    /\ holding \in [Handlers -> SUBSET Watch]
    /\ failed \subseteq Handlers
    /\ fired \in [Watch -> Nat] /\ lost \in [Watch -> Nat]
    /\ \A w \in Watch : lost[w] <= watchFaults
    /\ watchFaults \in 0..MaxWatchFaults

\* Where a row is that may still notify: in the table or with one handler, and
\* then each of its notifications was unheard of; a row nobody has asked for is
\* nowhere and has not notified.
WatchInv ==
    /\ \A h, g \in Handlers : holding[h] \cap holding[g] # {} => h = g
    /\ \A h \in Handlers : holding[h] \cap watches = {}
    /\ \A h \in Handlers : \A w \in holding[h] : fired[w] <= lost[w]
    /\ \A w \in watches : fired[w] <= lost[w]
    /\ \A w \in Watch : w.arm \notin asked =>
          /\ w \notin watches /\ fired[w] = 0
          /\ \A h \in Handlers : w \notin holding[h]
    /\ \A w \in Watch : fired[w] <= 1 + lost[w]

WatchIInv == WatchTypes /\ HoldsOne /\ WatchInv

\* Rows are added for one request that is new, or taken away.
LEMMA WatchesMove ==
    ASSUME WatchIInv, NEW a \in Arms, a \notin asked, NEW New \in SUBSET Watch,
           \A w \in New : w.arm = a,
           asked' = asked \cup {a}, watches' \subseteq watches \cup New,
           UNCHANGED <<over, holding, failed, fired, lost, watchFaults>>
    PROVE  WatchIInv'
  <1>1. WatchTypes'
    BY DEF WatchIInv, WatchTypes
  <1>2. HoldsOne'
    BY DEF WatchIInv, HoldsOne
  <1>3. \A w \in New : fired[w] <= lost[w] /\ \A h \in Handlers : w \notin holding[h]
    BY WatchBoundsAssumption DEF WatchIInv, WatchTypes, WatchInv
  <1>4. WatchInv'
    BY <1>3 DEF WatchIInv, WatchInv
  <1> QED  BY <1>1, <1>2, <1>4 DEF WatchIInv

\* Arming from a chat adds a watch that has not fired,
LEMMA ArmChatSafe ==
    ASSUME WatchIInv, NEW a \in Arms, NEW c \in Contacts, NEW i \in Places, ArmChat(a, c, i)
    PROVE  WatchIInv'
  <1> DEFINE New == {[arm |-> a, contact |-> c, place |-> i]}
  <1>1. New \in SUBSET Watch /\ \A w \in New : w.arm = a
    BY DEF Watch
  <1>2. /\ a \notin asked /\ asked' = asked \cup {a} /\ watches' \subseteq watches \cup New
        /\ UNCHANGED <<over, holding, failed, fired, lost, watchFaults>>
    BY DEF ArmChat, ArmOnly
  <1> HIDE DEF New
  <1> QED  BY <1>1, <1>2, WatchesMove

\* so does arming by the agent, in several places.
LEMMA ArmAgentSafe ==
    ASSUME WatchIInv, NEW a \in Arms, NEW c \in Contacts, NEW I \in SUBSET Places,
           ArmAgent(a, c, I)
    PROVE  WatchIInv'
  <1> DEFINE New == {[arm |-> a, contact |-> c, place |-> i] : i \in I}
  <1>1. New \in SUBSET Watch /\ \A w \in New : w.arm = a
    BY DEF Watch
  <1>2. /\ a \notin asked /\ asked' = asked \cup {a} /\ watches' \subseteq watches \cup New
        /\ UNCHANGED <<over, holding, failed, fired, lost, watchFaults>>
    BY DEF ArmAgent, ArmOnly
  <1> HIDE DEF New
  <1> QED  BY <1>1, <1>2, WatchesMove

\* A claim moves the watch from the table into one handler's hands.
LEMMA ClaimActiveSafe ==
    ASSUME WatchIInv, NEW h \in Handlers, NEW w \in watches, ClaimActive(h, w)
    PROVE  WatchIInv'
  <1>1. /\ holding[h] = {} /\ w \in Watch /\ watches' \subseteq watches \ {w}
        /\ holding' = [holding EXCEPT ![h] = {w}]
        /\ UNCHANGED <<over, asked, failed, fired, lost, watchFaults>>
    BY DEF ClaimActive, Active, At, WatchIInv, WatchTypes
  <1>2. WatchTypes'
    BY <1>1 DEF WatchIInv, WatchTypes
  <1>3. HoldsOne'
    BY <1>1 DEF WatchIInv, WatchTypes, HoldsOne
  <1>4. \A g \in Handlers : holding'[g] = IF g = h THEN {w} ELSE holding[g]
    BY <1>1 DEF WatchIInv, WatchTypes
  <1>5. /\ \A g \in Handlers : w \notin holding[g]
        /\ fired[w] <= lost[w] /\ w.arm \in asked
    BY <1>1 DEF WatchIInv, WatchInv
  <1>6. /\ \A f, g \in Handlers : holding'[f] \cap holding'[g] # {} => f = g
        /\ \A g \in Handlers : holding'[g] \cap watches' = {}
    BY <1>1, <1>4, <1>5 DEF WatchIInv, WatchInv
  <1>7. /\ \A g \in Handlers : \A x \in holding'[g] : fired'[x] <= lost'[x]
        /\ \A x \in watches' : fired'[x] <= lost'[x]
        /\ \A x \in Watch : fired'[x] <= 1 + lost'[x]
    BY <1>1, <1>4, <1>5 DEF WatchIInv, WatchInv
  <1>8. \A x \in Watch : x.arm \notin asked' =>
          /\ x \notin watches' /\ fired'[x] = 0
          /\ \A g \in Handlers : x \notin holding'[g]
    BY <1>1, <1>4, <1>5 DEF WatchIInv, WatchInv
  <1> QED  BY <1>2, <1>3, <1>6, <1>7, <1>8 DEF WatchIInv, WatchInv

\* The handler that holds a row notifies; it gives the row up, or has an error
\* for each notification the row has had.
LEMMA NotifySafe ==
    ASSUME WatchIInv, NEW h \in Handlers, NEW o \in {"sent", "suppressed", "refused", "lost"},
           Notify(h, o)
    PROVE  WatchIInv'
  <1> DEFINE out == IF o \in {"sent", "lost"} THEN holding[h] ELSE {}
             unheard == IF o = "lost" THEN holding[h] ELSE {}
  <1>1. /\ \A x \in Watch : fired'[x] = IF x \in out THEN fired[x] + 1 ELSE fired[x]
        /\ \A x \in Watch : lost'[x] = IF x \in unheard THEN lost[x] + 1 ELSE lost[x]
    BY DEF Notify
  <1>2. \A g \in Handlers :
           holding'[g] = IF o \in {"sent", "suppressed"} /\ g = h THEN {} ELSE holding[g]
    BY DEF Notify, WatchIInv, WatchTypes
  <1>3. /\ fired \in [Watch -> Nat] /\ lost \in [Watch -> Nat]
        /\ MaxWatchFaults \in Nat
    BY WatchBoundsAssumption DEF WatchIInv, WatchTypes
  <1>4. UNCHANGED <<watches, over, asked>>
    BY DEF Notify
  <1>5. \A x \in Watch : /\ x \notin out => fired'[x] = fired[x] /\ lost'[x] = lost[x]
                         /\ o = "lost" /\ x \in out =>
                               fired'[x] = fired[x] + 1 /\ lost'[x] = lost[x] + 1
                         /\ x \in out => fired'[x] = fired[x] + 1 /\ lost'[x] >= lost[x]
    BY <1>1, <1>3
  <1>6. \A x \in out : x \in holding[h] /\ x \in Watch
    BY DEF WatchIInv, WatchTypes
  <1>7. WatchTypes'
    <2>1. fired' \in [Watch -> Nat]
      <3>1. \A x \in Watch : fired'[x] \in Nat
        BY <1>1, <1>3
      <3> QED  BY <3>1 DEF Notify
    <2>2. lost' \in [Watch -> Nat]
      <3>1. \A x \in Watch : lost'[x] \in Nat
        BY <1>1, <1>3
      <3> QED  BY <3>1 DEF Notify
    <2>3. watchFaults' \in 0..MaxWatchFaults /\ \A x \in Watch : lost'[x] <= watchFaults'
      <3>1. CASE o = "lost"
        <4>1. watchFaults < MaxWatchFaults /\ watchFaults' = watchFaults + 1
          BY <3>1 DEF Notify
        <4> QED  BY <1>1, <1>3, <4>1 DEF WatchIInv, WatchTypes
      <3>2. CASE o # "lost"
        BY <1>1, <1>3, <3>2 DEF Notify, WatchIInv, WatchTypes
      <3> QED  BY <3>1, <3>2
    <2> QED  BY <1>2, <1>4, <2>1, <2>2, <2>3 DEF Notify, WatchIInv, WatchTypes
  <1>8. HoldsOne'
    BY <1>2 DEF WatchIInv, HoldsOne
  <1>9. /\ \A f, g \in Handlers : holding'[f] \cap holding'[g] # {} => f = g
        /\ \A g \in Handlers : holding'[g] \cap watches' = {}
    BY <1>2, <1>4 DEF WatchIInv, WatchInv
  <1>10. \A g \in Handlers : \A x \in holding'[g] : fired'[x] <= lost'[x]
    <2> SUFFICES ASSUME NEW g \in Handlers, NEW x \in holding'[g] PROVE fired'[x] <= lost'[x]
      OBVIOUS
    <2>1. x \in holding[g] /\ x \in Watch /\ fired[x] <= lost[x]
      BY <1>2 DEF WatchIInv, WatchTypes, WatchInv
    <2>2. CASE x \in out
      <3>1. g = h
        BY <1>6, <2>1, <2>2 DEF WatchIInv, WatchInv
      <3>2. o = "lost"
        BY <1>2, <2>2, <3>1
      <3> QED  BY <1>3, <1>5, <2>1, <2>2, <3>2
    <2>3. CASE x \notin out
      BY <1>5, <2>1, <2>3
    <2> QED  BY <2>2, <2>3
  <1>11. \A x \in watches' : fired'[x] <= lost'[x]
    <2> SUFFICES ASSUME NEW x \in watches PROVE fired'[x] <= lost'[x]
      BY <1>4
    <2>1. x \in Watch /\ x \notin out /\ fired[x] <= lost[x]
      BY <1>6 DEF WatchIInv, WatchTypes, WatchInv
    <2> QED  BY <1>5, <2>1
  <1>12. \A x \in Watch : x.arm \notin asked' =>
           /\ x \notin watches' /\ fired'[x] = 0
           /\ \A g \in Handlers : x \notin holding'[g]
    BY <1>2, <1>4, <1>5, <1>6 DEF WatchIInv, WatchInv
  <1>13. \A x \in Watch : fired'[x] <= 1 + lost'[x]
    <2> SUFFICES ASSUME NEW x \in Watch PROVE fired'[x] <= 1 + lost'[x]
      OBVIOUS
    <2>1. CASE x \in out
      <3>1. fired[x] <= lost[x]
        BY <1>6, <2>1 DEF WatchIInv, WatchInv
      <3>2. lost'[x] \in Nat
        BY <1>3, <1>7 DEF WatchTypes
      <3> QED  BY <1>3, <1>5, <2>1, <3>1, <3>2
    <2>2. CASE x \notin out
      BY <1>5, <2>2 DEF WatchIInv, WatchInv
    <2> QED  BY <2>1, <2>2
  <1> HIDE DEF out, unheard
  <1> QED  BY <1>7, <1>8, <1>9, <1>10, <1>11, <1>12, <1>13 DEF WatchIInv, WatchInv

\* A failed notification puts back a watch that has not fired.
LEMMA RestoreSafe ==
    ASSUME WatchIInv, NEW h \in Handlers, NEW ok \in BOOLEAN, Restore(h, ok)
    PROVE  WatchIInv'
  <1>1. \A g \in Handlers : holding'[g] = IF g = h THEN {} ELSE holding[g]
    BY DEF Restore, WatchIInv, WatchTypes
  <1>2. watches' = watches \/ watches' = watches \cup holding[h]
    BY DEF Restore
  <1>3. UNCHANGED <<over, asked, fired, lost>>
    BY DEF Restore
  <1>4. WatchTypes'
    BY WatchBoundsAssumption, <1>2 DEF Restore, WatchIInv, WatchTypes
  <1>5. HoldsOne'
    BY <1>1 DEF WatchIInv, HoldsOne
  <1>6. /\ \A f, g \in Handlers : holding'[f] \cap holding'[g] # {} => f = g
        /\ \A g \in Handlers : holding'[g] \cap watches' = {}
    BY <1>1, <1>2 DEF WatchIInv, WatchInv
  <1>7. /\ \A g \in Handlers : \A x \in holding'[g] : fired'[x] <= lost'[x]
        /\ \A x \in watches' : fired'[x] <= lost'[x]
        /\ \A x \in Watch : fired'[x] <= 1 + lost'[x]
    BY <1>1, <1>2, <1>3 DEF WatchIInv, WatchInv
  <1>8. \A x \in Watch : x.arm \notin asked' =>
          /\ x \notin watches' /\ fired'[x] = 0
          /\ \A g \in Handlers : x \notin holding'[g]
    BY <1>1, <1>2, <1>3 DEF WatchIInv, WatchInv
  <1> QED  BY <1>4, <1>5, <1>6, <1>7, <1>8 DEF WatchIInv, WatchInv

\* The invariant of the watches holds throughout.
LEMMA WatchIInvHolds == WatchSpec => []WatchIInv
  <1>1. WatchInit => WatchIInv
    BY WatchBoundsAssumption DEF WatchInit, WatchIInv, WatchTypes, HoldsOne, WatchInv
  <1>2. WatchIInv /\ [WatchNext]_watchVars => WatchIInv'
    <2> SUFFICES ASSUME WatchIInv, [WatchNext]_watchVars PROVE WatchIInv'
      OBVIOUS
    <2>1. ASSUME NEW w \in watches, CancelWatch(w) PROVE WatchIInv'
      BY <2>1 DEF CancelWatch, ArmOnly, WatchIInv, WatchTypes, HoldsOne, WatchInv
    <2>2. ASSUME NEW a \in Arms, Expire(a) PROVE WatchIInv'
      BY <2>2 DEF Expire, WatchIInv, WatchTypes, HoldsOne, WatchInv
    <2>3. CASE RestartHandlers
      BY <2>3, WatchBoundsAssumption
         DEF RestartHandlers, WatchIInv, WatchTypes, HoldsOne, WatchInv
    <2>4. CASE UNCHANGED watchVars
      BY <2>4 DEF watchVars, WatchIInv, WatchTypes, HoldsOne, WatchInv
    <2> QED
      BY <2>1, <2>2, <2>3, <2>4, ArmChatSafe, ArmAgentSafe, ClaimActiveSafe, NotifySafe,
         RestoreSafe DEF WatchNext
  <1> QED  BY <1>1, <1>2, PTL DEF WatchSpec

\* The rows, the handlers and the counters keep their types; a handler holds
\* one row at most.
THEOREM WatchTypeCorrect == WatchSpec => []WatchTypeOK
  <1>1. WatchIInv => WatchTypeOK
    <2> SUFFICES ASSUME WatchIInv PROVE WatchTypeOK
      OBVIOUS
    <2>1. \A h \in Handlers : Cardinality(holding[h]) <= 1
      <3>1. TAKE h \in Handlers
      <3>2. CASE holding[h] = {}
        BY <3>2, FS_EmptySet
      <3>3. ASSUME NEW w \in Watch, holding[h] = {w} PROVE Cardinality(holding[h]) <= 1
        BY <3>3, FS_Singleton
      <3> QED  BY <3>2, <3>3 DEF WatchIInv, HoldsOne
    <2>2. lost \in [Watch -> 0..MaxWatchFaults]
      <3>1. \A w \in Watch : lost[w] \in 0..MaxWatchFaults
        BY WatchBoundsAssumption DEF WatchIInv, WatchTypes
      <3> QED  BY <3>1 DEF WatchIInv, WatchTypes
    <2> QED  BY <2>1, <2>2 DEF WatchIInv, WatchTypes, WatchTypeOK
  <1> QED  BY <1>1, WatchIInvHolds, PTL

\* A row of pending_reply_watches that has notified n times was put back by at
\* least n - 1 lost answers of a provider: no number of messages handled at once,
\* of refused notifications, of restores and of restarts repeats it
\* (claim_active_bridge, claim_active_email, restore).
THEOREM RowsFireOnce == WatchSpec => []RowFiresOnce
  <1>1. WatchIInv => RowFiresOnce
    BY DEF WatchIInv, WatchInv, RowFiresOnce
  <1> QED  BY <1>1, WatchIInvHolds, PTL

-----------------------------------------------------------------------------
(* Rules: types                                                            *)

\* Writing one task keeps the type of them all.
LEMMA TaskWritten ==
    ASSUME task \in [Triggers -> [Rules -> Task]], NEW t \in Triggers, NEW r \in Rules,
           NEW v \in Task, task' = [task EXCEPT ![t][r] = v]
    PROVE  /\ task' \in [Triggers -> [Rules -> Task]]
           /\ \A x \in Triggers, y \in Rules :
                 task'[x][y] = IF x = t /\ y = r THEN v ELSE task[x][y]
  <1>1. [task[t] EXCEPT ![r] = v] \in [Rules -> Task]
    OBVIOUS
  <1> QED  BY <1>1

\* What Moves writes.
LEMMA TaskMoves ==
    ASSUME task \in [Triggers -> [Rules -> Task]], NEW t \in Triggers, NEW r \in Rules,
           NEW pc \in {"none", "waiting", "ready", "claimed", "done"}, Moves(t, r, pc)
    PROVE  /\ task' \in [Triggers -> [Rules -> Task]]
           /\ task'[t][r].pc = pc
           /\ pc # "done" => task'[t][r].kind = task[t][r].kind
           /\ \A x \in Triggers, y \in Rules : (x = t /\ y = r) \/ task'[x][y] = task[x][y]
  <1> DEFINE v == IF pc = "done" THEN TaskDone ELSE [task[t][r] EXCEPT !.pc = pc]
  <1>1. task[t][r] \in Task
    OBVIOUS
  <1>2. v \in Task /\ v.pc = pc /\ (pc # "done" => v.kind = task[t][r].kind)
    BY <1>1 DEF Task, TaskDone, Kind
  <1>3. task' = [task EXCEPT ![t][r] = v]
    BY DEF Moves
  <1> HIDE DEF v
  <1> QED  BY <1>2, <1>3, TaskWritten

\* Writing one rule keeps the type of the table.
LEMMA RuleWritten ==
    ASSUME rule \in [Rules -> RuleRow], NEW r \in Rules, NEW row \in RuleRow
    PROVE  [rule EXCEPT ![r] = row] \in [Rules -> RuleRow]
  OBVIOUS

\* Taking one rule off a tick's list keeps the type of the lists.
LEMMA DueWritten ==
    ASSUME due \in [Ticks -> [Rules -> Kind \cup {"not"}]], NEW t \in Ticks, NEW r \in Rules
    PROVE  [due EXCEPT ![t][r] = "not"] \in [Ticks -> [Rules -> Kind \cup {"not"}]]
  <1>1. [due[t] EXCEPT ![r] = "not"] \in [Rules -> Kind \cup {"not"}]
    OBVIOUS
  <1> QED  BY <1>1

\* A change by the user, or the clock, keeps the types.
LEMMA RuleEditTyped ==
    ASSUME RuleTypeOK, NEW r \in Rules,
           \/ \E k \in Kind, e \in {"none", "ahead"} : CreateRule(r, k, e)
           \/ \E k \in Kind : UpdateRule(r, k)
           \/ \E s \in {"active", "paused"} : UpdateRuleStatus(r, s)
           \/ DeleteRule(r) \/ PurgeOldRule(r)
           \/ RuleTimePasses(r)
    PROVE  RuleTypeOK'
  <1>1. rule[r] \in RuleRow
    BY DEF RuleTypeOK
  <1>2. \A k \in Kind : FirstTime(k) \in {"none", "ahead"}
    BY DEF FirstTime
  <1>3. [activations EXCEPT ![r] = activations[r] + 1] \in [Rules -> Nat]
    BY DEF RuleTypeOK
  <1>4. ASSUME EditRule(r) PROVE ruleEdits' \in 0..MaxRuleEdits
    BY <1>4, RuleBoundsAssumption DEF EditRule, RuleTypeOK
  <1>5. \A s \in {"active", "paused", "deleted"} : [rule[r] EXCEPT !.status = s] \in RuleRow
    BY <1>1 DEF RuleRow
  <1>6. ASSUME NEW k \in Kind, NEW e \in {"none", "ahead"}, CreateRule(r, k, e)
        PROVE  RuleTypeOK'
    <2>1. [status |-> "active", kind |-> k, next |-> FirstTime(k), ends |-> e] \in RuleRow
      BY <1>2 DEF RuleRow
    <2>2. rule' \in [Rules -> RuleRow]
      BY <1>6, <2>1, RuleWritten DEF CreateRule, RuleTypeOK
    <2> QED  BY <1>3, <1>6, <2>2 DEF CreateRule, UserOnly, RuleTypeOK
  <1>7. ASSUME NEW k \in Kind, UpdateRule(r, k)
        PROVE  RuleTypeOK'
    <2>1. rule' = [rule EXCEPT ![r] = [rule[r] EXCEPT !.kind = k, !.next = FirstTime(k)]]
      BY <1>1, <1>7 DEF UpdateRule, RuleTypeOK, RuleRow
    <2>2. [rule[r] EXCEPT !.kind = k, !.next = FirstTime(k)] \in RuleRow
      BY <1>1, <1>2 DEF RuleRow
    <2>3. rule' \in [Rules -> RuleRow]
      BY <2>1, <2>2, RuleWritten DEF RuleTypeOK
    <2> QED  BY <1>4, <1>7, <2>3 DEF UpdateRule, UserOnly, RuleTypeOK
  <1>8. ASSUME NEW s \in {"active", "paused"}, UpdateRuleStatus(r, s)
        PROVE  RuleTypeOK'
    <2>1. rule' \in [Rules -> RuleRow]
      BY <1>5, <1>8, RuleWritten DEF UpdateRuleStatus, RuleTypeOK
    <2>2. activations' \in [Rules -> Nat]
      BY <1>8 DEF UpdateRuleStatus, RuleTypeOK
    <2> QED  BY <1>4, <1>8, <2>1, <2>2 DEF UpdateRuleStatus, UserOnly, RuleTypeOK
  <1>9. CASE DeleteRule(r)
    <2>1. rule' \in [Rules -> RuleRow]
      BY <1>5, <1>9, RuleWritten DEF DeleteRule, RuleTypeOK
    <2> QED  BY <1>4, <1>9, <2>1 DEF DeleteRule, UserOnly, RuleTypeOK
  <1>10. CASE PurgeOldRule(r)
    <2>1. rule' \in [Rules -> RuleRow]
      BY <1>5, <1>10, RuleWritten DEF PurgeOldRule, RuleTypeOK
    <2> QED  BY <1>10, <2>1 DEF PurgeOldRule, UserOnly, RuleTypeOK
  <1>11. CASE RuleTimePasses(r)
    <2>1. PICK n \in {"none", "ahead", "past", "never"}, e \in {"none", "ahead", "past"} :
             \/ rule' = [rule EXCEPT ![r] = [rule[r] EXCEPT !.next = n]]
             \/ rule' = [rule EXCEPT ![r] = [rule[r] EXCEPT !.ends = e]]
      BY <1>1, <1>11 DEF RuleTimePasses, RuleRow
    <2>2. [rule[r] EXCEPT !.next = n] \in RuleRow /\ [rule[r] EXCEPT !.ends = e] \in RuleRow
      BY <1>1 DEF RuleRow
    <2>3. rule' \in [Rules -> RuleRow]
      BY <2>1, <2>2, RuleWritten DEF RuleTypeOK
    <2> QED  BY <1>11, <2>3 DEF RuleTimePasses, UserOnly, RuleTypeOK
  <1> QED  BY <1>6, <1>7, <1>8, <1>9, <1>10, <1>11

\* So does what fires rules ...
LEMMA FiringTyped ==
    ASSUME RuleTypeOK,
           \/ \E t \in Ticks : ReadDueRules(t) \/ ExpireOldRules(t)
           \/ \E t \in Ticks, r \in Rules, w \in BOOLEAN : SpawnDue(t, r, w)
           \/ \E t \in Arrivals : EmitOntologyChange(t)
           \/ RestartRules
    PROVE  RuleTypeOK'
  <1>1. NoTask \in Task /\ TaskDone \in Task
    BY DEF NoTask, TaskDone, Task, Kind
  <1>2. \A r \in Rules : rule[r] \in RuleRow /\ rule[r].kind \in Kind
    BY DEF RuleTypeOK, RuleRow
  <1>3. ASSUME NEW t \in Ticks, ReadDueRules(t) PROVE RuleTypeOK'
    <2>1. due' \in [Ticks -> [Rules -> Kind \cup {"not"}]]
      <3>1. [r \in Rules |-> IF rule[r].status = "active" /\ rule[r].kind \in Scheduled
                                /\ rule[r].next = "past" THEN rule[r].kind ELSE "not"]
               \in [Rules -> Kind \cup {"not"}]
        BY <1>2
      <3> QED  BY <1>3, <3>1 DEF ReadDueRules, RuleTypeOK
    <2> QED  BY <1>3, <2>1 DEF ReadDueRules, FireOnly, RuleTypeOK
  <1>4. ASSUME NEW t \in Ticks, ExpireOldRules(t) PROVE RuleTypeOK'
    <2>1. \A r \in Rules : [rule[r] EXCEPT !.status = "expired"] \in RuleRow
      BY <1>2 DEF RuleRow
    <2>2. rule' \in [Rules -> RuleRow]
      BY <1>2, <1>4, <2>1 DEF ExpireOldRules
    <2> QED  BY <1>4, <2>2 DEF ExpireOldRules, FireOnly, RuleTypeOK
  <1>5. ASSUME NEW t \in Ticks, NEW r \in Rules, NEW w \in BOOLEAN, SpawnDue(t, r, w)
        PROVE  RuleTypeOK'
    <2>1. t \in Triggers /\ due[t][r] \in Kind
      BY <1>5 DEF SpawnDue, RuleTypeOK, Triggers
    <2>2. [pc |-> "ready", kind |-> due[t][r]] \in Task
      BY <2>1 DEF Task
    <2>3. task' \in [Triggers -> [Rules -> Task]]
      BY <1>5, <2>1, <2>2, TaskWritten DEF SpawnDue, RuleTypeOK
    <2>4. \A n \in {"never", "ahead"} : [rule[r] EXCEPT !.next = n] \in RuleRow
      BY <1>2 DEF RuleRow
    <2>5. rule' = rule \/ \E n \in {"never", "ahead"} :
                             rule' = [rule EXCEPT ![r] = [rule[r] EXCEPT !.next = n]]
      BY <1>5 DEF SpawnDue
    <2>6. rule' \in [Rules -> RuleRow]
      BY <2>4, <2>5, RuleWritten DEF RuleTypeOK
    <2>7. due' \in [Ticks -> [Rules -> Kind \cup {"not"}]]
      BY <1>5, DueWritten DEF SpawnDue, RuleTypeOK
    <2>8. ruleFaults' \in 0..MaxRuleFaults
      BY <1>5, RuleBoundsAssumption DEF SpawnDue, RuleTypeOK
    <2> QED  BY <1>5, <2>3, <2>6, <2>7, <2>8 DEF SpawnDue, FireOnly, RuleTypeOK
  <1>6. ASSUME NEW t \in Arrivals, EmitOntologyChange(t) PROVE RuleTypeOK'
    <2>1. PICK M : task' = [task EXCEPT ![t] = [r \in Rules |->
             IF r \in M THEN [pc |-> "waiting", kind |-> rule[r].kind] ELSE NoTask]]
      BY <1>6 DEF EmitOntologyChange
    <2>2. \A r \in Rules : [pc |-> "waiting", kind |-> rule[r].kind] \in Task
      BY <1>2 DEF Task
    <2>3. task' \in [Triggers -> [Rules -> Task]]
      BY <1>1, <2>1, <2>2 DEF RuleTypeOK
    <2> QED  BY <1>6, <2>3 DEF EmitOntologyChange, FireOnly, RuleTypeOK
  <1>7. CASE RestartRules
    <2>1. task' \in [Triggers -> [Rules -> Task]]
      BY <1>1, <1>7 DEF RestartRules
    <2>2. due' \in [Ticks -> [Rules -> Kind \cup {"not"}]]
      BY <1>7 DEF RestartRules
    <2>3. ruleFaults' \in 0..MaxRuleFaults
      BY <1>7, RuleBoundsAssumption DEF RestartRules, RuleTypeOK
    <2> QED  BY <1>7, <2>1, <2>2, <2>3 DEF RestartRules, FireOnly, RuleTypeOK
  <1> QED  BY <1>3, <1>4, <1>5, <1>6, <1>7

\* ... and a task.
LEMMA TaskTyped ==
    ASSUME RuleTypeOK, NEW t \in Triggers, NEW r \in Rules,
           \/ \E b \in BOOLEAN : CheckSeen(t, r, b) \/ Evaluate(t, r, b)
           \/ TryClaimRule(t, r) \/ NeedsNoClaim(t, r)
    PROVE  RuleTypeOK'
  <1>1. task' \in [Triggers -> [Rules -> Task]]
    BY TaskMoves DEF RuleTypeOK, CheckSeen, Evaluate, TryClaimRule, NeedsNoClaim
  <1>2. \A s \in {"completed", "expired"} : [rule[r] EXCEPT !.status = s] \in RuleRow
    BY DEF RuleTypeOK, RuleRow
  <1>3. rule' = rule \/ \E s \in {"completed", "expired"} :
                           rule' = [rule EXCEPT ![r] = [rule[r] EXCEPT !.status = s]]
    BY DEF CheckSeen, Evaluate, TryClaimRule, NeedsNoClaim
  <1>4. rule' \in [Rules -> RuleRow]
    BY <1>2, <1>3, RuleWritten DEF RuleTypeOK
  <1>5. shots' = shots \/ \E n \in {shots[r], shots[r] + 1} : shots' = [shots EXCEPT ![r] = n]
    BY DEF CheckSeen, Evaluate, TryClaimRule, NeedsNoClaim
  <1>6. shots' \in [Rules -> Nat]
    BY <1>5 DEF RuleTypeOK
  <1>7. TaskOnly
    BY DEF CheckSeen, Evaluate, TryClaimRule, NeedsNoClaim
  <1> QED  BY <1>1, <1>4, <1>6, <1>7 DEF TaskOnly, RuleTypeOK

\* Every step keeps the types of the rules and their tasks.
LEMMA RuleStepTyped ==
    ASSUME RuleTypeOK, [RuleNext]_ruleVars
    PROVE  RuleTypeOK'
  <1>1. CASE UNCHANGED ruleVars
    BY <1>1 DEF ruleVars, RuleTypeOK
  <1> QED  BY <1>1, RuleEditTyped, FiringTyped, TaskTyped DEF RuleNext

\* The rows of ont_rules, the tasks with their copies of a row, and the
\* counters keep their types.
THEOREM RuleTypeCorrect == RuleSpec => []RuleTypeOK
  <1>1. RuleInit => RuleTypeOK
    <2>1. NoRule \in RuleRow /\ NoTask \in Task
      BY DEF NoRule, RuleRow, NoTask, Task, Kind
    <2> QED  BY <2>1, RuleBoundsAssumption DEF RuleInit, RuleTypeOK
  <1> QED  BY <1>1, RuleStepTyped, PTL DEF RuleSpec

-----------------------------------------------------------------------------
(* Rules: one run of a one-shot for every activation                       *)

\* The tasks that hold the claim of a one-shot rule.
ClaimedShots(r) == {t \in Triggers : task[t][r].pc = "claimed" /\ task[t][r].kind \in OneShot}
MayBeClaimed(r) == IF rule[r].status = "active" THEN 1 ELSE 0

\* What OneShotRunsOnce rests on: an activation is used up by a run, by a task
\* that holds the claim, or is still there to be claimed.
ShotInv ==
    \A r \in Rules :
        /\ IsFiniteSet(ClaimedShots(r))
        /\ shots[r] + Cardinality(ClaimedShots(r)) + MayBeClaimed(r) <= activations[r]

\* A step that gives no task a claim and uses up or adds an activation.
LEMMA ShotsKept ==
    ASSUME RuleTypeOK, RuleTypeOK', NEW r \in Rules,
           IsFiniteSet(ClaimedShots(r)),
           shots[r] + Cardinality(ClaimedShots(r)) + MayBeClaimed(r) <= activations[r],
           ClaimedShots(r)' \subseteq ClaimedShots(r), shots'[r] = shots[r],
           \/ activations'[r] = activations[r] /\ (rule'[r].status = "active" => rule[r].status = "active")
           \/ activations'[r] = activations[r] + 1
    PROVE  /\ IsFiniteSet(ClaimedShots(r)')
           /\ shots'[r] + Cardinality(ClaimedShots(r)') + MayBeClaimed(r)' <= activations'[r]
  <1> DEFINE C == ClaimedShots(r)
  <1>1. IsFiniteSet(C') /\ Cardinality(C') <= Cardinality(C)
    BY FS_Subset
  <1>2. Cardinality(C) \in Nat /\ Cardinality(C') \in Nat
    BY <1>1, FS_CardinalityType
  <1>3. /\ shots[r] \in Nat /\ activations[r] \in Nat /\ activations'[r] \in Nat
        /\ MayBeClaimed(r) \in 0..1 /\ MayBeClaimed(r)' \in 0..1
    BY DEF RuleTypeOK, MayBeClaimed
  <1>4. MayBeClaimed(r)' <= MayBeClaimed(r) \/ activations'[r] = activations[r] + 1
    BY DEF MayBeClaimed
  <1> HIDE DEF C
  <1>5. shots'[r] + Cardinality(C') + MayBeClaimed(r)' <= activations'[r]
    <2>1. shots[r] + Cardinality(C) + MayBeClaimed(r) <= activations[r]
      BY DEF C
    <2>2. activations'[r] = activations[r] \/ activations'[r] = activations[r] + 1
      OBVIOUS
    <2>3. CASE activations'[r] = activations[r] + 1
      BY <1>1, <1>2, <1>3, <2>1, <2>3
    <2>4. CASE activations'[r] = activations[r]
      <3>1. MayBeClaimed(r)' <= MayBeClaimed(r)
        BY <1>3, <1>4, <2>4
      <3> QED  BY <1>1, <1>2, <1>3, <2>1, <2>4, <3>1
    <2> QED  BY <2>2, <2>3, <2>4
  <1> QED  BY <1>1, <1>5 DEF C

\* The same for a step that changes no rule's count.
LEMMA QuietShots ==
    ASSUME RuleTypeOK, RuleTypeOK', ShotInv, shots' = shots,
           \A r \in Rules : ClaimedShots(r)' \subseteq ClaimedShots(r),
           \A r \in Rules :
              \/ activations'[r] = activations[r] /\ (rule'[r].status = "active" => rule[r].status = "active")
              \/ activations'[r] = activations[r] + 1
    PROVE  ShotInv'
  BY ShotsKept DEF ShotInv

\* A change by the user claims no shot, and a new activation has none claimed.
LEMMA RuleEditKeepsShots ==
    ASSUME RuleTypeOK, RuleTypeOK', ShotInv, NEW r \in Rules,
           \/ \E k \in Kind, e \in {"none", "ahead"} : CreateRule(r, k, e)
           \/ \E k \in Kind : UpdateRule(r, k)
           \/ \E s \in {"active", "paused"} : UpdateRuleStatus(r, s)
           \/ DeleteRule(r) \/ PurgeOldRule(r)
           \/ RuleTimePasses(r)
    PROVE  ShotInv'
  <1>1. task' = task /\ shots' = shots
    BY DEF CreateRule, UpdateRule, UpdateRuleStatus, DeleteRule, PurgeOldRule, RuleTimePasses,
           UserOnly
  <1>2. \A x \in Rules : ClaimedShots(x)' = ClaimedShots(x)
    BY <1>1 DEF ClaimedShots
  <1>3. /\ rule[r] \in RuleRow /\ rule \in [Rules -> RuleRow]
        /\ activations \in [Rules -> Nat]
    BY DEF RuleTypeOK
  <1> DEFINE Fits == \A x \in Rules :
                 \/ activations'[x] = activations[x] /\ (rule'[x].status = "active" => rule[x].status = "active")
                 \/ activations'[x] = activations[x] + 1
  <1> SUFFICES Fits
    BY <1>1, <1>2, QuietShots
  <1>4. ASSUME NEW k, NEW e, CreateRule(r, k, e) PROVE Fits
    BY <1>3, <1>4 DEF CreateRule
  <1>5. ASSUME NEW k, UpdateRule(r, k) PROVE Fits
    <2>1. \A x \in Rules : rule'[x].status = rule[x].status
      BY <1>3, <1>5 DEF UpdateRule, RuleRow
    <2> QED  BY <2>1, <1>5 DEF UpdateRule
  <1>6. ASSUME NEW s \in {"active", "paused"}, UpdateRuleStatus(r, s) PROVE Fits
    <2>1. \A x \in Rules : rule'[x].status = IF x = r THEN s ELSE rule[x].status
      BY <1>3, <1>6 DEF UpdateRuleStatus, RuleRow
    <2>2. \A x \in Rules : activations'[x] = IF x = r /\ s = "active" THEN activations[x] + 1
                                             ELSE activations[x]
      BY <1>3, <1>6 DEF UpdateRuleStatus
    <2> QED  BY <2>1, <2>2
  <1>7. CASE DeleteRule(r)
    BY <1>3, <1>7 DEF DeleteRule, RuleRow
  <1>8. CASE PurgeOldRule(r)
    BY <1>3, <1>8 DEF PurgeOldRule, RuleRow
  <1>9. CASE RuleTimePasses(r)
    <2>1. \A x \in Rules : rule'[x].status = rule[x].status
      BY <1>3, <1>9 DEF RuleTimePasses, RuleRow
    <2> QED  BY <2>1, <1>9 DEF RuleTimePasses
  <1> QED  BY <1>4, <1>5, <1>6, <1>7, <1>8, <1>9

\* Ticks and arrivals start tasks, which have claimed nothing yet.
LEMMA FiringKeepsShots ==
    ASSUME RuleTypeOK, RuleTypeOK', ShotInv,
           \/ \E t \in Ticks : ReadDueRules(t) \/ ExpireOldRules(t)
           \/ \E t \in Ticks, r \in Rules, w \in BOOLEAN : SpawnDue(t, r, w)
           \/ \E t \in Arrivals : EmitOntologyChange(t)
           \/ RestartRules
    PROVE  ShotInv'
  <1>1. FireOnly
    BY DEF ReadDueRules, ExpireOldRules, SpawnDue, EmitOntologyChange, RestartRules
  <1>2. \A x \in Rules : rule[x] \in RuleRow
    BY DEF RuleTypeOK
  <1>3. \A x \in Rules : rule'[x].status = "active" => rule[x].status = "active"
    <2>1. ASSUME NEW t \in Ticks, ExpireOldRules(t)
          PROVE  \A x \in Rules : rule'[x].status = "active" => rule[x].status = "active"
      BY <1>2, <2>1 DEF ExpireOldRules, RuleRow
    <2>2. ASSUME NEW t \in Ticks, NEW r \in Rules, NEW w \in BOOLEAN, SpawnDue(t, r, w)
          PROVE  \A x \in Rules : rule'[x].status = "active" => rule[x].status = "active"
      BY <1>2, <2>2 DEF SpawnDue, RuleRow, RuleTypeOK
    <2> QED  BY <2>1, <2>2 DEF ReadDueRules, EmitOntologyChange, RestartRules
  <1>4. \A x \in Rules, u \in Triggers :
           task'[u][x] = task[u][x] \/ task'[u][x].pc # "claimed"
    <2>1. ASSUME NEW t \in Ticks, NEW r \in Rules, NEW w \in BOOLEAN, SpawnDue(t, r, w)
          PROVE  \A x \in Rules, u \in Triggers :
                    task'[u][x] = task[u][x] \/ task'[u][x].pc # "claimed"
      <3>1. t \in Triggers /\ [pc |-> "ready", kind |-> due[t][r]] \in Task
        BY <2>1 DEF SpawnDue, RuleTypeOK, Triggers, Task
      <3>2. \A u \in Triggers, x \in Rules : task'[u][x] =
               IF u = t /\ x = r THEN [pc |-> "ready", kind |-> due[t][r]] ELSE task[u][x]
        BY <2>1, <3>1, TaskWritten DEF SpawnDue, RuleTypeOK
      <3> QED  BY <3>2
    <2>2. ASSUME NEW t \in Arrivals, EmitOntologyChange(t)
          PROVE  \A x \in Rules, u \in Triggers :
                    task'[u][x] = task[u][x] \/ task'[u][x].pc # "claimed"
      BY <2>2 DEF EmitOntologyChange, RuleTypeOK, NoTask
    <2>3. CASE RestartRules
      BY <2>3 DEF RestartRules, NoTask, TaskDone
    <2> QED  BY <2>1, <2>2, <2>3 DEF ReadDueRules, ExpireOldRules
  <1>5. \A x \in Rules : ClaimedShots(x)' \subseteq ClaimedShots(x)
    BY <1>4 DEF ClaimedShots
  <1> QED  BY <1>1, <1>3, <1>5, QuietShots DEF FireOnly

\* The task that takes the claim takes the activation with it.
LEMMA TryClaimKeepsShots ==
    ASSUME RuleTypeOK, RuleTypeOK', ShotInv, NEW t \in Triggers, NEW r \in Rules,
           TryClaimRule(t, r)
    PROVE  ShotInv'
  <1>1. UNCHANGED <<shots, activations>>
    BY DEF TryClaimRule, TaskOnly
  <1>2. CASE rule[r].status # "active"
    <2>1. Moves(t, r, "done") /\ rule' = rule
      BY <1>2 DEF TryClaimRule
    <2>2. /\ task'[t][r].pc = "done"
          /\ \A u \in Triggers, x \in Rules : (u = t /\ x = r) \/ task'[u][x] = task[u][x]
      BY <2>1, TaskMoves DEF RuleTypeOK
    <2>3. \A x \in Rules : ClaimedShots(x)' \subseteq ClaimedShots(x)
      BY <2>2 DEF ClaimedShots
    <2> QED  BY <1>1, <2>1, <2>3, QuietShots
  <1>3. CASE rule[r].status = "active"
    <2>1. /\ Moves(t, r, "claimed")
          /\ rule' = [rule EXCEPT ![r] = [rule[r] EXCEPT !.status = "completed"]]
          /\ task[t][r].pc = "ready" /\ task[t][r].kind \in OneShot
      BY <1>3 DEF TryClaimRule
    <2>2. /\ task'[t][r].pc = "claimed" /\ task'[t][r].kind \in OneShot
          /\ \A u \in Triggers, x \in Rules : (u = t /\ x = r) \/ task'[u][x] = task[u][x]
      BY <2>1, TaskMoves DEF RuleTypeOK
    <2>3. /\ rule'[r].status = "completed"
          /\ \A x \in Rules : x = r \/ rule'[x] = rule[x]
      BY <2>1 DEF RuleTypeOK, RuleRow
    <2> SUFFICES ASSUME NEW x \in Rules
                 PROVE  /\ IsFiniteSet(ClaimedShots(x)')
                        /\ shots'[x] + Cardinality(ClaimedShots(x)') + MayBeClaimed(x)'
                              <= activations'[x]
      BY DEF ShotInv
    <2>4. CASE x # r
      <3>1. ClaimedShots(x)' = ClaimedShots(x)
        BY <2>2, <2>4 DEF ClaimedShots
      <3>2. MayBeClaimed(x)' = MayBeClaimed(x)
        BY <2>3, <2>4 DEF MayBeClaimed
      <3> QED  BY <1>1, <3>1, <3>2 DEF ShotInv
    <2>5. CASE x = r
      <3>1. ClaimedShots(r)' = ClaimedShots(r) \cup {t} /\ t \notin ClaimedShots(r)
        BY <2>1, <2>2 DEF ClaimedShots
      <3>2. MayBeClaimed(r) = 1 /\ MayBeClaimed(r)' = 0
        BY <1>3, <2>3 DEF MayBeClaimed
      <3>3. IsFiniteSet(ClaimedShots(r))
        BY DEF ShotInv
      <3>4. /\ IsFiniteSet(ClaimedShots(r) \cup {t})
            /\ Cardinality(ClaimedShots(r) \cup {t}) = Cardinality(ClaimedShots(r)) + 1
        BY <3>1, <3>3, FS_AddElement
      <3>5. Cardinality(ClaimedShots(r)) \in Nat /\ shots[r] \in Nat /\ activations[r] \in Nat
        BY <3>3, FS_CardinalityType DEF RuleTypeOK
      <3>6. shots[r] + Cardinality(ClaimedShots(r)) + 1 <= activations[r]
        BY <3>2 DEF ShotInv
      <3> QED  BY <1>1, <2>5, <3>1, <3>2, <3>4, <3>5, <3>6
    <2> QED  BY <2>4, <2>5
  <1> QED  BY <1>2, <1>3

\* The run of a one-shot ends its claim.
LEMMA EvaluateKeepsShots ==
    ASSUME RuleTypeOK, RuleTypeOK', ShotInv, NEW t \in Triggers, NEW r \in Rules,
           NEW b \in BOOLEAN, Evaluate(t, r, b)
    PROVE  ShotInv'
  <1>1. /\ activations' = activations
        /\ task[t][r].pc = "claimed" /\ Moves(t, r, "done")
    BY DEF Evaluate, TaskOnly
  <1>2. /\ task'[t][r].pc = "done"
        /\ \A u \in Triggers, x \in Rules : (u = t /\ x = r) \/ task'[u][x] = task[u][x]
    BY <1>1, TaskMoves DEF RuleTypeOK
  <1>3. \A x \in Rules : rule'[x].status = "active" => rule[x].status = "active"
    BY DEF Evaluate, RuleTypeOK, RuleRow
  <1>4. /\ \A x \in Rules : x # r => shots'[x] = shots[x]
        /\ \/ shots'[r] = shots[r]
           \/ shots'[r] = shots[r] + 1 /\ task[t][r].kind \in OneShot
    BY DEF Evaluate, RuleTypeOK
  <1>5. \A x \in Rules : ClaimedShots(x)' \subseteq ClaimedShots(x)
    BY <1>2 DEF ClaimedShots
  <1> SUFFICES ASSUME NEW x \in Rules
               PROVE  /\ IsFiniteSet(ClaimedShots(x)')
                      /\ shots'[x] + Cardinality(ClaimedShots(x)') + MayBeClaimed(x)'
                            <= activations'[x]
    BY DEF ShotInv
  <1>6. CASE shots'[x] = shots[x]
    BY <1>1, <1>3, <1>5, <1>6, ShotsKept DEF ShotInv
  <1>7. CASE x = r /\ shots'[r] = shots[r] + 1 /\ task[t][r].kind \in OneShot
    <2>1. t \in ClaimedShots(r) /\ ClaimedShots(r)' = ClaimedShots(r) \ {t}
      BY <1>1, <1>2, <1>7 DEF ClaimedShots
    <2>2. IsFiniteSet(ClaimedShots(r))
      BY DEF ShotInv
    <2>3. /\ IsFiniteSet(ClaimedShots(r) \ {t})
          /\ Cardinality(ClaimedShots(r) \ {t}) = Cardinality(ClaimedShots(r)) - 1
      BY <2>1, <2>2, FS_RemoveElement
    <2>4. Cardinality(ClaimedShots(r)) \in Nat /\ shots[r] \in Nat /\ activations[r] \in Nat
      BY <2>2, FS_CardinalityType DEF RuleTypeOK
    <2>5. MayBeClaimed(r)' <= MayBeClaimed(r) /\ MayBeClaimed(r) \in 0..1 /\ MayBeClaimed(r)' \in 0..1
      BY <1>3 DEF MayBeClaimed
    <2>6. shots[r] + Cardinality(ClaimedShots(r)) + MayBeClaimed(r) <= activations[r]
      BY DEF ShotInv
    <2> QED  BY <1>1, <1>7, <2>1, <2>3, <2>4, <2>5, <2>6
  <1> QED  BY <1>4, <1>6, <1>7

\* A one-shot rule runs at most once for every time the user made it active,
\* for every number of messages and ticks that spawned a task for it, failing
\* writes and restarts (try_claim_rule, evaluate_and_execute).
THEOREM OneShotsRunOnce == RuleSpec => []OneShotRunsOnce
  <1>1. RuleInit => ShotInv
    <2> SUFFICES ASSUME RuleInit PROVE ShotInv
      OBVIOUS
    <2>1. \A r \in Rules : ClaimedShots(r) = {} /\ MayBeClaimed(r) = 0
      BY DEF RuleInit, ClaimedShots, NoTask, MayBeClaimed, NoRule
    <2> QED  BY <2>1, FS_EmptySet DEF RuleInit, ShotInv
  <1>2. RuleTypeOK /\ RuleTypeOK' /\ ShotInv /\ [RuleNext]_ruleVars => ShotInv'
    <2> SUFFICES ASSUME RuleTypeOK, RuleTypeOK', ShotInv, [RuleNext]_ruleVars
                 PROVE  ShotInv'
      OBVIOUS
    <2>1. ASSUME NEW t \in Triggers, NEW r \in Rules,
                 (\E b \in BOOLEAN : CheckSeen(t, r, b)) \/ NeedsNoClaim(t, r)
          PROVE  ShotInv'
      <3>1. PICK pc \in {"ready", "claimed", "done"} :
               Moves(t, r, pc) /\ (pc = "claimed" => task[t][r].kind \notin OneShot)
        BY <2>1 DEF CheckSeen, NeedsNoClaim
      <3>2. /\ task'[t][r].pc = pc /\ (pc # "done" => task'[t][r].kind = task[t][r].kind)
            /\ \A u \in Triggers, x \in Rules : (u = t /\ x = r) \/ task'[u][x] = task[u][x]
        BY <3>1, TaskMoves DEF RuleTypeOK
      <3>3. task'[t][r].pc # "claimed" \/ task'[t][r].kind \notin OneShot
        BY <3>1, <3>2
      <3>4. \A x \in Rules : ClaimedShots(x)' \subseteq ClaimedShots(x)
        BY <3>2, <3>3 DEF ClaimedShots
      <3>5. UNCHANGED <<rule, shots, activations>>
        BY <2>1 DEF CheckSeen, NeedsNoClaim, TaskOnly
      <3> QED  BY <3>4, <3>5, QuietShots
    <2>2. CASE UNCHANGED ruleVars
      BY <2>2 DEF ruleVars, ShotInv, ClaimedShots, MayBeClaimed
    <2> QED
      BY <2>1, <2>2, RuleEditKeepsShots, FiringKeepsShots, TryClaimKeepsShots, EvaluateKeepsShots
         DEF RuleNext
  <1>3. RuleTypeOK /\ ShotInv => OneShotRunsOnce
    <2> SUFFICES ASSUME RuleTypeOK, ShotInv, NEW r \in Rules PROVE shots[r] <= activations[r]
      BY DEF OneShotRunsOnce
    <2>1. Cardinality(ClaimedShots(r)) \in Nat /\ MayBeClaimed(r) \in 0..1
      BY FS_CardinalityType DEF ShotInv, MayBeClaimed
    <2> QED  BY <2>1 DEF RuleTypeOK, ShotInv
  <1> QED  BY <1>1, <1>2, <1>3, RuleTypeCorrect, PTL DEF RuleSpec

-----------------------------------------------------------------------------
(* Commitments                                                             *)

Early == {"new", "embed", "insert"}       \* no prompt is inserted yet
Steps == {"new", "embed", "insert", "send", "expire", "create", "done"}
PromptStates == {"none", "open", "old", "resolved"}

\* Only an answer that mutes or always tracks gets to the sender's rules.
LabelInv ==
    \A r \in Replies : reply[r].pc \in {"unrule", "rule"} => reply[r].label \in {"mute", "always"}

\* What ReplyTracksOnce rests on.  An answer is about one prompt that was
\* inserted; the one that claimed a prompt is the only one about to create its
\* event, and has not yet done so; what is tracked was claimed.
TrackInv ==
    /\ \A c \in Found : detection[c] \in Early => prompt[c] = "none"
    /\ \A c \in Found : prompt[c] # "resolved" => tracked[c] = 0
    /\ \A r \in Replies : \A c, d \in reply[r].about : c = d
    /\ \A r \in Replies : \A c \in reply[r].about :
          /\ prompt[c] # "none"
          /\ reply[r].pc = "event" => prompt[c] = "resolved" /\ tracked[c] = 0
    /\ \A r, s \in Replies : \A c \in Found :
          /\ c \in reply[r].about /\ reply[r].pc = "event"
          /\ c \in reply[s].about /\ reply[s].pc = "event"
          => r = s
    /\ \A c \in Found : tracked[c] <= 1

OneOpen ==
    \A c, d \in Found : from[c] = from[d] /\ Unresolved(c) /\ Unresolved(d) => c = d

CommitmentIInv == CommitmentTypeOK /\ LabelInv /\ TrackInv /\ OneOpen

\* A step of a detection: it moves on, and its prompt is inserted, grows old or
\* is resolved.
DetectionMoves(c, pc, state) ==
    /\ detection' = [detection EXCEPT ![c] = pc] /\ prompt' = [prompt EXCEPT ![c] = state]
    /\ UNCHANGED <<from, reply, tracked>>
    /\ pc \in Early => state = "none"
    /\ state # prompt[c] => state # "none" /\ prompt[c] # "resolved"
    /\ state \in {"open", "old"} /\ ~Unresolved(c) => UnresolvedFor(from[c]) = {}

\* A detection prompts a sender who has no open prompt, and tracks nothing.
LEMMA DetectionKeeps ==
    ASSUME CommitmentIInv, CommitmentTypeOK', NEW c \in Found, NEW pc \in Steps,
           NEW state \in PromptStates, DetectionMoves(c, pc, state)
    PROVE  CommitmentIInv'
  <1>1. /\ \A d \in Found : detection'[d] = IF d = c THEN pc ELSE detection[d]
        /\ \A d \in Found : prompt'[d] = IF d = c THEN state ELSE prompt[d]
        /\ reply' = reply /\ tracked' = tracked /\ from' = from
    BY DEF DetectionMoves, CommitmentIInv, CommitmentTypeOK
  <1>2. LabelInv'
    BY <1>1 DEF CommitmentIInv, LabelInv
  <1>3. /\ \A d \in Found : detection'[d] \in Early => prompt'[d] = "none"
        /\ \A d \in Found : prompt'[d] # "resolved" => tracked'[d] = 0
        /\ \A d \in Found : tracked'[d] <= 1
    BY <1>1 DEF DetectionMoves, CommitmentIInv, TrackInv
  <1>4. \A d \in Found : prompt[d] # "none" => prompt'[d] # "none"
    BY <1>1 DEF DetectionMoves
  <1>5. \A d \in Found : prompt[d] = "resolved" => prompt'[d] = "resolved"
    BY <1>1 DEF DetectionMoves
  <1>6. \A r \in Replies : reply[r].about \subseteq Found
    BY DEF CommitmentIInv, CommitmentTypeOK, Reply
  <1>7. \A r \in Replies : \A d \in reply'[r].about :
           /\ prompt'[d] # "none"
           /\ reply'[r].pc = "event" => prompt'[d] = "resolved" /\ tracked'[d] = 0
    BY <1>1, <1>4, <1>5, <1>6 DEF CommitmentIInv, TrackInv
  <1>8. TrackInv'
    BY <1>1, <1>3, <1>7 DEF CommitmentIInv, TrackInv
  <1>9. OneOpen'
    <2>1. \A d \in Found : Unresolved(d)' <=> IF d = c THEN state \in {"open", "old"}
                                              ELSE Unresolved(d)
      BY <1>1 DEF Unresolved
    <2>2. state \in {"open", "old"} =>
             \A d \in Found : from[d] = from[c] /\ Unresolved(d) => d = c
      BY DEF DetectionMoves, UnresolvedFor, CommitmentIInv, OneOpen
    <2> QED  BY <1>1, <2>1, <2>2 DEF CommitmentIInv, OneOpen
  <1> QED  BY <1>2, <1>8, <1>9 DEF CommitmentIInv

DetectionStep(c) ==
    \/ \E keyed \in BOOLEAN : HandleNewCommitment(c, keyed)
    \/ \E pc \in {"insert", "create", "done"} : CompareWithAnswers(c, pc)
    \/ CreatePrompt(c) \/ CreatePromptFails(c)
    \/ \E o \in {"sent", "unsent", "nobody"} : SendPrompt(c, o)
    \/ \E w \in BOOLEAN : ExpirePrompt(c, w) \/ AutoCreateEvent(c, w)
    \/ PromptGrowsOld(c)

\* What each of its steps does to detection and prompt.
LEMMA DetectionStepMoves ==
    ASSUME CommitmentIInv, NEW c \in Found, DetectionStep(c)
    PROVE  \E pc \in Steps, state \in PromptStates : DetectionMoves(c, pc, state)
  <1>1. /\ detection[c] \in Steps /\ prompt[c] \in PromptStates
        /\ detection = [detection EXCEPT ![c] = detection[c]]
        /\ prompt = [prompt EXCEPT ![c] = prompt[c]]
        /\ detection[c] \in Early => prompt[c] = "none"
    BY DEF CommitmentIInv, CommitmentTypeOK, Steps, PromptStates, TrackInv
  <1>2. prompt[c] \in {"open", "old"} <=> Unresolved(c)
    BY DEF Unresolved
  <1>3. ASSUME NEW keyed \in BOOLEAN, HandleNewCommitment(c, keyed)
        PROVE  \E pc \in Steps : DetectionMoves(c, pc, "none")
    <2>1. PICK pc \in {"create", "done", "embed"} : detection' = [detection EXCEPT ![c] = pc]
      BY <1>3 DEF HandleNewCommitment, Detected
    <2>2. prompt[c] = "none" /\ prompt' = prompt /\ UNCHANGED <<from, reply, tracked>>
      BY <1>1, <1>3 DEF HandleNewCommitment, DetectOnly, Early
    <2>3. DetectionMoves(c, pc, "none")
      BY <1>1, <2>1, <2>2 DEF DetectionMoves
    <2> QED  BY <2>3 DEF Steps
  <1>4. ASSUME NEW pc \in {"insert", "create", "done"}, CompareWithAnswers(c, pc)
        PROVE  DetectionMoves(c, pc, "none")
    <2>1. prompt[c] = "none" /\ prompt' = prompt /\ UNCHANGED <<from, reply, tracked>>
      BY <1>1, <1>4 DEF CompareWithAnswers, DetectOnly, Early
    <2> QED  BY <1>1, <1>4, <2>1 DEF CompareWithAnswers, Detected, DetectionMoves
  <1>5. CASE CreatePrompt(c)
    <2>1. prompt[c] = "none" /\ UNCHANGED <<from, reply, tracked>>
      BY <1>1, <1>5 DEF CreatePrompt, DetectOnly, Early
    <2>2. CASE UnresolvedFor(from[c]) = {}
      <3>1. DetectionMoves(c, "send", "open")
        BY <1>5, <2>1, <2>2 DEF CreatePrompt, Inserted, Detected, DetectionMoves, Early
      <3> QED  BY <3>1 DEF Steps, PromptStates
    <2>3. CASE UnresolvedFor(from[c]) # {}
      <3>1. DetectionMoves(c, "done", "none")
        BY <1>1, <1>5, <2>1, <2>3 DEF CreatePrompt, Detected, DetectionMoves, Early
      <3> QED  BY <3>1 DEF Steps, PromptStates
    <2> QED  BY <2>2, <2>3
  <1>6. ASSUME NEW pc \in {"create", "expire", "done"},
               detection' = [detection EXCEPT ![c] = pc], prompt' = prompt, DetectOnly
        PROVE  DetectionMoves(c, pc, prompt[c])
    BY <1>1, <1>2, <1>6 DEF DetectOnly, DetectionMoves, Early
  <1>7. ASSUME \/ CreatePromptFails(c)
               \/ \E o \in {"sent", "unsent", "nobody"} : SendPrompt(c, o)
               \/ \E w \in BOOLEAN : AutoCreateEvent(c, w)
               \/ ExpirePrompt(c, FALSE)
        PROVE  \E pc \in Steps : DetectionMoves(c, pc, prompt[c])
    <2>1. /\ \E pc \in {"create", "expire", "done"} : detection' = [detection EXCEPT ![c] = pc]
          /\ prompt' = prompt /\ DetectOnly
      BY <1>7 DEF CreatePromptFails, SendPrompt, AutoCreateEvent, ExpirePrompt, Detected
    <2> QED  BY <1>6, <2>1 DEF Steps
  <1>8. CASE ExpirePrompt(c, TRUE)
    <2>1. DetectionMoves(c, "create", "resolved")
      BY <1>8 DEF ExpirePrompt, PromptBecomes, Detected, DetectOnly, DetectionMoves, Early
    <2> QED  BY <2>1 DEF Steps, PromptStates
  <1>9. CASE PromptGrowsOld(c)
    <2>1. DetectionMoves(c, detection[c], "old")
      BY <1>1, <1>2, <1>9 DEF PromptGrowsOld, PromptBecomes, DetectOnly, DetectionMoves
    <2> QED  BY <1>1, <2>1 DEF PromptStates
  <1> QED
    BY <1>1, <1>3, <1>4, <1>5, <1>7, <1>8, <1>9 DEF DetectionStep, Steps, PromptStates

\* A detection keeps the types.
LEMMA DetectionTyped ==
    ASSUME CommitmentIInv, NEW c \in Found, DetectionStep(c)
    PROVE  CommitmentTypeOK'
  <1>1. PICK pc \in Steps, state \in PromptStates : DetectionMoves(c, pc, state)
    BY DetectionStepMoves
  <1>2. /\ detection' \in [Found -> Steps] /\ prompt' \in [Found -> PromptStates]
        /\ UNCHANGED <<from, reply, tracked>>
    BY <1>1 DEF DetectionMoves, CommitmentIInv, CommitmentTypeOK, Steps, PromptStates
  <1>3. asking' = asking \/ asking' = Append(asking, c)
    <2>1. CASE CreatePrompt(c)
      BY <2>1 DEF CreatePrompt, Inserted
    <2>2. ASSUME NEW w \in BOOLEAN, ExpirePrompt(c, w) PROVE asking' = asking
      BY <2>2 DEF ExpirePrompt, PromptBecomes
    <2> QED
      BY <2>1, <2>2 DEF DetectionStep, HandleNewCommitment, CompareWithAnswers,
         CreatePromptFails, SendPrompt, AutoCreateEvent, PromptGrowsOld, PromptBecomes
  <1>4. asking' \in Seq(Found)
    <2>1. Append(asking, c) \in Seq(Found) /\ asking \in Seq(Found)
      BY DEF CommitmentIInv, CommitmentTypeOK
    <2> QED  BY <1>3, <2>1
  <1>5. senderRules' = senderRules
    BY DEF DetectionStep, HandleNewCommitment, CompareWithAnswers, CreatePrompt,
           CreatePromptFails, SendPrompt, ExpirePrompt, AutoCreateEvent, PromptGrowsOld, DetectOnly
  <1>6. created' = created \/ created' = created \cup {c}
    BY DEF DetectionStep, HandleNewCommitment, CompareWithAnswers, CreatePrompt,
           CreatePromptFails, SendPrompt, ExpirePrompt, AutoCreateEvent, PromptGrowsOld
  <1>7. \/ commitmentFaults' = commitmentFaults
        \/ commitmentFaults < MaxCommitmentFaults /\ commitmentFaults' = commitmentFaults + 1
    BY DEF DetectionStep, HandleNewCommitment, CompareWithAnswers, CreatePrompt,
           CreatePromptFails, SendPrompt, ExpirePrompt, AutoCreateEvent, PromptGrowsOld, Writes
  <1>8. commitmentFaults' \in 0..MaxCommitmentFaults
    BY <1>7, CommitmentBoundsAssumption DEF CommitmentIInv, CommitmentTypeOK
  <1> QED
    BY <1>2, <1>4, <1>5, <1>6, <1>8 DEF CommitmentIInv, CommitmentTypeOK, Steps, PromptStates

\* A step of an answer's handler: it goes on with v, and may resolve the prompt
\* or create the event it is about.
ReplyMoves(r, v) ==
    /\ reply' = [reply EXCEPT ![r] = v] /\ UNCHANGED <<from, detection>>
    /\ \A c, d \in v.about : c = d
    /\ \A c \in v.about : prompt'[c] # "none"
    /\ v.pc \in {"unrule", "rule"} => v.label \in {"mute", "always"}
    /\ v.pc = "event" => \A c \in v.about : prompt[c] # "resolved" /\ prompt'[c] = "resolved"
    /\ \A c \in Found : \/ prompt'[c] = prompt[c]
                        \/ prompt[c] # "none" /\ prompt'[c] = "resolved"
    /\ \A c \in Found : \/ tracked'[c] = tracked[c]
                        \/ /\ tracked'[c] = tracked[c] + 1
                           /\ c \in reply[r].about /\ reply[r].pc = "event" /\ v.pc # "event"

\* A reply tracks only the prompt it has resolved itself.
LEMMA ReplyKeeps ==
    ASSUME CommitmentIInv, CommitmentTypeOK', NEW r \in Replies, NEW v \in Reply, ReplyMoves(r, v)
    PROVE  CommitmentIInv'
  <1>1. /\ \A s \in Replies : reply'[s] = IF s = r THEN v ELSE reply[s]
        /\ from' = from /\ detection' = detection
        /\ \A s \in Replies : reply[s].about \subseteq Found
        /\ v.about \subseteq Found
    BY DEF ReplyMoves, CommitmentIInv, CommitmentTypeOK, Reply
  <1>2. \A c \in Found : tracked[c] \in Nat /\ (prompt[c] # "resolved" => tracked[c] = 0)
    BY DEF CommitmentIInv, CommitmentTypeOK, TrackInv
  <1>3. LabelInv'
    BY <1>1 DEF ReplyMoves, CommitmentIInv, LabelInv
  <1>4. OneOpen'
    <2>1. \A c \in Found : Unresolved(c)' => Unresolved(c)
      BY DEF ReplyMoves, Unresolved
    <2> QED  BY <1>1, <2>1 DEF CommitmentIInv, OneOpen
  <1>5. \A c \in Found : prompt[c] # "none" => prompt'[c] # "none"
    BY DEF ReplyMoves
  <1>6. \A c \in Found : prompt[c] = "resolved" => prompt'[c] = "resolved"
    BY DEF ReplyMoves
  <1>7. \A c \in Found : detection'[c] \in Early => prompt'[c] = "none"
    BY <1>1 DEF ReplyMoves, CommitmentIInv, TrackInv
  <1>8. ASSUME NEW c \in Found, tracked'[c] # tracked[c]
        PROVE  /\ c \in reply[r].about /\ reply[r].pc = "event" /\ v.pc # "event"
               /\ prompt[c] = "resolved" /\ tracked[c] = 0 /\ tracked'[c] = 1
    BY <1>2, <1>8 DEF ReplyMoves, CommitmentIInv, TrackInv
  <1>9. /\ \A c \in Found : prompt'[c] # "resolved" => tracked'[c] = 0
        /\ \A c \in Found : tracked'[c] <= 1
    BY <1>2, <1>6, <1>8 DEF CommitmentIInv, TrackInv
  <1>10. \A s \in Replies : \A c, d \in reply'[s].about : c = d
    BY <1>1 DEF ReplyMoves, CommitmentIInv, TrackInv
  <1>11. \A s \in Replies : \A c \in reply'[s].about :
            /\ prompt'[c] # "none"
            /\ reply'[s].pc = "event" => prompt'[c] = "resolved" /\ tracked'[c] = 0
    <2> SUFFICES ASSUME NEW s \in Replies, NEW c \in reply'[s].about
                 PROVE  /\ prompt'[c] # "none"
                        /\ reply'[s].pc = "event" => prompt'[c] = "resolved" /\ tracked'[c] = 0
      OBVIOUS
    <2>1. CASE s = r
      <3>1. c \in v.about /\ c \in Found /\ reply'[s] = v
        BY <1>1, <2>1
      <3>2. prompt'[c] # "none"
        BY <3>1 DEF ReplyMoves
      <3>3. v.pc = "event" => prompt[c] # "resolved" /\ prompt'[c] = "resolved"
        BY <3>1 DEF ReplyMoves
      <3>4. v.pc = "event" => tracked'[c] = 0
        BY <1>2, <1>8, <3>1, <3>3
      <3> QED  BY <3>1, <3>2, <3>3, <3>4
    <2>2. CASE s # r
      <3>1. c \in reply[s].about /\ c \in Found /\ reply'[s] = reply[s]
        BY <1>1, <2>2
      <3>2. prompt'[c] # "none"
        BY <1>5, <3>1 DEF CommitmentIInv, TrackInv
      <3>3. reply[s].pc = "event" => prompt[c] = "resolved" /\ tracked[c] = 0
        BY <3>1 DEF CommitmentIInv, TrackInv
      <3>4. reply[s].pc = "event" => tracked'[c] = tracked[c]
        BY <1>8, <2>2, <3>1 DEF CommitmentIInv, TrackInv
      <3> QED  BY <1>6, <3>1, <3>2, <3>3, <3>4
    <2> QED  BY <2>1, <2>2
  <1>12. \A s, u \in Replies : \A c \in Found :
            /\ c \in reply'[s].about /\ reply'[s].pc = "event"
            /\ c \in reply'[u].about /\ reply'[u].pc = "event"
            => s = u
    <2>1. ASSUME NEW s \in Replies, NEW c \in Found, s # r, c \in reply[s].about,
                 reply[s].pc = "event", c \in v.about, v.pc = "event"
          PROVE  FALSE
      <3>1. prompt[c] = "resolved"
        BY <2>1 DEF CommitmentIInv, TrackInv
      <3>2. prompt[c] # "resolved"
        BY <2>1 DEF ReplyMoves
      <3> QED  BY <3>1, <3>2
    <2> QED  BY <1>1, <2>1 DEF CommitmentIInv, TrackInv
  <1>13. TrackInv'
    BY <1>7, <1>9, <1>10, <1>11, <1>12 DEF TrackInv
  <1> QED  BY <1>3, <1>4, <1>13 DEF CommitmentIInv

\* What Replied makes of an answer.
RepliedAs(r, pc, v) ==
    /\ reply' = [reply EXCEPT ![r] = v] /\ v.pc = pc
    /\ v.about = IF pc = "done" THEN {} ELSE reply[r].about
    /\ pc # "done" => v.label = reply[r].label

\* Replied leaves a typed reply that is about what it was about.
LEMMA RepliedFacts ==
    ASSUME CommitmentTypeOK, NEW r \in Replies,
           NEW pc \in {"idle", "claim", "event", "unrule", "rule", "done"}, Replied(r, pc)
    PROVE  \E v \in Reply : RepliedAs(r, pc, v)
  <1> DEFINE v == IF pc = "done" THEN NoReply("done") ELSE [reply[r] EXCEPT !.pc = pc]
  <1>1. reply[r] \in Reply
    BY DEF CommitmentTypeOK
  <1>2. /\ v \in Reply /\ v.pc = pc /\ v.about = (IF pc = "done" THEN {} ELSE reply[r].about)
        /\ pc # "done" => v.label = reply[r].label
    BY <1>1 DEF Reply, NoReply, Labels
  <1>3. reply' = [reply EXCEPT ![r] = v]
    BY DEF Replied
  <1> QED  BY <1>2, <1>3 DEF RepliedAs

ReplyStep(r) ==
    \/ \E l \in Labels : FindLatestUnresolved(r, l)
    \/ \E c \in Found :
          \/ ClaimPrompt(r, c)
          \/ \E w \in BOOLEAN : \/ TrackEvent(r, c, w) \/ DeactivateRules(r, c, w)
                                \/ CreateSenderRule(r, c, w)

\* What each of its steps does to the answer, the prompts and the events.
LEMMA ReplyStepMoves ==
    ASSUME CommitmentIInv, NEW r \in Replies, ReplyStep(r)
    PROVE  \E v \in Reply : ReplyMoves(r, v)
  <1>1. /\ CommitmentTypeOK /\ reply[r] \in Reply /\ reply[r].about \subseteq Found
        /\ reply[r].label \in Labels
    BY DEF CommitmentIInv, CommitmentTypeOK, Reply
  <1>2. /\ \A c, d \in reply[r].about : c = d
        /\ \A c \in reply[r].about : prompt[c] # "none"
        /\ reply[r].pc \in {"unrule", "rule"} => reply[r].label \in {"mute", "always"}
    BY DEF CommitmentIInv, TrackInv, LabelInv
  <1>3. ASSUME NEW l \in Labels, FindLatestUnresolved(r, l)
        PROVE  \E v \in Reply : ReplyMoves(r, v)
    <2>1. PICK i \in DOMAIN asking :
             /\ prompt[asking[i]] = "open"
             /\ reply' = [reply EXCEPT ![r] = [pc |-> "claim", label |-> l, about |-> {asking[i]}]]
      BY <1>3 DEF FindLatestUnresolved
    <2>2. asking[i] \in Found
      BY <1>1 DEF CommitmentTypeOK
    <2> DEFINE v == [pc |-> "claim", label |-> l, about |-> {asking[i]}]
    <2>3. v \in Reply
      BY <2>2 DEF Reply
    <2>4. UNCHANGED <<from, detection, prompt, tracked>>
      BY <1>3 DEF FindLatestUnresolved, ReplyOnly
    <2>5. ReplyMoves(r, v)
      BY <2>1, <2>2, <2>4 DEF ReplyMoves
    <2> QED  BY <2>3, <2>5
  <1>4. ASSUME NEW c \in Found, ClaimPrompt(r, c)
        PROVE  \E v \in Reply : ReplyMoves(r, v)
    <2>1. c \in reply[r].about /\ \A d \in reply[r].about : d = c
      BY <1>2, <1>4 DEF ClaimPrompt, Answers
    <2>2. /\ prompt' = [prompt EXCEPT ![c] = "resolved"]
          /\ UNCHANGED <<from, detection, tracked>>
      BY <1>4 DEF ClaimPrompt, PromptBecomes, ReplyOnly
    <2>3. \A d \in Found : prompt'[d] = IF d = c THEN "resolved" ELSE prompt[d]
      BY <1>1, <2>2 DEF CommitmentTypeOK
    <2>4. PICK pc \in {"event", "unrule", "done"} :
             /\ Replied(r, pc)
             /\ pc = "event" => Unresolved(c)
             /\ pc = "unrule" => reply[r].label = "mute"
      BY <1>1, <1>4 DEF ClaimPrompt, AfterClaim, Labels
    <2>5. PICK v \in Reply : RepliedAs(r, pc, v)
      BY <1>1, <2>4, RepliedFacts
    <2>6. \A d \in v.about : d = c
      BY <2>1, <2>5 DEF RepliedAs
    <2>7. v.pc = "event" => prompt[c] # "resolved" /\ prompt'[c] = "resolved"
      BY <2>3, <2>4, <2>5 DEF Unresolved, RepliedAs
    <2>8. prompt[c] # "none"
      BY <1>2, <2>1
    <2>9. ReplyMoves(r, v)
      BY <2>2, <2>3, <2>4, <2>5, <2>6, <2>7, <2>8 DEF ReplyMoves, RepliedAs
    <2> QED  BY <2>9
  <1>5. ASSUME NEW c \in Found, NEW w \in BOOLEAN, TrackEvent(r, c, w)
        PROVE  \E v \in Reply : ReplyMoves(r, v)
    <2>1. /\ c \in reply[r].about /\ reply[r].pc = "event"
          /\ UNCHANGED <<from, detection, prompt>>
      BY <1>5 DEF TrackEvent, Answers, ReplyOnly
    <2>2. PICK pc \in {"unrule", "done"} :
             Replied(r, pc) /\ (pc = "unrule" => reply[r].label = "always")
      BY <1>5 DEF TrackEvent
    <2>3. PICK v \in Reply : RepliedAs(r, pc, v)
      BY <1>1, <2>2, RepliedFacts
    <2>4. \A d \in Found : tracked'[d] = tracked[d] \/ (d = c /\ tracked'[d] = tracked[d] + 1)
      BY <1>1, <1>5 DEF TrackEvent, CommitmentTypeOK
    <2>5. v.about \subseteq reply[r].about /\ (v.pc = "unrule" => v.label = "always") /\ v.pc # "event"
          /\ v.pc # "rule"
      BY <2>2, <2>3 DEF RepliedAs
    <2>6. ReplyMoves(r, v)
      BY <1>2, <2>1, <2>3, <2>4, <2>5 DEF ReplyMoves, RepliedAs
    <2> QED  BY <2>6
  <1>6. ASSUME NEW c \in Found, NEW w \in BOOLEAN,
               DeactivateRules(r, c, w) \/ CreateSenderRule(r, c, w)
        PROVE  \E v \in Reply : ReplyMoves(r, v)
    <2>1. UNCHANGED <<from, detection, prompt, tracked>> /\ reply[r].pc \in {"unrule", "rule"}
      BY <1>6 DEF DeactivateRules, CreateSenderRule, ReplyOnly
    <2>2. PICK pc \in {"rule", "done"} : Replied(r, pc)
      BY <1>6 DEF DeactivateRules, CreateSenderRule
    <2>3. PICK v \in Reply : RepliedAs(r, pc, v)
      BY <1>1, <2>2, RepliedFacts
    <2>4. /\ v.about \subseteq reply[r].about /\ v.pc \in {"rule", "done"}
          /\ v.pc = "rule" => v.label \in {"mute", "always"}
      BY <1>2, <2>1, <2>2, <2>3 DEF RepliedAs
    <2>5. ReplyMoves(r, v)
      BY <1>2, <2>1, <2>3, <2>4 DEF ReplyMoves, RepliedAs
    <2> QED  BY <2>5
  <1> QED  BY <1>3, <1>4, <1>5, <1>6 DEF ReplyStep

\* A reply keeps the types.
LEMMA ReplyTyped ==
    ASSUME CommitmentIInv, NEW r \in Replies, ReplyStep(r)
    PROVE  CommitmentTypeOK'
  <1>1. PICK v \in Reply : ReplyMoves(r, v)
    BY ReplyStepMoves
  <1>2. reply' \in [Replies -> Reply] /\ UNCHANGED <<from, detection>>
    BY <1>1 DEF ReplyMoves, CommitmentIInv, CommitmentTypeOK
  <1>3. prompt' = prompt \/ \E c \in Found : prompt' = [prompt EXCEPT ![c] = "resolved"]
    BY DEF ReplyStep, FindLatestUnresolved, ClaimPrompt, PromptBecomes, TrackEvent,
           DeactivateRules, CreateSenderRule
  <1>4. prompt' \in [Found -> {"none", "open", "old", "resolved"}]
    BY <1>3 DEF CommitmentIInv, CommitmentTypeOK
  <1>5. asking' = asking /\ created' = created
    BY DEF ReplyStep, FindLatestUnresolved, ClaimPrompt, PromptBecomes, TrackEvent,
           DeactivateRules, CreateSenderRule, ReplyOnly
  <1>6. tracked' = tracked \/ \E c \in Found, n \in Nat : tracked' = [tracked EXCEPT ![c] = n]
    <2>1. ASSUME NEW c \in Found, NEW w \in BOOLEAN, TrackEvent(r, c, w)
          PROVE  \E n \in Nat : tracked' = [tracked EXCEPT ![c] = n]
      <3>1. tracked[c] \in Nat /\ tracked[c] + 1 \in Nat
        BY DEF CommitmentIInv, CommitmentTypeOK
      <3> QED  BY <2>1, <3>1 DEF TrackEvent
    <2> QED  BY <2>1 DEF ReplyStep, FindLatestUnresolved, ClaimPrompt, DeactivateRules,
             CreateSenderRule
  <1>7. tracked' \in [Found -> Nat]
    BY <1>6 DEF CommitmentIInv, CommitmentTypeOK
  <1>8. senderRules' \in [Senders -> Seq({"mute", "always"})]
    <2>1. ASSUME NEW c \in Found, NEW w \in BOOLEAN, CreateSenderRule(r, c, w)
          PROVE  senderRules' \in [Senders -> Seq({"mute", "always"})]
      <3>1. reply[r].label \in {"mute", "always"} /\ from[c] \in Senders
        BY <2>1 DEF CreateSenderRule, CommitmentIInv, LabelInv, CommitmentTypeOK
      <3>2. Append(senderRules[from[c]], reply[r].label) \in Seq({"mute", "always"})
        BY <3>1 DEF CommitmentIInv, CommitmentTypeOK
      <3> QED  BY <2>1, <3>1, <3>2 DEF CreateSenderRule, CommitmentIInv, CommitmentTypeOK
    <2>2. ASSUME NEW c \in Found, NEW w \in BOOLEAN, DeactivateRules(r, c, w)
          PROVE  senderRules' \in [Senders -> Seq({"mute", "always"})]
      <3>1. << >> \in Seq({"mute", "always"})
        OBVIOUS
      <3> QED  BY <2>2, <3>1 DEF DeactivateRules, CommitmentIInv, CommitmentTypeOK
    <2>3. senderRules \in [Senders -> Seq({"mute", "always"})]
      BY DEF CommitmentIInv, CommitmentTypeOK
    <2> QED
      BY <2>1, <2>2, <2>3 DEF ReplyStep, FindLatestUnresolved, ClaimPrompt, TrackEvent
  <1>9. \/ commitmentFaults' = commitmentFaults
        \/ commitmentFaults < MaxCommitmentFaults /\ commitmentFaults' = commitmentFaults + 1
    BY DEF ReplyStep, FindLatestUnresolved, ClaimPrompt, TrackEvent, DeactivateRules,
           CreateSenderRule, Writes
  <1>10. commitmentFaults' \in 0..MaxCommitmentFaults
    BY <1>9, CommitmentBoundsAssumption DEF CommitmentIInv, CommitmentTypeOK
  <1> QED
    BY <1>2, <1>4, <1>5, <1>7, <1>8, <1>10 DEF CommitmentIInv, CommitmentTypeOK

\* A restart ends detections and replies, and claims nothing.
LEMMA RestartCommitmentsSafe ==
    ASSUME CommitmentIInv, RestartCommitments
    PROVE  CommitmentIInv'
  <1>1. NoReply("done") \in Reply /\ NoReply("done").about = {} /\ NoReply("done").pc = "done"
    BY DEF NoReply, Reply, Labels
  <1>2. /\ \A r \in Replies : reply'[r] = reply[r] \/ reply'[r] = NoReply("done")
        /\ \A c \in Found : detection'[c] = detection[c] \/ detection'[c] = "done"
        /\ UNCHANGED <<from, prompt, asking, senderRules, tracked, created>>
    BY DEF RestartCommitments
  <1>3. CommitmentTypeOK'
    <2>1. reply' \in [Replies -> Reply]
      BY <1>1 DEF RestartCommitments, CommitmentIInv, CommitmentTypeOK
    <2>2. detection' \in [Found -> Steps]
      BY DEF RestartCommitments, Steps
    <2>3. commitmentFaults' \in 0..MaxCommitmentFaults
      BY CommitmentBoundsAssumption DEF RestartCommitments, CommitmentIInv, CommitmentTypeOK
    <2> QED  BY <1>2, <2>1, <2>2, <2>3 DEF CommitmentIInv, CommitmentTypeOK, Steps
  <1>4. LabelInv'
    BY <1>1, <1>2 DEF CommitmentIInv, LabelInv
  <1>5. OneOpen'
    BY <1>2 DEF CommitmentIInv, OneOpen, Unresolved
  <1>6. \A c \in Found : detection'[c] \in Early => prompt'[c] = "none"
    BY <1>2 DEF CommitmentIInv, TrackInv, Early
  <1>7. TrackInv'
    BY <1>1, <1>2, <1>6 DEF CommitmentIInv, TrackInv
  <1> QED  BY <1>3, <1>4, <1>5, <1>7 DEF CommitmentIInv

\* The invariant of the commitments holds throughout.
LEMMA CommitmentIInvHolds == CommitmentSpec => []CommitmentIInv
  <1>1. CommitmentInit => CommitmentIInv
    <2> SUFFICES ASSUME CommitmentInit PROVE CommitmentIInv
      OBVIOUS
    <2>1. NoReply("idle") \in Reply /\ NoReply("idle").about = {} /\ NoReply("idle").pc = "idle"
      BY DEF NoReply, Reply, Labels
    <2>2. CommitmentTypeOK
      BY <2>1, CommitmentBoundsAssumption DEF CommitmentInit, CommitmentTypeOK
    <2>3. LabelInv /\ OneOpen
      BY <2>1 DEF CommitmentInit, LabelInv, OneOpen, Unresolved
    <2>4. TrackInv
      BY <2>1 DEF CommitmentInit, TrackInv
    <2> QED  BY <2>2, <2>3, <2>4 DEF CommitmentIInv
  <1>2. CommitmentIInv /\ [CommitmentNext]_commitmentVars => CommitmentIInv'
    <2> SUFFICES ASSUME CommitmentIInv, [CommitmentNext]_commitmentVars PROVE CommitmentIInv'
      OBVIOUS
    <2>1. ASSUME NEW c \in Found, DetectionStep(c) PROVE CommitmentIInv'
      BY <2>1, DetectionStepMoves, DetectionTyped, DetectionKeeps
    <2>2. ASSUME NEW r \in Replies, ReplyStep(r) PROVE CommitmentIInv'
      BY <2>2, ReplyStepMoves, ReplyTyped, ReplyKeeps
    <2>3. CASE UNCHANGED commitmentVars
      BY <2>3 DEF commitmentVars, CommitmentIInv, CommitmentTypeOK, LabelInv, TrackInv, OneOpen,
                  Unresolved
    <2> QED
      BY <2>1, <2>2, <2>3, RestartCommitmentsSafe DEF CommitmentNext, DetectionStep, ReplyStep
  <1> QED  BY <1>1, <1>2, PTL DEF CommitmentSpec

\* The prompts, the sender rules and the steps of detections and answers keep
\* their types; only mute and always become a sender's rule.
THEOREM CommitmentTypeCorrect == CommitmentSpec => []CommitmentTypeOK
  <1>1. CommitmentIInv => CommitmentTypeOK
    BY DEF CommitmentIInv
  <1> QED  BY <1>1, CommitmentIInvHolds, PTL

\* However often an answer is delivered and whatever handlers are at work at
\* once, answers create one event for a commitment at most (claim_prompt).
THEOREM RepliesTrackOnce == CommitmentSpec => []ReplyTracksOnce
  <1>1. CommitmentIInv => ReplyTracksOnce
    BY DEF CommitmentIInv, TrackInv, ReplyTracksOnce
  <1> QED  BY <1>1, CommitmentIInvHolds, PTL

\* A sender has one unresolved prompt at most, for every number of messages
\* worked on at once (create_prompt and its unique index).
THEOREM SendersArePromptedOnce == CommitmentSpec => []OnePromptPerSender
  <1>1. CommitmentIInv => OnePromptPerSender
    <2> SUFFICES ASSUME CommitmentIInv, NEW s \in Senders
                 PROVE  Cardinality(UnresolvedFor(s)) <= 1
      BY DEF OnePromptPerSender
    <2>1. CASE UnresolvedFor(s) = {}
      BY <2>1, FS_EmptySet
    <2>2. CASE UnresolvedFor(s) # {}
      <3>1. PICK c : c \in UnresolvedFor(s)
        BY <2>2
      <3>2. UnresolvedFor(s) = {c}
        BY <3>1 DEF UnresolvedFor, CommitmentIInv, OneOpen
      <3> QED  BY <3>2, FS_Singleton
    <2> QED  BY <2>1, <2>2
  <1> QED  BY <1>1, CommitmentIInvHolds, PTL

-----------------------------------------------------------------------------
(* Digests: types                                                          *)

\* The lists of the digest hold items.
LEMMA ListsTyped ==
    ASSUME NEW U, NEW n
    PROVE  /\ Pending(U) \subseteq Items
           /\ \A S \in SUBSET Items : Newest(S, n) \subseteq Items /\ NoSpam(S) \subseteq Items
                                      /\ InWindow(S) \subseteq Items
  BY DEF Pending, Newest, NoSpam, InWindow

\* Writing one item keeps the type of the table.
LEMMA ItemWritten ==
    ASSUME item \in [Items -> Item], NEW m \in Items, NEW i \in Item
    PROVE  [item EXCEPT ![m] = i] \in [Items -> Item]
  OBVIOUS

\* A classified item has its type.
LEMMA ClassifiedTyped ==
    ASSUME NEW i \in Item, NEW u \in {"null", "later", "now"}, NEW s \in BOOLEAN
    PROVE  Classified(i, u, s) \in Item
  <1>1. PICK st \in {"none", "pending", "delivered", "seen"} :
           Classified(i, u, s) = [i EXCEPT !.urgency = u, !.spam = s, !.state = st]
    BY DEF Classified, Item
  <1>2. [i EXCEPT !.urgency = u, !.spam = s, !.state = st] \in Item
    BY DEF Item, Urgency
  <1> QED  BY <1>1, <1>2

\* The digest job keeps the types, when its writes fail too.
LEMMA DigestJobTyped ==
    ASSUME DigestTypeOK,
           \/ DigestJob
           \/ SendDigest("unlogged") \/ MarkDelivered(FALSE)
    PROVE  DigestTypeOK'
  <1>1. /\ digest.ids \subseteq Items /\ digest.lazy \subseteq Items
        /\ digest.pc \in {"idle", "classify", "send", "mark"}
        /\ Between \in Digest
    BY DEF DigestTypeOK, Digest, Between
  <1>2. CASE StartRecovery
    <2>1. RecoveryBacklog \subseteq Items
      BY ListsTyped DEF RecoveryBacklog
    <2>2. digest' \in Digest
      BY <1>2, <2>1 DEF StartRecovery, Digest
    <2> QED  BY <1>2, <2>2 DEF StartRecovery, JobOnly, DigestTypeOK
  <1>3. CASE StartDigest
    <2>1. PICK I, L : digest' = [pc |-> "classify", ids |-> NoSpam(I), lazy |-> L]
                      /\ I \subseteq Items /\ L \subseteq Items
      <3>1. /\ Newest(InWindow(Pending({"now"})), Limit) \subseteq Items
            /\ Newest(InWindow(Pending({"later", "legacy"})), Limit) \subseteq Items
            /\ Newest(Pending({"later"}), FallbackLimit) \subseteq Items
            /\ Newest(InWindow(Pending({"null"})), Limit) \subseteq Items
        BY DEF Newest, InWindow, Pending
      <3> QED  BY <1>3, <3>1 DEF StartDigest
    <2>2. NoSpam(I) \subseteq Items
      BY <2>1 DEF NoSpam
    <2>3. digest' \in Digest
      BY <2>1, <2>2 DEF Digest
    <2> QED  BY <1>3, <2>3 DEF StartDigest, JobOnly, DigestTypeOK
  <1>4. ASSUME NEW m \in Items, NEW u \in {"null", "later", "now"}, NEW s \in BOOLEAN,
               ClassifyLazily(m, u, s)
        PROVE  DigestTypeOK'
    <2>1. item[m] \in Item
      BY DEF DigestTypeOK
    <2>2. item' = item \/ item' = [item EXCEPT ![m] = Classified(item[m], u, s)]
      BY <1>4 DEF ClassifyLazily
    <2>3. item' \in [Items -> Item]
      <3>1. Classified(item[m], u, s) \in Item
        BY <2>1, ClassifiedTyped
      <3> QED  BY <2>2, <3>1, ItemWritten DEF DigestTypeOK
    <2>4. PICK I \in {digest.ids, digest.ids \cup {m}} :
             digest' = [digest EXCEPT !.lazy = digest.lazy \ {m}, !.ids = I]
      BY <1>4 DEF ClassifyLazily
    <2>5. digest' \in Digest
      BY <1>1, <2>4 DEF DigestTypeOK, Digest
    <2> QED  BY <1>4, <2>3, <2>5 DEF ClassifyLazily, JobOnly, DigestTypeOK
  <1>5. ASSUME NEW a \in BOOLEAN, FinishDigest(a) PROVE DigestTypeOK'
    <2>1. [digest EXCEPT !.pc = "send"] \in Digest
      BY DEF DigestTypeOK, Digest
    <2>2. digest' \in Digest
      BY <1>1, <1>5, <2>1 DEF FinishDigest
    <2>3. agendas' \in 0..MaxAgendas
      BY <1>5, DigestBoundsAssumption DEF FinishDigest, DigestTypeOK
    <2> QED  BY <1>5, <2>2, <2>3 DEF FinishDigest, JobOnly, DigestTypeOK
  <1>6. ASSUME NEW o \in {"sent", "suppressed", "failed", "unlogged"}, SendDigest(o)
        PROVE  DigestTypeOK'
    <2>1. [digest EXCEPT !.pc = "mark"] \in Digest
      BY DEF DigestTypeOK, Digest
    <2>2. digest' \in Digest
      BY <1>1, <1>6, <2>1 DEF SendDigest
    <2>3. digestFaults' \in 0..MaxDigestFaults
      BY <1>6, DigestBoundsAssumption DEF SendDigest, DigestTypeOK
    <2>4. cooldown' \in BOOLEAN
      BY <1>6, Zenon DEF SendDigest
    <2>5. checkpoint' \in {"fresh", "due", "stale"}
      BY <1>6 DEF SendDigest, DigestTypeOK
    <2> QED  BY <1>6, <2>2, <2>3, <2>4, <2>5 DEF SendDigest, DigestTypeOK
  <1>7. ASSUME NEW w \in BOOLEAN, MarkDelivered(w) PROVE DigestTypeOK'
    <2>1. \A m \in Items : item[m] \in Item /\ [item[m] EXCEPT !.state = "delivered"] \in Item
      BY DEF DigestTypeOK, Item
    <2>2. item' \in [Items -> Item]
      BY <1>7, <2>1 DEF MarkDelivered
    <2>3. digestFaults' \in 0..MaxDigestFaults
      BY <1>7, DigestBoundsAssumption DEF MarkDelivered, DigestTypeOK
    <2> QED  BY <1>1, <1>7, <2>2, <2>3 DEF MarkDelivered, DigestTypeOK
  <1> QED  BY <1>2, <1>3, <1>4, <1>5, <1>6, <1>7 DEF DigestJob

\* The messages, the digest that is being put together and the checkpoint keep
\* their types.
THEOREM DigestTypeCorrect == DigestSpec => []DigestTypeOK
  <1>1. DigestInit => DigestTypeOK
    <2>1. NotYet \in Item /\ Legacy \in Item /\ Between \in Digest
      BY DEF NotYet, Legacy, Item, Urgency, Between, Digest
    <2> SUFFICES ASSUME DigestInit PROVE DigestTypeOK
      OBVIOUS
    <2>2. item \in [Items -> Item]
      BY <2>1 DEF DigestInit
    <2>3. cooldown \in BOOLEAN /\ pushesOff \in BOOLEAN
      BY Zenon DEF DigestInit
    <2>4. agendas \in 0..MaxAgendas /\ digestFaults \in 0..MaxDigestFaults
      BY DigestBoundsAssumption DEF DigestInit
    <2> QED  BY <2>1, <2>2, <2>3, <2>4 DEF DigestInit, DigestTypeOK
  <1>2. DigestTypeOK /\ [DigestNext]_digestVars => DigestTypeOK'
    <2> SUFFICES ASSUME DigestTypeOK, [DigestNext]_digestVars PROVE DigestTypeOK'
      OBVIOUS
    <2>1. ASSUME NEW m \in Items, MessageArrives(m) \/ UserReads(m) \/ MessageAges(m)
          PROVE  DigestTypeOK'
      <3>1. /\ \A s \in {"pending", "seen", "delivered"} : [item[m] EXCEPT !.state = s] \in Item
            /\ [item[m] EXCEPT !.old = TRUE] \in Item
        BY DEF DigestTypeOK, Item
      <3>2. PICK i \in Item : item' = [item EXCEPT ![m] = i]
        <4>1. CASE MessageArrives(m)
          BY <3>1, <4>1 DEF MessageArrives
        <4>2. CASE UserReads(m)
          BY <3>1, <4>2 DEF UserReads
        <4>3. CASE MessageAges(m)
          BY <3>1, <4>3 DEF MessageAges
        <4> QED  BY <2>1, <4>1, <4>2, <4>3
      <3>3. item' \in [Items -> Item]
        BY <3>2, ItemWritten DEF DigestTypeOK
      <3> QED  BY <2>1, <3>3 DEF MessageArrives, UserReads, MessageAges, MessageOnly, DigestTypeOK
    <2>2. ASSUME NEW m \in Items, NEW u \in {"later", "now"}, NEW s \in BOOLEAN,
                 ClassifyMessage(m, u, s)
          PROVE  DigestTypeOK'
      <3>1. Classified(item[m], u, s) \in Item
        BY ClassifiedTyped DEF DigestTypeOK
      <3>2. item' \in [Items -> Item]
        BY <2>2, <3>1, ItemWritten DEF ClassifyMessage, DigestTypeOK
      <3> QED  BY <2>2, <3>2 DEF ClassifyMessage, MessageOnly, DigestTypeOK
    <2>3. CASE DigestClock
      BY <2>3 DEF DigestClock, DigestTypeOK
    <2>4. CASE RestartDigests
      <3>1. Between \in Digest
        BY DEF Between, Digest
      <3>2. digestFaults' \in 0..MaxDigestFaults
        BY <2>4, DigestBoundsAssumption DEF RestartDigests, DigestTypeOK
      <3>3. cooldown' \in BOOLEAN
        BY <2>4, Zenon DEF RestartDigests
      <3> QED  BY <2>4, <3>1, <3>2, <3>3 DEF RestartDigests, DigestTypeOK
    <2>5. CASE UNCHANGED digestVars
      BY <2>5 DEF digestVars, DigestTypeOK
    <2> QED  BY <2>1, <2>2, <2>3, <2>4, <2>5, DigestJobTyped DEF DigestNext
  <1> QED  BY <1>1, <1>2, PTL DEF DigestSpec

=============================================================================
