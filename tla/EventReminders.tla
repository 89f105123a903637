--------------------------- MODULE EventReminders ---------------------------
(***************************************************************************)
(* Tracked events and their reminders (ont_events): the user's and the     *)
(* agent's operations on them, and the scheduler's pass, which starts every *)
(* minute whether or not the last one has ended.  A pass leases the due    *)
(* reminders for two minutes, sends them one after the other, nudges the   *)
(* accountability friend and expires what is over.  Times are kept only as *)
(* "ahead" or "past"; the clock moves them.                                *)
(***************************************************************************)
EXTENDS Naturals, FiniteSets

CONSTANTS
    Reminders,
    Passes,          \* passes of the event job that may run at once
    MaxEdits,        \* changes by the user or the agent
    MaxMoves,        \* those among them that set a new reminder time
    MaxReminderFaults   \* restarts, failing writes and passes that outlive a lease

ASSUME ReminderBoundsAssumption ==
    MaxEdits \in Nat /\ MaxMoves \in Nat /\ MaxReminderFaults \in Nat

VARIABLES
    rem,        \* [Reminders -> row]
    pass,       \* [Passes -> where the pass is]
    resetting,  \* reminders whose update_event is done and whose reset is not
    told,       \* history: was the user notified since the time was last set
    edits, moves, passFaults

reminderVars == <<rem, pass, resetting, told, edits, moves, passFaults>>

When == {"none", "ahead", "past"}
ReminderRow == [status : {"none", "active", "reminder_sending", "notified", "cancelled",
                  "dismissed", "completed", "expired", "purged"},
        remind : When, deadline : When,
        waits : BOOLEAN,                       \* reminder_next_attempt_at is ahead
        lease : {"none", "held", "over"},
        delivered : BOOLEAN, friend : BOOLEAN]
Pass == [pc : {"idle", "send", "settle", "nudge", "expire"}, todo : SUBSET Reminders,
         cur : SUBSET Reminders, ok : BOOLEAN]

ReminderTypeOK ==
    /\ rem \in [Reminders -> ReminderRow]
    /\ pass \in [Passes -> Pass]
    /\ resetting \subseteq Reminders
    /\ told \in [Reminders -> {"no", "yes", "overtaken"}]
    /\ edits \in 0..MaxEdits /\ moves \in 0..MaxMoves
    /\ passFaults \in 0..MaxReminderFaults

NoEventRow == [status |-> "none", remind |-> "none", deadline |-> "none", waits |-> FALSE,
               lease |-> "none", delivered |-> FALSE, friend |-> FALSE]
AtRest == [pc |-> "idle", todo |-> {}, cur |-> {}, ok |-> FALSE]

ReminderInit ==
    /\ rem = [e \in Reminders |-> NoEventRow]
    /\ pass = [p \in Passes |-> AtRest]
    /\ resetting = {}
    /\ told = [e \in Reminders |-> "no"]
    /\ edits = 0 /\ moves = 0 /\ passFaults = 0

-----------------------------------------------------------------------------
(* The user, the agent and the clock                                       *)

EditOnly == UNCHANGED <<pass, passFaults>>

\* create_reminder: the deadline is the reminder's own time.
CreateReminder(e) ==
    /\ rem[e].status = "none"
    /\ rem' = [rem EXCEPT ![e] = [@ EXCEPT !.status = "active", !.remind = "ahead",
                                           !.deadline = "ahead"]]
    /\ EditOnly
    /\ UNCHANGED <<resetting, told, edits, moves>>

\* create_event for a commitment: either time may be missing.
CreateEvent(e, remind, deadline) ==
    /\ rem[e].status = "none"
    /\ rem' = [rem EXCEPT ![e] = [@ EXCEPT !.status = "active", !.remind = remind,
                                           !.deadline = deadline]]
    /\ EditOnly
    /\ UNCHANGED <<resetting, told, edits, moves>>

Exists(e) == rem[e].status \notin {"none", "purged"}
Edit(e) == Exists(e) /\ edits < MaxEdits /\ edits' = edits + 1

\* cancel_reminder: only one that is still pending.
CancelReminder(e) ==
    /\ Edit(e)
    /\ rem[e].status = "active" /\ rem[e].remind # "none"
    /\ rem' = [rem EXCEPT ![e] = [@ EXCEPT !.status = "cancelled", !.waits = FALSE,
                                           !.lease = "none"]]
    /\ EditOnly
    /\ UNCHANGED <<resetting, told, moves>>

\* update_event_status for confirm_event, dismiss_event and a completed
\* commitment looks at no status.
UpdateEventStatus(e, status) ==
    /\ Edit(e)
    /\ rem' = [rem EXCEPT ![e].status = status]
    /\ EditOnly
    /\ UNCHANGED <<resetting, told, moves>>

\* update_event by the agent's tool, with a new deadline, a new reminder time,
\* or both, makes the event active.  A new reminder time is followed by the
\* reset, a transaction of its own.
UpdateEvent(e, remind, deadline) ==
    /\ Edit(e)
    /\ remind \/ deadline
    /\ moves' = IF remind THEN moves + 1 ELSE moves
    /\ moves' <= MaxMoves
    /\ rem' = [rem EXCEPT ![e] =
          [rem[e] EXCEPT !.status = "active", !.remind = IF remind THEN "ahead" ELSE @,
                         !.deadline = IF deadline THEN "ahead" ELSE @]]
    /\ resetting' = IF remind THEN resetting \cup {e} ELSE resetting
    /\ told' = IF remind THEN [told EXCEPT ![e] = "no"] ELSE told
    /\ EditOnly

\* A message that moves a commitment's deadline: update_event sets both times
\* and nothing is reset.  The reminder, a day before, may be due at once; an
\* attempt that was scheduled for the old time still waits for it.
DeadlineUpdate(e, remind, waits) ==
    /\ Edit(e)
    /\ moves' = moves + 1
    /\ moves' <= MaxMoves
    /\ waits => rem[e].waits \/ rem[e].remind = "ahead"
    /\ rem' = [rem EXCEPT ![e] = [@ EXCEPT !.status = "active", !.remind = remind,
                                           !.deadline = "ahead", !.waits = waits]]
    /\ told' = [told EXCEPT ![e] = "no"]
    /\ EditOnly
    /\ UNCHANGED resetting

\* reset_event_reminder_delivery
ResetReminderDelivery(e) ==
    /\ e \in resetting
    /\ resetting' = resetting \ {e}
    /\ rem' = IF Exists(e)
              THEN [rem EXCEPT ![e] = [@ EXCEPT !.status = "active", !.waits = FALSE,
                                         !.lease = "none", !.delivered = FALSE]]
              ELSE rem
    /\ EditOnly
    /\ UNCHANGED <<told, edits, moves>>

\* purge_old_events
PurgeOldEvent(e) ==
    /\ rem[e].status \in {"completed", "dismissed", "expired", "notified"}
    /\ rem' = [rem EXCEPT ![e].status = "purged"]
    /\ EditOnly
    /\ UNCHANGED <<resetting, told, edits, moves>>

\* One of the row's times is reached ...
TimePasses(e) ==
    /\ rem' \in {[rem EXCEPT ![e].remind = IF @ = "ahead" THEN "past" ELSE @],
                 [rem EXCEPT ![e].deadline = IF @ = "ahead" THEN "past" ELSE @],
                 [rem EXCEPT ![e].waits = FALSE]}
    /\ rem' # rem
    /\ EditOnly
    /\ UNCHANGED <<resetting, told, edits, moves>>

\* ... or the two minutes of its lease are over.  The pass that took it has
\* usually sent the reminder by then.
LeaseEnds(e) ==
    /\ rem[e].lease = "held"
    /\ rem' = [rem EXCEPT ![e].lease = "over"]
    /\ passFaults' = IF \E p \in Passes : e \in pass[p].cur \/ (pass[p].pc = "send" /\ e \in pass[p].todo)
                     THEN passFaults + 1 ELSE passFaults
    /\ passFaults' <= MaxReminderFaults
    /\ UNCHANGED <<pass, resetting, told, edits, moves>>

UserStep(e) ==
    \/ CreateReminder(e)
    \/ \E r, d \in {"none", "ahead"} : CreateEvent(e, r, d)
    \/ CancelReminder(e)
    \/ \E s \in {"active", "dismissed", "completed"} : UpdateEventStatus(e, s)
    \/ \E r, d \in BOOLEAN : UpdateEvent(e, r, d)
    \/ \E r \in {"ahead", "past"}, w \in BOOLEAN : DeadlineUpdate(e, r, w)
    \/ ResetReminderDelivery(e)
    \/ PurgeOldEvent(e)
    \/ TimePasses(e) \/ LeaseEnds(e)

-----------------------------------------------------------------------------
(* The pass of the event job                                               *)

PassOnly == UNCHANGED <<resetting, edits, moves, passFaults>>

\* Mutant: a reminder left in sending is not taken up again.
ClaimableUnleased(e) ==
    rem[e].remind = "past" /\ ~rem[e].waits /\ rem[e].status = "active"

\* claim_due_reminders: active ones, and those whose lease is over.
Claimable(e) ==
    /\ rem[e].remind = "past" /\ ~rem[e].waits
    /\ rem[e].status = "active" \/ (rem[e].status = "reminder_sending" /\ rem[e].lease = "over")

\* The lists of the later phases are read when their phase begins.
ToNudge == {e \in Reminders : rem[e].status \in {"active", "notified"}
                              /\ rem[e].deadline = "ahead" /\ ~rem[e].friend}
Over(e) ==
    /\ rem[e].deadline = "past"
    /\ rem[e].status = "notified"
       \/ (rem[e].status = "active" /\ (rem[e].remind = "none" \/ rem[e].delivered))
Inactive == {e \in Reminders : rem[e].status = "active" /\ rem[e].deadline = "none"}

\* A pass has sent the reminder and not yet written that down.
Unsettled(e) == \E q \in Passes : e \in pass[q].cur /\ pass[q].ok

\* The history notes a reminder that is claimed anew under such a pass.
ClaimDueReminders(p) ==
    /\ pass[p].pc = "idle"
    /\ LET due == {e \in Reminders : Claimable(e)}
       IN  /\ rem' = [e \in Reminders |-> IF e \in due
                        THEN [rem[e] EXCEPT !.status = "reminder_sending", !.lease = "held"]
                        ELSE rem[e]]
           /\ pass' = [pass EXCEPT ![p] = [AtRest EXCEPT !.pc = "send", !.todo = due]]
           /\ told' = [e \in Reminders |-> IF e \in due /\ Unsettled(e) /\ told[e] = "no"
                                           THEN "overtaken" ELSE told[e]]
    /\ PassOnly

\* send_notification: true when the message was accepted or is suppressed.
SendReminder(p, e, ok) ==
    /\ pass[p].pc = "send" /\ e \in pass[p].todo
    /\ pass' = [pass EXCEPT ![p] = [pc |-> "settle", todo |-> @.todo \ {e}, cur |-> {e}, ok |-> ok]]
    /\ told' = [told EXCEPT ![e] = IF ok THEN "yes" ELSE @]
    /\ PassOnly
    /\ UNCHANGED rem

\* Mutant: mark_reminder_delivered looks at no status.
SettledAlways(e, ok) ==
    IF ok THEN [rem[e] EXCEPT !.status = "notified", !.delivered = TRUE, !.lease = "none"]
    ELSE [rem[e] EXCEPT !.status = "active", !.waits = TRUE, !.lease = "none"]

\* mark_reminder_delivered and release_reminder_for_retry, which backs off:
\* both touch a reminder in sending only.
Settled(e, ok) ==
    IF rem[e].status # "reminder_sending" THEN rem[e]
    ELSE IF ok THEN [rem[e] EXCEPT !.status = "notified", !.delivered = TRUE, !.lease = "none"]
    ELSE [rem[e] EXCEPT !.status = "active", !.waits = TRUE, !.lease = "none"]

\* The write may fail; that is only logged.
SettleReminder(p, written) ==
    /\ pass[p].pc = "settle"
    /\ written \/ passFaults < MaxReminderFaults
    /\ passFaults' = IF written THEN passFaults ELSE passFaults + 1
    /\ rem' = [e \in Reminders |-> IF e \in pass[p].cur /\ written
                                   THEN Settled(e, pass[p].ok) ELSE rem[e]]
    /\ pass' = [pass EXCEPT ![p] = [@ EXCEPT !.pc = "send", !.cur = {}, !.ok = FALSE]]
    /\ UNCHANGED <<resetting, told, edits, moves>>

StartNudging(p) ==
    /\ pass[p].pc = "send" /\ pass[p].todo = {}
    /\ pass' = [pass EXCEPT ![p].pc = "nudge", ![p].todo = ToNudge]
    /\ PassOnly
    /\ UNCHANGED <<rem, told>>

NudgeFriend(p, e, ok) ==
    /\ pass[p].pc = "nudge" /\ e \in pass[p].todo
    /\ rem' = [rem EXCEPT ![e].friend = @ \/ (ok /\ Exists(e))]
    /\ pass' = [pass EXCEPT ![p].todo = @ \ {e}]
    /\ PassOnly
    /\ UNCHANGED told

StartExpiring(p) ==
    /\ pass[p].pc = "nudge" /\ pass[p].todo = {}
    /\ \E S \in SUBSET Inactive :
          pass' = [pass EXCEPT ![p].pc = "expire", ![p].todo = {e \in Reminders : Over(e)} \cup S]
    /\ PassOnly
    /\ UNCHANGED <<rem, told>>

\* update_event_status again, on the list as it was read.
ExpireEvent(p, e) ==
    /\ pass[p].pc = "expire" /\ e \in pass[p].todo
    /\ rem' = IF Exists(e) THEN [rem EXCEPT ![e].status = "expired"] ELSE rem
    /\ pass' = [pass EXCEPT ![p].todo = @ \ {e}]
    /\ PassOnly
    /\ UNCHANGED told

EndPass(p) ==
    /\ pass[p].pc = "expire" /\ pass[p].todo = {}
    /\ pass' = [pass EXCEPT ![p] = AtRest]
    /\ PassOnly
    /\ UNCHANGED <<rem, told>>

\* A restart: passes and tool calls are gone, the table stays.
RestartScheduler ==
    /\ passFaults < MaxReminderFaults
    /\ passFaults' = passFaults + 1
    /\ pass' = [p \in Passes |-> AtRest]
    /\ resetting' = {}
    /\ UNCHANGED <<rem, told, edits, moves>>

PassStep(p) ==
    \/ ClaimDueReminders(p) \/ SettleReminder(p, TRUE) \/ StartNudging(p)
    \/ StartExpiring(p) \/ EndPass(p)
    \/ \E e \in Reminders : ExpireEvent(p, e)
    \/ \E e \in Reminders, ok \in BOOLEAN : SendReminder(p, e, ok) \/ NudgeFriend(p, e, ok)

ReminderNext ==
    \/ \E e \in Reminders : UserStep(e)
    \/ \E p \in Passes : PassStep(p) \/ SettleReminder(p, FALSE)
    \/ RestartScheduler

ReminderSpec == ReminderInit /\ [][ReminderNext]_reminderVars

-----------------------------------------------------------------------------
(* Properties                                                              *)

\* A reminder counts as notified only when the user was notified since its
\* time was last set, or a quiet mode suppressed that notification, which the
\* code settles alike: a pass that was sending the old reminder does not settle
\* the new one (mark_reminder_delivered filters on reminder_sending).  The one
\* way around the filter is a second pass that claims the new reminder before
\* the first has settled the old one.
NotifiedWasSent == \A e \in Reminders : rem[e].status = "notified" => told[e] # "no"

\* A due reminder is not left behind: whatever passes crash or overlap and
\* whatever sends fail, it is notified or somebody decides about it
\* (claim_due_reminders recovers expired leases).
RemindersSettle ==
    \A e \in Reminders :
        rem[e].remind = "past" /\ rem[e].status \in {"active", "reminder_sending"}
            ~> rem[e].status \notin {"active", "reminder_sending"}

=============================================================================
