------------------------------- MODULE MCJobs -------------------------------
(***************************************************************************)
(* The background work of the backend for TLC: jobs of the scheduler and   *)
(* handlers that share tables with them.  The parts share no table, so     *)
(* each is explored with the others at rest; "part", chosen in Init, says  *)
(* which.                                                                  *)
(***************************************************************************)
EXTENDS EventReminders, ReplyWatches, RuleFiring, Commitments, Digests, AgentActions, UsageOutbox,
        SmsDelivery

CONSTANTS Parts
ASSUME PartsAssumption ==
    Parts \subseteq {"reminders", "watches", "rules", "commitments", "digests",
                     "agents", "outbox", "sms"}

VARIABLE part

mcVars == <<reminderVars, watchVars, ruleVars, commitmentVars, digestVars, agentVars, outboxVars,
            smsVars, part>>

JobsTypeOK ==
    /\ ReminderTypeOK /\ WatchTypeOK /\ RuleTypeOK /\ CommitmentTypeOK
    /\ DigestTypeOK /\ AgentTypeOK /\ OutboxTypeOK /\ SmsTypeOK

Init ==
    /\ part \in Parts
    /\ ReminderInit /\ WatchInit /\ RuleInit /\ CommitmentInit /\ DigestInit /\ AgentInit
    /\ OutboxInit /\ SmsInit
    \* What a part at rest was given makes no difference.
    /\ from[CHOOSE c \in Found : TRUE] = CHOOSE s \in Senders : TRUE
    /\ part = "commitments" \/ Cardinality({from[c] : c \in Found}) = 1
    /\ part = "digests" \/ (item = [m \in Items |-> NotYet] /\ ~pushesOff)
    /\ \A r \in Requests : /\ request[r].cred = CHOOSE s \in Sessions : TRUE
                          /\ request[r].key = CHOOSE k \in Keys : TRUE
    /\ LET first == CHOOSE c \in HookCalls : TRUE
       IN  /\ hookCall[first].key # NoKey
           /\ part = "sms" \/ \A c \in HookCalls : hookCall[c] = hookCall[first]

RemindersPart ==
    /\ part = "reminders" /\ ReminderNext
    /\ UNCHANGED <<watchVars, ruleVars, commitmentVars, digestVars, agentVars, outboxVars, smsVars,
                   part>>
WatchesPart ==
    /\ part = "watches" /\ WatchNext
    /\ UNCHANGED <<reminderVars, ruleVars, commitmentVars, digestVars, agentVars, outboxVars,
                   smsVars, part>>
RulesPart ==
    /\ part = "rules" /\ RuleNext
    /\ UNCHANGED <<reminderVars, watchVars, commitmentVars, digestVars, agentVars, outboxVars,
                   smsVars, part>>
CommitmentsPart ==
    /\ part = "commitments" /\ CommitmentNext
    /\ UNCHANGED <<reminderVars, watchVars, ruleVars, digestVars, agentVars, outboxVars,
                   smsVars, part>>
OtherThanDigests ==
    UNCHANGED <<reminderVars, watchVars, ruleVars, commitmentVars, agentVars, outboxVars,
                smsVars, part>>
DigestsPart == part = "digests" /\ DigestNext /\ OtherThanDigests
AgentsPart ==
    /\ part = "agents" /\ AgentNext
    /\ UNCHANGED <<reminderVars, watchVars, ruleVars, commitmentVars, digestVars, outboxVars,
                   smsVars, part>>
OtherThanOutbox ==
    UNCHANGED <<reminderVars, watchVars, ruleVars, commitmentVars, digestVars, agentVars,
                smsVars, part>>
OutboxPart == part = "outbox" /\ OutboxNext /\ OtherThanOutbox
SmsPart ==
    /\ part = "sms" /\ SmsNext
    /\ UNCHANGED <<reminderVars, watchVars, ruleVars, commitmentVars, digestVars, agentVars,
                   outboxVars, part>>

Next ==
    \/ RemindersPart \/ WatchesPart \/ RulesPart \/ CommitmentsPart
    \/ DigestsPart \/ AgentsPart \/ OutboxPart \/ SmsPart
Spec == Init /\ [][Next]_mcVars

-----------------------------------------------------------------------------
(* Fairness                                                                *)

\* The scheduler starts the passes of its jobs, their steps are taken and the
\* clock moves; what a provider is offered for ever it accepts at last.
OnReminders == part = "reminders"

ReminderFairness ==
    /\ \A p \in Passes : WF_reminderVars(OnReminders /\ PassStep(p))
    /\ \A e \in Reminders :
          /\ WF_reminderVars(OnReminders /\ TimePasses(e))
          /\ WF_reminderVars(OnReminders /\ LeaseEnds(e))
          /\ WF_reminderVars(OnReminders /\ ResetReminderDelivery(e))
    /\ SF_reminderVars(OnReminders /\ \E p \in Passes, e \in Reminders : SendReminder(p, e, TRUE))
DigestFairness ==
    /\ WF_digestVars(part = "digests" /\ DigestJob)
    /\ WF_digestVars(part = "digests" /\ DigestClock)
    /\ SF_digestVars(part = "digests" /\ SendDigest("sent"))
OutboxFairness ==
    /\ \A f \in Flushes : WF_outboxVars(part = "outbox" /\ FlushStep(f))
    /\ \A t \in Tx : WF_outboxVars(part = "outbox" /\ BecomesDue(t))
    /\ SF_outboxVars(part = "outbox" /\ \E f \in Flushes : Ingest(f, TRUE, TRUE))

FairSpec == Spec /\ ReminderFairness /\ DigestFairness /\ OutboxFairness

=============================================================================
