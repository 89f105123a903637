------------------------------ MODULE JobsProofs ------------------------------
(***************************************************************************)
(* The background work together: a step of the whole is a step of one part *)
(* or of none of its variables, so each part keeps its own specification,  *)
(* and what the proofs of the parts show holds of the whole.               *)
(***************************************************************************)
EXTENDS MCJobs, SchedulerProofs, UsageOutboxProofs, IdempotencyProofs

\* The composition starts where each part does.
LEMMA InitProjects ==
    ASSUME Init
    PROVE  /\ ReminderInit /\ WatchInit /\ RuleInit /\ CommitmentInit /\ DigestInit /\ AgentInit
           /\ OutboxInit /\ SmsInit
  BY DEF Init

\* A step of one part leaves the variables of every other part alone.
LEMMA StepProjects ==
    ASSUME [Next]_mcVars
    PROVE  /\ [ReminderNext]_reminderVars /\ [WatchNext]_watchVars /\ [RuleNext]_ruleVars
           /\ [CommitmentNext]_commitmentVars /\ [DigestNext]_digestVars /\ [AgentNext]_agentVars
           /\ [OutboxNext]_outboxVars /\ [SmsNext]_smsVars
  <1>1. CASE RemindersPart
    BY <1>1 DEF RemindersPart
  <1>2. CASE WatchesPart
    BY <1>2 DEF WatchesPart
  <1>3. CASE RulesPart
    BY <1>3 DEF RulesPart
  <1>4. CASE CommitmentsPart
    BY <1>4 DEF CommitmentsPart
  <1>5. CASE DigestsPart
    BY <1>5 DEF DigestsPart, OtherThanDigests
  <1>6. CASE AgentsPart
    BY <1>6 DEF AgentsPart
  <1>7. CASE OutboxPart
    BY <1>7 DEF OutboxPart, OtherThanOutbox
  <1>8. CASE SmsPart
    BY <1>8 DEF SmsPart
  <1>9. CASE UNCHANGED mcVars
    BY <1>9 DEF mcVars
  <1> QED
    BY <1>1, <1>2, <1>3, <1>4, <1>5, <1>6, <1>7, <1>8, <1>9 DEF Next

\* A behaviour of the composition is one of each part.
LEMMA SpecProjects ==
    Spec => /\ ReminderSpec /\ WatchSpec /\ RuleSpec /\ CommitmentSpec /\ DigestSpec /\ AgentSpec
            /\ OutboxSpec /\ SmsSpec
  BY InitProjects, StepProjects, PTL
     DEF Spec, ReminderSpec, WatchSpec, RuleSpec, CommitmentSpec, DigestSpec, AgentSpec,
         OutboxSpec, SmsSpec

\* The tables and tasks of all jobs keep their types together.
THEOREM JobsTypeCorrect == Spec => []JobsTypeOK
  <1>1. /\ ReminderTypeOK /\ WatchTypeOK /\ RuleTypeOK /\ CommitmentTypeOK
        /\ DigestTypeOK /\ AgentTypeOK /\ OutboxTypeOK /\ SmsTypeOK
        => JobsTypeOK
    BY DEF JobsTypeOK
  <1> QED
    BY <1>1, SpecProjects, ReminderTypeCorrect, WatchTypeCorrect, RuleTypeCorrect,
       CommitmentTypeCorrect, DigestTypeCorrect, AgentTypeCorrect, OutboxTypeCorrect,
       SmsTypeCorrect, PTL

\* What is to happen once happens once, but for the lost answers a watch's
\* property counts, and what is recorded as sent was sent, in the jobs and
\* handlers together.
THEOREM JobsAreSafe ==
    Spec => [](/\ NotifiedWasSent /\ RowFiresOnce /\ OneShotRunsOnce /\ ReplyTracksOnce
               /\ OnePromptPerSender /\ KeyActsOnce /\ CostIsOnRecord /\ SentWasIngested
               /\ TextReachesOnce)
  BY SpecProjects, NotifiedMeansSent, RowsFireOnce, OneShotsRunOnce, RepliesTrackOnce,
     SendersArePromptedOnce, KeysActOnce, CostIsRecorded, SentUsageWasIngested, TextsReachOnce, PTL

=============================================================================
