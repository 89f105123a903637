----------------------------- MODULE RuleFiring -----------------------------
(***************************************************************************)
(* The user's rules (ont_rules): the minute job that fires scheduled ones, *)
(* the incoming messages that fire the others, and the tasks both spawn.   *)
(* A task works on the row as it was read when it was spawned; only a      *)
(* one-shot rule is claimed in the table before it runs.                   *)
(***************************************************************************)
EXTENDS Naturals, FiniteSets

CONSTANTS
    Rules,
    Ticks,          \* runs of the minute job
    Arrivals,       \* incoming messages
    MaxRuleEdits,   \* changes by the user
    MaxRuleFaults   \* restarts and failing writes

ASSUME RuleBoundsAssumption == MaxRuleEdits \in Nat /\ MaxRuleFaults \in Nat
ASSUME TriggerAssumption == Ticks \cap Arrivals = {}

Triggers == Ticks \cup Arrivals

VARIABLES
    rule,         \* [Rules -> row]
    task,         \* [Triggers -> [Rules -> the task, with the kind it was spawned for]]
    due,          \* [Ticks -> what the job has read and not yet spawned]
    ticked,       \* ticks that have begun
    activations,  \* history: how often the user made the rule active
    shots,        \* history: how often it ran as a one-shot
    ruleEdits, ruleFaults

ruleVars == <<rule, task, due, ticked, activations, shots, ruleEdits, ruleFaults>>

Scheduled == {"once", "daily"}
OneShot == {"once", "first"}         \* "first": a message rule with fire_once
Kind == Scheduled \cup {"first", "every"}
RuleRow == [status : {"none", "active", "paused", "completed", "expired", "deleted"},
            kind : Kind, next : {"none", "ahead", "past", "never"},
            ends : {"none", "ahead", "past"}]
Task == [pc : {"none", "waiting", "ready", "claimed", "done"}, kind : Kind]

NoRule == [status |-> "none", kind |-> "every", next |-> "none", ends |-> "none"]
NoTask == [pc |-> "none", kind |-> "every"]
TaskDone == [pc |-> "done", kind |-> "every"]

RuleTypeOK ==
    /\ rule \in [Rules -> RuleRow]
    /\ task \in [Triggers -> [Rules -> Task]]
    /\ due \in [Ticks -> [Rules -> Kind \cup {"not"}]]
    /\ ticked \subseteq Ticks
    /\ activations \in [Rules -> Nat] /\ shots \in [Rules -> Nat]
    /\ ruleEdits \in 0..MaxRuleEdits /\ ruleFaults \in 0..MaxRuleFaults

RuleInit ==
    /\ rule = [r \in Rules |-> NoRule]
    /\ task = [t \in Triggers |-> [r \in Rules |-> NoTask]]
    /\ due = [t \in Ticks |-> [r \in Rules |-> "not"]]
    /\ ticked = {}
    /\ activations = [r \in Rules |-> 0] /\ shots = [r \in Rules |-> 0]
    /\ ruleEdits = 0 /\ ruleFaults = 0

Stored(r) == rule[r].status \notin {"none", "deleted"}
FirstTime(kind) == IF kind \in Scheduled THEN "ahead" ELSE "none"

-----------------------------------------------------------------------------
(* The user and the clock                                                  *)

UserOnly == UNCHANGED <<task, due, ticked, shots, ruleFaults>>

CreateRule(r, kind, ends) ==
    /\ rule[r].status = "none"
    /\ rule' = [rule EXCEPT ![r] = [status |-> "active", kind |-> kind,
                                    next |-> FirstTime(kind), ends |-> ends]]
    /\ activations' = [activations EXCEPT ![r] = @ + 1]
    /\ UserOnly
    /\ UNCHANGED ruleEdits

EditRule(r) == Stored(r) /\ ruleEdits < MaxRuleEdits /\ ruleEdits' = ruleEdits + 1

\* update_rule leaves the status and the end alone.
UpdateRule(r, kind) ==
    /\ EditRule(r)
    /\ rule' = [rule EXCEPT ![r].kind = kind, ![r].next = FirstTime(kind)]
    /\ UserOnly
    /\ UNCHANGED activations

\* update_rule_status, from any status to any.
UpdateRuleStatus(r, status) ==
    /\ EditRule(r)
    /\ rule' = [rule EXCEPT ![r].status = status]
    /\ activations' = [activations EXCEPT ![r] = IF status = "active" THEN @ + 1 ELSE @]
    /\ UserOnly

\* The tasks keep their copy of the row.
DeleteRule(r) ==
    /\ EditRule(r)
    /\ rule' = [rule EXCEPT ![r].status = "deleted"]
    /\ UserOnly
    /\ UNCHANGED activations

\* purge_old_rules, a week after the rule came to its end.
PurgeOldRule(r) ==
    /\ rule[r].status \in {"completed", "expired"}
    /\ rule' = [rule EXCEPT ![r].status = "deleted"]
    /\ UserOnly
    /\ UNCHANGED <<activations, ruleEdits>>

RuleTimePasses(r) ==
    /\ rule' \in {[rule EXCEPT ![r].next = IF @ = "ahead" THEN "past" ELSE @],
                  [rule EXCEPT ![r].ends = IF @ = "ahead" THEN "past" ELSE @]}
    /\ rule' # rule
    /\ UserOnly
    /\ UNCHANGED <<activations, ruleEdits>>

-----------------------------------------------------------------------------
(* What fires rules                                                        *)

FireOnly == UNCHANGED <<activations, shots, ruleEdits>>

\* get_due_schedule_rules
ReadDueRules(t) ==
    /\ t \notin ticked
    /\ ticked' = ticked \cup {t}
    /\ due' = [due EXCEPT ![t] = [r \in Rules |->
          IF rule[r].status = "active" /\ rule[r].kind \in Scheduled /\ rule[r].next = "past"
          THEN rule[r].kind ELSE "not"]]
    /\ FireOnly
    /\ UNCHANGED <<rule, task, ruleFaults>>

\* The next time is written first, and a write that fails is ignored; then the
\* task is spawned.
SpawnDue(t, r, written) ==
    /\ due[t][r] # "not"
    /\ written \/ ruleFaults < MaxRuleFaults
    /\ ruleFaults' = IF written THEN ruleFaults ELSE ruleFaults + 1
    /\ rule' = IF written /\ Stored(r)
               THEN [rule EXCEPT ![r].next = IF due[t][r] = "once" THEN "never" ELSE "ahead"]
               ELSE rule
    /\ task' = [task EXCEPT ![t][r] = [pc |-> "ready", kind |-> due[t][r]]]
    /\ due' = [due EXCEPT ![t][r] = "not"]
    /\ FireOnly
    /\ UNCHANGED ticked

\* expire_old_rules, at the end of a tick
ExpireOldRules(t) ==
    /\ t \in ticked /\ \A r \in Rules : due[t][r] = "not"
    /\ rule' = [r \in Rules |-> IF rule[r].status = "active" /\ rule[r].ends = "past"
                                THEN [rule[r] EXCEPT !.status = "expired"] ELSE rule[r]]
    /\ FireOnly
    /\ UNCHANGED <<task, due, ticked, ruleFaults>>

\* emit_ontology_change: a task for every active rule the message matches.
EmitOntologyChange(t) ==
    /\ task[t] = [r \in Rules |-> NoTask]
    /\ \E matching \in SUBSET {r \in Rules : rule[r].status = "active"
                                             /\ rule[r].kind \notin Scheduled} :
          /\ matching # {}
          /\ task' = [task EXCEPT ![t] = [r \in Rules |->
                IF r \in matching THEN [pc |-> "waiting", kind |-> rule[r].kind] ELSE NoTask]]
    /\ FireOnly
    /\ UNCHANGED <<rule, due, ticked, ruleFaults>>

-----------------------------------------------------------------------------
(* A task                                                                  *)

TaskOnly == UNCHANGED <<due, ticked, activations, ruleEdits, ruleFaults>>
Moves(t, r, pc) == task' = [task EXCEPT ![t][r] = IF pc = "done" THEN TaskDone
                                                  ELSE [@ EXCEPT !.pc = pc]]

\* The delay, then check_message_seen.
CheckSeen(t, r, seen) ==
    /\ task[t][r].pc = "waiting"
    /\ Moves(t, r, IF seen THEN "done" ELSE "ready")
    /\ TaskOnly
    /\ UNCHANGED <<rule, shots>>

\* Mutant: try_claim_rule takes a rule in any status.
TryClaimAnyway(t, r) ==
    /\ task[t][r].pc = "ready" /\ task[t][r].kind \in OneShot
    /\ Moves(t, r, IF Stored(r) THEN "claimed" ELSE "done")
    /\ rule' = IF Stored(r) THEN [rule EXCEPT ![r].status = "completed"] ELSE rule
    /\ TaskOnly
    /\ UNCHANGED shots

\* try_claim_rule: an active one-shot is completed by the task that runs it.
TryClaimRule(t, r) ==
    /\ task[t][r].pc = "ready" /\ task[t][r].kind \in OneShot
    /\ Moves(t, r, IF rule[r].status = "active" THEN "claimed" ELSE "done")
    /\ rule' = IF rule[r].status = "active" THEN [rule EXCEPT ![r].status = "completed"] ELSE rule
    /\ TaskOnly
    /\ UNCHANGED shots

NeedsNoClaim(t, r) ==
    /\ task[t][r].pc = "ready" /\ task[t][r].kind \notin OneShot
    /\ Moves(t, r, "claimed")
    /\ TaskOnly
    /\ UNCHANGED <<rule, shots>>

\* The rest of evaluate_and_execute: a rule past its end is expired, one over
\* the day's token budget skipped, any other evaluated and its action taken.
Evaluate(t, r, budget) ==
    /\ task[t][r].pc = "claimed"
    /\ Moves(t, r, "done")
    /\ rule' = IF rule[r].ends = "past" /\ Stored(r)
               THEN [rule EXCEPT ![r].status = "expired"] ELSE rule
    /\ shots' = [shots EXCEPT ![r] =
          IF rule[r].ends # "past" /\ budget /\ task[t][r].kind \in OneShot THEN @ + 1 ELSE @]
    /\ TaskOnly

\* A restart: tasks and what the job had read are gone.
RestartRules ==
    /\ ruleFaults < MaxRuleFaults
    /\ ruleFaults' = ruleFaults + 1
    /\ task' = [t \in Triggers |-> [r \in Rules |->
          IF task[t][r].pc = "none" THEN NoTask ELSE TaskDone]]
    /\ due' = [t \in Ticks |-> [r \in Rules |-> "not"]]
    /\ FireOnly
    /\ UNCHANGED <<rule, ticked>>

RuleNext ==
    \/ \E r \in Rules :
          \/ \E k \in Kind, e \in {"none", "ahead"} : CreateRule(r, k, e)
          \/ \E k \in Kind : UpdateRule(r, k)
          \/ \E s \in {"active", "paused"} : UpdateRuleStatus(r, s)
          \/ DeleteRule(r) \/ PurgeOldRule(r)
          \/ RuleTimePasses(r)
    \/ \E t \in Ticks : ReadDueRules(t) \/ ExpireOldRules(t)
    \/ \E t \in Ticks, r \in Rules, w \in BOOLEAN : SpawnDue(t, r, w)
    \/ \E t \in Arrivals : EmitOntologyChange(t)
    \/ \E t \in Triggers, r \in Rules :
          \/ \E b \in BOOLEAN : CheckSeen(t, r, b) \/ Evaluate(t, r, b)
          \/ TryClaimRule(t, r) \/ NeedsNoClaim(t, r)
    \/ RestartRules

RuleSpec == RuleInit /\ [][RuleNext]_ruleVars

-----------------------------------------------------------------------------
(* Properties                                                              *)

\* A one-shot rule runs at most once for every time the user made it active,
\* though several messages, or a tick whose write of the next time failed and
\* the tick after it, each spawned a task for it (try_claim_rule: prevents
\* duplicate executions when multiple messages race).
OneShotRunsOnce == \A r \in Rules : shots[r] <= activations[r]

=============================================================================
