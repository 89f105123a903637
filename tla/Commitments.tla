----------------------------- MODULE Commitments -----------------------------
(***************************************************************************)
(* Commitments found in incoming messages.  A sender without a rule is     *)
(* asked about by SMS: the prompt's row is inserted, then the SMS is sent, *)
(* and a failed SMS resolves the row and tracks the commitment unasked.    *)
(* The user answers 1, 2, 3 or 4; providers deliver an answer more than    *)
(* once.  An answer resolves the latest open prompt and then creates the   *)
(* event and the sender rule.                                              *)
(***************************************************************************)
EXTENDS Naturals, Sequences, FiniteSets

CONSTANTS
    Found,               \* messages in which a new commitment is detected
    Senders,
    Replies,             \* deliveries of an answer
    MaxCommitmentFaults  \* restarts and failing writes

ASSUME CommitmentBoundsAssumption == MaxCommitmentFaults \in Nat

VARIABLES
    from,        \* [Found -> its sender]
    detection,   \* [Found -> step of its detection task]
    prompt,      \* [Found -> its commitment_prompts row]
    asking,      \* the prompts in the order of sent_at
    senderRules, \* [Senders -> active rules, the latest last]
    reply,       \* [Replies -> step of the answer's handler]
    tracked,     \* history: events created by answers
    created,     \* events created without asking
    commitmentFaults

commitmentVars == <<from, detection, prompt, asking, senderRules, reply, tracked, created,
                    commitmentFaults>>

Labels == {"track", "always", "mute", "wrong"}
Reply == [pc : {"idle", "claim", "event", "unrule", "rule", "done"},
          label : Labels, about : SUBSET Found]
NoReply(pc) == [pc |-> pc, label |-> "track", about |-> {}]

CommitmentTypeOK ==
    /\ from \in [Found -> Senders]
    /\ detection \in [Found -> {"new", "embed", "insert", "send", "expire", "create", "done"}]
    /\ prompt \in [Found -> {"none", "open", "old", "resolved"}]
    /\ asking \in Seq(Found)
    /\ senderRules \in [Senders -> Seq({"mute", "always"})]
    /\ reply \in [Replies -> Reply]
    /\ tracked \in [Found -> Nat] /\ created \subseteq Found
    /\ commitmentFaults \in 0..MaxCommitmentFaults

CommitmentInit ==
    /\ from \in [Found -> Senders]
    /\ detection = [c \in Found |-> "new"]
    /\ prompt = [c \in Found |-> "none"]
    /\ asking = <<>>
    /\ senderRules = [s \in Senders |-> <<>>]
    /\ reply = [r \in Replies |-> NoReply("idle")]
    /\ tracked = [c \in Found |-> 0] /\ created = {}
    /\ commitmentFaults = 0

Unresolved(c) == prompt[c] \in {"open", "old"}
PromptBecomes(c, state) ==
    /\ prompt' = [prompt EXCEPT ![c] = state]
    /\ UNCHANGED asking
UnresolvedFor(s) == {c \in Found : from[c] = s /\ Unresolved(c)}

\* A write that fails, or one that does not.
Writes(written) ==
    /\ written \/ commitmentFaults < MaxCommitmentFaults
    /\ commitmentFaults' = IF written THEN commitmentFaults ELSE commitmentFaults + 1

-----------------------------------------------------------------------------
(* Detection                                                               *)

DetectOnly == UNCHANGED <<from, senderRules, reply, tracked>>
Detected(c, pc) == detection' = [detection EXCEPT ![c] = pc]

\* lookup_sender_rule, where the latest rule counts, and the check for a
\* prompt that waits already.  A message without a sender key, and a lookup
\* that fails, go on to the event.
HandleNewCommitment(c, keyed) ==
    /\ detection[c] = "new"
    /\ LET rules == senderRules[from[c]]
       IN  Detected(c, IF ~keyed THEN "create"
                       ELSE IF rules # <<>> THEN (IF rules[Len(rules)] = "mute" THEN "done" ELSE "create")
                       ELSE IF UnresolvedFor(from[c]) # {} THEN "done" ELSE "embed")
    /\ DetectOnly
    /\ UNCHANGED <<prompt, asking, created, commitmentFaults>>

\* The embedding of the message, compared with earlier answers.
CompareWithAnswers(c, pc) ==
    /\ detection[c] = "embed" /\ pc \in {"insert", "create", "done"}
    /\ Detected(c, pc)
    /\ DetectOnly
    /\ UNCHANGED <<prompt, asking, created, commitmentFaults>>

Inserted(c) ==
    /\ prompt' = [prompt EXCEPT ![c] = "open"]
    /\ asking' = Append(asking, c)
    /\ Detected(c, "send")

\* Mutant: no unique index keeps a second open prompt of the sender out.
CreatePromptUnindexed(c) ==
    /\ detection[c] = "insert"
    /\ Inserted(c)
    /\ DetectOnly
    /\ UNCHANGED <<created, commitmentFaults>>

\* create_prompt: the unique index refuses a second open prompt of the sender.
CreatePrompt(c) ==
    /\ detection[c] = "insert"
    /\ IF UnresolvedFor(from[c]) = {} THEN Inserted(c)
       ELSE Detected(c, "done") /\ UNCHANGED <<prompt, asking>>
    /\ DetectOnly
    /\ UNCHANGED <<created, commitmentFaults>>

\* Without a message id, and when the insert fails, the commitment is tracked.
CreatePromptFails(c) ==
    /\ detection[c] = "insert"
    /\ Detected(c, "create")
    /\ DetectOnly
    /\ UNCHANGED <<prompt, asking, created, commitmentFaults>>

\* send_to_user.  "unsent" is a send that failed, or whose answer was lost;
\* "nobody" a user that could not be read, which leaves the prompt open.
SendPrompt(c, outcome) ==
    /\ detection[c] = "send"
    /\ Writes(outcome # "nobody")
    /\ Detected(c, CASE outcome = "sent" -> "done" [] outcome = "unsent" -> "expire"
                     [] outcome = "nobody" -> "create")
    /\ DetectOnly
    /\ UNCHANGED <<prompt, asking, created>>

\* expire_prompt looks at no status.
ExpirePrompt(c, written) ==
    /\ detection[c] = "expire"
    /\ Writes(written)
    /\ IF written THEN PromptBecomes(c, "resolved") ELSE UNCHANGED <<prompt, asking>>
    /\ Detected(c, "create")
    /\ DetectOnly
    /\ UNCHANGED created

AutoCreateEvent(c, written) ==
    /\ detection[c] = "create"
    /\ Writes(written)
    /\ created' = IF written THEN created \cup {c} ELSE created
    /\ Detected(c, "done")
    /\ DetectOnly
    /\ UNCHANGED <<prompt, asking>>

\* REPLY_MATCH_WINDOW_SECS have passed.
PromptGrowsOld(c) ==
    /\ prompt[c] = "open"
    /\ PromptBecomes(c, "old")
    /\ DetectOnly
    /\ UNCHANGED <<detection, created, commitmentFaults>>

-----------------------------------------------------------------------------
(* Answers                                                                 *)

ReplyOnly == UNCHANGED <<from, detection, created>>
Replied(r, pc) == reply' = [reply EXCEPT ![r] = IF pc = "done" THEN NoReply("done")
                                                ELSE [@ EXCEPT !.pc = pc]]
Answers(r, c) == c \in reply[r].about

\* find_latest_unresolved_for_user; without one the SMS goes to the agent.
FindLatestUnresolved(r, label) ==
    /\ reply[r].pc = "idle"
    /\ \E i \in DOMAIN asking :
          /\ prompt[asking[i]] = "open"
          /\ \A j \in DOMAIN asking : j > i => prompt[asking[j]] # "open"
          /\ reply' = [reply EXCEPT ![r] = [pc |-> "claim", label |-> label,
                                            about |-> {asking[i]}]]
    /\ ReplyOnly
    /\ UNCHANGED <<prompt, asking, senderRules, tracked, commitmentFaults>>

AfterClaim(r) ==
    CASE reply[r].label \in {"track", "always"} -> "event"
      [] reply[r].label = "mute" -> "unrule"
      [] reply[r].label = "wrong" -> "done"

\* Mutant: claim_prompt takes a prompt that is resolved.
ClaimPromptAnyway(r, c) ==
    /\ reply[r].pc = "claim" /\ Answers(r, c)
    /\ PromptBecomes(c, "resolved")
    /\ Replied(r, AfterClaim(r))
    /\ ReplyOnly
    /\ UNCHANGED <<senderRules, tracked, commitmentFaults>>

\* claim_prompt: only the first answer has effects.
ClaimPrompt(r, c) ==
    /\ reply[r].pc = "claim" /\ Answers(r, c)
    /\ PromptBecomes(c, "resolved")
    /\ Replied(r, IF Unresolved(c) THEN AfterClaim(r) ELSE "done")
    /\ ReplyOnly
    /\ UNCHANGED <<senderRules, tracked, commitmentFaults>>

\* create_event of apply_track and apply_always
TrackEvent(r, c, written) ==
    /\ reply[r].pc = "event" /\ Answers(r, c)
    /\ Writes(written)
    /\ tracked' = [tracked EXCEPT ![c] = IF written THEN @ + 1 ELSE @]
    /\ Replied(r, IF reply[r].label = "always" THEN "unrule" ELSE "done")
    /\ ReplyOnly
    /\ UNCHANGED <<prompt, asking, senderRules>>

\* deactivate_existing_rules; apply_mute stops when it fails, apply_always
\* goes on.
DeactivateRules(r, c, written) ==
    /\ reply[r].pc = "unrule" /\ Answers(r, c)
    /\ Writes(written)
    /\ senderRules' = IF written THEN [senderRules EXCEPT ![from[c]] = <<>>] ELSE senderRules
    /\ Replied(r, IF written \/ reply[r].label = "always" THEN "rule" ELSE "done")
    /\ ReplyOnly
    /\ UNCHANGED <<prompt, asking, tracked>>

CreateSenderRule(r, c, written) ==
    /\ reply[r].pc = "rule" /\ Answers(r, c)
    /\ Writes(written)
    /\ senderRules' = IF written
                      THEN [senderRules EXCEPT ![from[c]] = Append(@, reply[r].label)]
                      ELSE senderRules
    /\ Replied(r, "done")
    /\ ReplyOnly
    /\ UNCHANGED <<prompt, asking, tracked>>

\* A restart: tasks and handlers end where they are.
RestartCommitments ==
    /\ commitmentFaults < MaxCommitmentFaults
    /\ commitmentFaults' = commitmentFaults + 1
    /\ detection' = [c \in Found |-> IF detection[c] = "new" THEN "new" ELSE "done"]
    /\ reply' = [r \in Replies |-> IF reply[r].pc = "idle" THEN reply[r]
                                   ELSE NoReply("done")]
    /\ UNCHANGED <<from, prompt, asking, senderRules, tracked, created>>

CommitmentNext ==
    \/ \E c \in Found :
          \/ \E keyed \in BOOLEAN : HandleNewCommitment(c, keyed)
          \/ \E pc \in {"insert", "create", "done"} : CompareWithAnswers(c, pc)
          \/ CreatePrompt(c) \/ CreatePromptFails(c)
          \/ \E o \in {"sent", "unsent", "nobody"} : SendPrompt(c, o)
          \/ \E w \in BOOLEAN : ExpirePrompt(c, w) \/ AutoCreateEvent(c, w)
          \/ PromptGrowsOld(c)
    \/ \E r \in Replies :
          \/ \E l \in Labels : FindLatestUnresolved(r, l)
          \/ \E c \in Found :
                \/ ClaimPrompt(r, c)
                \/ \E w \in BOOLEAN : \/ TrackEvent(r, c, w) \/ DeactivateRules(r, c, w)
                                      \/ CreateSenderRule(r, c, w)
    \/ RestartCommitments

CommitmentSpec == CommitmentInit /\ [][CommitmentNext]_commitmentVars

-----------------------------------------------------------------------------
(* Properties                                                              *)

\* An answer that providers deliver twice, or two answers in a row, track a
\* commitment once (claim_prompt: avoid double-creating events).
ReplyTracksOnce == \A c \in Found : tracked[c] <= 1

\* A sender has one unresolved prompt at most, though several of its messages
\* are worked on at once and each found none (the unique index of
\* commitment_prompts; insert before send).
OnePromptPerSender == \A s \in Senders : Cardinality(UnresolvedFor(s)) <= 1

=============================================================================
