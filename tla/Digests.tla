------------------------------- MODULE Digests -------------------------------
(***************************************************************************)
(* Smart digests for one user: the ten-minute job that, when a slot of the *)
(* day is due, bundles the messages that can wait into one SMS, and that   *)
(* falls back to a recovery digest when none got out for a day.  Messages  *)
(* are numbered in the order of created_at; every query takes the newest   *)
(* ones up to its limit.  Messages older than a month, which               *)
(* purge_old_messages drops, are left out.                                 *)
(***************************************************************************)
EXTENDS Naturals, FiniteSets

CONSTANTS
    ItemCount,        \* messages
    Limit,            \* rows a query returns (30)
    FallbackLimit,    \* and the fallback query (20)
    MaxSpam,
    MaxAgendas,       \* digests that list events only
    MaxDigestFaults   \* restarts and failing writes

ASSUME DigestBoundsAssumption ==
    /\ ItemCount \in Nat /\ Limit \in Nat /\ FallbackLimit \in Nat
    /\ MaxSpam \in Nat /\ MaxAgendas \in Nat /\ MaxDigestFaults \in Nat

Items == 1..ItemCount

VARIABLES
    item,         \* [Items -> row of ont_messages]
    checkpoint,   \* the last successful digest: since the last slot, before it, over a day ago
    cooldown,     \* digest_cooldowns, in memory
    pushesOff,    \* critical_enabled is "off"
    digest,       \* the job
    agendas, digestFaults

digestVars == <<item, checkpoint, cooldown, pushesOff, digest, agendas, digestFaults>>

\* "legacy" are the levels medium and low of messages classified long ago.
Urgency == {"null", "later", "legacy", "now"}
Item == [state : {"none", "pending", "delivered", "seen"}, urgency : Urgency,
         spam : BOOLEAN, old : BOOLEAN]
Digest == [pc : {"idle", "classify", "send", "mark"}, ids : SUBSET Items, lazy : SUBSET Items]

DigestTypeOK ==
    /\ item \in [Items -> Item]
    /\ checkpoint \in {"fresh", "due", "stale"}
    /\ cooldown \in BOOLEAN /\ pushesOff \in BOOLEAN
    /\ digest \in Digest
    /\ agendas \in 0..MaxAgendas /\ digestFaults \in 0..MaxDigestFaults

NotYet == [state |-> "none", urgency |-> "null", spam |-> FALSE, old |-> FALSE]
Legacy == [state |-> "pending", urgency |-> "legacy", spam |-> FALSE, old |-> FALSE]
Between == [pc |-> "idle", ids |-> {}, lazy |-> {}]

\* The oldest messages may date from before the present levels.
DigestInit ==
    /\ \E n \in 0..ItemCount : item = [m \in Items |-> IF m <= n THEN Legacy ELSE NotYet]
    /\ checkpoint = "stale"
    /\ cooldown = FALSE
    /\ pushesOff \in BOOLEAN
    /\ digest = Between
    /\ agendas = 0 /\ digestFaults = 0

Pending(urgencies) == {m \in Items : item[m].state = "pending" /\ item[m].urgency \in urgencies}
InWindow(S) == {m \in S : ~item[m].old}       \* seven days
NoSpam(S) == {m \in S : ~item[m].spam}
Newest(S, n) == {m \in S : Cardinality({k \in S : k > m}) < n}
Spam == {m \in Items : item[m].spam}

-----------------------------------------------------------------------------
(* Messages and the clock                                                  *)

MessageOnly == UNCHANGED <<checkpoint, cooldown, pushesOff, digest, agendas, digestFaults>>

\* insert_message
MessageArrives(m) ==
    /\ item[m].state = "none" /\ \A k \in 1..(m - 1) : item[k].state # "none"
    /\ item' = [item EXCEPT ![m].state = "pending"]
    /\ MessageOnly

\* What becomes of a message that is classified.  One that cannot wait is
\* notified at once, unless the user has turned that off, and no digest lists
\* it; for the digests it is delivered, and whether its SMS got out is not
\* followed here.
Classified(i, urgency, spam) ==
    [i EXCEPT !.urgency = urgency, !.spam = spam,
              !.state = IF urgency = "now" /\ ~pushesOff THEN "delivered" ELSE @]

\* run_urgency_classification, five minutes after the message.
ClassifyMessage(m, urgency, spam) ==
    /\ item[m].state = "pending" /\ item[m].urgency = "null"
    /\ urgency \in {"later", "now"}
    /\ spam => urgency = "later" /\ Cardinality(Spam) < MaxSpam
    /\ item' = [item EXCEPT ![m] = Classified(@, urgency, spam)]
    /\ MessageOnly

\* A read receipt, or a reply in the room, which settles what can wait.
UserReads(m) ==
    /\ item[m].state = "pending"
    /\ \E s \in {"seen"} \cup (IF item[m].urgency = "later" THEN {"delivered"} ELSE {}) :
          item' = [item EXCEPT ![m].state = s]
    /\ MessageOnly

MessageAges(m) ==
    /\ item[m].state = "pending" /\ ~item[m].old
    /\ \A k \in 1..(m - 1) : item[k].old \/ item[k].state # "pending"
    /\ item' = [item EXCEPT ![m].old = TRUE]
    /\ MessageOnly

\* A slot comes due; a day passes; the cooldown of nine minutes ends.
DigestClock ==
    /\ \/ /\ checkpoint # "stale"
          /\ checkpoint' = IF checkpoint = "fresh" THEN "due" ELSE "stale"
          /\ UNCHANGED cooldown
       \/ cooldown /\ cooldown' = FALSE /\ UNCHANGED checkpoint
    /\ UNCHANGED <<item, pushesOff, digest, agendas, digestFaults>>

-----------------------------------------------------------------------------
(* The job                                                                 *)

JobOnly == UNCHANGED <<pushesOff, digestFaults>>

\* Mutant: the recovery looks at the last seven days only.
RecoveryBacklogWindowed == NoSpam(Newest(InWindow(Pending({"later", "legacy"})), Limit))

\* What a recovery digest would list.
RecoveryBacklog == NoSpam(Newest(Pending({"later", "legacy"}), Limit))

\* The recovery of deliver_smart_digests, which looks at no slot and at no
\* cooldown.
StartRecovery ==
    /\ digest.pc = "idle"
    /\ checkpoint = "stale" /\ RecoveryBacklog # {}
    /\ digest' = [pc |-> "send", ids |-> RecoveryBacklog, lazy |-> {}]
    /\ JobOnly
    /\ UNCHANGED <<item, checkpoint, cooldown, agendas>>

\* The first half of build_digest_for_user: the lists are read, and what is
\* not yet classified is put aside.
StartDigest ==
    /\ digest.pc = "idle"
    /\ checkpoint # "fresh" /\ ~cooldown
    /\ checkpoint = "stale" => RecoveryBacklog = {}
    /\ LET urgent == IF pushesOff THEN Newest(InWindow(Pending({"now"})), Limit) ELSE {}
           recent == Newest(InWindow(Pending({"later", "legacy"})), Limit)
           later == IF recent = {} THEN Newest(Pending({"later"}), FallbackLimit) ELSE recent
       IN  digest' = [pc |-> "classify", ids |-> NoSpam(urgent \cup later),
                      lazy |-> Newest(InWindow(Pending({"null"})), Limit)]
    /\ JobOnly
    /\ UNCHANGED <<item, checkpoint, cooldown, agendas>>

\* One of those is classified now, or stays as it is; it is listed unless it
\* was seen or is spam.
ClassifyLazily(m, urgency, spam) ==
    /\ digest.pc = "classify" /\ m \in digest.lazy
    /\ \/ urgency = "null" /\ ~spam /\ item' = item
       \/ /\ item[m].urgency = "null" /\ item[m].state = "pending" /\ urgency # "null"
          /\ spam => urgency = "later" /\ Cardinality(Spam) < MaxSpam
          /\ item' = [item EXCEPT ![m] = Classified(@, urgency, spam)]
    /\ digest' = [digest EXCEPT !.lazy = @ \ {m},
                     !.ids = IF item'[m].state = "seen" \/ item'[m].spam THEN @ ELSE @ \cup {m}]
    /\ JobOnly
    /\ UNCHANGED <<checkpoint, cooldown, agendas>>

\* Without messages the digest needs an event to be about.
FinishDigest(agenda) ==
    /\ digest.pc = "classify" /\ digest.lazy = {}
    /\ agenda => digest.ids = {} /\ agendas < MaxAgendas
    /\ agendas' = IF agenda THEN agendas + 1 ELSE agendas
    /\ digest' = IF digest.ids # {} \/ agenda THEN [digest EXCEPT !.pc = "send"] ELSE Between
    /\ JobOnly
    /\ UNCHANGED <<item, checkpoint, cooldown>>

\* send_notification.  A quiet mode suppresses it, and that counts as done but
\* writes no checkpoint; the checkpoint may also fail to be written.
SendDigest(outcome) ==
    /\ digest.pc = "send"
    /\ outcome = "unlogged" => digestFaults < MaxDigestFaults
    /\ digestFaults' = IF outcome = "unlogged" THEN digestFaults + 1 ELSE digestFaults
    /\ checkpoint' = IF outcome = "sent" THEN "fresh" ELSE checkpoint
    /\ cooldown' = (cooldown \/ outcome # "failed")
    /\ digest' = IF outcome = "failed" THEN Between ELSE [digest EXCEPT !.pc = "mark"]
    /\ UNCHANGED <<item, pushesOff, agendas>>

\* mark_digest_delivered
MarkDelivered(written) ==
    /\ digest.pc = "mark"
    /\ written \/ digestFaults < MaxDigestFaults
    /\ digestFaults' = IF written THEN digestFaults ELSE digestFaults + 1
    /\ item' = [m \in Items |-> IF m \in digest.ids /\ written
                                THEN [item[m] EXCEPT !.state = "delivered"] ELSE item[m]]
    /\ digest' = Between
    /\ UNCHANGED <<checkpoint, cooldown, pushesOff, agendas>>

RestartDigests ==
    /\ digestFaults < MaxDigestFaults
    /\ digestFaults' = digestFaults + 1
    /\ digest' = Between
    /\ cooldown' = FALSE
    /\ UNCHANGED <<item, checkpoint, pushesOff, agendas>>

DigestJob ==
    \/ StartRecovery \/ StartDigest
    \/ \E m \in Items, u \in {"null", "later", "now"}, s \in BOOLEAN : ClassifyLazily(m, u, s)
    \/ \E a \in BOOLEAN : FinishDigest(a)
    \/ \E o \in {"sent", "suppressed", "failed"} : SendDigest(o)
    \/ MarkDelivered(TRUE)

DigestNext ==
    \/ \E m \in Items :
          \/ MessageArrives(m) \/ UserReads(m) \/ MessageAges(m)
          \/ \E u \in {"later", "now"}, s \in BOOLEAN : ClassifyMessage(m, u, s)
    \/ DigestClock
    \/ DigestJob
    \/ SendDigest("unlogged") \/ MarkDelivered(FALSE)
    \/ RestartDigests

DigestSpec == DigestInit /\ [][DigestNext]_digestVars

-----------------------------------------------------------------------------
(* Properties                                                              *)

Waits(m) ==
    item[m].state = "pending" /\ item[m].urgency \in {"later", "legacy"} /\ ~item[m].spam

\* The newest rows a query may return are all spam: the queries take their
\* limit first, and the spam is left out of what they return.
Crowded(m) == Cardinality({k \in Spam \cap Pending({"later"}) : k > m}) >= Limit

\* A message that waits for a digest gets into one, however long slots were
\* missed, unless pending spam crowds it out; if the SMS provider accepts a
\* digest again and again, and digests about events alone stop.
BacklogArrives == \A m \in Items : Waits(m) ~> item[m].state # "pending" \/ Crowded(m)

\* scheduler.rs says it of every message: scheduling preferences "must never
\* strand a real `later` backlog indefinitely".
BacklogNeverStrands == \A m \in Items : Waits(m) ~> item[m].state # "pending"

=============================================================================
