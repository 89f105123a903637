---------------------------- MODULE ReplyWatches ----------------------------
(***************************************************************************)
(* One-shot reply watches (pending_reply_watches).  A watch waits for a    *)
(* message of one contact in one place: a bridged room, or one of the      *)
(* user's mailboxes.  Chat tools arm one place and replace what waits      *)
(* there; an agent's request arms the same contact in every mailbox.  The  *)
(* handler of an incoming message claims the watch by deleting its row,    *)
(* and puts it back when the notification fails.                           *)
(***************************************************************************)
EXTENDS Naturals, FiniteSets

CONSTANTS
    Arms,            \* times a watch is asked for
    Contacts,
    Places,          \* rooms and mailboxes
    Handlers,        \* incoming messages handled at once
    MaxWatches,      \* MAX_ACTIVE_WATCHES, for agents only
    MaxWatchFaults   \* restarts, failing writes, lost answers of a provider

ASSUME WatchBoundsAssumption == MaxWatches \in Nat /\ MaxWatchFaults \in Nat

VARIABLES
    watches,     \* the rows: which request, for whom, where
    over,        \* requests whose expires_at has passed
    asked,       \* requests made
    holding,     \* [Handlers -> the row it has claimed, if any]
    failed,      \* handlers whose send ended in an error
    fired,       \* history: how often a row's notification has gone out
    lost,        \* history: how often it had, and the send ended in an error
    watchFaults

watchVars == <<watches, over, asked, holding, failed, fired, lost, watchFaults>>

Watch == [arm : Arms, contact : Contacts, place : Places]

WatchTypeOK ==
    /\ watches \subseteq Watch
    /\ over \subseteq asked /\ asked \subseteq Arms
    /\ holding \in [Handlers -> {W \in SUBSET Watch : Cardinality(W) <= 1}]
    /\ failed \subseteq Handlers
    /\ fired \in [Watch -> Nat] /\ lost \in [Watch -> 0..MaxWatchFaults]
    /\ watchFaults \in 0..MaxWatchFaults

WatchInit ==
    /\ watches = {} /\ over = {} /\ asked = {}
    /\ holding = [h \in Handlers |-> {}]
    /\ failed = {}
    /\ fired = [w \in Watch |-> 0] /\ lost = [w \in Watch |-> 0]
    /\ watchFaults = 0

Active == {w \in watches : w.arm \notin over}
At(c, i) == {w \in watches : w.contact = c /\ w.place = i}

-----------------------------------------------------------------------------

ArmOnly == UNCHANGED <<over, holding, failed, fired, lost, watchFaults>>

\* arm_bridge and arm_email: one transaction replaces what waits there.
ArmChat(a, c, i) ==
    /\ a \notin asked
    /\ asked' = asked \cup {a}
    /\ watches' = (watches \ At(c, i)) \cup {[arm |-> a, contact |-> c, place |-> i]}
    /\ ArmOnly

\* create_email_reply_watches: refused when the contact is watched already or
\* the user has MaxWatches contacts; mailboxes of one contact count once.
ArmAgent(a, c, mailboxes) ==
    /\ a \notin asked
    /\ mailboxes # {}
    /\ \A w \in Active : w.contact # c
    /\ Cardinality({w.contact : w \in Active}) < MaxWatches
    /\ asked' = asked \cup {a}
    /\ watches' = watches \cup {[arm |-> a, contact |-> c, place |-> i] : i \in mailboxes}
    /\ ArmOnly

\* delete_for_user
CancelWatch(w) ==
    /\ w \in watches
    /\ watches' = watches \ {w}
    /\ ArmOnly
    /\ UNCHANGED asked

Expire(a) ==
    /\ a \in asked \ over
    /\ over' = over \cup {a}
    /\ UNCHANGED <<watches, asked, holding, failed, fired, lost, watchFaults>>

\* Mutant: the watch is found, and deleted only after the notification.
ClaimActiveFound(h, w) ==
    /\ holding[h] = {}
    /\ w \in Active
    /\ holding' = [holding EXCEPT ![h] = {w}]
    /\ UNCHANGED <<watches, over, asked, failed, fired, lost, watchFaults>>

\* claim_active_bridge, claim_active_email: every live row of the place goes,
\* and one of them is notified.
ClaimActive(h, w) ==
    /\ holding[h] = {}
    /\ w \in Active
    /\ watches' = watches \ (At(w.contact, w.place) \cap Active)
    /\ holding' = [holding EXCEPT ![h] = {w}]
    /\ UNCHANGED <<over, asked, failed, fired, lost, watchFaults>>

\* send_to_user, unless a quiet mode suppresses it, which counts as done.  It
\* returns an error when every provider refused the text ("refused"), and also
\* when one took it and its answer was lost ("lost").
Notify(h, outcome) ==
    /\ holding[h] # {} /\ h \notin failed
    /\ outcome = "lost" => watchFaults < MaxWatchFaults
    /\ LET out == IF outcome \in {"sent", "lost"} THEN holding[h] ELSE {}
           unheard == IF outcome = "lost" THEN holding[h] ELSE {}
       IN  /\ fired' = [w \in Watch |-> IF w \in out THEN fired[w] + 1 ELSE fired[w]]
           /\ lost' = [w \in Watch |-> IF w \in unheard THEN lost[w] + 1 ELSE lost[w]]
    /\ watchFaults' = IF outcome = "lost" THEN watchFaults + 1 ELSE watchFaults
    /\ failed' = IF outcome \in {"refused", "lost"} THEN failed \cup {h} ELSE failed
    /\ holding' = IF outcome \in {"refused", "lost"} THEN holding ELSE [holding EXCEPT ![h] = {}]
    /\ UNCHANGED <<watches, over, asked>>

\* restore: the row is inserted again with its old expiry; a failing insert is
\* only logged.
Restore(h, written) ==
    /\ h \in failed
    /\ written \/ watchFaults < MaxWatchFaults
    /\ watchFaults' = IF written THEN watchFaults ELSE watchFaults + 1
    /\ watches' = IF written THEN watches \cup holding[h] ELSE watches
    /\ failed' = failed \ {h}
    /\ holding' = [holding EXCEPT ![h] = {}]
    /\ UNCHANGED <<over, asked, fired, lost>>

RestartHandlers ==
    /\ watchFaults < MaxWatchFaults
    /\ watchFaults' = watchFaults + 1
    /\ holding' = [h \in Handlers |-> {}]
    /\ failed' = {}
    /\ UNCHANGED <<watches, over, asked, fired, lost>>

WatchNext ==
    \/ \E a \in Arms, c \in Contacts, i \in Places : ArmChat(a, c, i)
    \/ \E a \in Arms, c \in Contacts, I \in SUBSET Places : ArmAgent(a, c, I)
    \/ \E w \in watches : CancelWatch(w)
    \/ \E a \in Arms : Expire(a)
    \/ \E h \in Handlers :
          \/ \E w \in watches : ClaimActive(h, w)
          \/ \E o \in {"sent", "suppressed", "refused", "lost"} : Notify(h, o)
          \/ \E ok \in BOOLEAN : Restore(h, ok)
    \/ RestartHandlers

WatchSpec == WatchInit /\ [][WatchNext]_watchVars

-----------------------------------------------------------------------------
(* Properties                                                              *)

\* A row notifies again only because the answer to an earlier notification was
\* lost: that error restores the row like a refusal, whichever it was.  However
\* many messages arrive together, and however often a refusal or a restart
\* intervenes, nothing else repeats it (claim_active_bridge: deleting before
\* the notification prevents two events from firing the same watch).  This is
\* said of rows: an agent's request puts one into every mailbox, and each of
\* them notifies, though docs/AGENT_INTEGRATION.md says its watches fire once.
RowFiresOnce == \A w \in Watch : fired[w] <= 1 + lost[w]

=============================================================================
