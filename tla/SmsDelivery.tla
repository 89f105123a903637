---------------------------- MODULE SmsDelivery ----------------------------
(***************************************************************************)
(* Texts sent through a user's webhook token.  A call reserves its         *)
(* idempotency key, passes the checks, takes a slot of the token's day and *)
(* offers the text to one provider after the other.  Twilio reports later, *)
(* and perhaps more than once, that a text it took has failed; each report *)
(* starts a task that claims the text and sends it again through Telnyx.   *)
(***************************************************************************)
EXTENDS Naturals, FiniteSets

CONSTANTS
    HookCalls,
    HookKeys,
    NoKey,          \* a call without an Idempotency-Key header
    SmsProviders,   \* the channels of the user's route
    Replays,        \* tasks that replay failed texts
    HookCap,        \* calls of a token a day
    ClaimAttempts,  \* 4
    MaxSmsFaults    \* restarts, failing writes, cancelled calls and lost answers

ASSUME SmsAssumption ==
    /\ NoKey \notin HookKeys
    /\ {HookCap, MaxSmsFaults} \subseteq Nat /\ ClaimAttempts \in Nat \ {0}

VARIABLES
    hookToken,   \* webhook_tokens: revoked, daily_sent, whether the day is over
    hookKey,     \* webhook_idempotency_keys of the token
    hookCall,    \* [HookCalls -> step, key and providers not yet tried]
    twilio,      \* what became of the call's text at Twilio
    logRow,      \* its row in message_status_log: none, open, or claimed for a replay
    replay,      \* [Replays -> step, text and attempts]
    window,      \* history: calls that have reserved the key's present row
    reach,       \* history: providers and replays through which its text can reach the user
    doubted,     \* history: calls whose text was taken and answered with an error
    smsFaults

smsVars == <<hookToken, hookKey, hookCall, twilio, logRow, replay, window, reach, doubted,
             smsFaults>>

NoReplay == [pc |-> "idle"]

SmsTypeOK ==
    /\ hookToken \in [revoked : BOOLEAN, sent : 0..HookCap, newDay : BOOLEAN]
    /\ hookKey \in [HookKeys -> {"none", "held", "done", "aged"}]
    /\ hookCall \in [HookCalls ->
          [pc : {"idle", "reserve", "check", "claim", "send", "log", "finish", "clear", "done"},
           key : HookKeys \union {NoKey}, left : SUBSET SmsProviders]]
    /\ twilio \in [HookCalls -> {"none", "taken", "failed", "optout"}]
    /\ logRow \in [HookCalls -> {"none", "open", "claimed"}]
    /\ replay \in [Replays -> {NoReplay} \union
                               [pc : {"claim", "send"}, of : HookCalls, tries : 1..ClaimAttempts]]
    /\ window \in [HookKeys -> SUBSET HookCalls]
    /\ reach \in [HookCalls -> SUBSET (SmsProviders \union Replays)]
    /\ doubted \subseteq HookCalls
    /\ smsFaults \in 0..MaxSmsFaults

SmsInit ==
    /\ hookToken = [revoked |-> FALSE, sent |-> 0, newDay |-> FALSE]
    /\ hookKey = [k \in HookKeys |-> "none"]
    /\ hookCall \in [HookCalls -> [pc : {"idle"}, key : HookKeys \union {NoKey},
                                   left : {SmsProviders}]]
    /\ twilio = [c \in HookCalls |-> "none"]
    /\ logRow = [c \in HookCalls |-> "none"]
    /\ replay = [t \in Replays |-> NoReplay]
    /\ window = [k \in HookKeys |-> {}]
    /\ reach = [c \in HookCalls |-> {}]
    /\ doubted = {}
    /\ smsFaults = 0

SmsFault == smsFaults < MaxSmsFaults /\ smsFaults' = smsFaults + 1

\* A write that may fail.
SmsStored(written) == IF written THEN UNCHANGED smsFaults ELSE SmsFault

-----------------------------------------------------------------------------
(* The call                                                                *)

Keyed(c) == hookCall[c].key # NoKey
KeyRowOf(c) == hookKey[hookCall[c].key]
CallGoes(c, pc) == hookCall' = [hookCall EXCEPT ![c].pc = pc]
CallEnds(c) == hookCall' = [hookCall EXCEPT ![c].pc = "done", ![c].left = {}]
KeyBecomes(c, state) == hookKey' = [hookKey EXCEPT ![hookCall[c].key] = state]
NothingSent == UNCHANGED <<twilio, logRow, replay, window, reach, doubted>>

\* The bearer's row, and the body; a call that fails here changes nothing.
WebhookSms(c) ==
    /\ hookCall[c].pc = "idle" /\ ~hookToken.revoked
    /\ CallGoes(c, "reserve")
    /\ NothingSent
    /\ UNCHANGED <<hookToken, hookKey, smsFaults>>

\* reserve_idempotency_key: a row younger than a day is replayed or in flight
\* and ends the call, an older one is replaced.
ReserveIdempotencyKey(c) ==
    /\ hookCall[c].pc = "reserve"
    /\ \/ /\ ~Keyed(c)
          /\ CallGoes(c, "check")
          /\ UNCHANGED <<hookKey, window>>
       \/ /\ Keyed(c) /\ KeyRowOf(c) \in {"none", "aged"}
          /\ KeyBecomes(c, "held") /\ CallGoes(c, "check")
          /\ window' = [window EXCEPT ![hookCall[c].key] =
                            IF KeyRowOf(c) = "aged" THEN {c} ELSE @ \union {c}]
       \/ /\ Keyed(c) /\ KeyRowOf(c) \in {"held", "done"}
          /\ CallEnds(c)
          /\ UNCHANGED <<hookKey, window>>
    /\ UNCHANGED <<hookToken, twilio, logRow, replay, reach, doubted, smsFaults>>

\* The user, a temporary suppression, the credits.  A suppressed call completes
\* its key; one that is refused gives it back.
CheckUser(c, verdict) ==
    /\ hookCall[c].pc = "check"
    /\ CallGoes(c, CASE verdict = "allowed" -> "claim"
                     [] verdict = "suppressed" -> "finish"
                     [] verdict = "refused" -> "clear")
    /\ NothingSent
    /\ UNCHANGED <<hookToken, hookKey, smsFaults>>

\* Reading the user fails, or the client hangs up: the key stays in flight.
CheckBreaksOff(c) ==
    /\ hookCall[c].pc = "check"
    /\ SmsFault
    /\ CallEnds(c)
    /\ NothingSent
    /\ UNCHANGED <<hookToken, hookKey>>

\* claim_send_slot, in one transaction.
ClaimSendSlot(c) ==
    /\ hookCall[c].pc = "claim"
    /\ LET sent == IF hookToken.newDay THEN 0 ELSE hookToken.sent
           claimed == ~hookToken.revoked /\ sent < HookCap
       IN  /\ hookToken' = [hookToken EXCEPT !.newDay = FALSE,
                                             !.sent = IF claimed THEN sent + 1 ELSE sent]
           /\ CallGoes(c, IF claimed THEN "send" ELSE "clear")
    /\ NothingSent
    /\ UNCHANGED <<hookKey, smsFaults>>

\* The claim fails, and is rolled back.
ClaimFails(c) ==
    /\ hookCall[c].pc = "claim"
    /\ SmsFault
    /\ CallGoes(c, "clear")
    /\ NothingSent
    /\ UNCHANGED <<hookToken, hookKey>>

\* A provider takes a text on its way to the user.
Takes(c, p) ==
    /\ reach' = [reach EXCEPT ![c] = @ \union {p}]
    /\ twilio' = [twilio EXCEPT ![c] = IF p = "twilio" THEN "taken" ELSE @]

\* send_to_user: the first provider that says yes ends the walk.
ProviderAccepts(c, p) ==
    /\ hookCall[c].pc = "send" /\ p \in hookCall[c].left
    /\ Takes(c, p)
    /\ CallGoes(c, IF p = "twilio" THEN "log" ELSE "finish")
    /\ UNCHANGED <<hookToken, hookKey, logRow, replay, window, doubted, smsFaults>>

\* A provider that answers with an error is followed by the next; after the
\* last the call has failed.
NextProvider(c, p) ==
    /\ hookCall[c].pc = "send" /\ p \in hookCall[c].left
    /\ hookCall' = [hookCall EXCEPT ![c].left = @ \ {p},
                                    ![c].pc = IF hookCall[c].left = {p} THEN "clear" ELSE @]
    /\ UNCHANGED <<hookToken, hookKey, logRow, replay, window>>

ProviderRefuses(c, p) ==
    /\ NextProvider(c, p)
    /\ UNCHANGED <<twilio, reach, doubted, smsFaults>>

\* The text was taken and the answer lost, or its end mistaken for an error.
AnswerLost(c, p) ==
    /\ NextProvider(c, p)
    /\ SmsFault
    /\ Takes(c, p)
    /\ doubted' = doubted \union {c}

\* SEND_TIMEOUT, or the client hangs up: nobody knows whether the provider
\* being asked has taken the text, and the key stays in flight.
SendCancelled(c, p, took) ==
    /\ hookCall[c].pc = "send" /\ p \in hookCall[c].left
    /\ SmsFault
    /\ IF took THEN Takes(c, p) ELSE UNCHANGED <<reach, twilio>>
    /\ CallEnds(c)
    /\ UNCHANGED <<hookToken, hookKey, logRow, replay, window, doubted>>

\* log_message_status, after Twilio has answered; an insert that fails is logged.
LogMessageStatus(c, written) ==
    /\ hookCall[c].pc = "log"
    /\ SmsStored(written)
    /\ logRow' = [logRow EXCEPT ![c] = IF written THEN "open" ELSE @]
    /\ CallGoes(c, "finish")
    /\ UNCHANGED <<hookToken, hookKey, twilio, replay, reach, window, doubted>>

\* complete_idempotency; the write may fail, the caller has its answer.
CompleteIdempotency(c, written) ==
    /\ hookCall[c].pc = "finish"
    /\ SmsStored(written)
    /\ IF written /\ Keyed(c) THEN KeyBecomes(c, "done") ELSE UNCHANGED hookKey
    /\ CallEnds(c)
    /\ NothingSent
    /\ UNCHANGED hookToken

\* release_idempotency
ReleaseIdempotency(c, written) ==
    /\ hookCall[c].pc = "clear"
    /\ SmsStored(written)
    /\ IF written /\ Keyed(c) THEN KeyBecomes(c, "none") ELSE UNCHANGED hookKey
    /\ CallEnds(c)
    /\ NothingSent
    /\ UNCHANGED hookToken

\* The user revokes the token; midnight (UTC) passes.
RevokeToken ==
    /\ ~hookToken.revoked
    /\ hookToken' = [hookToken EXCEPT !.revoked = TRUE]
    /\ NothingSent
    /\ UNCHANGED <<hookKey, hookCall, smsFaults>>

Midnight ==
    /\ ~hookToken.newDay /\ hookToken.sent > 0
    /\ hookToken' = [hookToken EXCEPT !.newDay = TRUE]
    /\ NothingSent
    /\ UNCHANGED <<hookKey, hookCall, smsFaults>>

\* IDEMPOTENCY_TTL_SECS have passed, which no call outlives.
HookKeyAges(k) ==
    /\ hookKey[k] \in {"held", "done"}
    /\ \A c \in HookCalls : hookCall[c].key = k => hookCall[c].pc \in {"idle", "reserve", "done"}
    /\ hookKey' = [hookKey EXCEPT ![k] = "aged"]
    /\ NothingSent
    /\ UNCHANGED <<hookToken, hookCall, smsFaults>>

-----------------------------------------------------------------------------
(* Twilio's reports and the replay                                         *)

CallsOnly == UNCHANGED <<hookToken, hookKey, hookCall, window, doubted>>

\* Twilio cannot deliver a text it took, or the user has opted out (21610).
TwilioFails(c, how) ==
    /\ twilio[c] = "taken"
    /\ twilio' = [twilio EXCEPT ![c] = how]
    /\ reach' = [reach EXCEPT ![c] = @ \ {"twilio"}]
    /\ CallsOnly
    /\ UNCHANGED <<logRow, replay, smsFaults>>

\* A status callback with "failed" or "undelivered", the first or a further one,
\* before or after the row is there.  Other callbacks only update the row's
\* report columns.
TwilioStatusCallback(c, t) ==
    /\ twilio[c] = "failed" /\ "telnyx" \in SmsProviders
    /\ replay[t] = NoReplay
    /\ replay' = [replay EXCEPT ![t] = [pc |-> "claim", of |-> c, tries |-> 1]]
    /\ CallsOnly
    /\ UNCHANGED <<twilio, logRow, reach, smsFaults>>

\* Mutant: the update does not look at fallback_attempted_at.
ClaimAnyway(t) ==
    /\ replay[t].pc = "claim"
    /\ LET c == replay[t].of
       IN  IF logRow[c] # "none"
           THEN /\ logRow' = [logRow EXCEPT ![c] = "claimed"]
                /\ replay' = [replay EXCEPT ![t].pc = "send"]
           ELSE /\ replay' = IF replay[t].tries < ClaimAttempts
                             THEN [replay EXCEPT ![t].tries = @ + 1]
                             ELSE [replay EXCEPT ![t] = NoReplay]
                /\ UNCHANGED logRow
    /\ CallsOnly
    /\ UNCHANGED <<twilio, reach, smsFaults>>

\* claim_telnyx_delivery_fallback_with_retry: the row may not be there yet.
ClaimTelnyxDeliveryFallback(t) ==
    /\ replay[t].pc = "claim"
    /\ LET c == replay[t].of
       IN  IF logRow[c] = "open"
           THEN /\ logRow' = [logRow EXCEPT ![c] = "claimed"]
                /\ replay' = [replay EXCEPT ![t].pc = "send"]
           ELSE /\ replay' = IF replay[t].tries < ClaimAttempts
                             THEN [replay EXCEPT ![t].tries = @ + 1]
                             ELSE [replay EXCEPT ![t] = NoReplay]
                /\ UNCHANGED logRow
    /\ CallsOnly
    /\ UNCHANGED <<twilio, reach, smsFaults>>

\* The update fails, which ends the task.
ReplayClaimFails(t) ==
    /\ replay[t].pc = "claim"
    /\ SmsFault
    /\ replay' = [replay EXCEPT ![t] = NoReplay]
    /\ CallsOnly
    /\ UNCHANGED <<twilio, logRow, reach>>

\* The rest of attempt_telnyx_delivery_fallback: a body or a user that cannot be
\* read, or a refusal, is recorded and nothing is tried again.
SendReplay(t, taken) ==
    /\ replay[t].pc = "send"
    /\ reach' = [reach EXCEPT ![replay[t].of] = IF taken THEN @ \union {t} ELSE @]
    /\ replay' = [replay EXCEPT ![t] = NoReplay]
    /\ CallsOnly
    /\ UNCHANGED <<twilio, logRow, smsFaults>>

\* delete_old_message_status_logs, thirty days later.
PurgeLogRow(c) ==
    /\ hookCall[c].pc = "done" /\ logRow[c] # "none"
    /\ logRow' = [logRow EXCEPT ![c] = "none"]
    /\ CallsOnly
    /\ UNCHANGED <<twilio, replay, reach, smsFaults>>

\* A restart loses the calls and the replays under way.  A provider that is being
\* asked may have taken the text, as when the call is cancelled; a replay is sent
\* first and lost after.
RestartSms ==
    /\ SmsFault
    /\ \E taken \in [HookCalls -> SUBSET SmsProviders] :
          /\ \A c \in HookCalls : \A p, q \in taken[c] :
                p = q /\ hookCall[c].pc = "send" /\ p \in hookCall[c].left
          /\ reach' = [c \in HookCalls |-> reach[c] \union taken[c]]
          /\ twilio' = [c \in HookCalls |-> IF "twilio" \in taken[c] THEN "taken" ELSE twilio[c]]
    /\ hookCall' = [c \in HookCalls |-> IF hookCall[c].pc = "idle" THEN hookCall[c]
                                        ELSE [hookCall[c] EXCEPT !.pc = "done", !.left = {}]]
    /\ replay' = [t \in Replays |-> NoReplay]
    /\ UNCHANGED <<hookToken, hookKey, logRow, window, doubted>>

CallStep(c) ==
    \/ WebhookSms(c) \/ ReserveIdempotencyKey(c)
    \/ \E v \in {"allowed", "suppressed", "refused"} : CheckUser(c, v)
    \/ CheckBreaksOff(c) \/ ClaimSendSlot(c) \/ ClaimFails(c)
    \/ \E p \in SmsProviders :
          \/ ProviderAccepts(c, p) \/ ProviderRefuses(c, p) \/ AnswerLost(c, p)
          \/ \E took \in BOOLEAN : SendCancelled(c, p, took)
    \/ \E w \in BOOLEAN :
          LogMessageStatus(c, w) \/ CompleteIdempotency(c, w) \/ ReleaseIdempotency(c, w)

SmsNext ==
    \/ \E c \in HookCalls :
          \/ CallStep(c) \/ PurgeLogRow(c)
          \/ \E how \in {"failed", "optout"} : TwilioFails(c, how)
          \/ \E t \in Replays : TwilioStatusCallback(c, t)
    \/ \E t \in Replays :
          \/ ClaimTelnyxDeliveryFallback(t) \/ ReplayClaimFails(t)
          \/ \E taken \in BOOLEAN : SendReplay(t, taken)
    \/ \E k \in HookKeys : HookKeyAges(k)
    \/ RevokeToken \/ Midnight \/ RestartSms

SmsSpec == SmsInit /\ [][SmsNext]_smsVars

-----------------------------------------------------------------------------
(* Properties                                                              *)

\* At most one copy of a text can reach the user, counting the copies of all
\* calls with one idempotency key within a day (webhook_sms: "retried requests
\* don't duplicate the SMS") and the replays of a text that Twilio failed,
\* however often Twilio reports it (claim_telnyx_delivery_fallback: duplicate
\* callbacks do not send the fallback more than once).  The exception is a
\* provider that takes a text and answers with an error, after which the router
\* goes on to the next one.
TextReachesOnce ==
    /\ \A c \in HookCalls \ doubted : Cardinality(reach[c]) <= 1
    /\ \A k \in HookKeys : window[k] \intersect doubted = {}
          => Cardinality({c \in window[k] : reach[c] # {}}) <= 1

=============================================================================
