---------------------------- MODULE LightToolPush ----------------------------
(***************************************************************************)
(* The push side of the Light Tool: a device's registered endpoint, its    *)
(* row in the outbox, and the one worker that delivers due rows.           *)
(*                                                                         *)
(* A row only says that the conversation changed; further changes raise    *)
(* its version.  The worker claims every due row under a lease, delivers   *)
(* the claimed rows concurrently and claims again when all are settled.    *)
(* Seconds are abstracted: a row is due or waits for its next attempt, and *)
(* its lease is held or has run out.                                       *)
(***************************************************************************)
EXTENDS LightToolDevices

CONSTANTS Endpoints, NoEndpoint

ASSUME EndpointsAssumption == NoEndpoint \notin Endpoints

VARIABLES
    endpoint,    \* light_tool_push_registrations
    outbox,      \* light_tool_push_outbox
    delivery,    \* the worker's delivery of each device's claimed row
    owed,        \* history: a change was queued that no push has announced yet
    refused      \* history: the endpoints that have answered 404 or 410

pushVars == <<endpoint, outbox, delivery, owed, refused>>

Event == [present : BOOLEAN, version : Nat, leased : BOOLEAN, due : BOOLEAN]
NoEvent == [present |-> FALSE, version |-> 0, leased |-> FALSE, due |-> FALSE]
FirstEvent == [present |-> TRUE, version |-> 1, leased |-> FALSE, due |-> TRUE]

DeliveryStep == {"idle", "claimed", "posting", "gone", "settled", "retry"}
Delivery == [pc : DeliveryStep, version : Nat, to : Endpoints \cup {NoEndpoint}]
NoDelivery == [pc |-> "idle", version |-> 0, to |-> NoEndpoint]

-----------------------------------------------------------------------------
(* Outbox repository. *)

\* enqueue_conversation_changed: the row keeps its lease and its next attempt.
NewerEvent(event) == [event EXCEPT !.version = event.version + 1]

EnqueueEvent(d) ==
    outbox' = [outbox EXCEPT ![d] = IF @.present THEN NewerEvent(@) ELSE FirstEvent]

EnqueueConversationChanged(d) ==
    /\ EnqueueEvent(d)
    /\ owed' = [owed EXCEPT ![d] = TRUE]
    /\ UNCHANGED <<endpoint, delivery, refused>>

RowIsDue(d) == outbox[d].present /\ outbox[d].due /\ ~outbox[d].leased

\* Mutant: the row is deleted whatever its version.
SameVersionIgnored(d) == outbox[d].present

\* complete and schedule_retry touch the row only at the version that was claimed.
SameVersion(d) == outbox[d].present /\ outbox[d].version = delivery[d].version

-----------------------------------------------------------------------------
(* The device's endpoint. *)

Register(d, e) ==
    /\ endpoint' = [endpoint EXCEPT ![d] = e]
    /\ UNCHANGED <<outbox, delivery, owed, refused>>

Unregister(d) ==
    /\ endpoint' = [endpoint EXCEPT ![d] = NoEndpoint]
    /\ UNCHANGED <<outbox, delivery, owed, refused>>

-----------------------------------------------------------------------------
(* The worker: process_due_once. *)

\* claim_due: one transaction over every due row.
ClaimDue ==
    /\ \A d \in Devices : delivery[d].pc = "idle"
    /\ \E d \in Devices : RowIsDue(d)
    /\ outbox' = [d \in Devices |->
                     IF RowIsDue(d) THEN [outbox[d] EXCEPT !.leased = TRUE] ELSE outbox[d]]
    /\ delivery' = [d \in Devices |->
                       IF RowIsDue(d)
                       THEN [pc |-> "claimed", version |-> outbox[d].version, to |-> NoEndpoint]
                       ELSE NoDelivery]
    /\ UNCHANGED <<endpoint, owed, refused>>

\* The registration is read; a device without one has nothing to be told.
FindEndpoint(d) ==
    /\ delivery[d].pc = "claimed"
    /\ delivery' = [delivery EXCEPT ![d].pc =
                        IF endpoint[d] = NoEndpoint THEN "settled" ELSE "posting",
                                    ![d].to = endpoint[d]]
    /\ owed' = [owed EXCEPT ![d] = @ /\ endpoint[d] # NoEndpoint]
    /\ UNCHANGED <<endpoint, outbox, refused>>

\* The registration cannot be read, or its host is not allowed.
FindEndpointFails(d) ==
    /\ delivery[d].pc = "claimed"
    /\ delivery' = [delivery EXCEPT ![d].pc = "retry"]
    /\ UNCHANGED <<endpoint, outbox, owed, refused>>

\* The POST: answered with success, or with 404 or 410.
PostAnswered(d) ==
    /\ delivery[d].pc = "posting"
    /\ \E answer \in {"settled", "gone"} :
           delivery' = [delivery EXCEPT ![d].pc = answer]
    /\ owed' = [owed EXCEPT ![d] = FALSE]
    /\ refused' = IF delivery'[d].pc = "gone"
                  THEN [refused EXCEPT ![d] = @ \cup {delivery[d].to}] ELSE refused
    /\ UNCHANGED <<endpoint, outbox>>

\* Any other status, a connection error or the timeout: the push may or may
\* not have arrived.
PostFails(d) ==
    /\ delivery[d].pc = "posting"
    /\ delivery' = [delivery EXCEPT ![d].pc = "retry"]
    /\ owed' \in {owed, [owed EXCEPT ![d] = FALSE]}
    /\ UNCHANGED <<endpoint, outbox, refused>>

\* Mutant: delete_for_device instead of the guarded delete.
SameEndpointIgnored(d) == TRUE

SameEndpoint(d) == endpoint[d] = delivery[d].to

\* delete_for_device_if_endpoint_hash
ForgetEndpoint(d) ==
    /\ delivery[d].pc = "gone"
    /\ endpoint' = [endpoint EXCEPT ![d] = IF SameEndpoint(d) THEN NoEndpoint ELSE @]
    /\ delivery' = [delivery EXCEPT ![d].pc = "settled"]
    /\ UNCHANGED <<outbox, owed, refused>>

CompleteEvent(d) ==
    /\ delivery[d].pc = "settled"
    /\ outbox' = [outbox EXCEPT ![d] = IF SameVersion(d) THEN NoEvent ELSE @]
    /\ delivery' = [delivery EXCEPT ![d] = NoDelivery]
    /\ UNCHANGED <<endpoint, owed, refused>>

\* Mutant: a failed delivery is discarded.
ScheduleNoRetry(d) ==
    /\ delivery[d].pc = "retry"
    /\ outbox' = [outbox EXCEPT ![d] = IF SameVersion(d) THEN NoEvent ELSE @]
    /\ delivery' = [delivery EXCEPT ![d] = NoDelivery]
    /\ UNCHANGED <<endpoint, owed, refused>>

ScheduleRetry(d) ==
    /\ delivery[d].pc = "retry"
    /\ outbox' = [outbox EXCEPT ![d] =
                     IF SameVersion(d) THEN [@ EXCEPT !.leased = FALSE, !.due = FALSE] ELSE @]
    /\ delivery' = [delivery EXCEPT ![d] = NoDelivery]
    /\ UNCHANGED <<endpoint, owed, refused>>

\* A failed delete or update is logged; a failed guarded delete is retried.
DeliveryFault(d) ==
    /\ delivery[d].pc \in {"gone", "settled", "retry"}
    /\ delivery' = [delivery EXCEPT ![d] =
                       IF @.pc = "gone" THEN [@ EXCEPT !.pc = "retry"] ELSE NoDelivery]
    /\ UNCHANGED <<endpoint, outbox, owed, refused>>

\* next_attempt_at is reached.
RetryComesDue(d) ==
    /\ outbox[d].present /\ ~outbox[d].due
    /\ outbox' = [outbox EXCEPT ![d].due = TRUE]
    /\ UNCHANGED <<endpoint, delivery, owed, refused>>

\* lease_until is reached: 120 seconds, more than the deliveries of a batch take.
PushLeaseExpires(d) ==
    /\ outbox[d].leased /\ delivery[d].pc = "idle"
    /\ outbox' = [outbox EXCEPT ![d].leased = FALSE]
    /\ UNCHANGED <<endpoint, delivery, owed, refused>>

-----------------------------------------------------------------------------
PushInit ==
    /\ endpoint = [d \in Devices |-> NoEndpoint]
    /\ outbox = [d \in Devices |-> NoEvent]
    /\ delivery = [d \in Devices |-> NoDelivery]
    /\ owed = [d \in Devices |-> FALSE]
    /\ refused = [d \in Devices |-> {}]

PushTypeOK ==
    /\ endpoint \in [Devices -> Endpoints \cup {NoEndpoint}]
    /\ outbox \in [Devices -> Event]
    /\ delivery \in [Devices -> Delivery]
    /\ owed \in [Devices -> BOOLEAN]
    /\ refused \in [Devices -> SUBSET (Endpoints \cup {NoEndpoint})]

Deliver(d) ==
    \/ FindEndpoint(d) \/ FindEndpointFails(d)
    \/ PostAnswered(d) \/ PostFails(d)
    \/ ForgetEndpoint(d) \/ CompleteEvent(d) \/ ScheduleRetry(d)

PushStep ==
    \/ ClaimDue
    \/ \E d \in Devices :
           \/ Deliver(d) \/ Unregister(d) \/ RetryComesDue(d) \/ PushLeaseExpires(d)
           \/ \E e \in Endpoints : Register(d, e)

-----------------------------------------------------------------------------
(* Properties of push delivery. *)

\* A change that was queued is announced or still in the outbox: settling the
\* delivery of an older version never discards a newer change.
NoChangeLost == \A d \in Devices : owed[d] => outbox[d].present

\* The backend forgets an endpoint only if that endpoint itself has answered
\* 404 or 410 before: one that a phone registers while a push to its previous
\* endpoint is under way is not taken away by that push's late answer.
\* (Registering the refused endpoint itself again does not save it.)
ForgottenWasRefused ==
    [][\A d \in Devices : endpoint'[d] # endpoint[d] =>
          \/ endpoint[d] \in refused[d]
          \/ Unregister(d) \/ \E e \in Endpoints : Register(d, e)]_pushVars

\* Every queued change is announced, or settled for a device that cannot be
\* told, provided the worker runs, waits end and not every attempt fails.
ChangesArrive == \A d \in Devices : owed[d] ~> ~owed[d]
=============================================================================
