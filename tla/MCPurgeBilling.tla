---------------------------- MODULE MCPurgeBilling ----------------------------
(***************************************************************************)
(* EventPurge and BillingAccount for TLC.  They share no table and no      *)
(* task, so each is explored with the other at rest; "part", chosen in     *)
(* Init, says which mixture of steps a behaviour is made of.               *)
(*   boundaries   two new payloads, one fault, no room history, no lost    *)
(*                answers, no redactions                                   *)
(*   legacy       a room with a stored past and a new event of any kind,   *)
(*                no room history, no faults                               *)
(*   histories    both sources of histories, payloads behind blockers; a   *)
(*                second fault only to deliver an event a period late      *)
(*   both         one event of any kind, boundaries and histories, no      *)
(*                faults                                                   *)
(*   provision    two provisioning invocations for a user who has not      *)
(*                opted in before                                          *)
(*   optin        the same for a user who has                              *)
(*   webhook      one, with two deliveries of a payment that failed        *)
(*   check        one, of a user who had opted in, with one delivery of    *)
(*                any event and a check of the entitlement                 *)
(***************************************************************************)
EXTENDS EventPurge, BillingAccount

CONSTANTS
    Parts,   \* the parts explored
    Solo     \* the one invocation, and the one delivery, of the mixtures

PurgeParts == {"boundaries", "legacy", "histories", "both"}
BillingParts == {"provision", "optin", "webhook", "check"}
ASSUME PartsAssumption == Parts \subseteq PurgeParts \cup BillingParts

VARIABLE part

mcVars == <<purgeVars, billingVars, part>>

-----------------------------------------------------------------------------
(* The purge                                                               *)

NoHistories == \A s \in Sources : hist[s] = NoHistory

LateDelivery == late # {} \/ \E e \in Events : handler[e] = "arrived" /\ arrived[e] < now

InPart ==
    CASE part = "boundaries" -> NoHistories /\ stray = {} /\ faults < 2
      [] part = "legacy" -> NoHistories /\ faults = 0
      [] part = "histories" -> /\ \A e \in Events : /\ row[e].status \in {"none", "ingest_failed"}
                                                    /\ handler[e] # "marked"
                               /\ faults < 2 \/ LateDelivery
      [] part = "both" -> /\ faults = 0 /\ now < MaxTime
                          /\ \A e \in Events : e > 1 => handler[e] = "none"

PurgePart ==
    /\ part \in PurgeParts
    /\ PurgeNext
    /\ part = "boundaries" => stored \subseteq stored'
    /\ UNCHANGED <<billingVars, part>>
    /\ InPart'

PurgeStart ==
    /\ PurgeInit
    /\ stored = {} <=> part # "legacy"
    /\ part # "legacy" => ~forced
    /\ \A e \in Events : \/ class[e] = "payload"
                         \/ part = "legacy"
                         \/ part = "both" /\ e = 1

-----------------------------------------------------------------------------
(* The billing account                                                     *)

\* A read of the status starts what a new subscription starts, under a guard.
Unread == \A p \in Provs : prov[p].caller # "status"

BillingPart ==
    /\ \/ part \in {"provision", "optin"} /\ \E p \in Provs : ProvisionStep(p)
       \/ part \in {"webhook", "check"} /\ (\E p \in Provs \cap Solo : ProvisionStep(p)) /\ Unread'
       \/ part = "webhook" /\ WebhookStep
       \/ part = "check" /\ (CheckStep \/ \E d \in Deliveries \cap Solo : DeliveryStep(d))
    /\ UNCHANGED <<purgeVars, part>>

BillingStart ==
    /\ BillingInit
    /\ legacyOptIn <=> part \in {"optin", "check"}
    \* An action changes what an unpaid event changes, a warning what another does.
    /\ \A e \in Hooks : hookKind[e] \in
          CASE part = "check" -> Kinds \ {"action", "warning"}
            [] part = "webhook" -> {"unpaid"}
            [] OTHER -> {"other"}

-----------------------------------------------------------------------------

Init == part \in Parts /\ PurgeStart /\ BillingStart
Next == PurgePart \/ BillingPart
Spec == Init /\ [][Next]_mcVars

=============================================================================
