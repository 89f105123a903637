--------------------------- MODULE BillingAccount ---------------------------
(***************************************************************************)
(* The billing account of one user: provisioning at the metering provider  *)
(* (Metronome), the overage switch, the provider's webhooks and the        *)
(* entitlement check.  Every exchange with the provider or with Stripe is  *)
(* an await: what the provider does and what the caller writes afterwards  *)
(* are separate steps, and any of them may be the last one.                *)
(***************************************************************************)
EXTENDS Naturals, FiniteSets

CONSTANTS
    Provs,        \* invocations of provision_user that may run at once
    Hooks,        \* webhook events, by id
    Deliveries,   \* requests delivering a webhook
    NoHook,
    MaxSwitches   \* requests of the user to switch overage

ASSUME HooksAssumption == NoHook \notin Hooks
ASSUME MaxSwitchesAssumption == MaxSwitches \in Nat

VARIABLES
    acct,        \* the row of billing_accounts
    legacyOptIn, \* users.charge_when_under
    meter,       \* the provider: contract, spend threshold, imported credit
    funds,       \* the provider's balance is above zero
    prov,        \* [Provs -> invocation]
    hookKind,    \* what each webhook event says
    hookRow,     \* billing_webhook_events
    delivery,    \* [Deliveries -> request]
    check,       \* has_usage_entitlement of one request
    switches,    \* requests to switch overage so far
    choice,      \* history: the user's last completed choice
    consented    \* history: the user has once agreed to overage

billingVars == <<acct, legacyOptIn, meter, funds, prov, hookKind, hookRow,
                 delivery, check, switches, choice, consented>>

Kinds == {"paid", "unpaid", "action", "resolved", "exhausted", "warning", "other",
          "anonymous"}

Account == [status : {"pending", "provisioned", "failed"}, known : BOOLEAN,
            overage : BOOLEAN, ready : BOOLEAN, entitled : BOOLEAN,
            prefMigrated : BOOLEAN, creditMigrated : BOOLEAN]

\* What provision_user keeps of the account it has read.
Seen == [status : {"pending", "provisioned", "failed"}, ready : BOOLEAN,
         prefMigrated : BOOLEAN, creditMigrated : BOOLEAN]
See(a) == [status |-> a.status, ready |-> a.ready, prefMigrated |-> a.prefMigrated,
           creditMigrated |-> a.creditMigrated]

Invocation == [pc : {"idle", "create", "threshold", "mark", "credit", "credited",
                     "ready", "pref", "prefdone", "switch", "switched"},
               caller : {"job", "status", "stripe", "on", "off"}, snap : Seen]

Request == [pc : {"idle", "lookup", "apply", "entitle", "overage", "complete"},
            hook : Hooks \cup {NoHook},
            overage : BOOLEAN, ready : BOOLEAN]

BillingTypeOK ==
    /\ acct \in Account
    /\ legacyOptIn \in BOOLEAN /\ funds \in BOOLEAN /\ consented \in BOOLEAN
    /\ meter \in [contract : BOOLEAN, threshold : BOOLEAN, credit : BOOLEAN]
    /\ prov \in [Provs -> Invocation]
    /\ hookKind \in [Hooks -> Kinds]
    /\ hookRow \in [Hooks -> [status : {"none", "processing", "processed", "failed"},
                              leased : BOOLEAN, overran : BOOLEAN]]
    /\ delivery \in [Deliveries -> Request]
    /\ check \in [pc : {"idle", "asked", "served"}, known : BOOLEAN, paying : BOOLEAN,
                 balance : BOOLEAN]
    /\ switches \in 0..MaxSwitches
    /\ choice \in {"none", "on", "off"}

NewAccount == [status |-> "pending", known |-> FALSE, overage |-> FALSE, ready |-> FALSE,
               entitled |-> TRUE, prefMigrated |-> FALSE, creditMigrated |-> FALSE]
Idle == [pc |-> "idle", caller |-> "job", snap |-> See(NewAccount)]
NoRequest == [pc |-> "idle", hook |-> NoHook, overage |-> FALSE, ready |-> FALSE]
NoCheck == [pc |-> "idle", known |-> FALSE, paying |-> FALSE, balance |-> FALSE]

BillingInit ==
    /\ acct = NewAccount
    /\ legacyOptIn \in BOOLEAN
    /\ consented = legacyOptIn
    /\ meter = [contract |-> FALSE, threshold |-> FALSE, credit |-> FALSE]
    /\ funds = TRUE
    /\ prov = [p \in Provs |-> Idle]
    /\ hookKind \in [Hooks -> Kinds]
    /\ hookRow = [e \in Hooks |-> [status |-> "none", leased |-> FALSE, overran |-> FALSE]]
    /\ delivery = [d \in Deliveries |-> NoRequest]
    /\ check = NoCheck
    /\ switches = 0
    /\ choice = "none"

ProvOnly == UNCHANGED <<legacyOptIn, funds, hookKind, hookRow, delivery, check>>
Goto(p, pc) == prov' = [prov EXCEPT ![p].pc = pc]

-----------------------------------------------------------------------------
(* provision_user                                                          *)

\* Which step an invocation on a provisioned account begins with: the credit
\* import, the payment check, the overage preference, or none of them.
AfterCredit(a) == IF a.ready THEN "pref" ELSE "ready"
FirstStep(a) ==
    IF a.status # "provisioned" THEN "create"
    ELSE IF ~a.creditMigrated THEN "credit" ELSE AfterCredit(a)

\* update_overage goes on where provision_user returned account a, the others
\* are done.
Return(p, a) ==
    prov' = [prov EXCEPT ![p] =
        IF prov[p].caller = "off" \/ (prov[p].caller = "on" /\ a.ready)
        THEN [@ EXCEPT !.pc = "switch", !.snap = See(NewAccount)] ELSE Idle]

\* migrate_legacy_overage_preference is called with a freshly read account.
ToPreference(p, a) ==
    IF a.prefMigrated THEN Return(p, a)
    ELSE prov' = [prov EXCEPT ![p] = [@ EXCEPT !.pc = "pref", !.snap = See(a)]]

\* The scheduler's job, get_overage_status and the webhook of a new Stripe
\* subscription start an invocation; get_overage_status only while something
\* is missing.
StartProvision(p, caller) ==
    /\ prov[p].pc = "idle"
    /\ caller = "status" => (acct.status # "provisioned" \/ ~acct.ready)
    /\ LET q == [pc |-> FirstStep(acct), caller |-> caller, snap |-> See(acct)]
       IN  IF q.pc = "pref" /\ acct.prefMigrated
           THEN prov' = [prov EXCEPT ![p] = Idle]
           ELSE prov' = [prov EXCEPT ![p] = q]
    /\ ProvOnly
    /\ UNCHANGED <<acct, meter, switches, choice, consented>>

\* update_overage: enabling needs the current consent text.
RequestSwitch(p, want) ==
    /\ prov[p].pc = "idle"
    /\ switches < MaxSwitches
    /\ switches' = switches + 1
    /\ consented' = (consented \/ want = "on")
    /\ LET pc == FirstStep(acct)
       IN  prov' = [prov EXCEPT ![p] =
             IF pc = "pref" /\ acct.prefMigrated
             THEN [pc |-> "switch", caller |-> want, snap |-> See(NewAccount)]
             ELSE [pc |-> pc, caller |-> want, snap |-> See(acct)]]
    /\ ProvOnly
    /\ UNCHANGED <<acct, meter, choice>>

\* The Stripe check, create_customer and create_contract: a new contract may
\* carry an enabled threshold, an old one is found again by its alias and key.
CreateContract(p, ready) ==
    /\ prov[p].pc = "create"
    /\ meter' = [meter EXCEPT !.contract = TRUE,
                              !.threshold = IF meter.contract THEN @ ELSE TRUE]
    /\ prov' = [prov EXCEPT ![p].pc = "threshold", ![p].snap.ready = ready]
    /\ ProvOnly
    /\ UNCHANGED <<acct, switches, choice, consented>>

\* Mutant: the package's default threshold is left as it is.
DisableThresholdSkipped(p) ==
    /\ prov[p].pc = "threshold"
    /\ Goto(p, "mark")
    /\ ProvOnly
    /\ UNCHANGED <<acct, meter, switches, choice, consented>>

DisableThreshold(p) ==
    /\ prov[p].pc = "threshold"
    /\ meter' = [meter EXCEPT !.threshold = FALSE]
    /\ Goto(p, "mark")
    /\ ProvOnly
    /\ UNCHANGED <<acct, switches, choice, consented>>

\* mark_provisioned; an account whose credit is imported goes on to the
\* preference, with the account read again.
MarkProvisioned(p) ==
    /\ prov[p].pc = "mark"
    /\ acct' = [acct EXCEPT !.status = "provisioned", !.known = TRUE,
                            !.ready = prov[p].snap.ready]
    /\ IF prov[p].snap.creditMigrated THEN ToPreference(p, acct') ELSE Goto(p, "credit")
    /\ ProvOnly
    /\ UNCHANGED <<meter, switches, choice, consented>>

\* migrate_legacy_credit: the provider's uniqueness key makes it happen once.
ImportCredit(p) ==
    /\ prov[p].pc = "credit"
    /\ meter' = [meter EXCEPT !.credit = TRUE]
    /\ Goto(p, "credited")
    /\ ProvOnly
    /\ UNCHANGED <<acct, switches, choice, consented>>

\* An account that was provisioned when the invocation began is checked for a
\* payment method next; a new one has just been.
MarkCredit(p) ==
    /\ prov[p].pc = "credited"
    /\ acct' = [acct EXCEPT !.creditMigrated = TRUE]
    /\ IF prov[p].snap.status = "provisioned"
       THEN IF prov[p].snap.ready THEN ToPreference(p, prov[p].snap) ELSE Goto(p, "ready")
       ELSE ToPreference(p, acct')
    /\ ProvOnly
    /\ UNCHANGED <<meter, switches, choice, consented>>

CheckPayment(p, ready) ==
    /\ prov[p].pc = "ready"
    /\ acct' = [acct EXCEPT !.ready = ready]
    /\ ToPreference(p, acct')
    /\ ProvOnly
    /\ UNCHANGED <<meter, switches, choice, consented>>

\* An opt-in without a payment method keeps overage off and is tried again.
PreferenceTarget(a) == legacyOptIn /\ a.ready

MovePreference(p) ==
    /\ prov[p].pc = "pref"
    /\ meter' = [meter EXCEPT !.threshold = PreferenceTarget(prov[p].snap)]
    /\ Goto(p, "prefdone")
    /\ ProvOnly
    /\ UNCHANGED <<acct, switches, choice, consented>>

MarkPreference(p) ==
    /\ prov[p].pc = "prefdone"
    /\ acct' = IF legacyOptIn /\ ~prov[p].snap.ready THEN acct
               ELSE [acct EXCEPT !.overage = legacyOptIn, !.prefMigrated = TRUE]
    /\ Return(p, IF acct' = acct THEN prov[p].snap ELSE acct')
    /\ ProvOnly
    /\ UNCHANGED <<meter, switches, choice, consented>>

\* The rest of update_overage.
SwitchThreshold(p) ==
    /\ prov[p].pc = "switch"
    /\ meter' = [meter EXCEPT !.threshold = (prov[p].caller = "on")]
    /\ Goto(p, "switched")
    /\ ProvOnly
    /\ UNCHANGED <<acct, switches, choice, consented>>

\* set_overage and set_usage_entitled, with no await between the two writes.
MarkSwitch(p) ==
    /\ prov[p].pc = "switched"
    /\ acct' = [acct EXCEPT !.overage = (prov[p].caller = "on"), !.prefMigrated = TRUE,
                            !.entitled = @ \/ prov[p].caller = "on"]
    /\ choice' = prov[p].caller
    /\ prov' = [prov EXCEPT ![p] = Idle]
    /\ ProvOnly
    /\ UNCHANGED <<meter, switches, consented>>

\* Mutant: the failure is recorded under a status no reader knows.
ProvisionFailsUnknown(p) ==
    /\ prov[p].pc \notin {"idle", "ready"}
    /\ acct' = [acct EXCEPT !.status = "error"]
    /\ prov' = [prov EXCEPT ![p] = Idle]
    /\ ProvOnly
    /\ UNCHANGED <<meter, switches, choice, consented>>

\* A call fails, before or after the provider served it, or the answer is lost.
\* provision_subscribers records it on the account, the handlers only answer.
ProvisionFails(p) ==
    /\ prov[p].pc \notin {"idle", "ready"}
    /\ acct' = IF prov[p].caller = "job" THEN [acct EXCEPT !.status = "failed"] ELSE acct
    /\ prov' = [prov EXCEPT ![p] = Idle]
    /\ ProvOnly
    /\ UNCHANGED <<meter, switches, choice, consented>>

ProvisionStep(p) ==
    \/ \E caller \in {"job", "status", "stripe"} : StartProvision(p, caller)
    \/ \E want \in {"on", "off"} : RequestSwitch(p, want)
    \/ \E ready \in BOOLEAN : CreateContract(p, ready) \/ CheckPayment(p, ready)
    \/ DisableThreshold(p) \/ MarkProvisioned(p) \/ ImportCredit(p) \/ MarkCredit(p)
    \/ MovePreference(p) \/ MarkPreference(p) \/ SwitchThreshold(p) \/ MarkSwitch(p)
    \/ ProvisionFails(p)

-----------------------------------------------------------------------------
(* metronome_webhook                                                       *)

HookOnly == UNCHANGED <<legacyOptIn, meter, funds, prov, hookKind, check, switches,
                        choice, consented>>
Hook(d) == delivery[d].hook

\* Mutant: the lease of a delivery at work is not looked at.
ClaimWebhookBusy(d, e) ==
    /\ delivery[d].pc = "idle"
    /\ hookRow[e].status # "processed"
    /\ hookRow' = [hookRow EXCEPT ![e].status = "processing", ![e].leased = TRUE]
    /\ delivery' = [delivery EXCEPT ![d] = [NoRequest EXCEPT !.pc = "lookup", !.hook = e]]
    /\ HookOnly
    /\ UNCHANGED acct

\* claim_webhook inserts the row, or takes over one that is not processed and
\* whose lease is over; a busy or processed one is answered at once.
ClaimWebhook(d, e) ==
    /\ delivery[d].pc = "idle"
    /\ hookRow[e].status # "processed" /\ ~hookRow[e].leased
    /\ hookRow' = [hookRow EXCEPT ![e].status = "processing", ![e].leased = TRUE]
    /\ delivery' = [delivery EXCEPT ![d] = [NoRequest EXCEPT !.pc = "lookup", !.hook = e]]
    /\ HookOnly
    /\ UNCHANGED acct

\* The account is found by the provider's customer id; until provisioning has
\* stored that, the delivery fails and is to be repeated.  An event about no
\* customer needs nothing.
LookupAccount(d) ==
    /\ delivery[d].pc = "lookup"
    /\ IF hookKind[Hook(d)] = "anonymous" \/ acct.known
       THEN /\ delivery' = [delivery EXCEPT ![d].overage = acct.overage,
                   ![d].ready = acct.ready, ![d].pc = IF hookKind[Hook(d)] = "anonymous" THEN "complete" ELSE "apply"]
            /\ UNCHANGED hookRow
       ELSE /\ delivery' = [delivery EXCEPT ![d] = NoRequest]
            /\ hookRow' = IF hookRow[Hook(d)].status = "processing"
                          THEN [hookRow EXCEPT ![Hook(d)].status = "failed",
                                               ![Hook(d)].leased = FALSE]
                          ELSE hookRow
    /\ HookOnly
    /\ UNCHANGED acct

\* The first write of each kind of event.
ApplyPayment(d) ==
    /\ hookKind[Hook(d)] \in {"paid", "unpaid", "action"}
    /\ acct' = [acct EXCEPT !.ready = (hookKind[Hook(d)] = "paid")]
    /\ delivery' = [delivery EXCEPT ![d].pc = "entitle"]

ApplyAlert(d) ==
    /\ hookKind[Hook(d)] \in {"resolved", "exhausted", "warning", "other"}
    /\ acct' = [acct EXCEPT !.entitled =
          CASE hookKind[Hook(d)] = "resolved" -> TRUE
            [] hookKind[Hook(d)] = "exhausted" ->
                   delivery[d].overage /\ delivery[d].ready
            [] OTHER -> @]
    /\ delivery' = [delivery EXCEPT ![d].pc = "complete"]

ApplyWebhook(d) ==
    /\ delivery[d].pc = "apply"
    /\ ApplyPayment(d) \/ ApplyAlert(d)
    /\ HookOnly
    /\ UNCHANGED hookRow

\* A payment event then writes the entitlement, from the overage it has read.
ApplyEntitlement(d) ==
    /\ delivery[d].pc = "entitle"
    /\ LET paid == hookKind[Hook(d)] = "paid"
       IN  /\ acct' = [acct EXCEPT !.entitled = paid /\ delivery[d].overage]
           /\ delivery' = [delivery EXCEPT ![d].pc = IF paid THEN "complete" ELSE "overage"]
    /\ HookOnly
    /\ UNCHANGED hookRow

ApplyOverage(d) ==
    /\ delivery[d].pc = "overage"
    /\ acct' = [acct EXCEPT !.overage = FALSE, !.prefMigrated = TRUE]
    /\ delivery' = [delivery EXCEPT ![d].pc = "complete"]
    /\ HookOnly
    /\ UNCHANGED hookRow

\* complete_webhook touches a row that is still in processing.
CompleteWebhook(d) ==
    /\ delivery[d].pc = "complete"
    /\ hookRow' = IF hookRow[Hook(d)].status = "processing"
                  THEN [hookRow EXCEPT ![Hook(d)].status = "processed", ![Hook(d)].leased = FALSE]
                  ELSE hookRow
    /\ delivery' = [delivery EXCEPT ![d] = NoRequest]
    /\ HookOnly
    /\ UNCHANGED acct

\* A read or a write fails: fail_webhook releases the row and the provider delivers again.
WebhookFails(d) ==
    /\ delivery[d].pc \in {"lookup", "apply", "entitle", "overage"}
    /\ delivery[d].pc = "lookup" => hookKind[Hook(d)] # "anonymous"
    /\ hookRow' = IF hookRow[Hook(d)].status = "processing"
                  THEN [hookRow EXCEPT ![Hook(d)].status = "failed", ![Hook(d)].leased = FALSE]
                  ELSE hookRow
    /\ delivery' = [delivery EXCEPT ![d] = NoRequest]
    /\ HookOnly
    /\ UNCHANGED acct

\* The request is gone with its process, or its lease runs out under it.
WebhookDies(d) ==
    /\ delivery[d].pc # "idle"
    /\ delivery' = [delivery EXCEPT ![d] = NoRequest]
    /\ HookOnly
    /\ UNCHANGED <<acct, hookRow>>

WebhookLeaseExpires(e) ==
    /\ hookRow[e].leased
    /\ hookRow' = [hookRow EXCEPT ![e].leased = FALSE,
          ![e].overran = @ \/ \E d \in Deliveries : Hook(d) = e]
    /\ HookOnly
    /\ UNCHANGED <<acct, delivery>>

DeliveryStep(d) ==
    \/ \E e \in Hooks : ClaimWebhook(d, e)
    \/ LookupAccount(d) \/ ApplyWebhook(d) \/ ApplyEntitlement(d)
    \/ ApplyOverage(d) \/ CompleteWebhook(d) \/ WebhookFails(d) \/ WebhookDies(d)

WebhookStep ==
    \/ \E d \in Deliveries : DeliveryStep(d)
    \/ \E e \in Hooks : WebhookLeaseExpires(e)

-----------------------------------------------------------------------------
(* has_usage_entitlement, called by check_user_credits before each action  *)

CheckOnly == UNCHANGED <<legacyOptIn, meter, prov, hookKind, hookRow, delivery,
                         switches, choice, consented>>

\* A cached entitlement is enough; otherwise the provider is asked.
ReadEntitlement ==
    /\ check.pc = "idle" /\ ~acct.entitled
    /\ check' = [pc |-> "asked", known |-> acct.known,
               paying |-> acct.overage /\ acct.ready, balance |-> FALSE]
    /\ CheckOnly
    /\ UNCHANGED <<acct, funds>>

ServeBalance ==
    /\ check.pc = "asked" /\ check.known
    /\ check' = [check EXCEPT !.pc = "served", !.balance = funds]
    /\ CheckOnly
    /\ UNCHANGED <<acct, funds>>

\* The flag is restored when the balance, or overage with a payment method,
\* allows it.
RestoreEntitlement ==
    /\ check.pc = "served"
    /\ acct' = [acct EXCEPT !.entitled =
                   @ \/ check.balance \/ check.paying]
    /\ check' = NoCheck
    /\ CheckOnly
    /\ UNCHANGED funds

\* The provider is down: the action is refused and the flag stays.
CheckFails ==
    /\ check.pc = "asked"
    /\ check' = NoCheck
    /\ CheckOnly
    /\ UNCHANGED <<acct, funds>>

\* Usage and the monthly credit at the provider.
BalanceMoves ==
    /\ funds' = ~funds
    /\ CheckOnly
    /\ UNCHANGED <<acct, check>>

CheckStep == ReadEntitlement \/ ServeBalance \/ RestoreEntitlement \/ CheckFails \/ BalanceMoves

BillingNext == (\E p \in Provs : ProvisionStep(p)) \/ WebhookStep \/ CheckStep
BillingSpec == BillingInit /\ [][BillingNext]_billingVars

-----------------------------------------------------------------------------
(* Properties                                                              *)

\* Nobody's overage is collected without consent: the contract's threshold is
\* on, once the account may send usage to it, only for a user who opted in
\* before the cutover or has agreed to the current terms (metronome_billing.rs
\* disables the package's default before the contract is exposed).
OverageNeedsConsent ==
    acct.overage \/ (acct.status = "provisioned" /\ meter.threshold) => consented

\* A webhook has one side-effect owner: two deliveries of one event work on it
\* at once only if the first one's lease ran out under it.
WebhookHasOneOwner ==
    \A d1, d2 \in Deliveries :
        d1 # d2 /\ Hook(d1) # NoHook /\ Hook(d1) = Hook(d2) => hookRow[Hook(d1)].overran

\* docs/METRONOME_BILLING.md: the migration marker prevents a later disable by
\* the user from being overwritten by the old legacy flag.
DisableIsKept ==
    [][choice = "off" /\ choice' = "off" /\ ~acct.overage => ~acct'.overage]_billingVars

=============================================================================
