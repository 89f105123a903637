------------------------ MODULE BillingAccountProofs ------------------------
(***************************************************************************)
(* Proofs about the billing account: what is recorded keeps its type, no   *)
(* overage is collected without consent and a webhook has one owner, for   *)
(* every number of provisioning invocations, webhooks and deliveries.      *)
(***************************************************************************)
EXTENDS BillingAccount, TLAPS

-----------------------------------------------------------------------------
(* Types                                                                   *)

Status == {"pending", "provisioned", "failed"}
HookRecord == [status : {"none", "processing", "processed", "failed"},
               leased : BOOLEAN, overran : BOOLEAN]

\* What a task remembers of the account, and the empty rows, have their types.
LEMMA SeeTyped ==
    /\ \A a \in Account : See(a) \in Seen
    /\ \A a \in Seen : See(a) \in Seen
    /\ NewAccount \in Account /\ See(NewAccount) \in Seen
    /\ Idle \in Invocation
  <1>1. \A a \in Account : See(a) \in Seen
    BY DEF See, Account, Seen
  <1>2. \A a \in Seen : See(a) \in Seen
    BY DEF See, Seen
  <1>3. NewAccount \in Account
    BY DEF NewAccount, Account
  <1>4. See(NewAccount) \in Seen
    BY <1>1, <1>3
  <1>5. Idle \in Invocation
    BY <1>4 DEF Idle, Invocation
  <1> QED  BY <1>1, <1>2, <1>3, <1>4, <1>5

\* Writing one invocation keeps the type of them all.
LEMMA ProvWritten ==
    ASSUME prov \in [Provs -> Invocation], NEW p \in Provs, NEW v \in Invocation
    PROVE  [prov EXCEPT ![p] = v] \in [Provs -> Invocation]
  OBVIOUS

Pcs == {"idle", "create", "threshold", "mark", "credit", "credited", "ready", "pref", "prefdone",
        "switch", "switched"}

\* Goto moves one invocation and keeps its other fields.
LEMMA GotoTyped ==
    ASSUME prov \in [Provs -> Invocation], NEW p \in Provs, NEW pc \in Pcs, Goto(p, pc)
    PROVE  /\ prov' \in [Provs -> Invocation]
           /\ prov' = [prov EXCEPT ![p] = [prov[p] EXCEPT !.pc = pc]]
  <1>1. [prov[p] EXCEPT !.pc = pc] \in Invocation
    BY DEF Invocation, Pcs
  <1> QED  BY <1>1, ProvWritten DEF Goto

\* Return ends the invocation or goes on to the switch of overage.
LEMMA ReturnTyped ==
    ASSUME prov \in [Provs -> Invocation], NEW p \in Provs, NEW a, Return(p, a)
    PROVE  \E v \in Invocation :
              /\ prov' = [prov EXCEPT ![p] = v]
              /\ v = Idle \/ (/\ v.pc = "switch" /\ v.caller = prov[p].caller
                              /\ v.caller \in {"on", "off"})
  <1> DEFINE v == IF prov[p].caller = "off" \/ (prov[p].caller = "on" /\ a.ready)
                  THEN [prov[p] EXCEPT !.pc = "switch", !.snap = See(NewAccount)] ELSE Idle
  <1>1. [prov[p] EXCEPT !.pc = "switch", !.snap = See(NewAccount)] \in Invocation
    BY SeeTyped DEF Invocation
  <1>2. v \in Invocation
    BY <1>1, SeeTyped
  <1>3. v = Idle \/ (/\ v.pc = "switch" /\ v.caller = prov[p].caller
                     /\ v.caller \in {"on", "off"})
    BY DEF Invocation
  <1>4. prov' = [prov EXCEPT ![p] = v]
    BY DEF Return
  <1> QED  BY <1>2, <1>3, <1>4

\* The preference step goes on, ends the invocation, or hands it to the switch.
LEMMA ToPreferenceTyped ==
    ASSUME prov \in [Provs -> Invocation], NEW p \in Provs, NEW a, See(a) \in Seen,
           ToPreference(p, a)
    PROVE  \E v \in Invocation :
              /\ prov' = [prov EXCEPT ![p] = v]
              /\ v = Idle \/ (/\ v.pc \in {"switch", "pref"} /\ v.caller = prov[p].caller
                              /\ v.pc = "switch" => v.caller \in {"on", "off"})
  <1>1. CASE a.prefMigrated
    BY <1>1, ReturnTyped DEF ToPreference
  <1>2. CASE ~a.prefMigrated
    <2> DEFINE v == [prov[p] EXCEPT !.pc = "pref", !.snap = See(a)]
    <2>1. v \in Invocation /\ v.pc = "pref" /\ v.caller = prov[p].caller
      BY DEF Invocation
    <2>2. prov' = [prov EXCEPT ![p] = v]
      BY <1>2 DEF ToPreference
    <2> QED  BY <2>1, <2>2
  <1> QED  BY <1>1, <1>2

Meter == [contract : BOOLEAN, threshold : BOOLEAN, credit : BOOLEAN]

\* The first thing a provisioning has to do is one of these.
LEMMA FirstStepTyped ==
    \A a \in Account : FirstStep(a) \in {"create", "credit", "ready", "pref"}
  BY DEF FirstStep, AfterCredit

\* The account row with other values of the right type.
LEMMA AccountTyped ==
    ASSUME NEW a \in Account, NEW s \in Status, NEW b \in BOOLEAN, NEW c \in BOOLEAN
    PROVE  /\ [a EXCEPT !.status = s] \in Account
           /\ [a EXCEPT !.ready = b] \in Account
           /\ [a EXCEPT !.entitled = b] \in Account
           /\ [a EXCEPT !.creditMigrated = b] \in Account
           /\ [a EXCEPT !.status = s, !.known = c, !.ready = b] \in Account
           /\ [a EXCEPT !.overage = b, !.prefMigrated = TRUE] \in Account
           /\ [a EXCEPT !.overage = b, !.prefMigrated = TRUE, !.entitled = c] \in Account
  <1>1. [a EXCEPT !.status = s] \in Account /\ [a EXCEPT !.ready = b] \in Account
    BY DEF Account, Status
  <1>2. [a EXCEPT !.entitled = b] \in Account /\ [a EXCEPT !.creditMigrated = b] \in Account
    BY DEF Account
  <1>3. [a EXCEPT !.status = s, !.known = c, !.ready = b] \in Account
    BY DEF Account, Status
  <1>4. [a EXCEPT !.overage = b, !.prefMigrated = TRUE] \in Account
    BY DEF Account
  <1>5. [a EXCEPT !.overage = b, !.prefMigrated = TRUE, !.entitled = c] \in Account
    BY DEF Account
  <1> QED  BY <1>1, <1>2, <1>3, <1>4, <1>5

\* The switch of overage is only reached by a request for it: an invocation of
\* the job, the status page or Stripe ends before.
SwitchInv ==
    \A p \in Provs : prov[p].pc \in {"switch", "switched"} => prov[p].caller \in {"on", "off"}

\* The types, and what they need to be inductive: choice records the caller of
\* a switch.
BillingTypes == BillingTypeOK /\ SwitchInv

\* What a step of invocation p may make of its record.
MovesTo(p, v) ==
    /\ v \in Invocation
    /\ prov' = [prov EXCEPT ![p] = v]
    /\ v.pc \in {"switch", "switched"} => v.caller \in {"on", "off"}
    /\ v.caller = "on" => prov[p].caller = "on" \/ consented'
    /\ v.pc = "threshold" => meter'.contract
    /\ v.pc = "mark" => prov[p].pc = "threshold" /\ meter' = [meter EXCEPT !.threshold = FALSE]

\* Goto is one of the moves of an invocation,
LEMMA GotoMoves ==
    ASSUME prov \in [Provs -> Invocation], NEW p \in Provs,
           NEW pc \in Pcs \ {"threshold", "mark", "switch"}, Goto(p, pc),
           pc = "switched" => prov[p].caller \in {"on", "off"}
    PROVE  \E v : MovesTo(p, v)
  <1> DEFINE v == [prov[p] EXCEPT !.pc = pc]
  <1>1. v \in Invocation /\ v.pc = pc /\ v.caller = prov[p].caller
    BY DEF Invocation, Pcs
  <1>2. prov' = [prov EXCEPT ![p] = v]
    BY GotoTyped DEF Pcs
  <1>3. MovesTo(p, v)
    BY <1>1, <1>2 DEF MovesTo
  <1> QED  BY <1>3

\* so is its end,
LEMMA IdleMoves ==
    ASSUME prov \in [Provs -> Invocation], NEW p \in Provs, prov' = [prov EXCEPT ![p] = Idle]
    PROVE  \E v : MovesTo(p, v)
  <1>1. Idle \in Invocation /\ Idle.pc = "idle" /\ Idle.caller = "job"
    BY SeeTyped DEF Idle
  <1>2. MovesTo(p, Idle)
    BY <1>1 DEF MovesTo
  <1> QED  BY <1>2

\* and so is its return, through the preference or not.
LEMMA ReturnMoves ==
    ASSUME prov \in [Provs -> Invocation], NEW p \in Provs, NEW a,
           Return(p, a) \/ (See(a) \in Seen /\ ToPreference(p, a))
    PROVE  \E v : MovesTo(p, v)
  <1>1. \E v \in Invocation :
              /\ prov' = [prov EXCEPT ![p] = v]
              /\ v = Idle \/ (/\ v.pc \in {"switch", "pref"} /\ v.caller = prov[p].caller
                              /\ v.pc = "switch" => v.caller \in {"on", "off"})
    BY ReturnTyped, ToPreferenceTyped
  <1>2. PICK v \in Invocation :
              /\ prov' = [prov EXCEPT ![p] = v]
              /\ v = Idle \/ (/\ v.pc \in {"switch", "pref"} /\ v.caller = prov[p].caller
                              /\ v.pc = "switch" => v.caller \in {"on", "off"})
    BY <1>1
  <1>3. CASE v = Idle
    BY <1>2, <1>3, IdleMoves
  <1>4. CASE /\ v.pc \in {"switch", "pref"} /\ v.caller = prov[p].caller
             /\ v.pc = "switch" => v.caller \in {"on", "off"}
    <2>1. MovesTo(p, v)
      BY <1>2, <1>4 DEF MovesTo
    <2> QED  BY <2>1
  <1> QED  BY <1>2, <1>3, <1>4

\* Every provisioning step moves one invocation that way.
LEMMA ProvisionMoves ==
    ASSUME BillingTypes, NEW p \in Provs, ProvisionStep(p)
    PROVE  \E v : MovesTo(p, v)
  <1>1. /\ acct \in Account /\ prov \in [Provs -> Invocation] /\ prov[p] \in Invocation
        /\ prov[p].snap \in Seen /\ See(acct) \in Seen /\ See(prov[p].snap) \in Seen
        /\ meter \in Meter
    BY SeeTyped DEF BillingTypes, BillingTypeOK, Invocation, Meter
  <1>2. ASSUME NEW c \in {"job", "status", "stripe"}, StartProvision(p, c)
        PROVE  \E v : MovesTo(p, v)
    <2> DEFINE v == [pc |-> FirstStep(acct), caller |-> c, snap |-> See(acct)]
    <2>1. v \in Invocation /\ v.caller # "on" /\ v.pc \in {"create", "credit", "ready", "pref"}
      BY <1>1, FirstStepTyped DEF Invocation
    <2>2. prov' = [prov EXCEPT ![p] = v] \/ prov' = [prov EXCEPT ![p] = Idle]
      BY <1>2 DEF StartProvision
    <2>3. CASE prov' = [prov EXCEPT ![p] = v]
      <3>1. MovesTo(p, v)
        BY <2>1, <2>3 DEF MovesTo
      <3> QED  BY <3>1
    <2> QED  BY <1>1, <2>2, <2>3, IdleMoves
  <1>3. ASSUME NEW want \in {"on", "off"}, RequestSwitch(p, want)
        PROVE  \E v : MovesTo(p, v)
    <2> DEFINE v == [pc |-> FirstStep(acct), caller |-> want, snap |-> See(acct)]
               w == [pc |-> "switch", caller |-> want, snap |-> See(NewAccount)]
    <2>1. v \in Invocation /\ v.caller = want /\ v.pc \in {"create", "credit", "ready", "pref"}
      BY <1>1, FirstStepTyped DEF Invocation
    <2>2. w \in Invocation /\ w.caller = want /\ w.pc = "switch"
      BY SeeTyped DEF Invocation
    <2>3. want = "on" => consented'
      BY <1>3, Zenon DEF RequestSwitch
    <2>4. prov' = [prov EXCEPT ![p] = v] \/ prov' = [prov EXCEPT ![p] = w]
      BY <1>3 DEF RequestSwitch
    <2>5. CASE prov' = [prov EXCEPT ![p] = v]
      <3>1. MovesTo(p, v)
        BY <2>1, <2>3, <2>5 DEF MovesTo
      <3> QED  BY <3>1
    <2>6. CASE prov' = [prov EXCEPT ![p] = w]
      <3>1. MovesTo(p, w)
        BY <2>2, <2>3, <2>6 DEF MovesTo
      <3> QED  BY <3>1
    <2> QED  BY <2>4, <2>5, <2>6
  <1>4. ASSUME NEW r \in BOOLEAN, CreateContract(p, r)
        PROVE  \E v : MovesTo(p, v)
    <2> DEFINE v == [prov[p] EXCEPT !.pc = "threshold", !.snap = [prov[p].snap EXCEPT !.ready = r]]
    <2>1. prov' = [prov EXCEPT ![p] = v]
      BY <1>1, <1>4 DEF CreateContract, Invocation
    <2>2. [prov[p].snap EXCEPT !.ready = r] \in Seen
      BY <1>1 DEF Seen
    <2>3. v \in Invocation /\ v.pc = "threshold" /\ v.caller = prov[p].caller
      BY <1>1, <2>2 DEF Invocation
    <2>4. meter'.contract = TRUE
      BY <1>1, <1>4 DEF CreateContract, Meter
    <2>5. MovesTo(p, v)
      BY <2>1, <2>3, <2>4 DEF MovesTo
    <2> QED  BY <2>5
  <1>5. CASE DisableThreshold(p)
    <2> DEFINE v == [prov[p] EXCEPT !.pc = "mark"]
    <2>1. v \in Invocation /\ v.pc = "mark" /\ v.caller = prov[p].caller
      BY <1>1 DEF Invocation
    <2>2. prov' = [prov EXCEPT ![p] = v]
      BY <1>1, <1>5, GotoTyped DEF DisableThreshold, Pcs
    <2>3. MovesTo(p, v)
      BY <1>5, <2>1, <2>2 DEF MovesTo, DisableThreshold
    <2> QED  BY <2>3
  <1>6. CASE \/ MarkProvisioned(p) \/ MarkCredit(p) \/ MarkPreference(p)
             \/ \E r \in BOOLEAN : CheckPayment(p, r)
    <2>1. ASSUME acct' \in Account
          PROVE  See(acct') \in Seen
      BY <2>1, SeeTyped
    <2>2. CASE MarkProvisioned(p)
      <3>1. acct' \in Account
        BY <1>1, <2>2, AccountTyped DEF MarkProvisioned, Status, Seen
      <3>2. ToPreference(p, acct') \/ Goto(p, "credit")
        BY <2>2 DEF MarkProvisioned
      <3> QED  BY <1>1, <2>1, <3>1, <3>2, ReturnMoves, GotoMoves DEF Pcs
    <2>3. CASE MarkCredit(p)
      <3>1. acct' \in Account
        BY <1>1, <2>3, AccountTyped DEF MarkCredit, Status
      <3>2. ToPreference(p, acct') \/ ToPreference(p, prov[p].snap) \/ Goto(p, "ready")
        BY <2>3 DEF MarkCredit
      <3> QED  BY <1>1, <2>1, <3>1, <3>2, ReturnMoves, GotoMoves DEF Pcs
    <2>4. CASE MarkPreference(p)
      BY <1>1, <2>4, ReturnMoves DEF MarkPreference
    <2>5. ASSUME NEW r \in BOOLEAN, CheckPayment(p, r)
          PROVE  \E v : MovesTo(p, v)
      <3>1. acct' \in Account
        BY <1>1, <2>5, AccountTyped DEF CheckPayment, Status
      <3> QED  BY <1>1, <2>1, <2>5, <3>1, ReturnMoves DEF CheckPayment
    <2> QED  BY <1>6, <2>2, <2>3, <2>4, <2>5
  <1>7. CASE ImportCredit(p) \/ MovePreference(p) \/ SwitchThreshold(p)
    <2>1. CASE ImportCredit(p) \/ MovePreference(p)
      BY <1>1, <2>1, GotoMoves DEF ImportCredit, MovePreference, Pcs
    <2>2. CASE SwitchThreshold(p)
      <3>1. prov[p].caller \in {"on", "off"}
        BY <2>2 DEF SwitchThreshold, BillingTypes, SwitchInv
      <3> QED  BY <1>1, <2>2, <3>1, GotoMoves DEF SwitchThreshold, Pcs
    <2> QED  BY <1>7, <2>1, <2>2
  <1>8. CASE MarkSwitch(p) \/ ProvisionFails(p)
    BY <1>1, <1>8, IdleMoves DEF MarkSwitch, ProvisionFails
  <1> QED
    BY <1>2, <1>3, <1>4, <1>5, <1>6, <1>7, <1>8 DEF ProvisionStep

\* What provisioning and update_overage do to the account and the provider
\* keeps the types.
LEMMA ProvisionTyped ==
    ASSUME BillingTypes, NEW p \in Provs, ProvisionStep(p)
    PROVE  BillingTypes'
  <1>1. /\ acct \in Account /\ prov \in [Provs -> Invocation] /\ prov[p] \in Invocation
        /\ prov[p].snap \in Seen /\ prov[p].snap.ready \in BOOLEAN
        /\ meter \in Meter /\ meter.threshold \in BOOLEAN
        /\ legacyOptIn \in BOOLEAN /\ acct.entitled \in BOOLEAN
    BY DEF BillingTypes, BillingTypeOK, Invocation, Seen, Meter, Account
  <1>2. PICK v : MovesTo(p, v)
    BY ProvisionMoves
  <1>3. prov' \in [Provs -> Invocation] /\ SwitchInv'
    <2>1. prov' = [prov EXCEPT ![p] = v] /\ v \in Invocation
      BY <1>2 DEF MovesTo
    <2>2. v.pc \in {"switch", "switched"} => v.caller \in {"on", "off"}
      BY <1>2 DEF MovesTo
    <2>3. prov' \in [Provs -> Invocation]
      BY <1>1, <2>1, ProvWritten
    <2>4. \A q \in Provs : prov'[q] = IF q = p THEN v ELSE prov[q]
      BY <1>1, <2>1
    <2>5. SwitchInv
      BY DEF BillingTypes
    <2> QED  BY <2>2, <2>3, <2>4, <2>5 DEF SwitchInv
  <1>4. ASSUME ProvOnly, acct' \in Account, meter' \in Meter, UNCHANGED <<switches, choice, consented>>
        PROVE  BillingTypes'
    BY <1>3, <1>4 DEF ProvOnly, BillingTypes, BillingTypeOK, Meter
  <1>5. ASSUME NEW b \in BOOLEAN
        PROVE  [meter EXCEPT !.threshold = b] \in Meter /\ [meter EXCEPT !.credit = b] \in Meter
    BY <1>1 DEF Meter
  <1>6. ASSUME NEW c \in {"job", "status", "stripe"}, StartProvision(p, c)
        PROVE  BillingTypes'
    BY <1>1, <1>4, <1>6 DEF StartProvision
  <1>7. ASSUME NEW want \in {"on", "off"}, RequestSwitch(p, want)
        PROVE  BillingTypes'
    <2>1. switches' \in 0..MaxSwitches
      BY <1>7, MaxSwitchesAssumption DEF RequestSwitch, BillingTypes, BillingTypeOK
    <2>2. consented' \in BOOLEAN
      BY <1>7, Zenon DEF RequestSwitch
    <2> QED  BY <1>3, <1>7, <2>1, <2>2 DEF RequestSwitch, ProvOnly, BillingTypes, BillingTypeOK
  <1>8. ASSUME NEW r \in BOOLEAN, CreateContract(p, r)
        PROVE  BillingTypes'
    <2>1. \A b \in BOOLEAN : [meter EXCEPT !.contract = TRUE, !.threshold = b] \in Meter
      BY <1>1 DEF Meter
    <2>2. \E b \in BOOLEAN : meter' = [meter EXCEPT !.contract = TRUE, !.threshold = b]
      BY <1>1, <1>8 DEF CreateContract
    <2> QED  BY <1>1, <1>4, <1>8, <2>1, <2>2 DEF CreateContract
  <1>9. ASSUME NEW r \in BOOLEAN, CheckPayment(p, r)
        PROVE  BillingTypes'
    BY <1>1, <1>4, <1>9, AccountTyped DEF CheckPayment, Status
  <1>10. CASE DisableThreshold(p) \/ ImportCredit(p)
    BY <1>1, <1>4, <1>5, <1>10 DEF DisableThreshold, ImportCredit
  <1>11. CASE MarkProvisioned(p)
    BY <1>1, <1>4, <1>11, AccountTyped DEF MarkProvisioned, Status
  <1>12. CASE MarkCredit(p)
    BY <1>1, <1>4, <1>12, AccountTyped DEF MarkCredit, Status
  <1>13. CASE MovePreference(p)
    <2>1. PreferenceTarget(prov[p].snap) \in BOOLEAN
      BY <1>1, Zenon DEF PreferenceTarget
    <2> QED  BY <1>1, <1>4, <1>5, <1>13, <2>1 DEF MovePreference
  <1>14. CASE MarkPreference(p)
    BY <1>1, <1>4, <1>14, AccountTyped DEF MarkPreference, Status
  <1>15. CASE SwitchThreshold(p)
    BY <1>1, <1>4, <1>5, <1>15 DEF SwitchThreshold
  <1>16. CASE MarkSwitch(p)
    <2>1. PICK b \in BOOLEAN, c \in BOOLEAN :
             acct' = [acct EXCEPT !.overage = b, !.prefMigrated = TRUE, !.entitled = c]
      <3>1. (prov[p].caller = "on") \in BOOLEAN /\ (acct.entitled \/ prov[p].caller = "on") \in BOOLEAN
        BY Zenon
      <3> QED  BY <1>16, <3>1 DEF MarkSwitch
    <2>2. acct' \in Account
      BY <1>1, <2>1, AccountTyped DEF Status
    <2>3. choice' \in {"on", "off"}
      BY <1>16 DEF MarkSwitch, BillingTypes, SwitchInv
    <2> QED  BY <1>3, <1>16, <2>2, <2>3 DEF MarkSwitch, ProvOnly, BillingTypes, BillingTypeOK
  <1>17. CASE ProvisionFails(p)
    BY <1>1, <1>4, <1>17, AccountTyped DEF ProvisionFails, Status
  <1> QED
    BY <1>6, <1>7, <1>8, <1>9, <1>10, <1>11, <1>12, <1>13, <1>14, <1>15, <1>16, <1>17
       DEF ProvisionStep

\* A delivery at work has an event, and its row.
WorkInv == \A d \in Deliveries : delivery[d].pc # "idle" => Hook(d) \in Hooks

\* What a step of delivery d does to its request and to the event's row.
RequestWritten(d, r) == r \in Request /\ delivery' = [delivery EXCEPT ![d] = r]
RowWritten(e, h) == h \in HookRecord /\ hookRow' = [hookRow EXCEPT ![e] = h]

\* A delivery that is not under way handles no webhook.
LEMMA NoRequestTyped ==
    NoRequest \in Request /\ NoRequest.pc = "idle" /\ NoRequest.hook = NoHook
  BY DEF NoRequest, Request

\* The row of a webhook with another status or lease has its type.
LEMMA RowTyped ==
    ASSUME NEW h \in HookRecord, NEW b \in BOOLEAN, NEW c \in BOOLEAN,
           NEW s \in {"none", "processing", "processed", "failed"}
    PROVE  /\ [h EXCEPT !.status = s, !.leased = b] \in HookRecord
           /\ [h EXCEPT !.leased = b, !.overran = c] \in HookRecord
  BY DEF HookRecord

\* A row that leaves or enters processing.
LEMMA RowMoves ==
    ASSUME hookRow \in [Hooks -> HookRecord], NEW e \in Hooks, NEW b \in BOOLEAN,
           NEW s \in {"none", "processing", "processed", "failed"},
           hookRow' = [hookRow EXCEPT ![e].status = s, ![e].leased = b]
    PROVE  /\ RowWritten(e, [hookRow[e] EXCEPT !.status = s, !.leased = b])
           /\ hookRow' \in [Hooks -> HookRecord]
  <1>1. [hookRow[e] EXCEPT !.status = s, !.leased = b] \in HookRecord
    BY RowTyped
  <1>2. hookRow' = [hookRow EXCEPT ![e] = [hookRow[e] EXCEPT !.status = s, !.leased = b]]
    OBVIOUS
  <1> QED  BY <1>1, <1>2 DEF RowWritten

\* A delivery goes on with its event, or ends; what it leaves in the row is a
\* status and no lease.
Advances(d) ==
    /\ delivery[d].pc # "idle"
    /\ \E r : RequestWritten(d, r) /\ r.hook = Hook(d) /\ r.pc # "idle"
    /\ UNCHANGED hookRow
Ends(d) ==
    /\ delivery[d].pc # "idle"
    /\ delivery' = [delivery EXCEPT ![d] = NoRequest]
    /\ UNCHANGED hookRow \/ \E s \in {"processed", "failed"} :
          hookRow' = [hookRow EXCEPT ![Hook(d)].status = s, ![Hook(d)].leased = FALSE]

\* A delivery that goes on keeps the webhook it handles.
LEMMA RequestAdvances ==
    ASSUME NEW d \in Deliveries, delivery \in [Deliveries -> Request], delivery[d].pc # "idle",
           NEW pc \in {"lookup", "apply", "entitle", "overage", "complete"},
           delivery' = [delivery EXCEPT ![d].pc = pc], UNCHANGED hookRow
    PROVE  Advances(d)
  <1> DEFINE r == [delivery[d] EXCEPT !.pc = pc]
  <1>1. r \in Request /\ r.hook = Hook(d) /\ r.pc = pc
    BY DEF Request, Hook
  <1>2. delivery' = [delivery EXCEPT ![d] = r]
    OBVIOUS
  <1> QED  BY <1>1, <1>2 DEF Advances, RequestWritten

\* Every step of a delivery claims a webhook, goes on with it, or ends.
LEMMA DeliveryMoves ==
    ASSUME BillingTypes, NEW d \in Deliveries, DeliveryStep(d)
    PROVE  /\ HookOnly /\ acct' \in Account
           /\ (\E e \in Hooks : ClaimWebhook(d, e)) \/ Advances(d) \/ Ends(d)
  <1>1. /\ acct \in Account /\ acct.overage \in BOOLEAN /\ acct.ready \in BOOLEAN
        /\ acct.entitled \in BOOLEAN
        /\ delivery \in [Deliveries -> Request] /\ delivery[d] \in Request
        /\ delivery[d].overage \in BOOLEAN /\ delivery[d].ready \in BOOLEAN
    BY DEF BillingTypes, BillingTypeOK, Account, Request
  <1>2. ASSUME NEW e \in Hooks, ClaimWebhook(d, e)
        PROVE  HookOnly /\ acct' \in Account
    BY <1>1, <1>2 DEF ClaimWebhook
  <1>3. CASE LookupAccount(d)
    <2>1. HookOnly /\ acct' \in Account /\ delivery[d].pc = "lookup"
      BY <1>1, <1>3 DEF LookupAccount
    <2>2. CASE hookKind[Hook(d)] = "anonymous" \/ acct.known
      <3> DEFINE pc == IF hookKind[Hook(d)] = "anonymous" THEN "complete" ELSE "apply"
                 r == [delivery[d] EXCEPT !.overage = acct.overage, !.ready = acct.ready, !.pc = pc]
      <3>1. r \in Request /\ r.hook = Hook(d) /\ r.pc = pc
        BY <1>1 DEF Request, Hook
      <3>2. delivery' = [delivery EXCEPT ![d].overage = acct.overage, ![d].ready = acct.ready,
                                         ![d].pc = pc]
        BY <1>3, <2>2 DEF LookupAccount
      <3>3. delivery' = [delivery EXCEPT ![d] = r]
        BY <1>1, <3>2
      <3>4. UNCHANGED hookRow
        BY <1>3, <2>2 DEF LookupAccount
      <3>5. pc # "idle"
        OBVIOUS
      <3>6. RequestWritten(d, r)
        BY <3>1, <3>3 DEF RequestWritten
      <3> HIDE DEF pc, r
      <3>7. \E q : RequestWritten(d, q) /\ q.hook = Hook(d) /\ q.pc # "idle"
        BY <3>1, <3>5, <3>6
      <3>8. Advances(d)
        BY <2>1, <3>4, <3>7 DEF Advances
      <3> QED  BY <2>1, <3>8
    <2>3. CASE ~(hookKind[Hook(d)] = "anonymous" \/ acct.known)
      <3>1. Ends(d)
        BY <1>3, <2>1, <2>3 DEF LookupAccount, Ends
      <3> QED  BY <2>1, <3>1
    <2> QED  BY <2>2, <2>3
  <1>4. CASE ApplyWebhook(d)
    <2>1. CASE ApplyPayment(d)
      <3>1. (hookKind[Hook(d)] = "paid") \in BOOLEAN
        BY Zenon
      <3>2. acct' \in Account
        BY <1>1, <2>1, <3>1, AccountTyped DEF ApplyPayment, Status
      <3>3. Advances(d)
        BY <1>1, <1>4, <2>1, RequestAdvances DEF ApplyPayment, ApplyWebhook
      <3> QED  BY <1>4, <3>2, <3>3 DEF ApplyWebhook
    <2>2. CASE ApplyAlert(d)
      <3>1. (delivery[d].overage /\ delivery[d].ready) \in BOOLEAN
        BY Zenon
      <3>2. PICK b \in BOOLEAN : acct' = [acct EXCEPT !.entitled = b]
        BY <1>1, <2>2, <3>1 DEF ApplyAlert
      <3>3. acct' \in Account
        BY <1>1, <3>2, AccountTyped DEF Status
      <3>4. Advances(d)
        BY <1>1, <1>4, <2>2, RequestAdvances DEF ApplyAlert, ApplyWebhook
      <3> QED  BY <1>4, <3>3, <3>4 DEF ApplyWebhook
    <2> QED  BY <1>4, <2>1, <2>2 DEF ApplyWebhook
  <1>5. CASE ApplyEntitlement(d)
    <2>1. (hookKind[Hook(d)] = "paid" /\ delivery[d].overage) \in BOOLEAN
      BY Zenon
    <2>2. acct' \in Account
      BY <1>1, <1>5, <2>1, AccountTyped DEF ApplyEntitlement, Status
    <2>3. Advances(d)
      BY <1>1, <1>5, RequestAdvances DEF ApplyEntitlement
    <2> QED  BY <1>5, <2>2, <2>3 DEF ApplyEntitlement
  <1>6. CASE ApplyOverage(d)
    <2>1. acct' \in Account
      BY <1>1, <1>6, AccountTyped DEF ApplyOverage, Status
    <2>2. Advances(d)
      BY <1>1, <1>6, RequestAdvances DEF ApplyOverage
    <2> QED  BY <1>6, <2>1, <2>2 DEF ApplyOverage
  <1>7. CASE CompleteWebhook(d) \/ WebhookFails(d) \/ WebhookDies(d)
    <2>1. HookOnly /\ acct' \in Account
      BY <1>1, <1>7 DEF CompleteWebhook, WebhookFails, WebhookDies
    <2>2. Ends(d)
      BY <1>7 DEF CompleteWebhook, WebhookFails, WebhookDies, Ends
    <2> QED  BY <2>1, <2>2
  <1> QED  BY <1>2, <1>3, <1>4, <1>5, <1>6, <1>7 DEF DeliveryStep

\* The row of an event at work is leased, or its lease ran out under a delivery.
OwnerInv ==
    /\ WorkInv
    /\ \A d \in Deliveries : Hook(d) # NoHook => \/ hookRow[Hook(d)].leased
                                                 \/ hookRow[Hook(d)].overran
    /\ WebhookHasOneOwner

\* Deliveries and rows together.
HookTypes == delivery \in [Deliveries -> Request] /\ hookRow \in [Hooks -> HookRecord]

\* A claim takes a webhook nobody is handling, unless its lease ran out;
LEMMA ClaimKeepsOwner ==
    ASSUME HookTypes, OwnerInv, NEW d \in Deliveries, NEW e \in Hooks, ClaimWebhook(d, e)
    PROVE  HookTypes' /\ OwnerInv'
  <1> DEFINE r == [NoRequest EXCEPT !.pc = "lookup", !.hook = e]
             h == [hookRow[e] EXCEPT !.status = "processing", !.leased = TRUE]
  <1>1. r \in Request /\ r.pc = "lookup" /\ r.hook = e /\ delivery' = [delivery EXCEPT ![d] = r]
    BY DEF NoRequest, Request, ClaimWebhook
  <1>2. hookRow' = [hookRow EXCEPT ![e] = h] /\ h \in HookRecord /\ hookRow' \in [Hooks -> HookRecord]
    BY RowMoves DEF HookTypes, ClaimWebhook, RowWritten
  <1>3. h.leased = TRUE /\ h.overran = hookRow[e].overran
    BY DEF HookTypes, HookRecord
  <1>4. delivery' \in [Deliveries -> Request]
    BY <1>1 DEF HookTypes
  <1> HIDE DEF r, h
  <1>5. \A c \in Deliveries : delivery'[c] = IF c = d THEN r ELSE delivery[c]
    BY <1>1 DEF HookTypes
  <1>6. \A x \in Hooks : hookRow'[x] = IF x = e THEN h ELSE hookRow[x]
    BY <1>2 DEF HookTypes
  <1>7. \A c \in Deliveries : Hook(c) \in Hooks \cup {NoHook}
    BY DEF HookTypes, Request, Hook
  <1>8. ASSUME NEW c \in Deliveries, c # d, Hook(c) = e
        PROVE  h.overran
    BY <1>3, <1>8, HooksAssumption DEF OwnerInv, ClaimWebhook
  <1>9. WorkInv'
    BY <1>1, <1>5 DEF WorkInv, OwnerInv, Hook
  <1>10. ASSUME NEW c \in Deliveries, Hook(c)' # NoHook
         PROVE  hookRow'[Hook(c)'].leased \/ hookRow'[Hook(c)'].overran
    BY <1>1, <1>3, <1>5, <1>6, <1>7, <1>8, <1>10 DEF OwnerInv, Hook
  <1>11. ASSUME NEW c1 \in Deliveries, NEW c2 \in Deliveries, c1 # c2, Hook(c1)' # NoHook,
                Hook(c1)' = Hook(c2)'
         PROVE  hookRow'[Hook(c1)'].overran
    <2>1. CASE c1 = d
      BY <1>1, <1>5, <1>6, <1>8, <1>11, <2>1 DEF Hook
    <2>2. CASE c2 = d
      BY <1>1, <1>5, <1>6, <1>8, <1>11, <2>2 DEF Hook
    <2>3. CASE c1 # d /\ c2 # d
      <3>1. Hook(c1) = Hook(c1)' /\ Hook(c2) = Hook(c2)'
        BY <1>5, <2>3 DEF Hook
      <3>2. hookRow[Hook(c1)].overran
        BY <1>11, <3>1 DEF OwnerInv, WebhookHasOneOwner
      <3> QED  BY <1>3, <1>6, <1>7, <1>11, <3>1, <3>2
    <2> QED  BY <2>1, <2>2, <2>3
  <1>12. WebhookHasOneOwner'
    BY <1>11 DEF WebhookHasOneOwner
  <1> QED  BY <1>2, <1>4, <1>9, <1>10, <1>12 DEF HookTypes, OwnerInv

\* going on changes no owner;
LEMMA AdvanceKeepsOwner ==
    ASSUME HookTypes, OwnerInv, NEW d \in Deliveries, Advances(d)
    PROVE  HookTypes' /\ OwnerInv'
  <1>1. PICK r : RequestWritten(d, r) /\ r.hook = Hook(d) /\ r.pc # "idle"
    BY DEF Advances
  <1>2. r \in Request /\ delivery' = [delivery EXCEPT ![d] = r]
    BY <1>1 DEF RequestWritten
  <1>3. \A c \in Deliveries : delivery'[c] = IF c = d THEN r ELSE delivery[c]
    BY <1>2 DEF HookTypes
  <1>4. \A c \in Deliveries : Hook(c)' = Hook(c)
    BY <1>1, <1>3 DEF Hook
  <1>5. hookRow' = hookRow
    BY DEF Advances
  <1>6. HookTypes'
    BY <1>2, <1>5 DEF HookTypes
  <1>7. Hook(d) \in Hooks
    BY DEF OwnerInv, WorkInv, Advances
  <1>8. WorkInv'
    BY <1>3, <1>4, <1>7 DEF WorkInv, OwnerInv
  <1>9. WebhookHasOneOwner'
    BY <1>4, <1>5 DEF WebhookHasOneOwner, OwnerInv
  <1> QED  BY <1>4, <1>5, <1>6, <1>8, <1>9 DEF OwnerInv

\* ending gives the webhook up;
LEMMA EndKeepsOwner ==
    ASSUME HookTypes, OwnerInv, NEW d \in Deliveries, Ends(d)
    PROVE  HookTypes' /\ OwnerInv'
  <1>1. delivery' = [delivery EXCEPT ![d] = NoRequest] /\ Hook(d) \in Hooks
    BY DEF Ends, OwnerInv, WorkInv
  <1>2. \A c \in Deliveries : delivery'[c] = IF c = d THEN NoRequest ELSE delivery[c]
    BY <1>1 DEF HookTypes
  <1>3. Hook(d)' = NoHook /\ \A c \in Deliveries : c # d => Hook(c)' = Hook(c)
    BY <1>2, NoRequestTyped DEF Hook
  <1>4. delivery' \in [Deliveries -> Request]
    BY <1>1, NoRequestTyped DEF HookTypes
  <1>5. WorkInv'
    BY <1>2, <1>3, NoRequestTyped DEF WorkInv, OwnerInv
  <1>6. /\ hookRow' \in [Hooks -> HookRecord]
        /\ \A x \in Hooks : x # Hook(d) => hookRow'[x] = hookRow[x]
        /\ hookRow'[Hook(d)].overran = hookRow[Hook(d)].overran
    <2>1. CASE UNCHANGED hookRow
      BY <2>1 DEF HookTypes
    <2>2. ASSUME NEW s \in {"processed", "failed"},
                 hookRow' = [hookRow EXCEPT ![Hook(d)].status = s, ![Hook(d)].leased = FALSE]
          PROVE  <1>6
      <3> DEFINE e == Hook(d)
                 h == [hookRow[e] EXCEPT !.status = s, !.leased = FALSE]
      <3>1. hookRow' = [hookRow EXCEPT ![e] = h] /\ hookRow' \in [Hooks -> HookRecord]
        BY <1>1, <2>2, RowMoves DEF HookTypes, RowWritten
      <3>2. h.overran = hookRow[e].overran
        BY <1>1 DEF HookTypes, HookRecord
      <3> HIDE DEF h
      <3> QED  BY <1>1, <3>1, <3>2 DEF HookTypes
    <2> QED  BY <2>1, <2>2 DEF Ends
  <1>7. \A c \in Deliveries : c # d /\ Hook(c) = Hook(d) => hookRow[Hook(d)].overran
    BY <1>1, HooksAssumption DEF OwnerInv, WebhookHasOneOwner
  <1>8. \A c \in Deliveries : Hook(c) \in Hooks \cup {NoHook}
    BY DEF HookTypes, Request, Hook
  <1>9. \A c \in Deliveries : Hook(c)' # NoHook
           => hookRow'[Hook(c)'].leased \/ hookRow'[Hook(c)'].overran
    BY <1>1, <1>3, <1>6, <1>7, <1>8 DEF OwnerInv
  <1>10. ASSUME NEW c1 \in Deliveries, NEW c2 \in Deliveries, c1 # c2, Hook(c1)' # NoHook,
                Hook(c1)' = Hook(c2)'
         PROVE  hookRow'[Hook(c1)'].overran
    <2>1. c1 # d /\ c2 # d /\ Hook(c1) = Hook(c1)' /\ Hook(c2) = Hook(c2)'
      BY <1>3, <1>10
    <2>2. hookRow[Hook(c1)].overran
      BY <1>10, <2>1 DEF OwnerInv, WebhookHasOneOwner
    <2> QED  BY <1>6, <1>8, <1>10, <2>1, <2>2
  <1>11. WebhookHasOneOwner'
    BY <1>10 DEF WebhookHasOneOwner
  <1> QED  BY <1>4, <1>5, <1>6, <1>9, <1>11 DEF HookTypes, OwnerInv

\* and a lease that runs out under its owner is remembered as overrun.
LEMMA ExpiryKeepsOwner ==
    ASSUME HookTypes, OwnerInv, NEW e \in Hooks, WebhookLeaseExpires(e)
    PROVE  HookTypes' /\ OwnerInv'
  <1> DEFINE o == hookRow[e].overran \/ \E d \in Deliveries : Hook(d) = e
             h == [hookRow[e] EXCEPT !.leased = FALSE, !.overran = o]
  <1>1. hookRow' = [hookRow EXCEPT ![e] = h] /\ UNCHANGED delivery
    BY DEF WebhookLeaseExpires, HookTypes
  <1>2. o \in BOOLEAN
    BY Zenon
  <1>3. (\E d \in Deliveries : Hook(d) = e) => o = TRUE
    BY Zenon
  <1>4. hookRow[e].overran => o = TRUE
    BY Zenon
  <1> HIDE DEF o
  <1>5. h \in HookRecord /\ h.overran = o
    BY <1>2 DEF HookTypes, HookRecord
  <1> HIDE DEF h
  <1>6. hookRow' \in [Hooks -> HookRecord]
    BY <1>1, <1>5 DEF HookTypes
  <1>7. \A x \in Hooks : hookRow'[x] = IF x = e THEN h ELSE hookRow[x]
    BY <1>1 DEF HookTypes
  <1>8. \A d \in Deliveries : Hook(d)' = Hook(d) /\ Hook(d) \in Hooks \cup {NoHook}
    BY <1>1 DEF HookTypes, Request, Hook
  <1>9. \A d \in Deliveries : Hook(d) # NoHook /\ hookRow[Hook(d)].overran
           => hookRow'[Hook(d)].overran
    BY <1>4, <1>5, <1>7, <1>8
  <1>10. \A d \in Deliveries : Hook(d)' # NoHook
           => hookRow'[Hook(d)'].leased \/ hookRow'[Hook(d)'].overran
    BY <1>3, <1>5, <1>7, <1>8, <1>9 DEF OwnerInv
  <1>11. WebhookHasOneOwner'
    BY <1>8, <1>9 DEF WebhookHasOneOwner, OwnerInv
  <1>12. WorkInv'
    BY <1>1, <1>8 DEF WorkInv, OwnerInv
  <1> QED  BY <1>1, <1>6, <1>10, <1>11, <1>12 DEF HookTypes, OwnerInv

-----------------------------------------------------------------------------
(* The types, and one owner per webhook, in every state                    *)

CheckRecord == [pc : {"idle", "asked", "served"}, known : BOOLEAN, paying : BOOLEAN,
                balance : BOOLEAN]

\* The entitlement check changes its own record, the flag of the account and,
\* for the provider, the balance.
LEMMA CheckTyped ==
    ASSUME BillingTypes, CheckStep
    PROVE  /\ CheckOnly
           /\ acct' \in Account /\ funds' \in BOOLEAN /\ check' \in CheckRecord
           /\ \E b \in BOOLEAN : acct' = [acct EXCEPT !.entitled = b]
  <1>1. /\ acct \in Account /\ acct.entitled \in BOOLEAN /\ acct.known \in BOOLEAN
        /\ funds \in BOOLEAN /\ check \in CheckRecord /\ NoCheck \in CheckRecord
        /\ acct = [acct EXCEPT !.entitled = acct.entitled]
    BY DEF BillingTypes, BillingTypeOK, Account, CheckRecord, NoCheck
  <1>2. CASE ReadEntitlement
    <2>1. (acct.overage /\ acct.ready) \in BOOLEAN
      BY Zenon
    <2>2. check' \in CheckRecord
      BY <1>1, <1>2, <2>1 DEF ReadEntitlement, CheckRecord
    <2> QED  BY <1>1, <1>2, <2>2 DEF ReadEntitlement
  <1>3. CASE ServeBalance
    <2>1. check' \in CheckRecord
      BY <1>1, <1>3 DEF ServeBalance, CheckRecord
    <2> QED  BY <1>1, <1>3, <2>1 DEF ServeBalance
  <1>4. CASE RestoreEntitlement
    <2>1. (acct.entitled \/ check.balance \/ check.paying) \in BOOLEAN
      BY Zenon
    <2>2. PICK b \in BOOLEAN : acct' = [acct EXCEPT !.entitled = b]
      BY <1>4, <2>1 DEF RestoreEntitlement
    <2>3. acct' \in Account
      BY <1>1, <2>2, AccountTyped DEF Status
    <2> QED  BY <1>1, <1>4, <2>2, <2>3 DEF RestoreEntitlement
  <1>5. CASE CheckFails
    BY <1>1, <1>5 DEF CheckFails
  <1>6. CASE BalanceMoves
    <2>1. funds' \in BOOLEAN
      BY <1>6, Zenon DEF BalanceMoves
    <2> QED  BY <1>1, <1>6, <2>1 DEF BalanceMoves
  <1> QED  BY <1>2, <1>3, <1>4, <1>5, <1>6 DEF CheckStep

BillingInv == BillingTypes /\ OwnerInv

\* Initially nobody works and nothing is claimed.
LEMMA BillingInitially == BillingInit => BillingInv
  <1> SUFFICES ASSUME BillingInit PROVE BillingInv
    OBVIOUS
  <1>1. prov \in [Provs -> Invocation] /\ \A p \in Provs : prov[p].pc = "idle"
    BY SeeTyped DEF BillingInit, Idle
  <1>2. /\ delivery \in [Deliveries -> Request]
        /\ \A d \in Deliveries : delivery[d].pc = "idle" /\ Hook(d) = NoHook
    BY NoRequestTyped DEF BillingInit, Hook
  <1>3. hookRow \in [Hooks -> HookRecord]
    BY DEF BillingInit, HookRecord
  <1>4. check \in CheckRecord /\ meter \in Meter /\ acct \in Account
    BY SeeTyped DEF BillingInit, NoCheck, CheckRecord, Meter
  <1>5. BillingTypeOK
    BY <1>1, <1>2, <1>3, <1>4, MaxSwitchesAssumption
       DEF BillingInit, BillingTypeOK, CheckRecord, Meter, HookRecord
  <1>6. SwitchInv
    BY <1>1 DEF SwitchInv
  <1>7. OwnerInv
    BY <1>2 DEF OwnerInv, WorkInv, WebhookHasOneOwner
  <1> QED  BY <1>5, <1>6, <1>7 DEF BillingInv, BillingTypes

\* Every step keeps the types, the callers of a switch and the owners.
LEMMA BillingKept == BillingInv /\ [BillingNext]_billingVars => BillingInv'
  <1> SUFFICES ASSUME BillingInv, [BillingNext]_billingVars
               PROVE  BillingInv'
    OBVIOUS
  <1>1. BillingTypes /\ BillingTypeOK /\ SwitchInv /\ OwnerInv /\ HookTypes
    BY DEF BillingInv, BillingTypes, BillingTypeOK, HookTypes, HookRecord
  <1>2. ASSUME UNCHANGED <<delivery, hookRow>>
        PROVE  OwnerInv'
    BY <1>1, <1>2 DEF OwnerInv, WorkInv, WebhookHasOneOwner, Hook
  <1>3. ASSUME NEW p \in Provs, ProvisionStep(p)
        PROVE  BillingInv'
    <2>1. BillingTypes'
      BY <1>1, <1>3, ProvisionTyped
    <2>2. ProvOnly
      BY <1>3 DEF ProvisionStep, StartProvision, RequestSwitch, CreateContract, CheckPayment,
         DisableThreshold, MarkProvisioned, ImportCredit, MarkCredit, MovePreference,
         MarkPreference, SwitchThreshold, MarkSwitch, ProvisionFails
    <2> QED  BY <1>2, <2>1, <2>2 DEF ProvOnly, BillingInv
  <1>4. ASSUME HookTypes', OwnerInv', HookOnly, acct' \in Account
        PROVE  BillingInv'
    BY <1>1, <1>4 DEF BillingInv, BillingTypes, BillingTypeOK, HookTypes, HookRecord, HookOnly, SwitchInv
  <1>5. ASSUME NEW d \in Deliveries, DeliveryStep(d)
        PROVE  BillingInv'
    <2>1. /\ HookOnly /\ acct' \in Account
          /\ (\E e \in Hooks : ClaimWebhook(d, e)) \/ Advances(d) \/ Ends(d)
      BY <1>1, <1>5, DeliveryMoves
    <2>2. HookTypes' /\ OwnerInv'
      BY <1>1, <2>1, ClaimKeepsOwner, AdvanceKeepsOwner, EndKeepsOwner
    <2> QED  BY <1>4, <2>1, <2>2
  <1>6. ASSUME NEW e \in Hooks, WebhookLeaseExpires(e)
        PROVE  BillingInv'
    <2>1. HookTypes' /\ OwnerInv'
      BY <1>1, <1>6, ExpiryKeepsOwner
    <2>2. HookOnly /\ acct' \in Account
      BY <1>1, <1>6 DEF WebhookLeaseExpires, BillingTypeOK
    <2> QED  BY <1>4, <2>1, <2>2
  <1>7. CASE CheckStep
    <2>1. /\ CheckOnly
          /\ acct' \in Account /\ funds' \in BOOLEAN /\ check' \in CheckRecord
      BY <1>1, <1>7, CheckTyped
    <2>2. BillingTypeOK' /\ SwitchInv'
      BY <1>1, <2>1 DEF CheckOnly, CheckRecord, BillingTypeOK, SwitchInv
    <2> QED  BY <1>2, <2>1, <2>2 DEF CheckOnly, BillingInv, BillingTypes
  <1>8. CASE UNCHANGED billingVars
    <2>1. BillingTypeOK' /\ SwitchInv'
      BY <1>1, <1>8 DEF billingVars, BillingTypeOK, SwitchInv
    <2> QED  BY <1>2, <1>8, <2>1 DEF billingVars, BillingInv, BillingTypes
  <1> QED  BY <1>3, <1>5, <1>6, <1>7, <1>8 DEF BillingNext, WebhookStep

\* What billing_accounts, billing_webhook_events and the requests at work hold
\* is always of its type; the user's recorded choice is one the user made.
THEOREM BillingTypeCorrect == BillingSpec => []BillingTypeOK
  <1>1. BillingInv => BillingTypeOK
    BY DEF BillingInv, BillingTypes
  <1> QED  BY <1>1, BillingInitially, BillingKept, PTL DEF BillingSpec

\* However many requests deliver however many webhooks, two of them work on one
\* event at once only if the lease of claim_webhook ran out under the first.
THEOREM WebhooksHaveOneOwner == BillingSpec => []WebhookHasOneOwner
  <1>1. BillingInv => WebhookHasOneOwner
    BY DEF BillingInv, OwnerInv
  <1> QED  BY <1>1, BillingInitially, BillingKept, PTL DEF BillingSpec

-----------------------------------------------------------------------------
(* Consent                                                                 *)

\* The contract an account sends usage to, or is about to, has a threshold only
\* with consent.
Exposed == acct.status = "provisioned" \/ \E p \in Provs : prov[p].pc = "mark"

\* Where consent comes from and where it is used: the old opt-in and a request
\* to switch on imply it; a contract exists before its threshold is disabled, so
\* that nothing enables it again without consent afterwards.
ConsentInv ==
    /\ legacyOptIn => consented
    /\ \A p \in Provs : prov[p].caller = "on" => consented
    /\ acct.overage => consented
    /\ \A p \in Provs : prov[p].pc = "threshold" => meter.contract
    /\ Exposed => meter.contract /\ (meter.threshold => consented)

\* What no step does: withdraw consent or the contract, write overage without
\* consent, enable the threshold of an existing contract without it, or make an
\* account provisioned but after the threshold was disabled.
ConsentMoves ==
    /\ consented => consented'
    /\ legacyOptIn' = legacyOptIn
    /\ acct'.overage => acct.overage \/ consented'
    /\ meter.contract => meter'.contract
    /\ meter'.threshold => meter.threshold \/ consented \/ ~meter.contract
    /\ acct'.status = "provisioned" => Exposed

\* A step that only moves that way keeps the consent.
LEMMA ConsentKept ==
    ASSUME BillingTypeOK, ConsentInv, ConsentMoves,
           UNCHANGED prov \/ \E p \in Provs : \E v : MovesTo(p, v)
    PROVE  ConsentInv'
  <1>1. CASE UNCHANGED prov
    <2>1. Exposed' => Exposed
      BY <1>1 DEF ConsentMoves, Exposed
    <2> QED  BY <1>1, <2>1 DEF ConsentInv, ConsentMoves
  <1>2. ASSUME NEW p \in Provs, NEW v, MovesTo(p, v)
        PROVE  ConsentInv'
    <2>1. prov \in [Provs -> Invocation] /\ meter \in Meter
      BY DEF BillingTypeOK, Meter
    <2>2. \A q \in Provs : prov'[q] = IF q = p THEN v ELSE prov[q]
      BY <1>2, <2>1 DEF MovesTo
    <2>3. v.caller = "on" => consented'
      BY <1>2 DEF MovesTo, ConsentInv, ConsentMoves
    <2>4. v.pc = "threshold" => meter'.contract
      BY <1>2 DEF MovesTo
    <2>5. v.pc = "mark" => meter'.contract /\ ~meter'.threshold
      <3>1. v.pc = "mark" => meter.contract /\ meter' = [meter EXCEPT !.threshold = FALSE]
        BY <1>2 DEF MovesTo, ConsentInv
      <3> QED  BY <2>1, <3>1 DEF Meter
    <2>6. Exposed' => Exposed \/ v.pc = "mark"
      BY <2>2 DEF Exposed, ConsentMoves
    <2>7. Exposed' => meter'.contract /\ (meter'.threshold => consented')
      BY <2>5, <2>6 DEF ConsentInv, ConsentMoves
    <2>8. \A q \in Provs : prov'[q].caller = "on" => consented'
      BY <2>2, <2>3 DEF ConsentInv, ConsentMoves
    <2>9. \A q \in Provs : prov'[q].pc = "threshold" => meter'.contract
      BY <2>2, <2>4 DEF ConsentInv, ConsentMoves
    <2>10. (legacyOptIn' => consented') /\ (acct'.overage => consented')
      BY DEF ConsentInv, ConsentMoves
    <2> QED  BY <2>7, <2>8, <2>9, <2>10 DEF ConsentInv
  <1> QED  BY <1>1, <1>2

\* An account and a provider that are left alone.
LEMMA ConsentQuiet ==
    ASSUME ConsentInv, UNCHANGED <<legacyOptIn, consented>>,
           acct'.overage => acct.overage, acct'.status = acct.status,
           meter' = meter
    PROVE  ConsentMoves
  BY DEF ConsentMoves, ConsentInv, Exposed

\* Provisioning exposes the customer to overage only with consent,
LEMMA ProvisionConsents ==
    ASSUME BillingTypeOK, ConsentInv, NEW p \in Provs, ProvisionStep(p)
    PROVE  ConsentMoves
  <1>1. /\ acct \in Account /\ meter \in Meter /\ legacyOptIn \in BOOLEAN /\ consented \in BOOLEAN
        /\ prov[p].caller = "on" => consented
        /\ legacyOptIn => consented
    BY DEF BillingTypeOK, Meter, ConsentInv
  <1>2. ASSUME NEW c \in {"job", "status", "stripe"}, StartProvision(p, c)
        PROVE  ConsentMoves
    BY <1>2, ConsentQuiet DEF StartProvision, ProvOnly
  <1>3. ASSUME NEW want \in {"on", "off"}, RequestSwitch(p, want)
        PROVE  ConsentMoves
    <2>1. consented => consented'
      BY <1>3, Zenon DEF RequestSwitch
    <2> QED  BY <1>3, <2>1 DEF RequestSwitch, ProvOnly, ConsentMoves, Exposed
  <1>4. ASSUME NEW r \in BOOLEAN, CreateContract(p, r)
        PROVE  ConsentMoves
    <2>1. meter'.contract /\ (meter'.threshold => meter.threshold \/ ~meter.contract)
      BY <1>1, <1>4 DEF CreateContract, Meter
    <2> QED  BY <1>4, <2>1 DEF CreateContract, ProvOnly, ConsentMoves, Exposed
  <1>5. CASE \/ MarkCredit(p) \/ ProvisionFails(p) \/ \E r \in BOOLEAN : CheckPayment(p, r)
    <2>1. acct'.overage = acct.overage /\ (acct'.status = acct.status \/ acct'.status = "failed")
      BY <1>1, <1>5 DEF MarkCredit, ProvisionFails, CheckPayment, Account
    <2>2. ProvOnly /\ UNCHANGED <<meter, consented>>
      BY <1>5 DEF MarkCredit, ProvisionFails, CheckPayment
    <2> QED  BY <2>1, <2>2 DEF ProvOnly, ConsentMoves, Exposed
  <1>6. CASE DisableThreshold(p) \/ ImportCredit(p)
    <2>1. meter'.contract = meter.contract /\ (meter'.threshold => meter.threshold)
      BY <1>1, <1>6 DEF DisableThreshold, ImportCredit, Meter
    <2>2. ProvOnly /\ UNCHANGED <<acct, consented>>
      BY <1>6 DEF DisableThreshold, ImportCredit
    <2> QED  BY <2>1, <2>2 DEF ProvOnly, ConsentMoves, Exposed
  <1>7. CASE MarkProvisioned(p)
    <2>1. acct'.overage = acct.overage /\ Exposed
      BY <1>1, <1>7 DEF MarkProvisioned, Account, Exposed
    <2>2. ProvOnly /\ UNCHANGED <<meter, consented>>
      BY <1>7 DEF MarkProvisioned
    <2> QED  BY <2>1, <2>2 DEF ProvOnly, ConsentMoves
  <1>8. CASE MovePreference(p)
    <2>1. PreferenceTarget(prov[p].snap) => consented
      BY <1>1, Zenon DEF PreferenceTarget
    <2>2. meter'.contract = meter.contract /\ (meter'.threshold => consented)
      BY <1>1, <1>8, <2>1 DEF MovePreference, Meter
    <2> QED  BY <1>8, <2>2 DEF MovePreference, ProvOnly, ConsentMoves, Exposed
  <1>9. CASE MarkPreference(p)
    <2>1. acct'.status = acct.status /\ (acct'.overage => acct.overage \/ legacyOptIn)
      BY <1>1, <1>9 DEF MarkPreference, Account
    <2> QED  BY <1>1, <1>9, <2>1 DEF MarkPreference, ProvOnly, ConsentMoves, Exposed
  <1>10. CASE SwitchThreshold(p)
    <2>1. meter'.contract = meter.contract /\ (meter'.threshold => prov[p].caller = "on")
      BY <1>1, <1>10 DEF SwitchThreshold, Meter
    <2> QED  BY <1>1, <1>10, <2>1 DEF SwitchThreshold, ProvOnly, ConsentMoves, Exposed
  <1>11. CASE MarkSwitch(p)
    <2>1. acct'.status = acct.status /\ (acct'.overage => prov[p].caller = "on")
      BY <1>1, <1>11 DEF MarkSwitch, Account
    <2> QED  BY <1>1, <1>11, <2>1 DEF MarkSwitch, ProvOnly, ConsentMoves, Exposed
  <1> QED
    BY <1>2, <1>3, <1>4, <1>5, <1>6, <1>7, <1>8, <1>9, <1>10, <1>11 DEF ProvisionStep

\* webhooks of the provider never expose,
LEMMA WebhookConsents ==
    ASSUME BillingTypeOK, ConsentInv, WebhookStep
    PROVE  ConsentMoves /\ UNCHANGED prov
  <1>1. acct \in Account
    BY DEF BillingTypeOK
  <1>2. /\ HookOnly
        /\ \/ UNCHANGED acct
           \/ \E d \in Deliveries : ApplyPayment(d) \/ ApplyAlert(d) \/ ApplyEntitlement(d)
                                    \/ ApplyOverage(d)
    BY DEF WebhookStep, DeliveryStep, ClaimWebhook, LookupAccount, ApplyWebhook,
       ApplyEntitlement, ApplyOverage, CompleteWebhook, WebhookFails, WebhookDies,
       WebhookLeaseExpires
  <1>3. ASSUME NEW d \in Deliveries,
               ApplyPayment(d) \/ ApplyAlert(d) \/ ApplyEntitlement(d) \/ ApplyOverage(d)
        PROVE  acct'.status = acct.status /\ (acct'.overage => acct.overage)
    BY <1>1, <1>3 DEF ApplyPayment, ApplyAlert, ApplyEntitlement, ApplyOverage, Account
  <1> QED  BY <1>2, <1>3, ConsentQuiet DEF HookOnly

\* and neither does checking an entitlement.
LEMMA CheckConsents ==
    ASSUME BillingTypes, ConsentInv, CheckStep
    PROVE  ConsentMoves /\ UNCHANGED prov
  <1>1. CheckOnly /\ \E b \in BOOLEAN : acct' = [acct EXCEPT !.entitled = b]
    BY CheckTyped
  <1>2. acct'.status = acct.status /\ acct'.overage = acct.overage
    BY <1>1 DEF BillingTypes, BillingTypeOK, Account
  <1> QED  BY <1>1, <1>2, ConsentQuiet DEF CheckOnly

\* Whatever calls of the provider fail, and however many invocations of
\* provision_user and update_overage cross each other: overage is recorded, and
\* the threshold of a contract in use is on, only for a user who has agreed.
THEOREM OverageIsConsented == BillingSpec => []OverageNeedsConsent
  <1>1. BillingInit => ConsentInv
    <2> SUFFICES ASSUME BillingInit PROVE ConsentInv
      OBVIOUS
    <2>1. \A p \in Provs : prov[p].pc = "idle" /\ prov[p].caller = "job"
      BY DEF BillingInit, Idle
    <2>2. acct.status = "pending" /\ acct.overage = FALSE
      BY DEF BillingInit, NewAccount
    <2>3. legacyOptIn => consented
      BY DEF BillingInit
    <2> QED  BY <2>1, <2>2, <2>3 DEF ConsentInv, Exposed
  <1>2. BillingInv /\ ConsentInv /\ [BillingNext]_billingVars => ConsentInv'
    <2> SUFFICES ASSUME BillingInv, ConsentInv, [BillingNext]_billingVars
                 PROVE  ConsentInv'
      OBVIOUS
    <2>1. BillingTypes /\ BillingTypeOK
      BY DEF BillingInv, BillingTypes
    <2>2. ASSUME NEW p \in Provs, ProvisionStep(p)
          PROVE  ConsentInv'
      BY <2>1, <2>2, ProvisionConsents, ProvisionMoves, ConsentKept
    <2>3. CASE WebhookStep \/ CheckStep
      BY <2>1, <2>3, WebhookConsents, CheckConsents, ConsentKept
    <2>4. CASE UNCHANGED billingVars
      BY <2>1, <2>4, ConsentQuiet, ConsentKept DEF billingVars
    <2> QED  BY <2>2, <2>3, <2>4 DEF BillingNext
  <1>3. ConsentInv => OverageNeedsConsent
    BY DEF ConsentInv, Exposed, OverageNeedsConsent
  <1> QED  BY <1>1, <1>2, <1>3, BillingInitially, BillingKept, PTL DEF BillingSpec

=============================================================================
