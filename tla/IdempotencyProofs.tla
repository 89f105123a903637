-------------------------- MODULE IdempotencyProofs --------------------------
(***************************************************************************)
(* Proofs about the two services that act under an idempotency key: the    *)
(* actions of paired agents and the texts of webhook tokens.  For every    *)
(* number of credentials, keys, requests, calls, providers, replays,       *)
(* restarts and failing writes.                                            *)
(***************************************************************************)
EXTENDS AgentActions, SmsDelivery, FiniteSetTheorems, TLAPS

-----------------------------------------------------------------------------
(* Agent actions: type correctness *)

\* A table indexed by two columns after one row of it was written.
LEMMA CellWritten ==
  ASSUME NEW S, NEW K, NEW V, NEW f \in [S -> [K -> V]], NEW s \in S, NEW k \in K, NEW v \in V
  PROVE  [f EXCEPT ![s][k] = v] \in [S -> [K -> V]]
OBVIOUS

Credential == [state : {"none", "active", "revoked", "expired"},
               used : 0..DailyCap, newDay : BOOLEAN]

\* Pairing and the credentials' clock keep the types.
LEMMA PairTyped ==
  ASSUME AgentTypeOK, NEW s \in Sessions,
         \/ StartPairing(s) \/ ApprovePairing(s) \/ PairingExpires(s) \/ DayEnds(s)
         \/ \E how \in {"revoked", "expired"} : EndCredential(s, how)
         \/ \E p \in Polls : PollPairing(p, s) \/ ConsumePairing(p, s)
  PROVE  AgentTypeOK'
<1> USE DEF AgentTypeOK, PairOnly
<1>0. credential \in [Sessions -> Credential]
  BY DEF Credential
<1>1. CASE StartPairing(s) \/ ApprovePairing(s) \/ PairingExpires(s)
  BY <1>1 DEF StartPairing, ApprovePairing, PairingExpires
<1>2. CASE DayEnds(s)
  <2>1. credential' \in [Sessions -> Credential]
    BY <1>0, <1>2 DEF DayEnds, Credential
  <2> QED
    BY <1>2, <2>1 DEF DayEnds, Credential
<1>3. ASSUME NEW how \in {"revoked", "expired"}, EndCredential(s, how)
      PROVE  AgentTypeOK'
  <2>1. credential' \in [Sessions -> Credential]
    BY <1>0, <1>3 DEF EndCredential, Credential
  <2> QED
    BY <1>3, <2>1 DEF EndCredential, Credential
<1>4. ASSUME NEW p \in Polls, PollPairing(p, s)
      PROVE  AgentTypeOK'
  BY <1>4 DEF PollPairing
<1>5. ASSUME NEW p \in Polls, ConsumePairing(p, s)
      PROVE  AgentTypeOK'
  <2>1. [state |-> "active", used |-> 0, newDay |-> FALSE] \in Credential
    BY AgentBoundsAssumption DEF Credential
  <2>2. credential' \in [Sessions -> Credential]
    BY <1>0, <1>5, <2>1 DEF ConsumePairing
  <2>3. session' \in [Sessions -> {"none", "open", "approved", "consumed", "over"}]
    <3>1. session' = session \/ session' = [session EXCEPT ![s] = "consumed"]
      BY <1>5, Zenon DEF ConsumePairing
    <3> QED
      BY <3>1
  <2>4. poll' \in [Polls -> SUBSET Sessions]
    BY <1>5 DEF ConsumePairing
  <2> QED
    BY <1>5, <2>2, <2>3, <2>4 DEF ConsumePairing, Credential
<1> QED
  BY <1>1, <1>2, <1>3, <1>4, <1>5

\* A request that moves on is still a request for the same key.
LEMMA ProceedsFacts ==
  ASSUME request \in [Requests -> Request], NEW r \in Requests,
         NEW pc \in {"idle", "reserve", "claim", "act", "finish", "clear", "done"},
         Proceeds(r, pc)
  PROVE  /\ request' \in [Requests -> Request]
         /\ request'[r].pc = pc
         /\ \A q \in Requests : q # r => request'[q] = request[q]
         /\ \A q \in Requests : request'[q].cred = request[q].cred
                                /\ request'[q].key = request[q].key
BY DEF Proceeds, Request

\* A key's row that is written has its type.
LEMMA RowBecomesTyped ==
  ASSUME NEW V, reserved \in [Sessions -> [Keys -> V]], NEW r, Cred(r) \in Sessions,
         Key(r) \in Keys, NEW state \in V, RowBecomes(r, state)
  PROVE  reserved' \in [Sessions -> [Keys -> V]]
BY DEF RowBecomes

\* The requests keep the types.
LEMMA RequestTyped ==
  ASSUME AgentTypeOK, NEW r \in Requests,
         \/ Authenticate(r) \/ ReserveKey(r) \/ ClaimCredential(r) \/ ClaimCredentialFails(r)
         \/ \E o \in {"done", "refused", "failed"} : Act(r, o)
         \/ \E w \in BOOLEAN : FinishAction(r, w) \/ ClearKey(r, w)
  PROVE  AgentTypeOK'
<1> USE DEF AgentTypeOK, RequestOnly
<1>0. Cred(r) \in Sessions /\ Key(r) \in Keys
  BY DEF Cred, Key, Request
<1>1. CASE Authenticate(r)
  BY <1>1, ProceedsFacts DEF Authenticate
<1>2. CASE ReserveKey(r)
  <2>1. request' \in [Requests -> Request]
    BY <1>2, ProceedsFacts DEF ReserveKey
  <2>2. reserved' \in [Sessions -> [Keys -> {"none", "held", "done", "aged"}]]
    <3>1. reserved' = reserved \/ RowBecomes(r, "held")
      BY <1>2, Zenon DEF ReserveKey
    <3> QED
      BY <1>0, <3>1, RowBecomesTyped
  <2>3. acts' \in [Sessions -> [Keys -> Nat]]
    <3>1. acts' = acts \/ acts' = [acts EXCEPT ![Cred(r)][Key(r)] = 0]
      BY <1>2, Zenon DEF ReserveKey
    <3>2. [acts EXCEPT ![Cred(r)][Key(r)] = 0] \in [Sessions -> [Keys -> Nat]]
      BY <1>0, CellWritten
    <3> QED
      BY <3>1, <3>2
  <2> QED
    BY <1>2, <2>1, <2>2, <2>3 DEF ReserveKey
<1>3. CASE ClaimCredential(r)
  <2> DEFINE c == credential[Cred(r)]
             used == IF c.newDay THEN 0 ELSE c.used
             accepted == c.state = "active" /\ used < DailyCap
             new == [c EXCEPT !.newDay = FALSE, !.used = IF accepted THEN used + 1 ELSE used]
  <2>1. c \in Credential
    BY <1>0 DEF Credential
  <2>2. used \in 0..DailyCap /\ (IF accepted THEN used + 1 ELSE used) \in 0..DailyCap
    BY <2>1, AgentBoundsAssumption DEF Credential
  <2>3. new \in Credential
    BY <2>1, <2>2 DEF Credential
  <2>4. credential' = [credential EXCEPT ![Cred(r)] = new]
    BY <1>3, Zenon DEF ClaimCredential
  <2>5. credential' \in [Sessions -> Credential]
    BY <1>0, <2>3, <2>4 DEF Credential
  <2>6. request' \in [Requests -> Request]
    BY <1>3, ProceedsFacts DEF ClaimCredential
  <2> QED
    BY <1>3, <2>5, <2>6 DEF ClaimCredential, Credential
<1>4. ASSUME NEW o \in {"done", "refused", "failed"}, Act(r, o)
      PROVE  AgentTypeOK'
  <2>1. request' \in [Requests -> Request]
    BY <1>4, ProceedsFacts DEF Act
  <2>2. acts' \in [Sessions -> [Keys -> Nat]]
    BY <1>0, <1>4 DEF Act
  <2> QED
    BY <1>4, <2>1, <2>2 DEF Act
<1>5. ASSUME NEW w \in BOOLEAN, FinishAction(r, w) \/ ClearKey(r, w)
      PROVE  AgentTypeOK'
  <2>1. request' \in [Requests -> Request]
    BY <1>5, ProceedsFacts DEF FinishAction, ClearKey
  <2>2. reserved' \in [Sessions -> [Keys -> {"none", "held", "done", "aged"}]]
    <3>1. reserved' = reserved \/ RowBecomes(r, "done") \/ RowBecomes(r, "none")
      BY <1>5, Zenon DEF FinishAction, ClearKey
    <3> QED
      BY <1>0, <3>1, RowBecomesTyped
  <2>3. agentFaults' \in 0..MaxAgentFaults
    BY <1>5, AgentBoundsAssumption DEF FinishAction, ClearKey, KeyStored
  <2> QED
    BY <1>5, <2>1, <2>2, <2>3 DEF FinishAction, ClearKey
<1>6. CASE ClaimCredentialFails(r)
  BY <1>6, ProceedsFacts, AgentBoundsAssumption DEF ClaimCredentialFails
<1> QED
  BY <1>1, <1>2, <1>3, <1>4, <1>5, <1>6

\* Keys that age and restarts keep the types.
LEMMA AgentEnvTyped ==
  ASSUME AgentTypeOK, (\E s \in Sessions, k \in Keys : KeyAges(s, k)) \/ RestartAgents
  PROVE  AgentTypeOK'
<1> USE DEF AgentTypeOK
<1>1. ASSUME NEW s \in Sessions, NEW k \in Keys, KeyAges(s, k)
      PROVE  AgentTypeOK'
  BY <1>1 DEF KeyAges
<1>2. CASE RestartAgents
  <2>1. ASSUME NEW r \in Requests
        PROVE  [request[r] EXCEPT !.pc = "done"] \in Request
    BY DEF Request
  <2>2. request' \in [Requests -> Request]
    BY <1>2, <2>1 DEF RestartAgents
  <2>3. agentFaults' \in 0..MaxAgentFaults
    BY <1>2, AgentBoundsAssumption DEF RestartAgents
  <2> QED
    BY <1>2, <2>2, <2>3 DEF RestartAgents
<1> QED
  BY <1>1, <1>2

\* The pairing sessions, credentials, keys and requests keep their types; the
\* count of a credential's day never passes the cap of claim_credential.
THEOREM AgentTypeCorrect == AgentSpec => []AgentTypeOK
<1>1. AgentInit => AgentTypeOK
  BY AgentBoundsAssumption DEF AgentInit, AgentTypeOK, Request
<1>2. AgentTypeOK /\ [AgentNext]_agentVars => AgentTypeOK'
  <2> SUFFICES ASSUME AgentTypeOK, [AgentNext]_agentVars PROVE AgentTypeOK'
    OBVIOUS
  <2>1. CASE AgentNext
    BY <2>1, PairTyped, RequestTyped, AgentEnvTyped DEF AgentNext
  <2>2. CASE UNCHANGED agentVars
    BY <2>2 DEF agentVars, AgentTypeOK
  <2> QED
    BY <2>1, <2>2
<1> QED
  BY <1>1, <1>2, PTL DEF AgentSpec

-----------------------------------------------------------------------------
(* Agent actions: a key acts once *)

\* The request has reserved its key and not yet settled it.
HoldsKey(r) == request[r].pc \in {"claim", "act", "finish", "clear"}

\* A key's row is held as long as a request works under it, only one does, and
\* until that request acts nothing has been done under the row.
KeyInv ==
    /\ KeyActsOnce
    /\ \A r \in Requests :
          /\ HoldsKey(r) => KeyRow(r) = "held"
          /\ request[r].pc \in {"claim", "act", "clear"} => acts[Cred(r)][Key(r)] = 0
    /\ \A r, q \in Requests :
          HoldsKey(r) /\ HoldsKey(q) /\ Cred(r) = Cred(q) /\ Key(r) = Key(q) => r = q

\* reserve_idempotency gives a key only to a request that finds no other at work.
LEMMA ReserveKeepsKey ==
  ASSUME AgentTypeOK, KeyInv, NEW r \in Requests, ReserveKey(r)
  PROVE  KeyInv'
<1> USE DEF HoldsKey, KeyRow, Cred, Key
<1>0. /\ request \in [Requests -> Request] /\ Cred(r) \in Sessions /\ Key(r) \in Keys
      /\ \A q \in Requests : Cred(q) \in Sessions /\ Key(q) \in Keys
  BY DEF AgentTypeOK, Request
<1>1. CASE KeyRow(r) \in {"none", "aged"}
  <2>1. \A q \in Requests : Cred(q) = Cred(r) /\ Key(q) = Key(r) => ~HoldsKey(q)
    BY <1>1 DEF KeyInv
  <2>2. Proceeds(r, "claim") /\ RowBecomes(r, "held")
        /\ acts' = [acts EXCEPT ![Cred(r)][Key(r)] = 0]
    BY <1>1 DEF ReserveKey
  <2>3. /\ request'[r].pc = "claim"
        /\ \A q \in Requests : q # r => request'[q] = request[q]
        /\ \A q \in Requests : request'[q].cred = request[q].cred
                               /\ request'[q].key = request[q].key
    BY <1>0, <2>2, ProceedsFacts
  <2>4. /\ reserved'[Cred(r)][Key(r)] = "held"
        /\ acts'[Cred(r)][Key(r)] = 0
        /\ \A s \in Sessions, k \in Keys : s # Cred(r) \/ k # Key(r) =>
              reserved'[s][k] = reserved[s][k] /\ acts'[s][k] = acts[s][k]
    BY <1>0, <2>2 DEF RowBecomes, AgentTypeOK
  <2>5. KeyActsOnce'
    BY <2>4 DEF KeyInv, KeyActsOnce
  <2>6. ASSUME NEW q \in Requests
        PROVE  /\ HoldsKey(q)' => KeyRow(q)' = "held"
               /\ request'[q].pc \in {"claim", "act", "clear"} => acts'[Cred(q)'][Key(q)'] = 0
    BY <1>0, <2>1, <2>3, <2>4 DEF KeyInv
  <2>7. ASSUME NEW p \in Requests, NEW q \in Requests,
               HoldsKey(p)', HoldsKey(q)', Cred(p)' = Cred(q)', Key(p)' = Key(q)'
        PROVE  p = q
    BY <2>1, <2>3, <2>7 DEF KeyInv
  <2> QED
    BY <2>5, <2>6, <2>7 DEF KeyInv
<1>2. CASE KeyRow(r) \notin {"none", "aged"}
  <2>1. /\ request'[r].pc = "done"
        /\ \A q \in Requests : q # r => request'[q] = request[q]
    BY <1>0, <1>2, ProceedsFacts DEF ReserveKey
  <2>2. UNCHANGED <<reserved, acts>>
    BY <1>2 DEF ReserveKey
  <2> QED
    BY <2>1, <2>2 DEF KeyInv, KeyActsOnce
<1> QED
  BY <1>1, <1>2

\* A step of a request that leaves the key rows alone: claim_credential, and the
\* action itself.
LEMMA ActKeepsKey ==
  ASSUME AgentTypeOK, KeyInv, NEW r \in Requests,
         \/ ClaimCredential(r) \/ ClaimCredentialFails(r)
         \/ \E o \in {"done", "refused", "failed"} : Act(r, o)
  PROVE  KeyInv'
<1> USE DEF HoldsKey, KeyRow, Cred, Key
<1>0. /\ request \in [Requests -> Request] /\ Cred(r) \in Sessions /\ Key(r) \in Keys
      /\ \A q \in Requests : Cred(q) \in Sessions /\ Key(q) \in Keys
  BY DEF AgentTypeOK, Request
<1>1. CASE ClaimCredential(r) \/ ClaimCredentialFails(r)
  <2>1. PICK pc \in {"act", "clear"} : Proceeds(r, pc)
    BY <1>1 DEF ClaimCredential, ClaimCredentialFails
  <2>2. request[r].pc = "claim" /\ UNCHANGED <<reserved, acts>>
    BY <1>1 DEF ClaimCredential, ClaimCredentialFails
  <2> QED
    BY <1>0, <2>1, <2>2, ProceedsFacts DEF KeyInv, KeyActsOnce
<1>2. ASSUME NEW o \in {"done", "refused", "failed"}, Act(r, o)
      PROVE  KeyInv'
  <2> DEFINE pc == IF o = "failed" THEN "clear" ELSE "finish"
  <2>1. request[r].pc = "act" /\ Proceeds(r, pc) /\ UNCHANGED reserved
    BY <1>2 DEF Act
  <2>2. /\ acts'[Cred(r)][Key(r)] = IF o = "done" THEN 1 ELSE 0
        /\ \A s \in Sessions, k \in Keys : s # Cred(r) \/ k # Key(r) =>
              acts'[s][k] = acts[s][k]
    BY <1>0, <1>2, <2>1 DEF Act, KeyInv, AgentTypeOK
  <2>3. /\ request'[r].pc = pc
        /\ \A q \in Requests : q # r => request'[q] = request[q]
        /\ \A q \in Requests : request'[q].cred = request[q].cred
                               /\ request'[q].key = request[q].key
    BY <1>0, <2>1, ProceedsFacts
  <2>4. KeyActsOnce'
    BY <2>2 DEF KeyInv, KeyActsOnce
  <2>5. ASSUME NEW q \in Requests
        PROVE  /\ HoldsKey(q)' => KeyRow(q)' = "held"
               /\ request'[q].pc \in {"claim", "act", "clear"} => acts'[Cred(q)'][Key(q)'] = 0
    BY <1>0, <2>1, <2>2, <2>3 DEF KeyInv
  <2>6. ASSUME NEW p \in Requests, NEW q \in Requests,
               HoldsKey(p)', HoldsKey(q)', Cred(p)' = Cred(q)', Key(p)' = Key(q)'
        PROVE  p = q
    BY <2>1, <2>3, <2>6 DEF KeyInv
  <2> QED
    BY <2>4, <2>5, <2>6 DEF KeyInv
<1> QED
  BY <1>1, <1>2

\* The request that settles a key is the only one at work under it.
LEMMA SettleKeepsKey ==
  ASSUME AgentTypeOK, KeyInv, NEW r \in Requests, NEW w \in BOOLEAN,
         FinishAction(r, w) \/ ClearKey(r, w)
  PROVE  KeyInv'
<1> USE DEF HoldsKey, KeyRow, Cred, Key
<1>0. /\ request \in [Requests -> Request] /\ Cred(r) \in Sessions /\ Key(r) \in Keys
      /\ \A q \in Requests : Cred(q) \in Sessions /\ Key(q) \in Keys
  BY DEF AgentTypeOK, Request
<1>1. HoldsKey(r) /\ Proceeds(r, "done") /\ UNCHANGED acts
  BY DEF FinishAction, ClearKey
<1>2. /\ request'[r].pc = "done"
      /\ \A q \in Requests : q # r => request'[q] = request[q]
  BY <1>0, <1>1, ProceedsFacts
<1>3. \A s \in Sessions, k \in Keys : s # Cred(r) \/ k # Key(r) =>
         reserved'[s][k] = reserved[s][k]
  BY <1>0 DEF FinishAction, ClearKey, RowBecomes, AgentTypeOK
<1>4. \A q \in Requests : q # r /\ HoldsKey(q) => Cred(q) # Cred(r) \/ Key(q) # Key(r)
  BY <1>1 DEF KeyInv
<1> QED
  BY <1>0, <1>1, <1>2, <1>3, <1>4 DEF KeyInv, KeyActsOnce

\* No step lets a key act twice.
LEMMA KeyInvInductive ==
  ASSUME AgentTypeOK, KeyInv, AgentNext
  PROVE  KeyInv'
<1> USE DEF HoldsKey, KeyRow, Cred, Key
<1>0. request \in [Requests -> Request]
  BY DEF AgentTypeOK
<1>1. ASSUME NEW s \in Sessions,
             \/ StartPairing(s) \/ ApprovePairing(s) \/ PairingExpires(s) \/ DayEnds(s)
             \/ \E how \in {"revoked", "expired"} : EndCredential(s, how)
             \/ \E p \in Polls : PollPairing(p, s) \/ ConsumePairing(p, s)
      PROVE  KeyInv'
  <2>1. UNCHANGED <<reserved, request, acts>>
    BY <1>1 DEF StartPairing, ApprovePairing, PairingExpires, DayEnds, EndCredential,
                PollPairing, ConsumePairing, PairOnly
  <2> QED
    BY <2>1 DEF KeyInv, KeyActsOnce
<1>2. ASSUME NEW s \in Sessions, NEW k \in Keys, KeyAges(s, k)
      PROVE  KeyInv'
  <2>1. \A x \in Sessions, y \in Keys : x # s \/ y # k => reserved'[x][y] = reserved[x][y]
    BY <1>2 DEF KeyAges, AgentTypeOK
  <2>2. \A q \in Requests : HoldsKey(q) => Cred(q) # s \/ Key(q) # k
    BY <1>2 DEF KeyAges
  <2>3. \A q \in Requests : Cred(q) \in Sessions /\ Key(q) \in Keys
    BY <1>0 DEF Request
  <2>4. UNCHANGED <<request, acts>>
    BY <1>2 DEF KeyAges
  <2> QED
    BY <2>1, <2>2, <2>3, <2>4 DEF KeyInv, KeyActsOnce
<1>3. ASSUME NEW r \in Requests, Authenticate(r)
      PROVE  KeyInv'
  BY <1>0, <1>3, ProceedsFacts DEF Authenticate, KeyInv, KeyActsOnce
<1>4. CASE RestartAgents
  <2>1. ASSUME NEW r \in Requests
        PROVE  request'[r].pc \in {"idle", "done"}
    BY <1>0, <1>4 DEF RestartAgents, Request
  <2>2. acts' = acts
    BY <1>4 DEF RestartAgents
  <2> QED
    BY <2>1, <2>2 DEF KeyInv, KeyActsOnce
<1> QED
  BY <1>1, <1>2, <1>3, <1>4, ReserveKeepsKey, ActKeepsKey, SettleKeepsKey DEF AgentNext

\* An action is taken at most once under a key's row, whatever agents send at
\* once and whichever write or restart comes between acting and finish_action.
THEOREM KeysActOnce == AgentSpec => []KeyActsOnce
<1>1. AgentInit => KeyInv
  BY DEF AgentInit, KeyInv, KeyActsOnce, HoldsKey
<1>2. AgentTypeOK /\ KeyInv /\ [AgentNext]_agentVars => KeyInv'
  <2>1. UNCHANGED agentVars /\ KeyInv => KeyInv'
    BY DEF agentVars, KeyInv, KeyActsOnce, HoldsKey, KeyRow, Cred, Key
  <2> QED
    BY <2>1, KeyInvInductive
<1>3. KeyInv => KeyActsOnce
  BY DEF KeyInv
<1> QED
  BY <1>1, <1>2, <1>3, AgentTypeCorrect, PTL DEF AgentSpec

-----------------------------------------------------------------------------
(* Webhook texts: type correctness *)

CallPc == {"idle", "reserve", "check", "claim", "send", "log", "finish", "clear", "done"}
Call == [pc : CallPc, key : HookKeys \union {NoKey}, left : SUBSET SmsProviders]
Replay == [pc : {"claim", "send"}, of : HookCalls, tries : 1..ClaimAttempts]

\* What becomes of the calls when one of them goes on ...
LEMMA CallGoesFacts ==
  ASSUME hookCall \in [HookCalls -> Call], NEW c \in HookCalls, NEW pc \in CallPc,
         CallGoes(c, pc)
  PROVE  /\ hookCall' \in [HookCalls -> Call]
         /\ hookCall'[c].pc = pc
         /\ \A d \in HookCalls : d # c => hookCall'[d] = hookCall[d]
         /\ \A d \in HookCalls : hookCall'[d].key = hookCall[d].key
BY DEF CallGoes, Call

\* ... or ends ...
LEMMA CallEndsFacts ==
  ASSUME hookCall \in [HookCalls -> Call], NEW c \in HookCalls, CallEnds(c)
  PROVE  /\ hookCall' \in [HookCalls -> Call]
         /\ hookCall'[c].pc = "done"
         /\ \A d \in HookCalls : d # c => hookCall'[d] = hookCall[d]
         /\ \A d \in HookCalls : hookCall'[d].key = hookCall[d].key
<1> DEFINE new == [hookCall[c] EXCEPT !.pc = "done", !.left = {}]
<1>1. hookCall' = [hookCall EXCEPT ![c] = new]
  BY DEF CallEnds, Call
<1>2. new \in Call /\ new.pc = "done" /\ new.key = hookCall[c].key
  BY DEF Call, CallPc
<1> QED
  BY <1>1, <1>2

\* ... or has been turned down by a provider.
LEMMA NextProviderFacts ==
  ASSUME hookCall \in [HookCalls -> Call], NEW c \in HookCalls, NEW p, NextProvider(c, p)
  PROVE  /\ hookCall' \in [HookCalls -> Call]
         /\ hookCall[c].pc = "send" /\ hookCall'[c].pc \in {"send", "clear"}
         /\ \A d \in HookCalls : d # c => hookCall'[d] = hookCall[d]
         /\ \A d \in HookCalls : hookCall'[d].key = hookCall[d].key
<1> DEFINE left == hookCall[c].left \ {p}
           pc == IF hookCall[c].left = {p} THEN "clear" ELSE hookCall[c].pc
           new == [hookCall[c] EXCEPT !.left = left, !.pc = pc]
<1>1. hookCall' = [hookCall EXCEPT ![c] = new] /\ hookCall[c].pc = "send"
  BY DEF NextProvider, Call
<1>2. new \in Call /\ new.pc \in {"send", "clear"} /\ new.key = hookCall[c].key
  BY <1>1 DEF Call, CallPc
<1> QED
  BY <1>1, <1>2

\* A restart ends every call that has begun.
LEMMA RestartSmsFacts ==
  ASSUME hookCall \in [HookCalls -> Call], RestartSms
  PROVE  /\ hookCall' \in [HookCalls -> Call]
         /\ \A d \in HookCalls :
               /\ hookCall'[d].key = hookCall[d].key
               /\ hookCall'[d].pc \in {"idle", "done"}
               /\ hookCall'[d].pc = "idle" => hookCall[d].pc = "idle"
<1>1. ASSUME NEW d \in HookCalls
      PROVE  LET new == [hookCall[d] EXCEPT !.pc = "done", !.left = {}]
             IN  new \in Call /\ new.pc = "done" /\ new.key = hookCall[d].key
  BY DEF Call, CallPc
<1>2. hookCall' = [c \in HookCalls |-> IF hookCall[c].pc = "idle" THEN hookCall[c]
                                        ELSE [hookCall[c] EXCEPT !.pc = "done", !.left = {}]]
  BY DEF RestartSms
<1> QED
  BY <1>1, <1>2

\* A provider that was being asked may have the call's text; no other text moves.
LEMMA RestartSmsTakes ==
  ASSUME SmsTypeOK, RestartSms
  PROVE  /\ reach' \in [HookCalls -> SUBSET (SmsProviders \union Replays)]
         /\ twilio' \in [HookCalls -> {"none", "taken", "failed", "optout"}]
         /\ \A d \in HookCalls :
               \/ reach'[d] = reach[d] /\ twilio'[d] = twilio[d]
               \/ /\ hookCall[d].pc = "send"
                  /\ \E p \in SmsProviders :
                        /\ reach'[d] = reach[d] \union {p}
                        /\ twilio'[d] = IF p = "twilio" THEN "taken" ELSE twilio[d]
<1>1. PICK taken \in [HookCalls -> SUBSET SmsProviders] :
         /\ \A c \in HookCalls : \A p, q \in taken[c] :
               p = q /\ hookCall[c].pc = "send" /\ p \in hookCall[c].left
         /\ reach' = [c \in HookCalls |-> reach[c] \union taken[c]]
         /\ twilio' = [c \in HookCalls |-> IF "twilio" \in taken[c] THEN "taken" ELSE twilio[c]]
  BY DEF RestartSms
<1>2. ASSUME NEW d \in HookCalls, taken[d] = {}
      PROVE  reach'[d] = reach[d] /\ twilio'[d] = twilio[d]
  BY <1>1, <1>2
<1>3. ASSUME NEW d \in HookCalls, NEW p \in taken[d]
      PROVE  /\ hookCall[d].pc = "send" /\ p \in SmsProviders
             /\ reach'[d] = reach[d] \union {p}
             /\ twilio'[d] = IF p = "twilio" THEN "taken" ELSE twilio[d]
  <2>1. taken[d] = {p} /\ p \in SmsProviders
    BY <1>1, <1>3
  <2>2. hookCall[d].pc = "send"
    BY <1>1, <1>3
  <2>3. reach'[d] = reach[d] \union taken[d]
    BY <1>1, <1>3
  <2>4. twilio'[d] = IF "twilio" \in taken[d] THEN "taken" ELSE twilio[d]
    BY <1>1, <1>3
  <2>5. "twilio" \in taken[d] <=> p = "twilio"
    BY <2>1
  <2> QED
    BY <2>1, <2>2, <2>3, <2>4, <2>5
<1>4. reach' \in [HookCalls -> SUBSET (SmsProviders \union Replays)]
  <2>1. \A c \in HookCalls : reach[c] \union taken[c] \subseteq SmsProviders \union Replays
    BY DEF SmsTypeOK
  <2> QED
    BY <1>1, <2>1
<1>5. twilio' \in [HookCalls -> {"none", "taken", "failed", "optout"}]
  BY <1>1 DEF SmsTypeOK
<1>6. ASSUME NEW d \in HookCalls
      PROVE  \/ reach'[d] = reach[d] /\ twilio'[d] = twilio[d]
             \/ /\ hookCall[d].pc = "send"
                /\ \E p \in SmsProviders :
                      /\ reach'[d] = reach[d] \union {p}
                      /\ twilio'[d] = IF p = "twilio" THEN "taken" ELSE twilio[d]
  <2>1. CASE taken[d] = {}
    BY <1>2, <2>1
  <2>2. CASE taken[d] # {}
    <3>1. PICK p \in taken[d] : TRUE
      BY <2>2
    <3> QED
      BY <1>3, <3>1
  <2> QED
    BY <2>1, <2>2
<1> QED
  BY <1>4, <1>5, <1>6

\* A text that a provider takes can reach the user, whatever else could.
LEMMA TakesFacts ==
  ASSUME SmsTypeOK, NEW c \in HookCalls, NEW p \in SmsProviders, Takes(c, p)
  PROVE  /\ reach' \in [HookCalls -> SUBSET (SmsProviders \union Replays)]
         /\ twilio' \in [HookCalls -> {"none", "taken", "failed", "optout"}]
         /\ reach'[c] = reach[c] \union {p}
         /\ twilio'[c] = IF p = "twilio" THEN "taken" ELSE twilio[c]
         /\ \A d \in HookCalls : d # c => reach'[d] = reach[d] /\ twilio'[d] = twilio[d]
BY DEF SmsTypeOK, Takes

\* A fault is counted.
LEMMA SmsFaultTyped == SmsTypeOK /\ SmsFault => smsFaults' \in 0..MaxSmsFaults
BY SmsAssumption DEF SmsTypeOK, SmsFault

\* The steps of a call up to the providers keep the types.
LEMMA CallEarlyTyped ==
  ASSUME SmsTypeOK, NEW c \in HookCalls,
         \/ WebhookSms(c) \/ ReserveIdempotencyKey(c)
         \/ \E v \in {"allowed", "suppressed", "refused"} : CheckUser(c, v)
         \/ CheckBreaksOff(c) \/ ClaimSendSlot(c) \/ ClaimFails(c)
  PROVE  SmsTypeOK'
<1> USE DEF NothingSent
<1>0. hookCall \in [HookCalls -> Call] /\ {"reserve", "check", "claim", "send", "finish", "clear"}
                                          \subseteq CallPc
  BY DEF SmsTypeOK, Call, CallPc
<1>1. CASE WebhookSms(c)
  BY <1>0, <1>1, CallGoesFacts DEF WebhookSms, SmsTypeOK, Call, CallPc
<1>2. CASE ReserveIdempotencyKey(c)
  <2>1. hookCall' \in [HookCalls -> Call]
    BY <1>0, <1>2, CallGoesFacts, CallEndsFacts DEF ReserveIdempotencyKey
  <2>2. CASE UNCHANGED <<hookKey, window>>
    BY <1>2, <2>1, <2>2 DEF ReserveIdempotencyKey, SmsTypeOK, Call, CallPc
  <2>3. CASE Keyed(c) /\ KeyBecomes(c, "held")
             /\ window' = [window EXCEPT ![hookCall[c].key] =
                               IF KeyRowOf(c) = "aged" THEN {c} ELSE @ \union {c}]
    <3>1. hookCall[c].key \in HookKeys
      BY <1>0, <2>3 DEF Keyed, Call
    <3>2. hookKey' \in [HookKeys -> {"none", "held", "done", "aged"}]
      BY <2>3 DEF SmsTypeOK, KeyBecomes
    <3>3. window' \in [HookKeys -> SUBSET HookCalls]
      BY <2>3, <3>1 DEF SmsTypeOK
    <3> QED
      BY <1>2, <2>1, <3>2, <3>3 DEF ReserveIdempotencyKey, SmsTypeOK, Call, CallPc
  <2> QED
    BY <1>2, <2>2, <2>3 DEF ReserveIdempotencyKey
<1>3. ASSUME NEW v \in {"allowed", "suppressed", "refused"}, CheckUser(c, v)
      PROVE  SmsTypeOK'
  <2>1. PICK pc \in {"claim", "finish", "clear"} : CallGoes(c, pc)
    BY <1>3 DEF CheckUser
  <2>2. hookCall' \in [HookCalls -> Call]
    BY <1>0, <2>1, CallGoesFacts
  <2> QED
    BY <1>3, <2>2 DEF CheckUser, SmsTypeOK, Call, CallPc
<1>4. CASE CheckBreaksOff(c)
  BY <1>0, <1>4, CallEndsFacts, SmsFaultTyped DEF CheckBreaksOff, SmsTypeOK, Call, CallPc
<1>5. CASE ClaimSendSlot(c)
  <2> DEFINE sent == IF hookToken.newDay THEN 0 ELSE hookToken.sent
             claimed == ~hookToken.revoked /\ sent < HookCap
             count == IF claimed THEN sent + 1 ELSE sent
  <2>1. hookToken' = [hookToken EXCEPT !.newDay = FALSE, !.sent = count]
    BY <1>5 DEF ClaimSendSlot
  <2>2. count \in 0..HookCap
    BY SmsAssumption DEF SmsTypeOK
  <2>3. hookToken' \in [revoked : BOOLEAN, sent : 0..HookCap, newDay : BOOLEAN]
    BY <2>1, <2>2 DEF SmsTypeOK
  <2>4. hookCall' \in [HookCalls -> Call]
    BY <1>0, <1>5, CallGoesFacts DEF ClaimSendSlot
  <2> QED
    BY <1>5, <2>3, <2>4 DEF ClaimSendSlot, SmsTypeOK, Call, CallPc
<1>6. CASE ClaimFails(c)
  BY <1>0, <1>6, CallGoesFacts, SmsFaultTyped DEF ClaimFails, SmsTypeOK, Call, CallPc
<1> QED
  BY <1>1, <1>2, <1>3, <1>4, <1>5, <1>6

\* The walk through the providers and the call's end keep the types.
LEMMA CallLateTyped ==
  ASSUME SmsTypeOK, NEW c \in HookCalls,
         \/ \E p \in SmsProviders :
               \/ ProviderAccepts(c, p) \/ ProviderRefuses(c, p) \/ AnswerLost(c, p)
               \/ \E took \in BOOLEAN : SendCancelled(c, p, took)
         \/ \E w \in BOOLEAN :
               LogMessageStatus(c, w) \/ CompleteIdempotency(c, w) \/ ReleaseIdempotency(c, w)
  PROVE  SmsTypeOK'
<1>0. hookCall \in [HookCalls -> Call] /\ {"log", "finish"} \subseteq CallPc
  BY DEF SmsTypeOK, Call, CallPc
<1>1. ASSUME NEW p \in SmsProviders, ProviderAccepts(c, p)
      PROVE  SmsTypeOK'
  <2>1. hookCall' \in [HookCalls -> Call]
    BY <1>0, <1>1, CallGoesFacts DEF ProviderAccepts
  <2> QED
    BY <1>1, <2>1, TakesFacts DEF ProviderAccepts, SmsTypeOK, Call, CallPc
<1>2. ASSUME NEW p \in SmsProviders, ProviderRefuses(c, p)
      PROVE  SmsTypeOK'
  <2>1. hookCall' \in [HookCalls -> Call]
    BY <1>0, <1>2, NextProviderFacts DEF ProviderRefuses
  <2> QED
    BY <1>2, <2>1 DEF ProviderRefuses, NextProvider, SmsTypeOK, Call, CallPc
<1>3. ASSUME NEW p \in SmsProviders, AnswerLost(c, p)
      PROVE  SmsTypeOK'
  <2>1. hookCall' \in [HookCalls -> Call]
    BY <1>0, <1>3, NextProviderFacts DEF AnswerLost
  <2>2. doubted' \subseteq HookCalls /\ smsFaults' \in 0..MaxSmsFaults
    BY <1>3, SmsFaultTyped DEF AnswerLost, SmsTypeOK
  <2>3. /\ reach' \in [HookCalls -> SUBSET (SmsProviders \union Replays)]
        /\ twilio' \in [HookCalls -> {"none", "taken", "failed", "optout"}]
    BY <1>3, TakesFacts DEF AnswerLost
  <2>4. UNCHANGED <<hookToken, hookKey, logRow, replay, window>>
    BY <1>3 DEF AnswerLost, NextProvider
  <2> QED
    BY <2>1, <2>2, <2>3, <2>4 DEF SmsTypeOK, Call, CallPc
<1>4. ASSUME NEW p \in SmsProviders, NEW took \in BOOLEAN, SendCancelled(c, p, took)
      PROVE  SmsTypeOK'
  <2>1. hookCall' \in [HookCalls -> Call]
    BY <1>0, <1>4, CallEndsFacts DEF SendCancelled
  <2>2. /\ reach' \in [HookCalls -> SUBSET (SmsProviders \union Replays)]
        /\ twilio' \in [HookCalls -> {"none", "taken", "failed", "optout"}]
    BY <1>4, TakesFacts DEF SendCancelled, SmsTypeOK
  <2> QED
    BY <1>4, <2>1, <2>2, SmsFaultTyped DEF SendCancelled, SmsTypeOK, Call, CallPc
<1>5. ASSUME NEW w \in BOOLEAN, LogMessageStatus(c, w)
      PROVE  SmsTypeOK'
  <2>1. hookCall' \in [HookCalls -> Call]
    BY <1>0, <1>5, CallGoesFacts DEF LogMessageStatus
  <2>2. logRow' \in [HookCalls -> {"none", "open", "claimed"}]
    BY <1>5 DEF LogMessageStatus, SmsTypeOK
  <2>3. smsFaults' \in 0..MaxSmsFaults
    BY <1>5, SmsFaultTyped DEF LogMessageStatus, SmsStored, SmsTypeOK
  <2> QED
    BY <1>5, <2>1, <2>2, <2>3 DEF LogMessageStatus, SmsTypeOK, Call, CallPc
<1>6. ASSUME NEW w \in BOOLEAN, CompleteIdempotency(c, w) \/ ReleaseIdempotency(c, w)
      PROVE  SmsTypeOK'
  <2>1. hookCall' \in [HookCalls -> Call]
    BY <1>0, <1>6, CallEndsFacts DEF CompleteIdempotency, ReleaseIdempotency
  <2>2. hookKey' \in [HookKeys -> {"none", "held", "done", "aged"}]
    <3>1. hookKey' = hookKey \/ KeyBecomes(c, "done") \/ KeyBecomes(c, "none")
      BY <1>6, Zenon DEF CompleteIdempotency, ReleaseIdempotency
    <3> QED
      BY <3>1 DEF KeyBecomes, SmsTypeOK
  <2>3. smsFaults' \in 0..MaxSmsFaults
    BY <1>6, SmsFaultTyped DEF CompleteIdempotency, ReleaseIdempotency, SmsStored, SmsTypeOK
  <2> QED
    BY <1>6, <2>1, <2>2, <2>3 DEF CompleteIdempotency, ReleaseIdempotency, NothingSent,
       SmsTypeOK, Call, CallPc
<1> QED
  BY <1>1, <1>2, <1>3, <1>4, <1>5, <1>6

\* What a replay's own steps do to the replays.
LEMMA ReplayFacts ==
  ASSUME replay \in [Replays -> {NoReplay} \union Replay], NEW t \in Replays,
         replay[t].pc # "idle"
  PROVE  /\ replay[t] \in Replay
         /\ [replay EXCEPT ![t] = NoReplay] \in [Replays -> {NoReplay} \union Replay]
         /\ [replay EXCEPT ![t].pc = "send"] \in [Replays -> {NoReplay} \union Replay]
         /\ [replay EXCEPT ![t].pc = "send"][t].of = replay[t].of
         /\ [replay EXCEPT ![t].pc = "send"][t].pc = "send"
         /\ replay[t].tries < ClaimAttempts =>
              /\ [replay EXCEPT ![t].tries = @ + 1] \in [Replays -> {NoReplay} \union Replay]
              /\ [replay EXCEPT ![t].tries = @ + 1][t].of = replay[t].of
              /\ [replay EXCEPT ![t].tries = @ + 1][t].pc = replay[t].pc
<1>1. replay[t] \in Replay
  BY DEF NoReplay
<1>2. /\ [replay[t] EXCEPT !.pc = "send"] \in Replay
      /\ [replay[t] EXCEPT !.pc = "send"].of = replay[t].of
      /\ [replay[t] EXCEPT !.pc = "send"].pc = "send"
  BY <1>1 DEF Replay
<1>3. ASSUME replay[t].tries < ClaimAttempts
      PROVE  LET new == [replay[t] EXCEPT !.tries = @ + 1]
             IN  new \in Replay /\ new.of = replay[t].of /\ new.pc = replay[t].pc
  BY <1>1, <1>3, SmsAssumption DEF Replay
<1>4. /\ [replay EXCEPT ![t].pc = "send"] = [replay EXCEPT ![t] = [replay[t] EXCEPT !.pc = "send"]]
      /\ [replay EXCEPT ![t].tries = @ + 1]
            = [replay EXCEPT ![t] = [replay[t] EXCEPT !.tries = @ + 1]]
  OBVIOUS
<1> QED
  BY <1>1, <1>2, <1>3, <1>4

\* Twilio's reports, the replays, the log's retention, the clock and restarts
\* keep the types.
LEMMA SmsEnvTyped ==
  ASSUME SmsTypeOK,
         \/ \E c \in HookCalls :
               \/ PurgeLogRow(c)
               \/ \E how \in {"failed", "optout"} : TwilioFails(c, how)
               \/ \E t \in Replays : TwilioStatusCallback(c, t)
         \/ \E t \in Replays :
               \/ ClaimTelnyxDeliveryFallback(t) \/ ReplayClaimFails(t)
               \/ \E taken \in BOOLEAN : SendReplay(t, taken)
         \/ \E k \in HookKeys : HookKeyAges(k)
         \/ RevokeToken \/ Midnight \/ RestartSms
  PROVE  SmsTypeOK'
<1> USE DEF CallsOnly, NothingSent
<1>0. hookCall \in [HookCalls -> Call] /\ replay \in [Replays -> {NoReplay} \union Replay]
  BY DEF SmsTypeOK, Call, CallPc, Replay
<1>1. ASSUME NEW c \in HookCalls, PurgeLogRow(c)
      PROVE  SmsTypeOK'
  BY <1>1 DEF PurgeLogRow, SmsTypeOK
<1>2. ASSUME NEW c \in HookCalls, NEW how \in {"failed", "optout"}, TwilioFails(c, how)
      PROVE  SmsTypeOK'
  <2>1. /\ reach' \in [HookCalls -> SUBSET (SmsProviders \union Replays)]
        /\ twilio' \in [HookCalls -> {"none", "taken", "failed", "optout"}]
    BY <1>2 DEF TwilioFails, SmsTypeOK
  <2> QED
    BY <1>2, <2>1 DEF TwilioFails, SmsTypeOK
<1>3. ASSUME NEW c \in HookCalls, NEW t \in Replays, TwilioStatusCallback(c, t)
      PROVE  SmsTypeOK'
  <2>1. [pc |-> "claim", of |-> c, tries |-> 1] \in Replay
    BY SmsAssumption DEF Replay
  <2>2. replay' \in [Replays -> {NoReplay} \union Replay]
    BY <1>0, <1>3, <2>1 DEF TwilioStatusCallback
  <2> QED
    BY <1>3, <2>2 DEF TwilioStatusCallback, SmsTypeOK, Replay
<1>4. ASSUME NEW t \in Replays, ClaimTelnyxDeliveryFallback(t)
      PROVE  SmsTypeOK'
  <2>1. /\ replay[t].pc = "claim"
        /\ \/ replay' = [replay EXCEPT ![t].pc = "send"]
           \/ /\ replay[t].tries < ClaimAttempts
              /\ replay' = [replay EXCEPT ![t].tries = @ + 1]
           \/ replay' = [replay EXCEPT ![t] = NoReplay]
    BY <1>4 DEF ClaimTelnyxDeliveryFallback
  <2>2. replay' \in [Replays -> {NoReplay} \union Replay]
    BY <1>0, <2>1, ReplayFacts
  <2>3. logRow' \in [HookCalls -> {"none", "open", "claimed"}]
    BY <1>4 DEF ClaimTelnyxDeliveryFallback, SmsTypeOK
  <2> QED
    BY <1>4, <2>2, <2>3 DEF ClaimTelnyxDeliveryFallback, SmsTypeOK, Replay
<1>5. ASSUME NEW t \in Replays, ReplayClaimFails(t)
      PROVE  SmsTypeOK'
  <2>1. replay' \in [Replays -> {NoReplay} \union Replay]
    BY <1>0, <1>5 DEF ReplayClaimFails
  <2> QED
    BY <1>5, <2>1, SmsFaultTyped DEF ReplayClaimFails, SmsTypeOK, Replay
<1>6. ASSUME NEW t \in Replays, NEW taken \in BOOLEAN, SendReplay(t, taken)
      PROVE  SmsTypeOK'
  <2>1. replay' \in [Replays -> {NoReplay} \union Replay]
    BY <1>0, <1>6 DEF SendReplay
  <2>2. reach' \in [HookCalls -> SUBSET (SmsProviders \union Replays)]
    BY <1>6 DEF SendReplay, SmsTypeOK
  <2> QED
    BY <1>6, <2>1, <2>2 DEF SendReplay, SmsTypeOK, Replay
<1>7. ASSUME NEW k \in HookKeys, HookKeyAges(k)
      PROVE  SmsTypeOK'
  BY <1>7 DEF HookKeyAges, SmsTypeOK
<1>8. CASE RevokeToken \/ Midnight
  BY <1>8 DEF RevokeToken, Midnight, SmsTypeOK
<1>9. CASE RestartSms
  <2>1. hookCall' \in [HookCalls -> Call]
    BY <1>0, <1>9, RestartSmsFacts
  <2>2. replay' \in [Replays -> {NoReplay} \union Replay] /\ smsFaults' \in 0..MaxSmsFaults
    BY <1>9, SmsFaultTyped DEF RestartSms
  <2> QED
    BY <1>9, <2>1, <2>2, RestartSmsTakes DEF RestartSms, SmsTypeOK, Replay, Call, CallPc
<1> QED
  BY <1>1, <1>2, <1>3, <1>4, <1>5, <1>6, <1>7, <1>8, <1>9

\* The token, keys, calls, log rows and replays keep their types; the count of a
\* token's day never passes the cap of claim_send_slot, and a replay claims at
\* most ClaimAttempts times.
THEOREM SmsTypeCorrect == SmsSpec => []SmsTypeOK
<1>1. SmsInit => SmsTypeOK
  BY SmsAssumption DEF SmsInit, SmsTypeOK
<1>2. SmsTypeOK /\ [SmsNext]_smsVars => SmsTypeOK'
  <2> SUFFICES ASSUME SmsTypeOK, [SmsNext]_smsVars PROVE SmsTypeOK'
    OBVIOUS
  <2>1. CASE SmsNext
    BY <2>1, CallEarlyTyped, CallLateTyped, SmsEnvTyped DEF SmsNext, CallStep
  <2>2. CASE UNCHANGED smsVars
    BY <2>2 DEF smsVars, SmsTypeOK
  <2> QED
    BY <2>1, <2>2
<1> QED
  BY <1>1, <1>2, PTL DEF SmsSpec

-----------------------------------------------------------------------------
(* Webhook texts: one text, one copy *)

\* Steps of a call at which no provider has taken its text, unless in doubt.
Unsent == {"idle", "reserve", "check", "claim", "send", "clear"}
IsReplayOf(t, c) == replay[t].pc # "idle" /\ replay[t].of = c
Resends(t, c) == replay[t].pc = "send" /\ replay[t].of = c

\* A text is at no provider before the call has sent it; while Twilio has it
\* nobody else does; it is replayed only after Twilio has failed it, by the one
\* task that has claimed its row, and the row is there to be claimed only once.
OneCopy(c) ==
    /\ hookCall[c].pc \in Unsent => reach[c] = {} /\ twilio[c] = "none"
    /\ \A x, y \in reach[c] : x = y
    /\ twilio[c] = "taken" => reach[c] = {"twilio"}
    /\ \A t \in Replays : IsReplayOf(t, c) => twilio[c] = "failed"
    /\ \A t \in Replays : Resends(t, c) =>
          reach[c] = {} /\ logRow[c] # "open" /\ hookCall[c].pc # "log"
    /\ \A t, u \in Replays : Resends(t, c) /\ Resends(u, c) => t = u
    /\ twilio[c] = "failed" /\ (logRow[c] = "open" \/ hookCall[c].pc = "log") => reach[c] = {}

CopyInv ==
    /\ \A c \in HookCalls : hookCall[c].pc \in Unsent \union {"log"} => logRow[c] = "none"
    /\ \A c \in HookCalls \ doubted : OneCopy(c)

\* A call that has reserved its key and not yet ended.
HoldsRow(c) == Keyed(c) /\ hookCall[c].pc \notin {"idle", "reserve", "done"}

\* A key's row is held while a call works under it, and only one does.
RowInv ==
    /\ \A c \in HookCalls : HoldsRow(c) => KeyRowOf(c) = "held" /\ c \in window[hookCall[c].key]
    /\ \A c, d \in HookCalls :
          HoldsRow(c) /\ HoldsRow(d) /\ hookCall[c].key = hookCall[d].key => c = d
    /\ \A k \in HookKeys, c \in HookCalls : c \in window[k] => hookCall[c].key = k

\* The call's text is with a provider, or was and may be replayed.
Live(c) == reach[c] # {} \/ twilio[c] # "none"

\* Of the calls under one row at most one has a live text: none after the key was
\* given back, and none but the call's own while a call works under it.
WindowInv ==
    \A k \in HookKeys : window[k] \intersect doubted = {} =>
       /\ \A a, b \in window[k] : Live(a) /\ Live(b) => a = b
       /\ hookKey[k] = "none" => \A a \in window[k] : ~Live(a)
       /\ \A c \in HookCalls : HoldsRow(c) /\ hookCall[c].key = k =>
             \A a \in window[k] \ {c} : ~Live(a)

\* A step that moves a call without sending anything, and leaves its text and the
\* replays alone.
LEMMA QuietMove ==
  ASSUME NEW d \in HookCalls, OneCopy(d), reach'[d] = reach[d], twilio'[d] = twilio[d],
         logRow'[d] = logRow[d], replay' = replay,
         hookCall'[d].pc \in Unsent => hookCall[d].pc \in Unsent,
         hookCall'[d].pc = "log" => hookCall[d].pc = "log"
  PROVE  OneCopy(d)'
BY DEF OneCopy, IsReplayOf, Resends

\* Steps of a call that give its text to nobody.
LEMMA QuietCallKeepsCopy ==
  ASSUME SmsTypeOK, CopyInv, NEW c \in HookCalls,
         UNCHANGED <<reach, twilio, logRow, replay, doubted>>,
         \A d \in HookCalls : d # c => hookCall'[d] = hookCall[d],
         hookCall'[c].pc \in Unsent => hookCall[c].pc \in Unsent,
         hookCall'[c].pc = "log" => hookCall[c].pc = "log"
  PROVE  CopyInv'
<1>1. ASSUME NEW d \in HookCalls \ doubted'
      PROVE  OneCopy(d)'
  BY QuietMove DEF CopyInv
<1>2. ASSUME NEW d \in HookCalls, hookCall'[d].pc \in Unsent \union {"log"}
      PROVE  logRow'[d] = "none"
  BY <1>2 DEF CopyInv
<1> QED
  BY <1>1, <1>2 DEF CopyInv

\* The steps of a call that are such.
LEMMA CallKeepsCopy ==
  ASSUME SmsTypeOK, CopyInv, NEW c \in HookCalls,
         \/ WebhookSms(c) \/ ReserveIdempotencyKey(c)
         \/ \E v \in {"allowed", "suppressed", "refused"} : CheckUser(c, v)
         \/ CheckBreaksOff(c) \/ ClaimSendSlot(c) \/ ClaimFails(c)
         \/ \E p \in SmsProviders : ProviderRefuses(c, p)
         \/ \E w \in BOOLEAN : CompleteIdempotency(c, w) \/ ReleaseIdempotency(c, w)
  PROVE  CopyInv'
<1>0. hookCall \in [HookCalls -> Call] /\ {"reserve", "check", "claim", "send", "finish", "clear"}
                                          \subseteq CallPc
  BY DEF SmsTypeOK, Call, CallPc
<1>1. CASE WebhookSms(c)
  BY <1>0, <1>1, CallGoesFacts, QuietCallKeepsCopy DEF WebhookSms, NothingSent, Unsent
<1>2. CASE ReserveIdempotencyKey(c)
  <2>1. hookCall[c].pc = "reserve" /\ (CallGoes(c, "check") \/ CallEnds(c))
    BY <1>2 DEF ReserveIdempotencyKey
  <2>2. UNCHANGED <<reach, twilio, logRow, replay, doubted>>
    BY <1>2 DEF ReserveIdempotencyKey
  <2>3. /\ hookCall'[c].pc \in {"check", "done"}
        /\ \A d \in HookCalls : d # c => hookCall'[d] = hookCall[d]
    BY <1>0, <2>1, CallGoesFacts, CallEndsFacts
  <2> QED
    BY <2>1, <2>2, <2>3, QuietCallKeepsCopy DEF Unsent
<1>3. ASSUME NEW v \in {"allowed", "suppressed", "refused"}, CheckUser(c, v)
      PROVE  CopyInv'
  <2>1. PICK pc \in {"claim", "finish", "clear"} : CallGoes(c, pc)
    BY <1>3 DEF CheckUser
  <2>2. hookCall[c].pc = "check" /\ UNCHANGED <<reach, twilio, logRow, replay, doubted>>
    BY <1>3 DEF CheckUser, NothingSent
  <2>3. /\ hookCall'[c].pc = pc
        /\ \A d \in HookCalls : d # c => hookCall'[d] = hookCall[d]
    BY <1>0, <2>1, CallGoesFacts
  <2> QED
    BY <2>2, <2>3, QuietCallKeepsCopy DEF Unsent
<1>4. CASE CheckBreaksOff(c)
  BY <1>0, <1>4, CallEndsFacts, QuietCallKeepsCopy DEF CheckBreaksOff, NothingSent, Unsent
<1>5. CASE ClaimSendSlot(c)
  <2>1. PICK pc \in {"send", "clear"} : CallGoes(c, pc)
    BY <1>5 DEF ClaimSendSlot
  <2>2. hookCall[c].pc = "claim" /\ UNCHANGED <<reach, twilio, logRow, replay, doubted>>
    BY <1>5 DEF ClaimSendSlot, NothingSent
  <2>3. /\ hookCall'[c].pc = pc
        /\ \A d \in HookCalls : d # c => hookCall'[d] = hookCall[d]
    BY <1>0, <2>1, CallGoesFacts
  <2> QED
    BY <2>2, <2>3, QuietCallKeepsCopy DEF Unsent
<1>6. CASE ClaimFails(c)
  BY <1>0, <1>6, CallGoesFacts, QuietCallKeepsCopy DEF ClaimFails, NothingSent, Unsent
<1>7. ASSUME NEW p \in SmsProviders, ProviderRefuses(c, p)
      PROVE  CopyInv'
  <2>1. NextProvider(c, p) /\ UNCHANGED <<reach, twilio, logRow, replay, doubted>>
    BY <1>7 DEF ProviderRefuses, NextProvider
  <2> QED
    BY <1>0, <2>1, NextProviderFacts, QuietCallKeepsCopy DEF Unsent
<1>8. ASSUME NEW w \in BOOLEAN, CompleteIdempotency(c, w) \/ ReleaseIdempotency(c, w)
      PROVE  CopyInv'
  <2>1. CallEnds(c) /\ UNCHANGED <<reach, twilio, logRow, replay, doubted>>
    BY <1>8 DEF CompleteIdempotency, ReleaseIdempotency, NothingSent
  <2> QED
    BY <1>0, <2>1, CallEndsFacts, QuietCallKeepsCopy DEF Unsent
<1> QED
  BY <1>1, <1>2, <1>3, <1>4, <1>5, <1>6, <1>7, <1>8

\* A provider takes the text of a call whose text nobody has: the first copy.
\* When the provider's answer is lost the call is in doubt.
LEMMA SendKeepsCopy ==
  ASSUME SmsTypeOK, CopyInv, NEW c \in HookCalls, NEW p \in SmsProviders,
         \/ ProviderAccepts(c, p) \/ AnswerLost(c, p)
         \/ \E took \in BOOLEAN : SendCancelled(c, p, took)
  PROVE  CopyInv'
<1>0. hookCall \in [HookCalls -> Call] /\ {"log", "finish"} \subseteq CallPc
  BY DEF SmsTypeOK, Call, CallPc
<1>1. /\ hookCall[c].pc = "send" /\ UNCHANGED <<logRow, replay>>
      /\ doubted \subseteq doubted'
  BY DEF ProviderAccepts, AnswerLost, SendCancelled, NextProvider
<1>2. \A d \in HookCalls : d # c => hookCall'[d] = hookCall[d]
  BY <1>0, CallGoesFacts, CallEndsFacts, NextProviderFacts
  DEF ProviderAccepts, AnswerLost, SendCancelled
<1>3. Takes(c, p) \/ UNCHANGED <<reach, twilio>>
  BY DEF ProviderAccepts, AnswerLost, SendCancelled
<1>4. \A d \in HookCalls : d # c => reach'[d] = reach[d] /\ twilio'[d] = twilio[d]
  BY <1>3, TakesFacts
<1>5. ASSUME NEW d \in HookCalls \ doubted', d # c
      PROVE  OneCopy(d)'
  BY <1>1, <1>2, <1>4, <1>5, QuietMove DEF CopyInv
<1>6. ASSUME c \notin doubted'
      PROVE  OneCopy(c)'
  <2>1. /\ hookCall'[c].pc = IF ProviderAccepts(c, p)
                             THEN IF p = "twilio" THEN "log" ELSE "finish" ELSE "done"
        /\ hookCall'[c].pc \notin Unsent
    BY <1>0, <1>6, CallGoesFacts, CallEndsFacts
    DEF ProviderAccepts, SendCancelled, AnswerLost, Unsent
  <2>2. /\ reach[c] = {} /\ twilio[c] = "none" /\ logRow[c] = "none"
        /\ \A t \in Replays : ~IsReplayOf(t, c) /\ ~Resends(t, c)
    BY <1>1, <1>6 DEF CopyInv, OneCopy, Unsent, IsReplayOf, Resends
  <2>3. /\ \A t \in Replays : ~IsReplayOf(t, c)' /\ ~Resends(t, c)'
    BY <1>1, <2>2 DEF IsReplayOf, Resends
  <2>4. /\ reach'[c] \in {{}, {p}} /\ twilio'[c] \in {"none", "taken"}
        /\ twilio'[c] = "taken" => reach'[c] = {"twilio"}
    BY <1>3, <2>2, TakesFacts
  <2> QED
    BY <2>1, <2>3, <2>4 DEF OneCopy
<1>7. ASSUME NEW d \in HookCalls, hookCall'[d].pc \in Unsent \union {"log"}
      PROVE  logRow'[d] = "none"
  BY <1>1, <1>2, <1>7 DEF CopyInv, Unsent
<1> QED
  BY <1>5, <1>6, <1>7 DEF CopyInv

\* log_message_status puts the row there, once, before anything was replayed.
LEMMA LogKeepsCopy ==
  ASSUME SmsTypeOK, CopyInv, NEW c \in HookCalls, NEW w \in BOOLEAN, LogMessageStatus(c, w)
  PROVE  CopyInv'
<1>0. hookCall \in [HookCalls -> Call] /\ "finish" \in CallPc
  BY DEF SmsTypeOK, Call, CallPc
<1>1. /\ hookCall[c].pc = "log" /\ UNCHANGED <<reach, twilio, replay, doubted>>
      /\ hookCall'[c].pc = "finish"
      /\ \A d \in HookCalls : d # c => hookCall'[d] = hookCall[d]
  BY <1>0, CallGoesFacts DEF LogMessageStatus
<1>2. \A d \in HookCalls : d # c => logRow'[d] = logRow[d]
  BY DEF LogMessageStatus, SmsTypeOK
<1>3. ASSUME NEW d \in HookCalls \ doubted', d # c
      PROVE  OneCopy(d)'
  BY <1>1, <1>2, <1>3, QuietMove DEF CopyInv
<1>4. ASSUME c \notin doubted'
      PROVE  OneCopy(c)'
  BY <1>1, <1>4 DEF CopyInv, OneCopy, IsReplayOf, Resends, Unsent
<1>5. ASSUME NEW d \in HookCalls, hookCall'[d].pc \in Unsent \union {"log"}
      PROVE  logRow'[d] = "none"
  BY <1>1, <1>2, <1>5 DEF CopyInv, Unsent
<1> QED
  BY <1>3, <1>4, <1>5 DEF CopyInv

\* Twilio's failure takes the text away from it; a report of it starts a replay,
\* and the log's retention removes the row for good.
LEMMA TwilioKeepsCopy ==
  ASSUME SmsTypeOK, CopyInv, NEW c \in HookCalls,
         \/ PurgeLogRow(c)
         \/ \E how \in {"failed", "optout"} : TwilioFails(c, how)
         \/ \E t \in Replays : TwilioStatusCallback(c, t)
  PROVE  CopyInv'
<1>0. UNCHANGED <<hookCall, doubted>>
  BY DEF PurgeLogRow, TwilioFails, TwilioStatusCallback, CallsOnly
<1>1. CASE PurgeLogRow(c)
  <2>1. /\ logRow'[c] = "none" /\ hookCall[c].pc = "done"
        /\ \A d \in HookCalls : d # c => logRow'[d] = logRow[d]
        /\ UNCHANGED <<reach, twilio, replay>>
    BY <1>1 DEF PurgeLogRow, SmsTypeOK
  <2>2. ASSUME NEW d \in HookCalls \ doubted'
        PROVE  OneCopy(d)'
    BY <1>0, <2>1 DEF CopyInv, OneCopy, IsReplayOf, Resends
  <2> QED
    BY <1>0, <2>1, <2>2 DEF CopyInv
<1>2. ASSUME NEW how \in {"failed", "optout"}, TwilioFails(c, how)
      PROVE  CopyInv'
  <2>1. /\ twilio[c] = "taken" /\ twilio'[c] = how /\ reach'[c] = reach[c] \ {"twilio"}
        /\ \A d \in HookCalls : d # c => twilio'[d] = twilio[d] /\ reach'[d] = reach[d]
        /\ UNCHANGED <<logRow, replay>>
    BY <1>2 DEF TwilioFails, SmsTypeOK
  <2>2. ASSUME NEW d \in HookCalls \ doubted', d # c
        PROVE  OneCopy(d)'
    BY <1>0, <2>1, <2>2, QuietMove DEF CopyInv
  <2>3. ASSUME c \notin doubted'
        PROVE  OneCopy(c)'
    <3>1. reach'[c] = {}
      BY <1>0, <2>1, <2>3 DEF CopyInv, OneCopy
    <3>2. \A t \in Replays : ~IsReplayOf(t, c)' /\ ~Resends(t, c)'
      BY <1>0, <2>1, <2>3 DEF CopyInv, OneCopy, IsReplayOf, Resends
    <3>3. hookCall'[c].pc \notin Unsent
      BY <1>0, <2>1, <2>3 DEF CopyInv, OneCopy
    <3> QED
      BY <2>1, <3>1, <3>2, <3>3 DEF OneCopy
  <2> QED
    BY <1>0, <2>1, <2>2, <2>3 DEF CopyInv
<1>3. ASSUME NEW t \in Replays, TwilioStatusCallback(c, t)
      PROVE  CopyInv'
  <2>1. /\ twilio[c] = "failed" /\ UNCHANGED <<twilio, reach, logRow>>
        /\ replay'[t] = [pc |-> "claim", of |-> c, tries |-> 1]
        /\ \A u \in Replays : u # t => replay'[u] = replay[u]
    BY <1>3 DEF TwilioStatusCallback, SmsTypeOK
  <2>2. ASSUME NEW d \in HookCalls
        PROVE  /\ \A u \in Replays : Resends(u, d)' => Resends(u, d)
               /\ \A u \in Replays : IsReplayOf(u, d)' => IsReplayOf(u, d) \/ d = c
    BY <2>1 DEF Resends, IsReplayOf
  <2>3. ASSUME NEW d \in HookCalls \ doubted'
        PROVE  OneCopy(d)'
    BY <1>0, <2>1, <2>2 DEF CopyInv, OneCopy
  <2> QED
    BY <1>0, <2>1, <2>3 DEF CopyInv
<1> QED
  BY <1>1, <1>2, <1>3

\* claim_telnyx_delivery_fallback gives a text to one task; the others go on
\* asking or stop.
LEMMA ClaimKeepsCopy ==
  ASSUME SmsTypeOK, CopyInv, NEW t \in Replays,
         ClaimTelnyxDeliveryFallback(t) \/ ReplayClaimFails(t)
  PROVE  CopyInv'
<1>0. replay \in [Replays -> {NoReplay} \union Replay]
  BY DEF SmsTypeOK, Replay
<1>c. PICK c \in HookCalls : c = replay[t].of
  BY <1>0, ReplayFacts DEF ClaimTelnyxDeliveryFallback, ReplayClaimFails, Replay
<1>1. /\ UNCHANGED <<hookCall, doubted, twilio, reach>>
      /\ replay[t].pc = "claim" /\ replay[t].of = c
  BY <1>c DEF ClaimTelnyxDeliveryFallback, ReplayClaimFails, CallsOnly
<1>2. CASE /\ ClaimTelnyxDeliveryFallback(t) /\ logRow[c] = "open"
  <2>1. /\ logRow'[c] = "claimed"
        /\ \A d \in HookCalls : d # c => logRow'[d] = logRow[d]
        /\ replay' = [replay EXCEPT ![t].pc = "send"]
    BY <1>1, <1>2 DEF ClaimTelnyxDeliveryFallback, SmsTypeOK
  <2>2. /\ replay'[t].of = c /\ replay'[t].pc = "send"
        /\ \A u \in Replays : u # t => replay'[u] = replay[u]
    BY <1>0, <1>1, <2>1, ReplayFacts
  <2>3. ASSUME NEW d \in HookCalls \ doubted', d # c
        PROVE  OneCopy(d)'
    <3>1. \A u \in Replays : /\ Resends(u, d)' => Resends(u, d)
                             /\ IsReplayOf(u, d)' => IsReplayOf(u, d)
      BY <2>2, <2>3 DEF Resends, IsReplayOf
    <3> QED
      BY <1>1, <2>1, <2>3, <3>1 DEF CopyInv, OneCopy
  <2>4. ASSUME c \notin doubted'
        PROVE  OneCopy(c)'
    <3>1. OneCopy(c) /\ twilio[c] = "failed" /\ reach[c] = {}
      BY <1>1, <1>2, <2>4 DEF CopyInv, OneCopy, IsReplayOf
    <3>2. \A u \in Replays : Resends(u, c)' => u = t
      BY <1>2, <2>2, <3>1 DEF OneCopy, Resends
    <3>3. hookCall[c].pc \notin Unsent \union {"log"}
      BY <1>1, <1>2 DEF CopyInv
    <3> QED
      BY <1>1, <2>1, <3>1, <3>2, <3>3 DEF OneCopy, IsReplayOf
  <2>5. ASSUME NEW d \in HookCalls, hookCall'[d].pc \in Unsent \union {"log"}
        PROVE  logRow'[d] = "none"
    BY <1>1, <1>2, <2>1, <2>5 DEF CopyInv
  <2> QED
    BY <2>3, <2>4, <2>5 DEF CopyInv
<1>3. CASE ~(ClaimTelnyxDeliveryFallback(t) /\ logRow[c] = "open")
  <2>1. /\ logRow' = logRow
        /\ \/ replay[t].tries < ClaimAttempts /\ replay' = [replay EXCEPT ![t].tries = @ + 1]
           \/ replay' = [replay EXCEPT ![t] = NoReplay]
    BY <1>1, <1>3 DEF ClaimTelnyxDeliveryFallback, ReplayClaimFails
  <2>2. /\ \A u \in Replays : u # t => replay'[u] = replay[u]
        /\ replay'[t].pc # "send"
        /\ replay'[t].pc # "idle" => replay'[t].of = c
    <3>1. CASE replay' = [replay EXCEPT ![t] = NoReplay]
      BY <1>0, <3>1 DEF NoReplay
    <3>2. CASE replay[t].tries < ClaimAttempts /\ replay' = [replay EXCEPT ![t].tries = @ + 1]
      <4>1. replay'[t].of = c /\ replay'[t].pc = "claim"
        BY <1>0, <1>1, <3>2, ReplayFacts
      <4> QED
        BY <1>0, <3>2, <4>1
    <3> QED
      BY <2>1, <3>1, <3>2
  <2>3. ASSUME NEW d \in HookCalls \ doubted', NEW u \in Replays
        PROVE  /\ Resends(u, d)' => Resends(u, d)
               /\ IsReplayOf(u, d)' => IsReplayOf(u, d)
    BY <1>1, <2>2 DEF Resends, IsReplayOf
  <2>4. ASSUME NEW d \in HookCalls \ doubted'
        PROVE  OneCopy(d)'
    BY <1>1, <2>1, <2>3 DEF CopyInv, OneCopy
  <2> QED
    BY <1>1, <2>1, <2>4 DEF CopyInv
<1> QED
  BY <1>2, <1>3

\* The task that has claimed a text sends the one copy there is.
LEMMA ReplayKeepsCopy ==
  ASSUME SmsTypeOK, CopyInv, NEW t \in Replays, NEW taken \in BOOLEAN, SendReplay(t, taken)
  PROVE  CopyInv'
<1>0. replay \in [Replays -> {NoReplay} \union Replay]
  BY DEF SmsTypeOK, Replay
<1>c. PICK c \in HookCalls : c = replay[t].of
  BY <1>0, ReplayFacts DEF SendReplay, Replay
<1>1. /\ UNCHANGED <<hookCall, doubted, twilio, logRow>>
      /\ replay[t].pc = "send" /\ replay[t].of = c
  BY <1>c DEF SendReplay, CallsOnly
<1>2. /\ reach'[c] = reach[c] \/ reach'[c] = reach[c] \union {t}
      /\ \A d \in HookCalls : d # c => reach'[d] = reach[d]
  BY <1>1 DEF SendReplay, SmsTypeOK
<1>3. /\ replay'[t].pc = "idle"
      /\ \A u \in Replays : u # t => replay'[u] = replay[u]
  BY <1>0 DEF SendReplay, NoReplay
<1>4. ASSUME NEW d \in HookCalls, NEW u \in Replays
      PROVE  /\ Resends(u, d)' => Resends(u, d) /\ u # t
             /\ IsReplayOf(u, d)' => IsReplayOf(u, d)
  BY <1>3 DEF Resends, IsReplayOf
<1>5. ASSUME NEW d \in HookCalls \ doubted', d # c
      PROVE  OneCopy(d)'
  BY <1>1, <1>2, <1>4, <1>5 DEF CopyInv, OneCopy
<1>6. ASSUME c \notin doubted'
      PROVE  OneCopy(c)'
  <2>1. OneCopy(c) /\ Resends(t, c) /\ IsReplayOf(t, c)
    BY <1>1, <1>6 DEF CopyInv, Resends, IsReplayOf
  <2>2. /\ reach'[c] \in {{}, {t}} /\ twilio'[c] = "failed"
        /\ logRow'[c] # "open" /\ hookCall'[c].pc # "log" /\ hookCall'[c].pc \notin Unsent
    BY <1>1, <1>2, <2>1 DEF OneCopy
  <2>3. \A u \in Replays : ~Resends(u, c)'
    BY <1>4, <2>1 DEF OneCopy
  <2> QED
    BY <2>2, <2>3 DEF OneCopy
<1> QED
  BY <1>1, <1>5, <1>6 DEF CopyInv

\* A restart loses calls and replays; the text of a call that was sending may be
\* with one provider, and nobody else had it.
LEMMA RestartKeepsCopy ==
  ASSUME SmsTypeOK, CopyInv, RestartSms
  PROVE  CopyInv'
<1>0. hookCall \in [HookCalls -> Call]
  BY DEF SmsTypeOK, Call, CallPc
<1>1. \A d \in HookCalls : /\ hookCall'[d].pc \in {"idle", "done"}
                           /\ hookCall'[d].pc = "idle" => hookCall[d].pc = "idle"
  BY <1>0, RestartSmsFacts
<1>2. /\ UNCHANGED <<logRow, doubted>>
      /\ \A t \in Replays : replay'[t].pc = "idle"
  BY DEF RestartSms, NoReplay
<1>3. ASSUME NEW d \in HookCalls \ doubted', NEW u \in Replays
      PROVE  ~Resends(u, d)' /\ ~IsReplayOf(u, d)'
  BY <1>2 DEF Resends, IsReplayOf
<1>4. ASSUME NEW d \in HookCalls \ doubted'
      PROVE  OneCopy(d)'
  <2>1. CASE reach'[d] = reach[d] /\ twilio'[d] = twilio[d]
    BY <1>1, <1>2, <1>3, <2>1 DEF CopyInv, OneCopy, Unsent
  <2>2. ASSUME hookCall[d].pc = "send", NEW p \in SmsProviders,
               reach'[d] = reach[d] \union {p},
               twilio'[d] = IF p = "twilio" THEN "taken" ELSE twilio[d]
        PROVE  OneCopy(d)'
    <3>1. reach[d] = {} /\ twilio[d] = "none" /\ logRow[d] = "none"
      BY <1>2, <2>2 DEF CopyInv, OneCopy, Unsent
    <3>2. hookCall'[d].pc = "done"
      BY <1>1, <2>2
    <3> QED
      BY <1>2, <1>3, <2>2, <3>1, <3>2 DEF OneCopy, Unsent
  <2> QED
    BY <2>1, <2>2, RestartSmsTakes
<1> QED
  BY <1>1, <1>2, <1>4 DEF CopyInv, Unsent

\* No step makes a second copy of a text that is not in doubt.
LEMMA CopyInvInductive ==
  ASSUME SmsTypeOK, CopyInv, [SmsNext]_smsVars
  PROVE  CopyInv'
<1>1. CASE UNCHANGED <<hookCall, reach, twilio, logRow, replay, doubted>>
  BY <1>1 DEF CopyInv, OneCopy, Resends, IsReplayOf
<1>2. ASSUME NEW k \in HookKeys, HookKeyAges(k)
      PROVE  UNCHANGED <<hookCall, reach, twilio, logRow, replay, doubted>>
  BY <1>2 DEF HookKeyAges, NothingSent
<1>3. CASE RevokeToken \/ Midnight \/ UNCHANGED smsVars
  BY <1>1, <1>3 DEF RevokeToken, Midnight, NothingSent, smsVars
<1>4. ASSUME NEW c \in HookCalls, CallStep(c)
      PROVE  CopyInv'
  BY <1>4, CallKeepsCopy, SendKeepsCopy, LogKeepsCopy DEF CallStep
<1> QED
  BY <1>1, <1>2, <1>3, <1>4, TwilioKeepsCopy, ClaimKeepsCopy, ReplayKeepsCopy, RestartKeepsCopy
  DEF SmsNext

\* A call's text has at most one copy on its way, however often Twilio reports its
\* failure, unless a provider took it and answered with an error.
THEOREM CopiesAreSingle == SmsSpec => []CopyInv
<1>1. SmsInit => CopyInv
  BY DEF SmsInit, CopyInv, OneCopy, Resends, IsReplayOf, NoReplay
<1> QED
  BY <1>1, CopyInvInductive, SmsTypeCorrect, PTL DEF SmsSpec

-----------------------------------------------------------------------------
(* Webhook texts: one key, one call at work *)

\* Steps that leave the key rows alone and reserve none.
LEMMA QuietKeepsRows ==
  ASSUME RowInv, UNCHANGED <<hookKey, window>>,
         \A d \in HookCalls :
            /\ hookCall'[d].key = hookCall[d].key
            /\ hookCall'[d].pc \notin {"idle", "reserve", "done"} =>
                  hookCall[d].pc \notin {"idle", "reserve", "done"} \/ ~Keyed(d)
  PROVE  RowInv'
<1>1. ASSUME NEW d \in HookCalls, HoldsRow(d)'
      PROVE  HoldsRow(d)
  BY <1>1 DEF HoldsRow, Keyed
<1> QED
  BY <1>1 DEF RowInv, KeyRowOf

\* A call that ends may write the row it holds.
LEMMA EndKeepsRows ==
  ASSUME SmsTypeOK, RowInv, NEW c \in HookCalls, HoldsRow(c) \/ ~Keyed(c), CallEnds(c),
         \/ hookKey' = hookKey
         \/ \E s \in {"none", "done"} : Keyed(c) /\ KeyBecomes(c, s),
         window' = window
  PROVE  RowInv'
<1>0. hookCall \in [HookCalls -> Call]
  BY DEF SmsTypeOK, Call, CallPc
<1>1. /\ hookCall'[c].pc = "done"
      /\ \A d \in HookCalls : d # c => hookCall'[d] = hookCall[d]
      /\ \A d \in HookCalls : hookCall'[d].key = hookCall[d].key
  BY <1>0, CallEndsFacts
<1>2. ASSUME NEW d \in HookCalls, HoldsRow(d)'
      PROVE  /\ HoldsRow(d) /\ d # c /\ hookCall[d].key \in HookKeys
             /\ Keyed(c) => hookCall[d].key # hookCall[c].key
  <2>1. HoldsRow(d) /\ d # c
    BY <1>1, <1>2 DEF HoldsRow, Keyed
  <2> QED
    BY <1>0, <2>1 DEF RowInv, HoldsRow, Keyed, Call
<1>3. \A k \in HookKeys : (Keyed(c) => k # hookCall[c].key) => hookKey'[k] = hookKey[k]
  BY DEF KeyBecomes, SmsTypeOK
<1>4. ASSUME NEW d \in HookCalls, HoldsRow(d)'
      PROVE  KeyRowOf(d)' = "held" /\ d \in window'[hookCall'[d].key]
  BY <1>1, <1>2, <1>3, <1>4 DEF RowInv, KeyRowOf
<1>5. ASSUME NEW d \in HookCalls, NEW e \in HookCalls, HoldsRow(d)', HoldsRow(e)',
             hookCall'[d].key = hookCall'[e].key
      PROVE  d = e
  BY <1>1, <1>2, <1>5 DEF RowInv
<1> QED
  BY <1>1, <1>4, <1>5 DEF RowInv

\* reserve_idempotency_key gives a key only to a call that finds no other at work.
LEMMA ReserveKeepsRows ==
  ASSUME SmsTypeOK, RowInv, NEW c \in HookCalls, ReserveIdempotencyKey(c)
  PROVE  RowInv'
<1>0. hookCall \in [HookCalls -> Call] /\ "check" \in CallPc
  BY DEF SmsTypeOK, Call, CallPc
<1>1. CASE ~Keyed(c) /\ CallGoes(c, "check") /\ UNCHANGED <<hookKey, window>>
  BY <1>0, <1>1, CallGoesFacts, QuietKeepsRows
<1>2. CASE Keyed(c) /\ CallEnds(c) /\ UNCHANGED <<hookKey, window>>
  BY <1>0, <1>2, CallEndsFacts, QuietKeepsRows
<1>3. CASE /\ Keyed(c) /\ KeyRowOf(c) \in {"none", "aged"}
           /\ KeyBecomes(c, "held") /\ CallGoes(c, "check")
           /\ window' = [window EXCEPT ![hookCall[c].key] =
                             IF KeyRowOf(c) = "aged" THEN {c} ELSE @ \union {c}]
  <2> DEFINE k == hookCall[c].key
  <2>1. k \in HookKeys /\ \A d \in HookCalls : Keyed(d) => hookCall[d].key \in HookKeys
    BY <1>0, <1>3 DEF Keyed, Call
  <2>2. \A d \in HookCalls : hookCall[d].key = k => ~HoldsRow(d)
    BY <1>3 DEF RowInv, KeyRowOf
  <2>3. /\ hookCall'[c].pc = "check"
        /\ \A d \in HookCalls : d # c => hookCall'[d] = hookCall[d]
        /\ \A d \in HookCalls : hookCall'[d].key = hookCall[d].key
    BY <1>0, <1>3, CallGoesFacts
  <2>4. /\ hookKey'[k] = "held" /\ c \in window'[k] /\ window'[k] \subseteq window[k] \union {c}
        /\ \A j \in HookKeys : j # k => hookKey'[j] = hookKey[j] /\ window'[j] = window[j]
    BY <1>3, <2>1 DEF KeyBecomes, SmsTypeOK
  <2>5. ASSUME NEW d \in HookCalls, HoldsRow(d)'
        PROVE  d = c \/ (HoldsRow(d) /\ hookCall[d].key \in HookKeys \ {k})
    BY <2>1, <2>2, <2>3, <2>5 DEF HoldsRow, Keyed
  <2>6. ASSUME NEW d \in HookCalls, HoldsRow(d)'
        PROVE  KeyRowOf(d)' = "held" /\ d \in window'[hookCall'[d].key]
    BY <2>3, <2>4, <2>5, <2>6 DEF RowInv, KeyRowOf
  <2>7. ASSUME NEW d \in HookCalls, NEW e \in HookCalls, HoldsRow(d)', HoldsRow(e)',
               hookCall'[d].key = hookCall'[e].key
        PROVE  d = e
    BY <2>3, <2>5, <2>7 DEF RowInv
  <2>8. ASSUME NEW j \in HookKeys, NEW d \in HookCalls, d \in window'[j]
        PROVE  hookCall'[d].key = j
    BY <2>3, <2>4, <2>8 DEF RowInv
  <2> QED
    BY <2>6, <2>7, <2>8 DEF RowInv
<1> QED
  BY <1>1, <1>2, <1>3 DEF ReserveIdempotencyKey

\* No step puts two calls to work under one key.
LEMMA RowInvInductive ==
  ASSUME SmsTypeOK, RowInv, [SmsNext]_smsVars
  PROVE  RowInv'
<1>0. hookCall \in [HookCalls -> Call] /\ {"reserve", "check", "claim", "send", "log", "finish", "clear"}
                                          \subseteq CallPc
  BY DEF SmsTypeOK, Call, CallPc
<1>1. CASE UNCHANGED <<hookCall, hookKey, window>>
  BY <1>1 DEF RowInv, HoldsRow, Keyed, KeyRowOf
<1>2. ASSUME NEW c \in HookCalls, WebhookSms(c)
      PROVE  RowInv'
  BY <1>0, <1>2, CallGoesFacts, QuietKeepsRows DEF WebhookSms, NothingSent
<1>3. ASSUME NEW c \in HookCalls,
             \/ \E v \in {"allowed", "suppressed", "refused"} : CheckUser(c, v)
             \/ ClaimSendSlot(c) \/ ClaimFails(c)
             \/ \E p \in SmsProviders : ProviderAccepts(c, p)
             \/ \E w \in BOOLEAN : LogMessageStatus(c, w)
      PROVE  RowInv'
  <2>1. /\ hookCall[c].pc \in {"check", "claim", "send", "log"}
        /\ \E pc \in {"claim", "finish", "clear", "send", "log"} : CallGoes(c, pc)
        /\ UNCHANGED <<hookKey, window>>
    BY <1>3 DEF CheckUser, ClaimSendSlot, ClaimFails, ProviderAccepts, LogMessageStatus, NothingSent
  <2> QED
    BY <1>0, <2>1, CallGoesFacts, QuietKeepsRows
<1>4. ASSUME NEW c \in HookCalls, NEW p \in SmsProviders, ProviderRefuses(c, p) \/ AnswerLost(c, p)
      PROVE  RowInv'
  <2>1. NextProvider(c, p) /\ UNCHANGED <<hookKey, window>>
    BY <1>4 DEF ProviderRefuses, AnswerLost, NextProvider
  <2> QED
    BY <1>0, <2>1, NextProviderFacts, QuietKeepsRows
<1>5. ASSUME NEW c \in HookCalls,
             \/ CheckBreaksOff(c)
             \/ \E p \in SmsProviders, took \in BOOLEAN : SendCancelled(c, p, took)
      PROVE  RowInv'
  <2>1. CallEnds(c) /\ UNCHANGED <<hookKey, window>>
    BY <1>5 DEF CheckBreaksOff, SendCancelled, NothingSent
  <2> QED
    BY <1>0, <2>1, CallEndsFacts, QuietKeepsRows
<1>6. ASSUME NEW c \in HookCalls, NEW w \in BOOLEAN,
             CompleteIdempotency(c, w) \/ ReleaseIdempotency(c, w)
      PROVE  RowInv'
  <2>1. /\ CallEnds(c) /\ window' = window /\ hookCall[c].pc \in {"finish", "clear"}
        /\ \/ hookKey' = hookKey
           \/ \E s \in {"none", "done"} : Keyed(c) /\ KeyBecomes(c, s)
    BY <1>6 DEF CompleteIdempotency, ReleaseIdempotency, NothingSent
  <2>2. HoldsRow(c) \/ ~Keyed(c)
    BY <2>1 DEF HoldsRow
  <2> QED
    BY <2>1, <2>2, EndKeepsRows
<1>7. ASSUME NEW k \in HookKeys, HookKeyAges(k)
      PROVE  RowInv'
  <2>1. /\ UNCHANGED <<hookCall, window>>
        /\ \A j \in HookKeys : j # k => hookKey'[j] = hookKey[j]
        /\ \A c \in HookCalls : HoldsRow(c) => hookCall[c].key # k
    BY <1>7 DEF HookKeyAges, NothingSent, SmsTypeOK, HoldsRow
  <2>2. \A c \in HookCalls : HoldsRow(c) => hookCall[c].key \in HookKeys
    BY <1>0 DEF HoldsRow, Keyed, Call
  <2> QED
    BY <2>1, <2>2 DEF RowInv, HoldsRow, Keyed, KeyRowOf
<1>8. CASE RestartSms
  <2>1. UNCHANGED <<hookKey, window>>
    BY <1>8 DEF RestartSms
  <2> QED
    BY <1>0, <1>8, <2>1, RestartSmsFacts, QuietKeepsRows
<1>9. ASSUME \/ RevokeToken \/ Midnight \/ UNCHANGED smsVars
             \/ \E c \in HookCalls :
                  \/ PurgeLogRow(c)
                  \/ \E how \in {"failed", "optout"} : TwilioFails(c, how)
                  \/ \E t \in Replays : TwilioStatusCallback(c, t)
             \/ \E t \in Replays :
                  \/ ClaimTelnyxDeliveryFallback(t) \/ ReplayClaimFails(t)
                  \/ \E taken \in BOOLEAN : SendReplay(t, taken)
      PROVE  UNCHANGED <<hookCall, hookKey, window>>
  BY <1>9 DEF RevokeToken, Midnight, NothingSent, smsVars, PurgeLogRow, TwilioFails, CallsOnly,
     TwilioStatusCallback, ClaimTelnyxDeliveryFallback, ReplayClaimFails, SendReplay
<1>10. ASSUME NEW c \in HookCalls, CallStep(c)
       PROVE  RowInv'
  BY <1>2, <1>3, <1>4, <1>5, <1>6, <1>10, ReserveKeepsRows DEF CallStep
<1> QED
  BY <1>1, <1>7, <1>8, <1>9, <1>10 DEF SmsNext

\* At most one call works under an idempotency key, and its row is held.
THEOREM RowsAreExclusive == SmsSpec => []RowInv
<1>1. SmsInit => RowInv
  BY DEF SmsInit, RowInv, HoldsRow
<1> QED
  BY <1>1, RowInvInductive, SmsTypeCorrect, PTL DEF SmsSpec

-----------------------------------------------------------------------------
(* Webhook texts: one key, one copy *)

\* Steps that change no text, no row and no window: what is live stays so.
LEMMA QuietKeepsWindow ==
  ASSUME WindowInv, UNCHANGED <<hookKey, window, doubted>>,
         \A d \in HookCalls \ doubted : Live(d)' => Live(d),
         \A d \in HookCalls : hookCall'[d].key = hookCall[d].key /\ (HoldsRow(d)' => HoldsRow(d)),
         SmsTypeOK
  PROVE  WindowInv'
BY DEF WindowInv, SmsTypeOK

\* Without a step of the call itself its text does not come to life: it is
\* replayed only after Twilio has had it.
LEMMA LiveOnlyBySending ==
  ASSUME SmsTypeOK, CopyInv, NEW t \in Replays, NEW taken \in BOOLEAN, SendReplay(t, taken)
  PROVE  \A d \in HookCalls \ doubted : Live(d)' => Live(d)
<1>0. replay \in [Replays -> {NoReplay} \union Replay]
  BY DEF SmsTypeOK, Replay
<1>1. PICK c \in HookCalls : c = replay[t].of
  BY <1>0, ReplayFacts DEF SendReplay, Replay
<1>2. /\ \A d \in HookCalls : d # c => reach'[d] = reach[d]
      /\ twilio' = twilio
  BY <1>1 DEF SendReplay, SmsTypeOK
<1>3. c \notin doubted => Live(c)
  BY <1>1 DEF CopyInv, OneCopy, IsReplayOf, SendReplay, Live
<1> QED
  BY <1>2, <1>3 DEF Live

\* A provider takes the text of the one call at work under its key.
LEMMA SendKeepsWindow ==
  ASSUME SmsTypeOK, RowInv, WindowInv, NEW c \in HookCalls, NEW p \in SmsProviders,
         \/ ProviderAccepts(c, p) \/ AnswerLost(c, p)
         \/ \E took \in BOOLEAN : SendCancelled(c, p, took)
  PROVE  WindowInv'
<1>0. hookCall \in [HookCalls -> Call] /\ {"log", "finish"} \subseteq CallPc
  BY DEF SmsTypeOK, Call, CallPc
<1>1. /\ hookCall[c].pc = "send" /\ UNCHANGED <<hookKey, window>>
      /\ doubted \subseteq doubted'
  BY DEF ProviderAccepts, AnswerLost, SendCancelled, NextProvider
<1>2. /\ \A d \in HookCalls : d # c => hookCall'[d] = hookCall[d]
      /\ \A d \in HookCalls : hookCall'[d].key = hookCall[d].key
  BY <1>0, CallGoesFacts, CallEndsFacts, NextProviderFacts
  DEF ProviderAccepts, AnswerLost, SendCancelled
<1>3. Takes(c, p) \/ UNCHANGED <<reach, twilio>>
  BY DEF ProviderAccepts, AnswerLost, SendCancelled
<1>4. \A d \in HookCalls : d # c => (Live(d)' <=> Live(d))
  BY <1>3, TakesFacts DEF Live
<1>5. \A d \in HookCalls : HoldsRow(d)' => HoldsRow(d)
  BY <1>1, <1>2 DEF HoldsRow, Keyed
<1> SUFFICES ASSUME NEW k \in HookKeys, window'[k] \intersect doubted' = {}
             PROVE  /\ \A a, b \in window'[k] : Live(a)' /\ Live(b)' => a = b
                    /\ hookKey'[k] = "none" => \A a \in window'[k] : ~Live(a)'
                    /\ \A d \in HookCalls : HoldsRow(d)' /\ hookCall'[d].key = k =>
                          \A a \in window'[k] \ {d} : ~Live(a)'
  BY DEF WindowInv
<1>6. window[k] \subseteq HookCalls /\ window[k] \intersect doubted = {}
  BY <1>1 DEF SmsTypeOK
<1>7. CASE c \notin window[k]
  BY <1>1, <1>2, <1>4, <1>5, <1>6, <1>7 DEF WindowInv
<1>8. CASE c \in window[k]
  <2>1. HoldsRow(c) /\ hookCall[c].key = k /\ hookKey[k] = "held"
    BY <1>1, <1>8, SmsAssumption DEF RowInv, HoldsRow, Keyed, KeyRowOf
  <2>2. \A a \in window[k] \ {c} : ~Live(a)'
    BY <1>4, <1>6, <2>1 DEF WindowInv
  <2>3. \A d \in HookCalls : HoldsRow(d)' /\ hookCall'[d].key = k => d = c
    BY <1>2, <1>5, <2>1 DEF RowInv
  <2> QED
    BY <1>1, <2>1, <2>2, <2>3
<1> QED
  BY <1>7, <1>8

\* A call that reserves a key finds no live text under a row given back, and
\* starts a new window when it replaces an old row.
LEMMA ReserveKeepsWindow ==
  ASSUME SmsTypeOK, RowInv, CopyInv, WindowInv, NEW c \in HookCalls, ReserveIdempotencyKey(c)
  PROVE  WindowInv'
<1>0. hookCall \in [HookCalls -> Call] /\ "check" \in CallPc
  BY DEF SmsTypeOK, Call, CallPc
<1>1. UNCHANGED <<reach, twilio, doubted>> /\ hookCall[c].pc = "reserve"
  BY DEF ReserveIdempotencyKey
<1>2. \A d \in HookCalls : Live(d)' <=> Live(d)
  BY <1>1 DEF Live
<1>3. CASE ~Keyed(c) /\ CallGoes(c, "check") /\ UNCHANGED <<hookKey, window>>
  <2>1. \A d \in HookCalls : hookCall'[d].key = hookCall[d].key /\ (HoldsRow(d)' => HoldsRow(d))
    BY <1>0, <1>3, CallGoesFacts DEF HoldsRow, Keyed
  <2> QED
    BY <1>1, <1>2, <1>3, <2>1, QuietKeepsWindow
<1>4. CASE Keyed(c) /\ CallEnds(c) /\ UNCHANGED <<hookKey, window>>
  <2>1. \A d \in HookCalls : hookCall'[d].key = hookCall[d].key /\ (HoldsRow(d)' => HoldsRow(d))
    BY <1>0, <1>4, CallEndsFacts DEF HoldsRow, Keyed
  <2> QED
    BY <1>1, <1>2, <1>4, <2>1, QuietKeepsWindow
<1>5. CASE /\ Keyed(c) /\ KeyRowOf(c) \in {"none", "aged"}
           /\ KeyBecomes(c, "held") /\ CallGoes(c, "check")
           /\ window' = [window EXCEPT ![hookCall[c].key] =
                             IF KeyRowOf(c) = "aged" THEN {c} ELSE @ \union {c}]
  <2>0. PICK k \in HookKeys : k = hookCall[c].key
    BY <1>0, <1>5 DEF Keyed, Call
  <2>1. /\ hookCall'[c].pc = "check"
        /\ \A d \in HookCalls : d # c => hookCall'[d] = hookCall[d]
        /\ \A d \in HookCalls : hookCall'[d].key = hookCall[d].key
    BY <1>0, <1>5, CallGoesFacts
  <2>2. /\ hookKey'[k] = "held"
        /\ window'[k] = IF hookKey[k] = "aged" THEN {c} ELSE window[k] \union {c}
        /\ \A j \in HookKeys : j # k => hookKey'[j] = hookKey[j] /\ window'[j] = window[j]
    BY <1>5, <2>0 DEF KeyBecomes, KeyRowOf, SmsTypeOK
  <2>3. hookKey[k] \in {"none", "aged"} /\ window[k] \subseteq HookCalls
    BY <1>5, <2>0 DEF KeyRowOf, SmsTypeOK
  <2>4. ASSUME window'[k] \intersect doubted' = {}
        PROVE  \A a \in window'[k] : ~Live(a)' \/ window'[k] = {c}
    <3>1. CASE hookKey[k] = "aged"
      BY <2>2, <3>1
    <3>2. CASE hookKey[k] = "none"
      <4>1. c \notin doubted /\ window[k] \intersect doubted = {}
        BY <1>1, <2>2, <2>4, <3>2
      <4>2. ~Live(c)
        BY <1>1, <4>1 DEF CopyInv, OneCopy, Unsent, Live
      <4>3. \A a \in window[k] : ~Live(a)
        BY <3>2, <4>1 DEF WindowInv
      <4> QED
        BY <1>2, <2>2, <2>3, <3>2, <4>2, <4>3
    <3> QED
      BY <2>3, <3>1, <3>2
  <2>5. \A d \in HookCalls : HoldsRow(d)' /\ hookCall'[d].key = k => d = c
    BY <2>0, <2>1, <2>3 DEF RowInv, HoldsRow, Keyed, KeyRowOf
  <2>6. ASSUME window'[k] \intersect doubted' = {}
        PROVE  /\ \A a, b \in window'[k] : Live(a)' /\ Live(b)' => a = b
               /\ hookKey'[k] = "none" => \A a \in window'[k] : ~Live(a)'
               /\ \A d \in HookCalls : HoldsRow(d)' /\ hookCall'[d].key = k =>
                     \A a \in window'[k] \ {d} : ~Live(a)'
    BY <2>2, <2>4, <2>5, <2>6
  <2>7. ASSUME NEW j \in HookKeys, j # k, window'[j] \intersect doubted' = {}
        PROVE  /\ \A a, b \in window'[j] : Live(a)' /\ Live(b)' => a = b
               /\ hookKey'[j] = "none" => \A a \in window'[j] : ~Live(a)'
               /\ \A d \in HookCalls : HoldsRow(d)' /\ hookCall'[d].key = j =>
                     \A a \in window'[j] \ {d} : ~Live(a)'
    <3>1. window'[j] = window[j] /\ hookKey'[j] = hookKey[j] /\ window[j] \subseteq HookCalls
          /\ window[j] \intersect doubted = {}
      BY <1>1, <2>2, <2>7 DEF SmsTypeOK
    <3>2. \A d \in HookCalls : HoldsRow(d)' /\ hookCall'[d].key = j =>
             HoldsRow(d) /\ hookCall[d].key = j
      BY <2>0, <2>1, <2>7 DEF HoldsRow, Keyed
    <3> QED
      BY <1>2, <3>1, <3>2 DEF WindowInv
  <2> QED
    BY <2>6, <2>7 DEF WindowInv
<1> QED
  BY <1>3, <1>4, <1>5 DEF ReserveIdempotencyKey

\* A call completes its key whatever its text's fate, and gives it back only when
\* its text is with nobody.
LEMMA EndKeepsWindow ==
  ASSUME SmsTypeOK, RowInv, CopyInv, WindowInv, NEW c \in HookCalls, NEW w \in BOOLEAN,
         CompleteIdempotency(c, w) \/ ReleaseIdempotency(c, w)
  PROVE  WindowInv'
<1>0. hookCall \in [HookCalls -> Call]
  BY DEF SmsTypeOK, Call, CallPc
<1>1. /\ CallEnds(c) /\ UNCHANGED <<window, doubted, reach, twilio>>
      /\ hookCall[c].pc \in {"finish", "clear"}
      /\ \/ hookKey' = hookKey
         \/ Keyed(c) /\ KeyBecomes(c, "done")
         \/ Keyed(c) /\ KeyBecomes(c, "none") /\ hookCall[c].pc = "clear"
  BY DEF CompleteIdempotency, ReleaseIdempotency, NothingSent
<1>2. \A d \in HookCalls : Live(d)' <=> Live(d)
  BY <1>1 DEF Live
<1>3. /\ \A d \in HookCalls : hookCall'[d].key = hookCall[d].key
      /\ \A d \in HookCalls : HoldsRow(d)' => HoldsRow(d)
  BY <1>0, <1>1, CallEndsFacts DEF HoldsRow, Keyed
<1>4. ASSUME NEW k \in HookKeys, window[k] \intersect doubted = {}, hookKey'[k] = "none"
      PROVE  \A a \in window[k] : ~Live(a)
  <2>1. CASE hookKey[k] = "none"
    BY <1>4, <2>1 DEF WindowInv
  <2>2. CASE hookKey[k] # "none"
    <3>1. Keyed(c) /\ hookCall[c].key = k /\ hookCall[c].pc = "clear"
      BY <1>1, <1>4, <2>2 DEF KeyBecomes, SmsTypeOK
    <3>2. HoldsRow(c) /\ c \in window[k]
      BY <3>1 DEF HoldsRow, RowInv
    <3>3. ~Live(c)
      BY <1>4, <3>1, <3>2 DEF CopyInv, OneCopy, Unsent, Live
    <3> QED
      BY <1>4, <3>1, <3>2, <3>3 DEF WindowInv
  <2> QED
    BY <2>1, <2>2
<1> QED
  BY <1>1, <1>2, <1>3, <1>4 DEF WindowInv, SmsTypeOK

\* The steps that give no text to a provider and write no row.
LEMMA OtherCallKeepsWindow ==
  ASSUME SmsTypeOK, WindowInv, NEW c \in HookCalls,
         \/ WebhookSms(c)
         \/ \E v \in {"allowed", "suppressed", "refused"} : CheckUser(c, v)
         \/ CheckBreaksOff(c) \/ ClaimSendSlot(c) \/ ClaimFails(c)
         \/ \E p \in SmsProviders : ProviderRefuses(c, p)
         \/ \E w \in BOOLEAN : LogMessageStatus(c, w)
  PROVE  WindowInv'
<1>0. hookCall \in [HookCalls -> Call] /\ {"reserve", "check", "claim", "send", "finish", "clear"}
                                          \subseteq CallPc
  BY DEF SmsTypeOK, Call, CallPc
<1>1. UNCHANGED <<hookKey, window, doubted, reach, twilio>>
  BY DEF WebhookSms, CheckUser, CheckBreaksOff, ClaimSendSlot, ClaimFails, ProviderRefuses,
         NextProvider, LogMessageStatus, NothingSent
<1>2. \A d \in HookCalls \ doubted : Live(d)' => Live(d)
  BY <1>1 DEF Live
<1>3. /\ \A d \in HookCalls : d # c => hookCall'[d] = hookCall[d]
      /\ \A d \in HookCalls : hookCall'[d].key = hookCall[d].key
      /\ hookCall'[c].pc \in {"idle", "reserve", "done"}
         \/ hookCall[c].pc \notin {"idle", "reserve", "done"}
  <2>1. CASE WebhookSms(c)
    BY <1>0, <2>1, CallGoesFacts DEF WebhookSms
  <2>2. CASE CheckBreaksOff(c)
    BY <1>0, <2>2, CallEndsFacts DEF CheckBreaksOff
  <2>3. CASE \E p \in SmsProviders : ProviderRefuses(c, p)
    BY <1>0, <2>3, NextProviderFacts DEF ProviderRefuses
  <2>4. CASE \/ \E v \in {"allowed", "suppressed", "refused"} : CheckUser(c, v)
             \/ ClaimSendSlot(c) \/ ClaimFails(c)
             \/ \E w \in BOOLEAN : LogMessageStatus(c, w)
    <3>1. /\ hookCall[c].pc \in {"check", "claim", "log"}
          /\ \E pc \in {"claim", "send", "finish", "clear"} : CallGoes(c, pc)
      BY <2>4 DEF CheckUser, ClaimSendSlot, ClaimFails, LogMessageStatus
    <3> QED
      BY <1>0, <3>1, CallGoesFacts
  <2> QED
    BY <2>1, <2>2, <2>3, <2>4
<1>4. \A d \in HookCalls : HoldsRow(d)' => HoldsRow(d)
  BY <1>3 DEF HoldsRow, Keyed
<1> QED
  BY <1>1, <1>2, <1>3, <1>4, QuietKeepsWindow

\* A restart ends the calls; under one row only the call at work may have had its
\* text taken.
LEMMA RestartKeepsWindow ==
  ASSUME SmsTypeOK, RowInv, WindowInv, RestartSms
  PROVE  WindowInv'
<1>0. hookCall \in [HookCalls -> Call]
  BY DEF SmsTypeOK, Call, CallPc
<1>1. UNCHANGED <<hookKey, window, doubted>>
  BY DEF RestartSms
<1>2. \A d \in HookCalls : hookCall'[d].key = hookCall[d].key /\ ~HoldsRow(d)'
  BY <1>0, RestartSmsFacts DEF HoldsRow
<1>3. \A d \in HookCalls : Live(d)' => Live(d) \/ hookCall[d].pc = "send"
  BY RestartSmsTakes DEF Live
<1> SUFFICES ASSUME NEW k \in HookKeys, window'[k] \intersect doubted' = {}
             PROVE  /\ \A a, b \in window'[k] : Live(a)' /\ Live(b)' => a = b
                    /\ hookKey'[k] = "none" => \A a \in window'[k] : ~Live(a)'
  BY <1>2 DEF WindowInv
<1>4. window[k] \subseteq HookCalls /\ window[k] \intersect doubted = {}
  BY <1>1 DEF SmsTypeOK
<1>5. ASSUME NEW c \in window[k], hookCall[c].pc = "send"
      PROVE  /\ HoldsRow(c) /\ hookCall[c].key = k /\ hookKey[k] = "held"
             /\ \A a \in window[k] \ {c} : ~Live(a) /\ hookCall[a].pc # "send"
  <2>1. \A a \in window[k] : hookCall[a].pc = "send" => HoldsRow(a) /\ hookCall[a].key = k
    BY <1>4, SmsAssumption DEF RowInv, HoldsRow, Keyed
  <2>2. HoldsRow(c) /\ hookCall[c].key = k /\ hookKey[k] = "held"
    BY <1>4, <1>5, <2>1 DEF RowInv, KeyRowOf
  <2> QED
    BY <1>4, <1>5, <2>1, <2>2 DEF RowInv, WindowInv
<1>6. CASE \E c \in window[k] : hookCall[c].pc = "send"
  BY <1>1, <1>3, <1>4, <1>5, <1>6
<1>7. CASE \A c \in window[k] : hookCall[c].pc # "send"
  BY <1>1, <1>3, <1>4, <1>7 DEF WindowInv
<1> QED
  BY <1>6, <1>7

\* Twilio's reports, replays, purges and the clock bring no text to
\* life that Twilio has not had.
LEMMA EnvKeepsWindow ==
  ASSUME SmsTypeOK, CopyInv, WindowInv,
         \/ RevokeToken \/ Midnight \/ UNCHANGED smsVars
         \/ \E k \in HookKeys : HookKeyAges(k)
         \/ \E c \in HookCalls :
               \/ PurgeLogRow(c)
               \/ \E how \in {"failed", "optout"} : TwilioFails(c, how)
               \/ \E t \in Replays : TwilioStatusCallback(c, t)
         \/ \E t \in Replays :
               \/ ClaimTelnyxDeliveryFallback(t) \/ ReplayClaimFails(t)
               \/ \E taken \in BOOLEAN : SendReplay(t, taken)
  PROVE  WindowInv'
<1> USE DEF CallsOnly, NothingSent
<1>0. hookCall \in [HookCalls -> Call]
  BY DEF SmsTypeOK, Call, CallPc
<1>1. CASE UNCHANGED <<hookKey, window, doubted, reach, twilio, hookCall>>
  BY <1>1, QuietKeepsWindow DEF Live, HoldsRow, Keyed
<1>2. ASSUME NEW k \in HookKeys, HookKeyAges(k)
      PROVE  WindowInv'
  <2>1. UNCHANGED <<window, doubted, reach, twilio, hookCall>>
    BY <1>2 DEF HookKeyAges
  <2>2. \A j \in HookKeys : hookKey'[j] = "none" => hookKey[j] = "none"
    BY <1>2 DEF HookKeyAges, SmsTypeOK
  <2> QED
    BY <2>1, <2>2 DEF WindowInv, Live, HoldsRow, Keyed
<1>3. ASSUME NEW c \in HookCalls, NEW how \in {"failed", "optout"}, TwilioFails(c, how)
      PROVE  WindowInv'
  <2>1. \A d \in HookCalls : Live(d)' => Live(d)
    BY <1>3 DEF TwilioFails, Live, SmsTypeOK
  <2>2. UNCHANGED <<hookKey, window, doubted, hookCall>>
    BY <1>3 DEF TwilioFails
  <2> QED
    BY <2>1, <2>2, QuietKeepsWindow DEF HoldsRow, Keyed
<1>4. ASSUME NEW t \in Replays, NEW taken \in BOOLEAN, SendReplay(t, taken)
      PROVE  WindowInv'
  <2>1. UNCHANGED <<hookKey, window, doubted, hookCall>>
    BY <1>4 DEF SendReplay
  <2> QED
    BY <1>4, <2>1, LiveOnlyBySending, QuietKeepsWindow DEF HoldsRow, Keyed
<1>5. ASSUME \/ RevokeToken \/ Midnight \/ UNCHANGED smsVars
             \/ \E c \in HookCalls :
                  \/ PurgeLogRow(c)
                  \/ \E t \in Replays : TwilioStatusCallback(c, t)
             \/ \E t \in Replays : ClaimTelnyxDeliveryFallback(t) \/ ReplayClaimFails(t)
      PROVE  UNCHANGED <<hookKey, window, doubted, reach, twilio, hookCall>>
  BY <1>5 DEF RevokeToken, Midnight, smsVars, PurgeLogRow, TwilioStatusCallback,
     ClaimTelnyxDeliveryFallback, ReplayClaimFails
<1> QED
  BY <1>1, <1>2, <1>3, <1>4, <1>5

\* A set without two elements has at most one.
LEMMA AtMostOne ==
  ASSUME NEW S, \A x, y \in S : x = y
  PROVE  Cardinality(S) <= 1
<1>1. CASE S = {}
  BY <1>1, FS_EmptySet
<1>2. CASE S # {}
  <2>1. PICK x \in S : S = {x}
    BY <1>2
  <2> QED
    BY <2>1, FS_Singleton
<1> QED
  BY <1>1, <1>2

\* At most one copy of a text can reach the user, over all calls under one row of
\* an idempotency key and over all replays of a text that Twilio failed, unless a
\* provider took a text and answered with an error.
THEOREM TextsReachOnce == SmsSpec => []TextReachesOnce
<1>1. SmsInit => WindowInv
  BY DEF SmsInit, WindowInv
<1>2. SmsTypeOK /\ CopyInv /\ RowInv /\ WindowInv /\ [SmsNext]_smsVars => WindowInv'
  <2> SUFFICES ASSUME SmsTypeOK, CopyInv, RowInv, WindowInv, [SmsNext]_smsVars
               PROVE  WindowInv'
    OBVIOUS
  <2>1. ASSUME NEW c \in HookCalls, CallStep(c)
        PROVE  WindowInv'
    BY <2>1, SendKeepsWindow, ReserveKeepsWindow, EndKeepsWindow, OtherCallKeepsWindow
    DEF CallStep
  <2> QED
    BY <2>1, EnvKeepsWindow, RestartKeepsWindow DEF SmsNext
<1>3. SmsTypeOK /\ CopyInv /\ WindowInv => TextReachesOnce
  <2> SUFFICES ASSUME SmsTypeOK, CopyInv, WindowInv
               PROVE  TextReachesOnce
    OBVIOUS
  <2>1. ASSUME NEW c \in HookCalls \ doubted
        PROVE  Cardinality(reach[c]) <= 1
    BY AtMostOne DEF CopyInv, OneCopy
  <2>2. ASSUME NEW k \in HookKeys, window[k] \intersect doubted = {}
        PROVE  Cardinality({c \in window[k] : reach[c] # {}}) <= 1
    <3>1. \A x, y \in {c \in window[k] : reach[c] # {}} : x = y
      BY <2>2 DEF WindowInv, Live
    <3> QED
      BY <3>1, AtMostOne
  <2> QED
    BY <2>1, <2>2 DEF TextReachesOnce
<1> QED
  BY <1>1, <1>2, <1>3, SmsTypeCorrect, CopiesAreSingle, RowsAreExclusive, PTL DEF SmsSpec

=============================================================================
