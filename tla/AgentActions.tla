---------------------------- MODULE AgentActions ----------------------------
(***************************************************************************)
(* Actions of a user's paired agents.  A pairing session becomes a         *)
(* credential when the user approves its code and the agent polls.  An     *)
(* action (a reminder, a reply watch) carries an idempotency key: the      *)
(* request reserves the key, charges the credential's daily cap, acts, and *)
(* stores the outcome under the key, each in a transaction of its own.     *)
(***************************************************************************)
EXTENDS Naturals, FiniteSets

CONSTANTS
    Sessions,       \* pairing sessions; a credential is named after its session
    Polls,
    Requests,
    Keys,           \* idempotency keys, with the kind of action
    MaxCredentials, \* active credentials of a user (5)
    DailyCap,       \* actions of a credential a day (20)
    MaxAgentFaults  \* restarts and failing writes

ASSUME AgentBoundsAssumption ==
    MaxCredentials \in Nat /\ DailyCap \in Nat /\ MaxAgentFaults \in Nat

VARIABLES
    session,     \* agent_pairing_sessions
    poll,        \* [Polls -> the session it has seen approved, if any]
    credential,  \* agent_credentials: state, daily_used, whether the day is over
    reserved,    \* agent_action_idempotency, per credential and key
    request,     \* [Requests -> step, credential and key]
    acts,        \* history: actions taken under the key's present row
    agentFaults

agentVars == <<session, poll, credential, reserved, request, acts, agentFaults>>

Request == [pc : {"idle", "reserve", "claim", "act", "finish", "clear", "done"},
            cred : Sessions, key : Keys]

AgentTypeOK ==
    /\ session \in [Sessions -> {"none", "open", "approved", "consumed", "over"}]
    /\ poll \in [Polls -> SUBSET Sessions]
    /\ credential \in [Sessions -> [state : {"none", "active", "revoked", "expired"},
                                    used : 0..DailyCap, newDay : BOOLEAN]]
    /\ reserved \in [Sessions -> [Keys -> {"none", "held", "done", "aged"}]]
    /\ request \in [Requests -> Request]
    /\ acts \in [Sessions -> [Keys -> Nat]]
    /\ agentFaults \in 0..MaxAgentFaults

AgentInit ==
    /\ session = [s \in Sessions |-> "none"]
    /\ poll = [p \in Polls |-> {}]
    /\ credential = [s \in Sessions |-> [state |-> "none", used |-> 0, newDay |-> FALSE]]
    /\ reserved = [s \in Sessions |-> [k \in Keys |-> "none"]]
    /\ request \in [Requests -> [pc : {"idle"}, cred : Sessions, key : Keys]]
    /\ acts = [s \in Sessions |-> [k \in Keys |-> 0]]
    /\ agentFaults = 0

ActiveCredentials == {s \in Sessions : credential[s].state = "active"}

-----------------------------------------------------------------------------
(* Pairing                                                                 *)

PairOnly == UNCHANGED <<reserved, request, acts, agentFaults>>

\* create_pairing
StartPairing(s) ==
    /\ session[s] = "none"
    /\ session' = [session EXCEPT ![s] = "open"]
    /\ PairOnly
    /\ UNCHANGED <<poll, credential>>

ApprovePairing(s) ==
    /\ session[s] = "open"
    /\ session' = [session EXCEPT ![s] = "approved"]
    /\ PairOnly
    /\ UNCHANGED <<poll, credential>>

PairingExpires(s) ==
    /\ session[s] \in {"open", "approved"}
    /\ session' = [session EXCEPT ![s] = "over"]
    /\ PairOnly
    /\ UNCHANGED <<poll, credential>>

\* poll_pairing of a session the user has approved; any other changes nothing.
PollPairing(p, s) ==
    /\ poll[p] = {} /\ session[s] = "approved"
    /\ poll' = [poll EXCEPT ![p] = {s}]
    /\ PairOnly
    /\ UNCHANGED <<session, credential>>

\* consume_pairing: the session is looked at again under a lock.
ConsumePairing(p, s) ==
    /\ s \in poll[p]
    /\ poll' = [poll EXCEPT ![p] = {}]
    /\ IF session[s] = "approved" /\ Cardinality(ActiveCredentials) < MaxCredentials
       THEN /\ session' = [session EXCEPT ![s] = "consumed"]
            /\ credential' = [credential EXCEPT ![s] = [state |-> "active", used |-> 0,
                                                        newDay |-> FALSE]]
       ELSE UNCHANGED <<session, credential>>
    /\ PairOnly

\* revoke_credential and revoke_by_token_hash, or the credential's end.
EndCredential(s, how) ==
    /\ credential[s].state = "active"
    /\ credential' = [credential EXCEPT ![s].state = how]
    /\ PairOnly
    /\ UNCHANGED <<session, poll>>

DayEnds(s) ==
    /\ credential[s].state = "active" /\ ~credential[s].newDay
    /\ credential' = [credential EXCEPT ![s].newDay = TRUE]
    /\ PairOnly
    /\ UNCHANGED <<session, poll>>

-----------------------------------------------------------------------------
(* A request                                                               *)

RequestOnly == UNCHANGED <<session, poll>>
Proceeds(r, pc) == request' = [request EXCEPT ![r].pc = pc]
Cred(r) == request[r].cred
Key(r) == request[r].key
KeyRow(r) == reserved[Cred(r)][Key(r)]
RowBecomes(r, state) == reserved' = [reserved EXCEPT ![Cred(r)][Key(r)] = state]

\* A step that may be lost to a failing write.
KeyStored(written) ==
    /\ written \/ agentFaults < MaxAgentFaults
    /\ agentFaults' = IF written THEN agentFaults ELSE agentFaults + 1

\* authenticate_credential
Authenticate(r) ==
    /\ request[r].pc = "idle"
    /\ credential[Cred(r)].state = "active"
    /\ Proceeds(r, "reserve")
    /\ RequestOnly
    /\ UNCHANGED <<credential, reserved, acts, agentFaults>>

\* Mutant: a key whose request is still in flight is given out again.
ReserveKeyInFlight(r) ==
    /\ request[r].pc = "reserve"
    /\ IF KeyRow(r) # "done"
       THEN /\ RowBecomes(r, "held") /\ Proceeds(r, "claim")
            /\ acts' = IF KeyRow(r) = "held" THEN acts ELSE [acts EXCEPT ![Cred(r)][Key(r)] = 0]
       ELSE Proceeds(r, "done") /\ UNCHANGED <<reserved, acts>>
    /\ RequestOnly
    /\ UNCHANGED <<credential, agentFaults>>

\* reserve_idempotency: a key of the last day is replayed or in flight, and
\* the request ends; an older row is replaced.
ReserveKey(r) ==
    /\ request[r].pc = "reserve"
    /\ IF KeyRow(r) \in {"none", "aged"}
       THEN /\ RowBecomes(r, "held") /\ Proceeds(r, "claim")
            /\ acts' = [acts EXCEPT ![Cred(r)][Key(r)] = 0]
       ELSE Proceeds(r, "done") /\ UNCHANGED <<reserved, acts>>
    /\ RequestOnly
    /\ UNCHANGED <<credential, agentFaults>>

\* Mutant: the cap is off by one.
ClaimCredentialAtCap(r) ==
    /\ request[r].pc = "claim"
    /\ LET c == credential[Cred(r)]
           used == IF c.newDay THEN 0 ELSE c.used
           accepted == c.state = "active" /\ used <= DailyCap
       IN  /\ credential' = [credential EXCEPT ![Cred(r)] =
                [c EXCEPT !.newDay = FALSE, !.used = IF accepted THEN used + 1 ELSE used]]
           /\ Proceeds(r, IF accepted THEN "act" ELSE "clear")
    /\ RequestOnly
    /\ UNCHANGED <<reserved, acts, agentFaults>>

\* claim_credential: the day's count starts again after midnight, and the
\* update counts only below the cap.
ClaimCredential(r) ==
    /\ request[r].pc = "claim"
    /\ LET c == credential[Cred(r)]
           used == IF c.newDay THEN 0 ELSE c.used
           accepted == c.state = "active" /\ used < DailyCap
       IN  /\ credential' = [credential EXCEPT ![Cred(r)] =
                [c EXCEPT !.newDay = FALSE, !.used = IF accepted THEN used + 1 ELSE used]]
           /\ Proceeds(r, IF accepted THEN "act" ELSE "clear")
    /\ RequestOnly
    /\ UNCHANGED <<reserved, acts, agentFaults>>

\* The transaction fails and is rolled back, which ends the request the same way.
ClaimCredentialFails(r) ==
    /\ request[r].pc = "claim"
    /\ agentFaults < MaxAgentFaults
    /\ agentFaults' = agentFaults + 1
    /\ Proceeds(r, "clear")
    /\ RequestOnly
    /\ UNCHANGED <<credential, reserved, acts>>

\* create_reminder or create_email_reply_watches.  "refused" stands for a user
\* without subscription and for a watch that is not accepted: the key is
\* completed with that outcome.
Act(r, outcome) ==
    /\ request[r].pc = "act"
    /\ acts' = [acts EXCEPT ![Cred(r)][Key(r)] = IF outcome = "done" THEN @ + 1 ELSE @]
    /\ Proceeds(r, IF outcome = "failed" THEN "clear" ELSE "finish")
    /\ RequestOnly
    /\ UNCHANGED <<credential, reserved, agentFaults>>

\* finish_action, with complete_idempotency; a write that fails is logged and
\* the agent gets its answer.
FinishAction(r, written) ==
    /\ request[r].pc = "finish"
    /\ KeyStored(written)
    /\ IF written THEN RowBecomes(r, "done") ELSE UNCHANGED reserved
    /\ Proceeds(r, "done")
    /\ RequestOnly
    /\ UNCHANGED <<credential, acts>>

\* clear_idempotency
ClearKey(r, written) ==
    /\ request[r].pc = "clear"
    /\ KeyStored(written)
    /\ IF written THEN RowBecomes(r, "none") ELSE UNCHANGED reserved
    /\ Proceeds(r, "done")
    /\ RequestOnly
    /\ UNCHANGED <<credential, acts>>

\* A day after it was reserved, long after its request has ended.
KeyAges(s, k) ==
    /\ reserved[s][k] \in {"held", "done"}
    /\ \A r \in Requests : Cred(r) = s /\ Key(r) = k
                           => request[r].pc \in {"idle", "reserve", "done"}
    /\ reserved' = [reserved EXCEPT ![s][k] = "aged"]
    /\ UNCHANGED <<session, poll, credential, request, acts, agentFaults>>

RestartAgents ==
    /\ agentFaults < MaxAgentFaults
    /\ agentFaults' = agentFaults + 1
    /\ poll' = [p \in Polls |-> {}]
    /\ request' = [r \in Requests |-> IF request[r].pc = "idle" THEN request[r]
                                      ELSE [request[r] EXCEPT !.pc = "done"]]
    /\ UNCHANGED <<session, credential, reserved, acts>>

AgentNext ==
    \/ \E s \in Sessions :
          \/ StartPairing(s) \/ ApprovePairing(s) \/ PairingExpires(s) \/ DayEnds(s)
          \/ \E how \in {"revoked", "expired"} : EndCredential(s, how)
          \/ \E p \in Polls : PollPairing(p, s) \/ ConsumePairing(p, s)
          \/ \E k \in Keys : KeyAges(s, k)
    \/ \E r \in Requests :
          \/ Authenticate(r) \/ ReserveKey(r) \/ ClaimCredential(r)
          \/ ClaimCredentialFails(r)
          \/ \E o \in {"done", "refused", "failed"} : Act(r, o)
          \/ \E w \in BOOLEAN : FinishAction(r, w) \/ ClearKey(r, w)
    \/ RestartAgents

AgentSpec == AgentInit /\ [][AgentNext]_agentVars

-----------------------------------------------------------------------------
(* Properties                                                              *)

\* An action is taken at most once per idempotency key and day, whatever the
\* agent sends at once or again and whichever write or restart comes between
\* acting and storing the outcome (reserve before acting; an unfinished key
\* stays in flight).
KeyActsOnce == \A s \in Sessions, k \in Keys : acts[s][k] <= 1

=============================================================================
