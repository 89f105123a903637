-------------------------- MODULE LightToolDevices --------------------------
(***************************************************************************)
(* The devices of the Light Tool and their pairing with accounts: the      *)
(* tables light_tool_devices (the user_id column) and                      *)
(* light_tool_pairing_sessions (one row per account), and the transactions *)
(* of LightToolPairingRepository.  Each of them locks the device row before*)
(* the session row, so each is one step.                                   *)
(*                                                                         *)
(* A pairing token is 32 random bytes: the model numbers the offers.  The  *)
(* five minutes an offer lives are abstracted to whether it is still live. *)
(* revoked_at is read everywhere and written nowhere, so no device of the  *)
(* model is revoked.                                                       *)
(***************************************************************************)
EXTENDS Naturals, FiniteSets

CONSTANTS
    Devices, NoDevice,   \* rows of light_tool_devices, and NULL
    Users, NoUser,       \* accounts, and NULL
    MaxOffers,           \* bound: pairing offers ever created
    MaxFaults            \* bound: restarts and failed database calls

ASSUME DevicesAssumption == NoDevice \notin Devices
ASSUME UsersAssumption == NoUser \notin Users
ASSUME MaxOffersAssumption == MaxOffers \in Nat
ASSUME MaxFaultsAssumption == MaxFaults \in Nat

VARIABLES
    user,        \* light_tool_devices.user_id
    session,     \* light_tool_pairing_sessions, by account
    issued,      \* offers created so far; the last token
    links,       \* history: how often each token has newly linked a device
    faults       \* restarts and failed database calls so far

deviceVars == <<user, session, issued, links>>

Principals == Users \cup {NoUser}
Tokens == 1..MaxOffers
Session == [token : 0..MaxOffers, live : BOOLEAN, by : Devices \cup {NoDevice}]
NoSession == [token |-> 0, live |-> FALSE, by |-> NoDevice]

\* A database call that fails, or a restart, out of the bounded supply.
Fault == faults < MaxFaults /\ faults' = faults + 1

-----------------------------------------------------------------------------
\* upsert_for_user: the account's previous token stops being a token.
CreateOffer(u) ==
    /\ issued < MaxOffers
    /\ issued' = issued + 1
    /\ session' = [session EXCEPT ![u] =
                       [token |-> issued + 1, live |-> TRUE, by |-> NoDevice]]
    /\ UNCHANGED <<user, links>>

OfferExpires(u) ==
    /\ session[u].live
    /\ session' = [session EXCEPT ![u].live = FALSE]
    /\ UNCHANGED <<user, issued, links>>

\* Mutant: the token is accepted although it has been consumed.
OpenSessionUnchecked(u, token) == session[u].token = token /\ session[u].live

\* The session this token opens: found by its hash, live, not consumed.
OpenSession(u, token) ==
    session[u].token = token /\ session[u].live /\ session[u].by = NoDevice

\* Every other request is answered without a change: the token is unknown,
\* expired or consumed, or the device is linked.
Consume(d, token) ==
    \E u \in Users :
        /\ OpenSession(u, token)
        /\ user[d] = NoUser
        /\ user' = [user EXCEPT ![d] = u]
        /\ session' = [session EXCEPT ![u].by = d]
        /\ links' = [links EXCEPT ![token] = @ + 1]
        /\ UNCHANGED issued

\* Mutant: the session stays behind.
ForgetConsumedNothing(d) == UNCHANGED session

\* The delete filters on the account and on the device that consumed it.
ForgetConsumed(d) ==
    session' = [u \in Users |->
                   IF u = user[d] /\ session[u].by = d THEN NoSession ELSE session[u]]

DisconnectDevice(d) ==
    /\ user[d] # NoUser
    /\ user' = [user EXCEPT ![d] = NoUser]
    /\ ForgetConsumed(d)
    /\ UNCHANGED <<issued, links>>

Linked(u) == \E d \in Devices : user[d] = u

\* status_for_user: what the dashboard is told.
StatusForUser(u) ==
    CASE session[u].by # NoDevice -> "connected"
      [] session[u].by = NoDevice /\ session[u].live -> "pending"
      [] session[u].by = NoDevice /\ ~session[u].live ->
             IF Linked(u) THEN "connected"
             ELSE IF session[u].token # 0 THEN "expired" ELSE "none"

-----------------------------------------------------------------------------
DevicesInit ==
    /\ user = [d \in Devices |-> NoUser]
    /\ session = [u \in Users |-> NoSession]
    /\ issued = 0
    /\ links = [t \in Tokens |-> 0]
    /\ faults = 0

DevicesTypeOK ==
    /\ user \in [Devices -> Principals]
    /\ session \in [Users -> Session]
    /\ issued \in 0..MaxOffers
    /\ links \in [Tokens -> Nat]
    /\ faults \in 0..MaxFaults

PairingStep ==
    \/ \E u \in Users : CreateOffer(u) \/ OfferExpires(u)
    \/ \E d \in Devices : DisconnectDevice(d) \/ \E t \in Tokens : Consume(d, t)

-----------------------------------------------------------------------------
(* Properties of pairing. *)

\* An offer links a device once, whatever is replayed, replaced or disconnected
\* in between: a device that logged out does not come back with the same code.
OfferLinksOnce == \A t \in Tokens : links[t] <= 1

\* The dashboard says "connected" only for an account with a linked device:
\* a consumed session never outlives the link it made.
ConnectedIsTrue ==
    \A u \in Users : StatusForUser(u) = "connected" => Linked(u)
=============================================================================
