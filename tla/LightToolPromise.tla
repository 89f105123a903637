-------------------------- MODULE LightToolPromise --------------------------
(***************************************************************************)
(* What the Light Tool promises about a message, whatever restarts, slow   *)
(* workers, replays and changes of the linked account happen to it:        *)
(*                                                                         *)
(*  - it is accepted once, for the principal its device had at that moment;*)
(*  - the responder is asked at most once, and only for that principal;    *)
(*  - it ends once, and then its result does not change.                   *)
(*                                                                         *)
(* The responder may still be asked after the message has ended: a task    *)
(* that was taken for lost does not know that it was.                      *)
(***************************************************************************)
EXTENDS Naturals

CONSTANTS Keys, Principals, NoPrincipal

VARIABLES
    phase,      \* "none", "open", "completed" or "failed", by message
    owner,      \* the principal it was accepted for
    asked       \* how often, and for whom, the responder was asked

promiseVars == <<phase, owner, asked>>

PromiseInit ==
    /\ phase = [k \in Keys |-> "none"]
    /\ owner = [k \in Keys |-> NoPrincipal]
    /\ asked = [k \in Keys |-> [times |-> 0, as |-> {}]]

Accept(k, p) ==
    /\ phase[k] = "none"
    /\ phase' = [phase EXCEPT ![k] = "open"]
    /\ owner' = [owner EXCEPT ![k] = p]
    /\ UNCHANGED asked

Ask(k) ==
    /\ phase[k] # "none"
    /\ asked[k].times = 0
    /\ asked' = [asked EXCEPT ![k] = [times |-> 1, as |-> {owner[k]}]]
    /\ UNCHANGED <<phase, owner>>

\* Several messages end at once when the supervisor gives up stale runs.
End ==
    /\ phase' \in [Keys -> {"none", "open", "completed", "failed"}]
    /\ \A k \in Keys : phase[k] # phase'[k] =>
           phase[k] = "open" /\ phase'[k] \in {"completed", "failed"}
    /\ UNCHANGED <<owner, asked>>

PromiseNext ==
    \/ \E k \in Keys : Ask(k) \/ \E p \in Principals : Accept(k, p)
    \/ End

Promise == PromiseInit /\ [][PromiseNext]_promiseVars
=============================================================================
