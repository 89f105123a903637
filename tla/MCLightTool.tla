----------------------------- MODULE MCLightTool -----------------------------
(***************************************************************************)
(* LightTool for TLC.  A run explores one or more scenarios, chosen in     *)
(* Init; each confines the devices, accounts, messages, requests and tasks *)
(* its question does not need.                                             *)
(*   runs      one message, two dispatch tasks, one link, one fault        *)
(*   pairing   two accounts, two devices, and no messages                  *)
(*   push      two messages of a linked device, whose runs do not fail,    *)
(*             two endpoints, one fault                                    *)
(*   replay    two requests at once with two message ids and two texts     *)
(*   all       everything the constants allow                              *)
(***************************************************************************)
EXTENDS LightTool, TLC

CONSTANTS
    Scenarios,   \* the scenarios explored
    First        \* one device, one account, one message id, one text

ASSUME ScenariosAssumption ==
    Scenarios \subseteq {"runs", "pairing", "push", "replay", "all"}

VARIABLE scenario

mcVars == <<vars, scenario>>

OneRequest == \A g, h \in Handlers : req[g].pc # "idle" /\ req[h].pc # "idle" => g = h
OneTask == \A s, t \in Tasks : task[s].pc # "idle" /\ task[t].pc # "idle" => s = t
NoMessages == \A h \in Handlers : req[h].pc = "idle"
NoEndpoints == \A d \in Devices : endpoint[d] = NoEndpoint

\* Requests and links of the first device only; which message ids and texts.
FirstDevice ==
    /\ \A d \in Devices \ First : user[d] = NoUser /\ trialLive[d]
    /\ \A h \in Handlers : req[h].pc # "idle" => DeviceOf(req[h].id) \in First
FirstUser == \A u \in Users \ First : session[u] = NoSession
FirstMessage == \A h \in Handlers : req[h].pc # "idle" => req[h].id[2] \in First
NoRunFails == \A r \in Runs : run[r].st # "failed" /\ ~run[r].stale

FirstMessageFirst ==
    \A r \in Runs : run[r].st # "absent" /\ r[2] \notin First =>
        \E q \in Runs : run[q].st # "absent" /\ q[2] \in First
FirstText == \A h \in Handlers : req[h].pc # "idle" => req[h].text \in First

InScenario ==
    CASE scenario = "runs" -> FirstDevice /\ FirstUser /\ FirstMessage /\ FirstText
                              /\ OneRequest /\ NoEndpoints /\ issued <= 1
      [] scenario = "pairing" -> NoMessages /\ NoEndpoints /\ faults = 0
      [] scenario = "push" -> FirstDevice /\ FirstMessageFirst /\ FirstText
                              /\ OneRequest /\ OneTask /\ NoRunFails /\ sup = Asleep
      [] scenario = "replay" -> FirstDevice /\ OneTask /\ NoEndpoints
                                /\ issued = 0 /\ faults = 0
      [] scenario = "all" -> TRUE

\* "push" starts with the first device linked by a first, consumed offer.
LinkedBefore ==
    /\ user = [d \in Devices |-> IF d \in First THEN CHOOSE u \in Users : u \in First
                                                ELSE NoUser]
    /\ session = [u \in Users |->
                     IF u \in First THEN [token |-> 1, live |-> FALSE,
                                          by |-> CHOOSE d \in Devices : d \in First]
                                    ELSE NoSession]
    /\ issued = 1
    /\ links = [t \in Tokens |-> IF t = 1 THEN 1 ELSE 0]
    /\ faults = 0

MCInit ==
    /\ scenario \in Scenarios
    /\ IF scenario = "push" THEN LinkedBefore ELSE DevicesInit
    /\ PushInit /\ RunsInit
MCNext ==
    /\ Next
    /\ UNCHANGED scenario
    /\ scenario = "push" => UNCHANGED <<deviceVars, trialLive>>
    /\ InScenario'
MCSpec == MCInit /\ [][MCNext]_mcVars
\* For "all" only, which leaves out nothing.
MCFairSpec == MCSpec /\ Fairness

\* Requests in flight, dispatch tasks and endpoints are interchangeable.
SlotSymmetry == Permutations(Handlers) \cup Permutations(Tasks) \cup Permutations(Endpoints)
=============================================================================
