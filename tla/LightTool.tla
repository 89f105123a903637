------------------------------ MODULE LightTool ------------------------------
(***************************************************************************)
(* The Light Tool backend: devices and their accounts, runs, and pushes,   *)
(* sharing one database, with restarts and failing database calls.         *)
(***************************************************************************)
EXTENDS LightToolRuns

vars == <<deviceVars, pushVars, runVars, faults>>

Init == DevicesInit /\ PushInit /\ RunsInit

\* A task or the supervisor queues the push for the run it has ended.
Announce ==
    \/ \E t \in Tasks : AnnounceEnd(t) /\ EnqueueConversationChanged(DeviceOf(task[t].id))
    \/ \E d \in Devices : AnnounceInterrupted(d) /\ EnqueueConversationChanged(d)

\* A database call fails.
DatabaseFault ==
    /\ Fault
    /\ UNCHANGED deviceVars
    /\ \/ /\ \/ \E h \in Handlers : RequestFault(h)
             \/ \E t \in Tasks : HistoryFault(t) \/ TaskFault(t)
             \/ FindFault
             \/ \E d \in Devices : AnnounceFault(d)
          /\ UNCHANGED pushVars
       \/ (\E d \in Devices : DeliveryFault(d)) /\ UNCHANGED runVars

\* The process restarts: requests, tasks, the supervisor's pass and deliveries
\* are gone, the tables remain.
Restart ==
    /\ Fault
    /\ req' = [h \in Handlers |-> NoRequest]
    /\ task' = [t \in Tasks |-> NoTask]
    /\ sup' = Asleep
    /\ delivery' = [d \in Devices |-> NoDelivery]
    /\ UNCHANGED <<trialLive, used, run, sent, acted, announced>>
    /\ UNCHANGED <<endpoint, outbox, owed, refused>>
    /\ UNCHANGED deviceVars

Next ==
    \/ PairingStep /\ UNCHANGED <<pushVars, runVars, faults>>
    \/ PushStep /\ UNCHANGED <<deviceVars, runVars, faults>>
    \/ RunStep /\ UNCHANGED <<deviceVars, pushVars, faults>>
    \/ Announce /\ UNCHANGED <<deviceVars, faults>>
    \/ DatabaseFault
    \/ Restart

Spec == Init /\ [][Next]_vars

-----------------------------------------------------------------------------
(* Fairness: tokio runs every task that can run, and the clock moves.  The *)
(* responder is not assumed to answer.  A registration that is looked up,  *)
(* or a push that is sent, again and again is found and answered some time.*)

Quiet == UNCHANGED <<deviceVars, pushVars, faults>>
QuietRuns == UNCHANGED <<deviceVars, runVars, faults>>

Fairness ==
    /\ \A h \in Handlers : WF_vars(Handle(h) /\ Quiet)
    /\ \A t \in Tasks :
           /\ WF_vars((Claim(t) \/ StartResponder(t)) /\ Quiet)
           /\ WF_vars(AnnounceEnd(t) /\ EnqueueConversationChanged(DeviceOf(task[t].id))
                          /\ UNCHANGED <<deviceVars, faults>>)
    /\ WF_vars(Supervise /\ Quiet)
    /\ \A d \in Devices :
           WF_vars(AnnounceInterrupted(d) /\ EnqueueConversationChanged(d)
                       /\ UNCHANGED <<deviceVars, faults>>)
    /\ \A r \in Runs : WF_vars(RunGoesStale(r) /\ Quiet)
    /\ WF_vars(ClaimDue /\ QuietRuns)
    /\ \A d \in Devices :
           /\ WF_vars(Deliver(d) /\ QuietRuns)
           /\ SF_vars(FindEndpoint(d) /\ QuietRuns)
           /\ SF_vars(PostAnswered(d) /\ QuietRuns)
           /\ WF_vars((RetryComesDue(d) \/ PushLeaseExpires(d)) /\ QuietRuns)

FairSpec == Spec /\ Fairness

-----------------------------------------------------------------------------
(* Properties of the whole. *)

\* Every accepted message ends, answered or failed, even if a request, a task
\* or the process dies or the responder never answers, as long as the
\* responder does not keep a run fresh with progress labels for ever.
RunsEnd ==
    (<>[][~\E t \in Tasks : Activity(t) /\ task' = task]_vars)
        => \A r \in Runs : run[r].st = "queued" ~> run[r].st \in Ended

\* Every variable holds what its table or task can hold, and every task and
\* request that is under way names a run.
TypeOK == DevicesTypeOK /\ PushTypeOK /\ RunsTypeOK

PhaseAt(st) ==
    CASE st = "absent" -> "none"
      [] st \in {"queued", "running"} -> "open"
      [] st \in Ended -> st

PhaseOf(r) == PhaseAt(run[r].st)
OwnerOf(r) == sent[r].account

Promised == INSTANCE LightToolPromise WITH
    Keys <- Runs, Principals <- Principals, NoPrincipal <- NoUser,
    phase <- [r \in Runs |-> PhaseOf(r)],
    owner <- [r \in Runs |-> OwnerOf(r)],
    asked <- acted

\* The runs implement the promise: each message is accepted once for the
\* account its device had, asked of the responder at most once and for that
\* principal only, and ended once.
KeepsPromise == Promised!Promise
=============================================================================
