--------------------------- MODULE LightToolProofs ---------------------------
(***************************************************************************)
(* Proofs about LightTool, for every number of devices, accounts, offers,  *)
(* messages, requests, tasks, restarts and failures.                       *)
(***************************************************************************)
EXTENDS LightTool, FiniteSetTheorems, TLAPS

-----------------------------------------------------------------------------
(* Type correctness, one group of variables at a time. *)

\* The rows and tasks that are not there have their types.
LEMMA EmptyTyped ==
  /\ NoSession \in Session
  /\ NoEvent \in Event /\ FirstEvent \in Event
  /\ NoDelivery \in Delivery
  /\ NoRun \in Run /\ NoRequest \in Request /\ NoTask \in Task
  /\ Asleep \in Supervisor /\ NoContent \in Content
<1>1. NoSession \in Session
  BY MaxOffersAssumption DEF NoSession, Session
<1>2. NoEvent \in Event /\ FirstEvent \in Event
  BY DEF NoEvent, FirstEvent, Event
<1>3. NoDelivery \in Delivery
  BY DEF NoDelivery, Delivery, DeliveryStep
<1>4. NoRun \in Run
  BY DEF NoRun, Run, Status, Principals
<1>5. NoRequest \in Request
  BY DEF NoRequest, Request, Principals
<1>6. NoTask \in Task
  BY DEF NoTask, Task
<1>7. Asleep \in Supervisor
  BY DEF Asleep, Supervisor
<1>8. NoContent \in Content
  BY DEF NoContent, Content, Principals
<1> QED
  BY <1>1, <1>2, <1>3, <1>4, <1>5, <1>6, <1>7, <1>8

\* A run belongs to a device.
LEMMA DeviceOfTyped == \A r \in Runs : DeviceOf(r) \in Devices
BY DEF Runs, DeviceOf

\* Tokens are the positive offer numbers.
LEMMA TokensFacts == Tokens \subseteq Nat \ {0} /\ Tokens \subseteq 0..MaxOffers
BY MaxOffersAssumption DEF Tokens

\* The pairing transactions keep the types of their tables.
LEMMA PairingTyped ==
  ASSUME DevicesTypeOK, PairingStep
  PROVE  user' \in [Devices -> Principals] /\ session' \in [Users -> Session]
         /\ issued' \in 0..MaxOffers /\ links' \in [Tokens -> Nat]
<1> USE DEF DevicesTypeOK
<1>1. ASSUME NEW u \in Users, CreateOffer(u)
      PROVE  session' \in [Users -> Session] /\ issued' \in 0..MaxOffers
  BY <1>1, MaxOffersAssumption DEF CreateOffer, Session
<1>2. ASSUME NEW u \in Users, OfferExpires(u)
      PROVE  session' \in [Users -> Session]
  BY <1>2 DEF OfferExpires, Session
<1>3. ASSUME NEW d \in Devices, NEW t \in Tokens, Consume(d, t)
      PROVE  /\ user' \in [Devices -> Principals] /\ session' \in [Users -> Session]
             /\ links' \in [Tokens -> Nat]
  <2> PICK u \in Users : /\ user' = [user EXCEPT ![d] = u]
                         /\ session' = [session EXCEPT ![u].by = d]
    BY <1>3 DEF Consume
  <2>1. links' \in [Tokens -> Nat]
    BY <1>3 DEF Consume
  <2> QED
    BY <2>1 DEF Session, Principals
<1>4. ASSUME NEW d \in Devices, DisconnectDevice(d)
      PROVE  user' \in [Devices -> Principals] /\ session' \in [Users -> Session]
  BY <1>4, EmptyTyped DEF DisconnectDevice, ForgetConsumed, Principals
<1>5. \/ \E u \in Users : CreateOffer(u)
      \/ \E u \in Users : OfferExpires(u)
      \/ \E d \in Devices, t \in Tokens : Consume(d, t)
      \/ \E d \in Devices : DisconnectDevice(d)
  BY DEF PairingStep
<1> QED
  BY <1>1, <1>2, <1>3, <1>4, <1>5
  DEF CreateOffer, OfferExpires, Consume, DisconnectDevice

\* Enqueueing a change leaves a typed outbox.
LEMMA EnqueueTyped ==
  ASSUME PushTypeOK, NEW d \in Devices, EnqueueConversationChanged(d)
  PROVE  PushTypeOK'
<1>1. CASE outbox[d].present
  <2>1. NewerEvent(outbox[d]) \in Event
    BY DEF PushTypeOK, Event, NewerEvent
  <2>2. outbox' = [outbox EXCEPT ![d] = NewerEvent(outbox[d])]
    BY <1>1, Zenon DEF EnqueueConversationChanged, EnqueueEvent
  <2>3. owed' \in [Devices -> BOOLEAN]
    BY DEF PushTypeOK, EnqueueConversationChanged
  <2> QED
    BY <2>1, <2>2, <2>3 DEF PushTypeOK, EnqueueConversationChanged
<1>2. CASE ~outbox[d].present
  BY <1>2, EmptyTyped DEF PushTypeOK, EnqueueConversationChanged, EnqueueEvent
<1> QED
  BY <1>1, <1>2

\* Registrations, the worker and the clock keep the types of the push tables.
LEMMA PushTyped ==
  ASSUME PushTypeOK, PushStep \/ \E d \in Devices : DeliveryFault(d)
  PROVE  PushTypeOK'
<1> USE EmptyTyped DEF PushTypeOK
<1>1. CASE ClaimDue
  <2>1. ASSUME NEW d \in Devices
        PROVE  /\ [outbox[d] EXCEPT !.leased = TRUE] \in Event
               /\ [pc |-> "claimed", version |-> outbox[d].version, to |-> NoEndpoint]
                      \in Delivery
    BY DEF Event, Delivery, DeliveryStep
  <2> QED
    BY <1>1, <2>1 DEF ClaimDue
<1>2. ASSUME NEW d \in Devices, Deliver(d) \/ DeliveryFault(d)
      PROVE  PushTypeOK'
  <2>1. delivery' \in [Devices -> Delivery]
    BY <1>2 DEF Deliver, DeliveryFault, FindEndpoint, FindEndpointFails, PostAnswered,
                PostFails, ForgetEndpoint, CompleteEvent, ScheduleRetry, Delivery, DeliveryStep
  <2>2. outbox' \in [Devices -> Event]
    <3>1. [outbox[d] EXCEPT !.leased = FALSE, !.due = FALSE] \in Event
      BY DEF Event
    <3> QED
      BY <1>2, <3>1 DEF Deliver, DeliveryFault, FindEndpoint, FindEndpointFails,
                  PostAnswered, PostFails, ForgetEndpoint, CompleteEvent, ScheduleRetry
  <2>3. owed' \in [Devices -> BOOLEAN]
    <3>1. CASE FindEndpoint(d)
      <4>1. (owed[d] /\ endpoint[d] # NoEndpoint) \in BOOLEAN
        BY Zenon
      <4> QED
        BY <3>1, <4>1 DEF FindEndpoint
    <3>2. CASE PostAnswered(d)
      BY <3>2 DEF PostAnswered
    <3>3. CASE PostFails(d)
      BY <3>3 DEF PostFails
    <3> QED
      BY <1>2, <3>1, <3>2, <3>3 DEF Deliver, DeliveryFault, FindEndpointFails,
         ForgetEndpoint, CompleteEvent, ScheduleRetry
  <2>4. endpoint' \in [Devices -> Endpoints \cup {NoEndpoint}]
    BY <1>2 DEF Deliver, DeliveryFault, FindEndpoint, FindEndpointFails, PostAnswered,
                PostFails, ForgetEndpoint, CompleteEvent, ScheduleRetry
  <2>5. refused' \in [Devices -> SUBSET (Endpoints \cup {NoEndpoint})]
    <3>1. delivery[d].to \in Endpoints \cup {NoEndpoint}
      BY DEF Delivery
    <3> QED
      BY <1>2, <3>1 DEF Deliver, DeliveryFault, FindEndpoint, FindEndpointFails, PostAnswered,
                PostFails, ForgetEndpoint, CompleteEvent, ScheduleRetry
  <2> QED
    BY <2>1, <2>2, <2>3, <2>4, <2>5
<1>3. ASSUME NEW d \in Devices, RetryComesDue(d) \/ PushLeaseExpires(d)
      PROVE  PushTypeOK'
  <2>1. [outbox[d] EXCEPT !.due = TRUE] \in Event /\ [outbox[d] EXCEPT !.leased = FALSE] \in Event
    BY DEF Event
  <2>2. outbox' \in [Devices -> Event]
    BY <1>3, <2>1 DEF RetryComesDue, PushLeaseExpires
  <2> QED
    BY <1>3, <2>2 DEF RetryComesDue, PushLeaseExpires
<1>4. ASSUME NEW d \in Devices, Unregister(d) \/ \E e \in Endpoints : Register(d, e)
      PROVE  PushTypeOK'
  BY <1>4 DEF Unregister, Register
<1>5. \/ ClaimDue
      \/ \E d \in Devices : Deliver(d) \/ DeliveryFault(d)
      \/ \E d \in Devices : RetryComesDue(d) \/ PushLeaseExpires(d)
      \/ \E d \in Devices : Unregister(d) \/ \E e \in Endpoints : Register(d, e)
  BY Zenon DEF PushStep
<1> HIDE DEF PushTypeOK
<1> QED
  BY <1>1, <1>2, <1>3, <1>4, <1>5

\* Requests keep the types of the run tables.
LEMMA HandlersTyped ==
  ASSUME DevicesTypeOK, RunsTypeOK, NEW h \in Handlers,
         \/ Handle(h) \/ RequestFault(h)
         \/ \E r \in Runs, text \in Texts, image \in Images \cup {NoImage} :
                Authenticate(h, r, text, image)
  PROVE  RunsTypeOK'
<1> USE EmptyTyped DEF RunsTypeOK
<1>1. ASSUME NEW r \in Runs, NEW text \in Texts, NEW image \in Images \cup {NoImage},
             Authenticate(h, r, text, image)
      PROVE  RunsTypeOK'
  <2>1. [pc |-> "authed", id |-> r, text |-> text, image |-> image,
         account |-> user[DeviceOf(r)]] \in Request
    BY DeviceOfTyped DEF Request, DevicesTypeOK
  <2> QED
    BY <1>1, <2>1 DEF Authenticate
<1>2. ASSUME NEW reply \in Reply, Answers(h, reply), req[h].pc = "authed"
      PROVE  /\ req' \in [Handlers -> Request]
             /\ \A i \in Handlers : req'[i].pc # "idle" => req'[i].id \in Runs
  BY <1>2 DEF Answers, Request
<1>3. CASE RefuseStale(h) \/ AnswerReplay(h) \/ RefuseTrial(h)
  <2>1. \E reply \in Reply : Answers(h, reply) /\ req[h].pc = "authed"
    BY <1>3 DEF RefuseStale, AnswerReplay, RefuseTrial, Reply
  <2> QED
    BY <1>2, <1>3, <2>1 DEF RefuseStale, AnswerReplay, RefuseTrial
<1>4. CASE CreateRun(h)
  <2> DEFINE r == req[h].id
  <2>1. r \in Runs /\ req[h] \in Request
    BY <1>4 DEF CreateRun
  <2>2. [st |-> "queued", account |-> req[h].account, text |-> req[h].text,
         image |-> req[h].image, stale |-> FALSE] \in Run
    BY <2>1 DEF Run, Request, Status
  <2>3. [text |-> req[h].text, image |-> req[h].image, account |-> user[DeviceOf(r)]]
            \in Content
    BY <2>1, DeviceOfTyped DEF Content, Request, DevicesTypeOK
  <2>4. run' \in [Runs -> Run] /\ sent' \in [Runs -> Content]
    BY <1>4, <2>2, <2>3 DEF CreateRun
  <2>5. used' \in [Devices -> Nat]
    BY <1>4, <2>1, DeviceOfTyped DEF CreateRun, ClaimQuota
  <2>6. /\ req' \in [Handlers -> Request]
        /\ \A i \in Handlers : req'[i].pc # "idle" => req'[i].id \in Runs
    BY <1>2, <1>4 DEF CreateRun, Reply
  <2> QED
    BY <1>4, <2>4, <2>5, <2>6 DEF CreateRun
<1>5. CASE SpawnDispatch(h)
  <2>1. PICK t \in Tasks : task' = [task EXCEPT ![t] = [pc |-> "claim", id |-> req[h].id]]
    BY <1>5 DEF SpawnDispatch, Spawn
  <2>2. [pc |-> "claim", id |-> req[h].id] \in Task /\ req[h].id \in Runs
    BY <1>5 DEF SpawnDispatch, Task
  <2>3. /\ task' \in [Tasks -> Task]
        /\ \A s \in Tasks : task'[s].pc # "idle" => task'[s].id \in Runs
    BY <2>1, <2>2
  <2>4. /\ req' \in [Handlers -> Request]
        /\ \A i \in Handlers : req'[i].pc # "idle" => req'[i].id \in Runs
    BY <1>5 DEF SpawnDispatch, NoRequest
  <2> QED
    BY <1>5, <2>3, <2>4 DEF SpawnDispatch
<1>6. CASE Respond(h) \/ RequestFault(h)
  <2>1. /\ req' \in [Handlers -> Request]
        /\ \A i \in Handlers : req'[i].pc # "idle" => req'[i].id \in Runs
    BY <1>6 DEF Respond, RequestFault, NoRequest
  <2> QED
    BY <1>6, <2>1 DEF Respond, RequestFault
<1> HIDE DEF RunsTypeOK
<1> QED
  BY <1>1, <1>3, <1>4, <1>5, <1>6 DEF Handle

\* The rows written by the supervisor and the tasks have the type of a row.
LEMMA EndedRowTyped ==
  \A x \in Run, st \in Ended : EndedRow(x, st) \in Run
BY DEF EndedRow, Run, Ended, Status

\* Dispatch tasks keep the types of the run tables.
LEMMA TasksTyped ==
  ASSUME RunsTypeOK, NEW t \in Tasks,
         Dispatch(t) \/ HistoryFault(t) \/ TaskFault(t) \/ AnnounceEnd(t)
  PROVE  RunsTypeOK'
<1> USE EmptyTyped DEF RunsTypeOK
<1> DEFINE r == task[t].id
<1>1. r \in Runs /\ run[r] \in Run
  BY DEF Dispatch, Claim, StartResponder, Activity, Finish, HistoryFault, TaskFault,
         AnnounceEnd, At
<1>2. /\ [run[r] EXCEPT !.st = "running", !.stale = FALSE] \in Run
      /\ [run[r] EXCEPT !.stale = FALSE] \in Run
  BY <1>1 DEF Run, Status
<1>3. ASSUME Ends(t)
      PROVE  /\ task' \in [Tasks -> Task]
             /\ \A s \in Tasks : task'[s].pc # "idle" => task'[s].id \in Runs
  BY <1>3 DEF Ends, NoTask
<1>4. ASSUME NEW pc \in {"history", "respond", "push"}, Goes(t, pc)
      PROVE  /\ task' \in [Tasks -> Task]
             /\ \A s \in Tasks : task'[s].pc # "idle" => task'[s].id \in Runs
  BY <1>1, <1>4 DEF Goes, Task
<1>5. CASE Claim(t)
  <2>1. run' \in [Runs -> Run]
    BY <1>2, <1>5 DEF Claim
  <2> QED
    BY <1>3, <1>4, <1>5, <2>1 DEF Claim
<1>6. CASE StartResponder(t)
  <2>1. acted[r] \in [times : Nat, as : SUBSET Principals] /\ PrincipalOf(r) \in Principals
    BY <1>1 DEF PrincipalOf, Run
  <2>2. [times |-> acted[r].times + 1, as |-> acted[r].as \cup {PrincipalOf(r)}]
            \in [times : Nat, as : SUBSET Principals]
    BY <2>1
  <2>3. acted' \in [Runs -> [times : Nat, as : SUBSET Principals]]
    BY <1>6, <2>2 DEF StartResponder
  <2> QED
    BY <1>4, <1>6, <2>3 DEF StartResponder
<1>7. CASE Activity(t)
  <2>1. run' \in [Runs -> Run]
    BY <1>2, <1>7 DEF Activity
  <2> QED
    BY <1>3, <1>7, <2>1 DEF Activity
<1>8. ASSUME NEW st \in Ended, Finish(t, st)
      PROVE  RunsTypeOK'
  <2>1. run' \in [Runs -> Run]
    BY <1>1, <1>8, EndedRowTyped DEF Finish
  <2> QED
    BY <1>3, <1>4, <1>8, <2>1 DEF Finish
<1>9. CASE HistoryFault(t)
  <2>1. run' \in [Runs -> Run]
    BY <1>1, <1>9, EndedRowTyped DEF HistoryFault, Ended
  <2> QED
    BY <1>3, <1>4, <1>9, <2>1 DEF HistoryFault
<1>10. CASE TaskFault(t)
  BY <1>3, <1>10 DEF TaskFault
<1>11. CASE AnnounceEnd(t)
  <2>1. EndedOf(DeviceOf(r)) \subseteq Runs
    BY DEF EndedOf
  <2> QED
    BY <1>3, <1>11, <2>1 DEF AnnounceEnd
<1> HIDE DEF RunsTypeOK
<1> QED
  BY <1>5, <1>6, <1>7, <1>8, <1>9, <1>10, <1>11 DEF Dispatch

\* The supervisor and the clock keep the types of the run tables.
LEMMA SupervisorTyped ==
  ASSUME RunsTypeOK,
         \/ Supervise \/ FindFault
         \/ \E d \in Devices : AnnounceInterrupted(d) \/ AnnounceFault(d) \/ TrialExpires(d)
         \/ \E r \in Runs : RunGoesStale(r)
  PROVE  RunsTypeOK'
<1> USE EmptyTyped DEF RunsTypeOK
<1>1. CASE FailStaleRuns
  <2>1. \A r \in Runs : InterruptedRow(run[r]) \in Run
    BY EndedRowTyped DEF InterruptedRow, Ended
  <2>2. run' \in [Runs -> Run]
    BY <1>1, <2>1 DEF FailStaleRuns
  <2>3. InterruptedDevices \in SUBSET Devices
    BY DeviceOfTyped DEF InterruptedDevices, StaleRuns
  <2>4. sup' \in Supervisor
    BY <1>1, <2>3 DEF FailStaleRuns, Supervisor
  <2> QED
    BY <1>1, <2>2, <2>4 DEF FailStaleRuns
<1>2. CASE FindQueuedRuns
  <2>1. {r \in Runs : run[r].st = "queued"} \in SUBSET Runs
    OBVIOUS
  <2>2. sup' \in Supervisor
    BY <1>2, <2>1 DEF FindQueuedRuns, Supervisor
  <2> QED
    BY <1>2, <2>2 DEF FindQueuedRuns
<1>3. CASE PassEnds \/ FindFault
  BY <1>3 DEF PassEnds, FindFault
<1>4. ASSUME NEW r \in Runs, Redispatch(r)
      PROVE  RunsTypeOK'
  <2>1. PICK t \in Tasks : task' = [task EXCEPT ![t] = [pc |-> "claim", id |-> r]]
    BY <1>4 DEF Redispatch, Spawn
  <2>2. [pc |-> "claim", id |-> r] \in Task
    BY DEF Task
  <2>3. /\ task' \in [Tasks -> Task]
        /\ \A s \in Tasks : task'[s].pc # "idle" => task'[s].id \in Runs
    BY <2>1, <2>2
  <2>4. sup' \in Supervisor
    BY <1>4 DEF Redispatch, Supervisor
  <2> QED
    BY <1>4, <2>3, <2>4 DEF Redispatch
<1>5. ASSUME NEW d \in Devices, AnnounceInterrupted(d) \/ AnnounceFault(d)
      PROVE  RunsTypeOK'
  <2>1. EndedOf(d) \subseteq Runs
    BY DEF EndedOf
  <2>2. sup' \in Supervisor
    BY <1>5 DEF AnnounceInterrupted, AnnounceFault, Supervisor
  <2> QED
    BY <1>5, <2>1, <2>2 DEF AnnounceInterrupted, AnnounceFault
<1>6. ASSUME NEW d \in Devices, TrialExpires(d)
      PROVE  RunsTypeOK'
  BY <1>6 DEF TrialExpires
<1>7. ASSUME NEW r \in Runs, RunGoesStale(r)
      PROVE  RunsTypeOK'
  <2>1. [run[r] EXCEPT !.stale = TRUE] \in Run
    BY DEF Run
  <2> QED
    BY <1>7, <2>1 DEF RunGoesStale
<1> HIDE DEF RunsTypeOK
<1> QED
  BY <1>1, <1>2, <1>3, <1>4, <1>5, <1>6, <1>7 DEF Supervise

\* Every step, as the part each group of tables plays in it.
DeviceMove == PairingStep \/ UNCHANGED deviceVars

PushMove ==
    \/ PushStep \/ \E d \in Devices : DeliveryFault(d) \/ EnqueueConversationChanged(d)
    \/ Restart
    \/ UNCHANGED pushVars

RunMove ==
    \/ RunStep
    \/ \E h \in Handlers : RequestFault(h)
    \/ \E t \in Tasks : HistoryFault(t) \/ TaskFault(t) \/ AnnounceEnd(t)
    \/ FindFault
    \/ \E d \in Devices : AnnounceInterrupted(d) \/ AnnounceFault(d)
    \/ Restart
    \/ UNCHANGED runVars

\* Every step moves each group of tables by one of the operations above.
LEMMA StepMoves ==
  ASSUME TypeOK, [Next]_vars
  PROVE  /\ DeviceMove /\ PushMove /\ RunMove
         /\ faults' \in 0..MaxFaults
         /\ UNCHANGED faults \/ faults' > 0
<1>1. faults \in 0..MaxFaults /\ faults \in Nat
  BY MaxFaultsAssumption DEF TypeOK, DevicesTypeOK
<1>2. ASSUME Fault
      PROVE  faults' \in 0..MaxFaults /\ faults' > 0
  BY <1>1, <1>2, MaxFaultsAssumption DEF Fault
<1>3. CASE PairingStep /\ UNCHANGED <<pushVars, runVars, faults>>
  BY <1>1, <1>3 DEF DeviceMove, PushMove, RunMove
<1>4. CASE PushStep /\ UNCHANGED <<deviceVars, runVars, faults>>
  BY <1>1, <1>4 DEF DeviceMove, PushMove, RunMove
<1>5. CASE RunStep /\ UNCHANGED <<deviceVars, pushVars, faults>>
  BY <1>1, <1>5 DEF DeviceMove, PushMove, RunMove
<1>6. CASE Announce /\ UNCHANGED <<deviceVars, faults>>
  <2>1. CASE \E t \in Tasks :
               AnnounceEnd(t) /\ EnqueueConversationChanged(DeviceOf(task[t].id))
    <3>1. PICK t \in Tasks :
               AnnounceEnd(t) /\ EnqueueConversationChanged(DeviceOf(task[t].id))
      BY <2>1
    <3>2. DeviceOf(task[t].id) \in Devices
      BY <3>1, DeviceOfTyped DEF TypeOK, RunsTypeOK, AnnounceEnd, At
    <3> QED
      BY <1>1, <1>6, <3>1, <3>2 DEF DeviceMove, PushMove, RunMove
  <2>2. CASE \E d \in Devices : AnnounceInterrupted(d) /\ EnqueueConversationChanged(d)
    BY <1>1, <1>6, <2>2 DEF DeviceMove, PushMove, RunMove
  <2> QED
    BY <1>6, <2>1, <2>2 DEF Announce
<1>7. CASE DatabaseFault
  <2>1. Fault /\ DeviceMove
    BY <1>7 DEF DatabaseFault, DeviceMove
  <2>2. PushMove
    BY <1>7 DEF DatabaseFault, PushMove
  <2>3. RunMove
    BY <1>7 DEF DatabaseFault, RunMove
  <2> QED
    BY <1>2, <2>1, <2>2, <2>3
<1>8. CASE Restart
  BY <1>2, <1>8 DEF Restart, DeviceMove, PushMove, RunMove
<1>9. CASE UNCHANGED vars
  BY <1>1, <1>9 DEF vars, DeviceMove, PushMove, RunMove
<1> QED
  BY <1>3, <1>4, <1>5, <1>6, <1>7, <1>8, <1>9 DEF Next

\* Every value the program starts with has its type.
LEMMA TypeInit == Init => TypeOK
<1> SUFFICES ASSUME Init PROVE TypeOK
  OBVIOUS
<1> USE EmptyTyped DEF Init
<1>1. DevicesTypeOK
  BY MaxOffersAssumption, MaxFaultsAssumption DEF DevicesInit, DevicesTypeOK, Principals
<1>2. PushTypeOK
  BY DEF PushInit, PushTypeOK
<1>3. RunsTypeOK
  BY DEF RunsInit, RunsTypeOK, NoRequest, NoTask
<1> QED
  BY <1>1, <1>2, <1>3 DEF TypeOK

\* Every step keeps the types.
LEMMA TypeStep == TypeOK /\ [Next]_vars => TypeOK'
<1> SUFFICES ASSUME TypeOK, [Next]_vars PROVE TypeOK'
  OBVIOUS
<1> USE StepMoves
<1>0. DevicesTypeOK /\ PushTypeOK /\ RunsTypeOK
  BY DEF TypeOK
<1>1. DevicesTypeOK'
  <2>1. CASE PairingStep
    BY <1>0, <2>1, PairingTyped DEF DevicesTypeOK
  <2>2. CASE UNCHANGED deviceVars
    BY <1>0, <2>2 DEF DevicesTypeOK, deviceVars
  <2> QED
    BY <2>1, <2>2 DEF DeviceMove
<1>2. PushTypeOK'
  <2>1. CASE PushStep \/ \E d \in Devices : DeliveryFault(d)
    BY <1>0, <2>1, PushTyped
  <2>2. CASE \E d \in Devices : EnqueueConversationChanged(d)
    BY <1>0, <2>2, EnqueueTyped
  <2>3. CASE Restart
    BY <1>0, <2>3, EmptyTyped DEF Restart, PushTypeOK
  <2>4. CASE UNCHANGED pushVars
    BY <1>0, <2>4 DEF PushTypeOK, pushVars
  <2> QED
    BY <2>1, <2>2, <2>3, <2>4 DEF PushMove
<1>3. RunsTypeOK'
  <2>1. ASSUME NEW h \in Handlers,
               \/ Handle(h) \/ RequestFault(h)
               \/ \E r \in Runs, text \in Texts, image \in Images \cup {NoImage} :
                      Authenticate(h, r, text, image)
        PROVE  RunsTypeOK'
    BY <1>0, <2>1, HandlersTyped
  <2>2. ASSUME NEW t \in Tasks,
               Dispatch(t) \/ HistoryFault(t) \/ TaskFault(t) \/ AnnounceEnd(t)
        PROVE  RunsTypeOK'
    BY <1>0, <2>2, TasksTyped
  <2>3. CASE \/ Supervise \/ FindFault
             \/ \E d \in Devices : AnnounceInterrupted(d) \/ AnnounceFault(d) \/ TrialExpires(d)
             \/ \E r \in Runs : RunGoesStale(r)
    BY <1>0, <2>3, SupervisorTyped
  <2>4. CASE Restart
    BY <1>0, <2>4, EmptyTyped DEF Restart, RunsTypeOK, NoRequest, NoTask
  <2>5. CASE UNCHANGED runVars
    BY <1>0, <2>5 DEF RunsTypeOK, runVars
  <2> QED
    BY <2>1, <2>2, <2>3, <2>4, <2>5 DEF RunMove, RunStep
<1> QED
  BY <1>1, <1>2, <1>3 DEF TypeOK

\* Tables and tasks hold only what they can hold, in every reachable state.
THEOREM TypeCorrect == Spec => []TypeOK
BY TypeInit, TypeStep, PTL DEF Spec

-----------------------------------------------------------------------------
(* Pairing.  That an offer links once needs more than its own statement:   *)
(* tokens are never reissued, two accounts never share one, and a session  *)
(* that is still open has linked nobody.  That a consumed session is       *)
(* backed by a link needs that only disconnecting, which also forgets the  *)
(* session, unlinks a device.                                              *)

SessionsBacked ==
    \A u \in Users : session[u].by # NoDevice =>
        session[u].by \in Devices /\ user[session[u].by] = u

TokensFresh ==
    /\ \A u \in Users : session[u].token <= issued
    /\ \A t \in Tokens : t > issued => links[t] = 0

TokensDistinct ==
    \A u, v \in Users : session[u].token = session[v].token => u = v \/ session[u].token = 0

OpenUnlinked ==
    \A u \in Users : session[u].token # 0 /\ session[u].by = NoDevice =>
        links[session[u].token] = 0

EmptyNotLive == \A u \in Users : session[u].live => session[u].token # 0

PairingInv ==
    SessionsBacked /\ TokensFresh /\ TokensDistinct /\ OpenUnlinked /\ EmptyNotLive
        /\ OfferLinksOnce

\* No offer has been made and nobody is linked at the start.
LEMMA PairingInit == Init => PairingInv
BY DEF Init, DevicesInit, PairingInv, SessionsBacked, TokensFresh, TokensDistinct,
       OpenUnlinked, EmptyNotLive, OfferLinksOnce, NoSession

\* Each pairing transaction keeps it.
LEMMA PairingKept == TypeOK /\ PairingInv /\ DeviceMove => PairingInv'
<1> SUFFICES ASSUME TypeOK, PairingInv, DeviceMove PROVE PairingInv'
  OBVIOUS
<1> USE MaxOffersAssumption, TokensFacts, DevicesAssumption, UsersAssumption
    DEF PairingInv, SessionsBacked, TokensFresh, TokensDistinct, OpenUnlinked,
        EmptyNotLive, OfferLinksOnce
<1>0. /\ user \in [Devices -> Principals] /\ session \in [Users -> Session]
      /\ issued \in 0..MaxOffers /\ links \in [Tokens -> Nat]
  BY DEF TypeOK, DevicesTypeOK
<1>1. \A u \in Users : /\ session[u].token \in 0..MaxOffers
                       /\ session[u].token # 0 => session[u].token \in Tokens
  BY <1>0 DEF Session, Tokens
<1>2. ASSUME NEW u \in Users, CreateOffer(u)
      PROVE  PairingInv'
  <2>1. /\ issued' = issued + 1 /\ issued + 1 \in Tokens /\ links' = links /\ user' = user
        /\ session' = [session EXCEPT ![u] =
                           [token |-> issued + 1, live |-> TRUE, by |-> NoDevice]]
    BY <1>0, <1>2 DEF CreateOffer, Tokens
  <2>2. \A v \in Users : session'[v] = IF v = u
             THEN [token |-> issued + 1, live |-> TRUE, by |-> NoDevice] ELSE session[v]
    BY <1>0, <2>1
  <2>3. SessionsBacked' /\ EmptyNotLive' /\ OfferLinksOnce'
    BY <1>0, <2>1, <2>2
  <2>4. TokensFresh'
    BY <1>0, <1>1, <2>1, <2>2
  <2>5. TokensDistinct'
    BY <1>0, <1>1, <2>1, <2>2
  <2>6. OpenUnlinked'
    BY <1>0, <1>1, <2>1, <2>2
  <2> QED
    BY <2>3, <2>4, <2>5, <2>6
<1>3. ASSUME NEW u \in Users, OfferExpires(u)
      PROVE  PairingInv'
  <2>1. \A v \in Users : /\ session'[v].token = session[v].token
                         /\ session'[v].by = session[v].by
                         /\ session'[v].live => session[v].live
    BY <1>0, <1>3 DEF OfferExpires, Session
  <2> QED
    BY <1>3, <2>1 DEF OfferExpires
<1>4. ASSUME NEW d \in Devices, NEW t \in Tokens, Consume(d, t)
      PROVE  PairingInv'
  <2>1. PICK u \in Users :
             /\ session[u].token = t /\ session[u].by = NoDevice
             /\ user[d] = NoUser /\ user' = [user EXCEPT ![d] = u]
             /\ session' = [session EXCEPT ![u].by = d]
             /\ links' = [links EXCEPT ![t] = @ + 1] /\ issued' = issued
    BY <1>4 DEF Consume, OpenSession
  <2>2. \A v \in Users : /\ session'[v].token = session[v].token
                         /\ session'[v].live = session[v].live
                         /\ session'[v].by = IF v = u THEN d ELSE session[v].by
    BY <1>0, <2>1 DEF Session
  <2>3. SessionsBacked'
    BY <1>0, <2>1, <2>2
  <2>4. links[t] = 0
    BY <2>1
  <2>5. TokensFresh' /\ OfferLinksOnce'
    BY <1>0, <1>1, <2>1, <2>2, <2>4
  <2>6. TokensDistinct' /\ EmptyNotLive'
    BY <2>2
  <2>7. OpenUnlinked'
    BY <1>0, <1>1, <2>1, <2>2
  <2> QED
    BY <2>3, <2>5, <2>6, <2>7
<1>5. ASSUME NEW d \in Devices, DisconnectDevice(d)
      PROVE  PairingInv'
  <2>1. /\ user' = [user EXCEPT ![d] = NoUser] /\ links' = links /\ issued' = issued
        /\ \A v \in Users : session'[v] = IF v = user[d] /\ session[v].by = d
                                          THEN NoSession ELSE session[v]
    BY <1>5 DEF DisconnectDevice, ForgetConsumed
  <2>2. SessionsBacked'
    BY <1>0, <2>1 DEF NoSession
  <2>3. \A v \in Users : \/ session'[v] = session[v]
                         \/ /\ session'[v].token = 0 /\ ~session'[v].live
                            /\ session'[v].by = NoDevice
    BY <2>1 DEF NoSession
  <2>4. TokensFresh' /\ OfferLinksOnce'
    BY <1>0, <2>1, <2>3
  <2>5. TokensDistinct'
    BY <2>3
  <2>6. OpenUnlinked' /\ EmptyNotLive'
    BY <2>1, <2>3
  <2> QED
    BY <2>2, <2>4, <2>5, <2>6
<1>6. CASE UNCHANGED deviceVars
  BY <1>6 DEF deviceVars
<1> HIDE DEF PairingInv
<1> QED
  BY <1>2, <1>3, <1>4, <1>5, <1>6 DEF DeviceMove, PairingStep

\* The two invariants are inductive together with the types.
LEMMA PairingAlways == Spec => [](TypeOK /\ PairingInv)
<1>1. TypeOK /\ PairingInv /\ [Next]_vars => (TypeOK /\ PairingInv)'
  BY TypeStep, StepMoves, PairingKept
<1> QED
  BY TypeInit, PairingInit, <1>1, PTL DEF Spec

\* A pairing offer links a device at most once, over any number of accounts,
\* devices, replayed requests and disconnects.
THEOREM OffersLinkOnce == Spec => []OfferLinksOnce
BY PairingAlways, PTL DEF PairingInv

\* What the dashboard calls connected is connected.
THEOREM ConnectedIsLinked == Spec => []ConnectedIsTrue
<1>1. TypeOK /\ PairingInv => ConnectedIsTrue
  <2> SUFFICES ASSUME PairingInv, NEW u \in Users, StatusForUser(u) = "connected"
               PROVE  Linked(u)
    BY DEF ConnectedIsTrue
  <2>1. CASE session[u].by # NoDevice
    BY <2>1 DEF PairingInv, SessionsBacked, Linked
  <2>2. CASE session[u].by = NoDevice /\ session[u].live
    <3>1. StatusForUser(u) = "pending"
      BY <2>2 DEF StatusForUser
    <3> QED
      BY <3>1
  <2>3. CASE session[u].by = NoDevice /\ ~session[u].live
    <3>1. StatusForUser(u) = IF Linked(u) THEN "connected"
                             ELSE IF session[u].token # 0 THEN "expired" ELSE "none"
      BY <2>3 DEF StatusForUser
    <3> QED
      BY <3>1
  <2> QED
    BY <2>1, <2>2, <2>3
<1> QED
  BY PairingAlways, <1>1, PTL

-----------------------------------------------------------------------------
(* Push.  A delivery works on a row that stays until it settles, at a      *)
(* version no newer than the row's; once the push has been answered, a     *)
(* change that is owed again has raised the version.                       *)

DeliveryHasRow ==
    \A d \in Devices : delivery[d].pc # "idle" =>
        outbox[d].present /\ delivery[d].version <= outbox[d].version

OwedIsNewer ==
    \A d \in Devices : delivery[d].pc \in {"gone", "settled"} /\ owed[d] =>
        outbox[d].version # delivery[d].version

PushInv == NoChangeLost /\ DeliveryHasRow /\ OwedIsNewer

\* Nothing is owed at the start.
LEMMA PushInvInit == Init => PushInv
BY DEF Init, PushInit, PushInv, NoChangeLost, DeliveryHasRow, OwedIsNewer, NoDelivery

\* Every move of the push tables keeps it.
LEMMA PushKept == TypeOK /\ PushInv /\ PushMove => PushInv'
<1> SUFFICES ASSUME TypeOK, PushInv, PushMove PROVE PushInv'
  OBVIOUS
<1> USE DEF PushInv, NoChangeLost, DeliveryHasRow, OwedIsNewer
<1>0. /\ outbox \in [Devices -> Event] /\ delivery \in [Devices -> Delivery]
      /\ owed \in [Devices -> BOOLEAN]
  BY DEF TypeOK, PushTypeOK
<1>1. \A d \in Devices : outbox[d].version \in Nat /\ delivery[d].version \in Nat
  BY <1>0 DEF Event, Delivery
<1>2. CASE ClaimDue
  <2>1. \A d \in Devices :
           /\ outbox'[d].present = outbox[d].present
           /\ outbox'[d].version = outbox[d].version
           /\ delivery'[d].pc \in {"idle", "claimed"}
           /\ delivery'[d].pc = "claimed" =>
                  outbox[d].present /\ delivery'[d].version = outbox[d].version
    BY <1>0, <1>2 DEF ClaimDue, RowIsDue, NoDelivery, Event
  <2> QED
    BY <1>1, <1>2, <2>1 DEF ClaimDue
<1>3. ASSUME NEW d \in Devices,
             FindEndpoint(d) \/ FindEndpointFails(d) \/ PostAnswered(d) \/ PostFails(d)
                 \/ ForgetEndpoint(d)
      PROVE  PushInv'
  <2>1. outbox' = outbox /\ delivery[d].pc # "idle"
    BY <1>3 DEF FindEndpoint, FindEndpointFails, PostAnswered, PostFails, ForgetEndpoint
  <2>2. \A c \in Devices \ {d} : delivery'[c] = delivery[c] /\ owed'[c] = owed[c]
    BY <1>0, <1>3 DEF FindEndpoint, FindEndpointFails, PostAnswered, PostFails, ForgetEndpoint
  <2>3. delivery'[d].version = delivery[d].version /\ (owed'[d] => owed[d])
    BY <1>0, <1>3 DEF FindEndpoint, FindEndpointFails, PostAnswered, PostFails,
                      ForgetEndpoint, Delivery
  <2>4. delivery'[d].pc \in {"gone", "settled"} /\ owed'[d] =>
            delivery[d].pc \in {"gone", "settled"}
    <3>1. CASE FindEndpoint(d)
      <4>1. owed'[d] => endpoint[d] # NoEndpoint
        BY <1>0, <3>1 DEF FindEndpoint
      <4>2. endpoint[d] # NoEndpoint => delivery'[d].pc = "posting"
        BY <1>0, <3>1 DEF FindEndpoint, Delivery
      <4> QED
        BY <4>1, <4>2
    <3>2. CASE PostAnswered(d)
      <4>1. ~owed'[d]
        BY <1>0, <3>2 DEF PostAnswered
      <4> QED
        BY <4>1
    <3>3. CASE FindEndpointFails(d) \/ PostFails(d)
      BY <1>0, <3>3 DEF FindEndpointFails, PostFails, Delivery
    <3>4. CASE ForgetEndpoint(d)
      BY <3>4 DEF ForgetEndpoint
    <3> QED
      BY <1>3, <3>1, <3>2, <3>3, <3>4
  <2> QED
    BY <2>1, <2>2, <2>3, <2>4
<1>4. ASSUME NEW d \in Devices, CompleteEvent(d)
      PROVE  PushInv'
  <2>1. /\ owed' = owed /\ delivery'[d] = NoDelivery
        /\ \A c \in Devices \ {d} : delivery'[c] = delivery[c] /\ outbox'[c] = outbox[c]
    BY <1>0, <1>4 DEF CompleteEvent
  <2>2. ASSUME owed[d] PROVE outbox'[d] = outbox[d]
    <3>1. ~SameVersion(d)
      BY <1>4, <2>2 DEF CompleteEvent, SameVersion
    <3> QED
      BY <1>0, <1>4, <3>1 DEF CompleteEvent
  <2> QED
    BY <2>1, <2>2 DEF NoDelivery
<1>5. ASSUME NEW d \in Devices, ScheduleRetry(d)
      PROVE  PushInv'
  <2>1. /\ owed' = owed /\ delivery'[d] = NoDelivery
        /\ \A c \in Devices \ {d} : delivery'[c] = delivery[c] /\ outbox'[c] = outbox[c]
    BY <1>0, <1>5 DEF ScheduleRetry
  <2>2. outbox'[d].present = outbox[d].present
    BY <1>0, <1>5 DEF ScheduleRetry, Event
  <2> QED
    BY <2>1, <2>2 DEF NoDelivery
<1>6. ASSUME NEW d \in Devices, DeliveryFault(d)
      PROVE  PushInv'
  <2>1. /\ owed' = owed /\ outbox' = outbox
        /\ \A c \in Devices \ {d} : delivery'[c] = delivery[c]
    BY <1>0, <1>6 DEF DeliveryFault
  <2>2. /\ delivery[d].pc # "idle"
        /\ \/ delivery'[d] = NoDelivery
           \/ delivery'[d].pc = "retry" /\ delivery'[d].version = delivery[d].version
    BY <1>0, <1>6 DEF DeliveryFault, Delivery
  <2> QED
    BY <2>1, <2>2 DEF NoDelivery
<1>7. ASSUME NEW d \in Devices, RetryComesDue(d) \/ PushLeaseExpires(d)
      PROVE  PushInv'
  <2>1. \A c \in Devices : outbox'[c].present = outbox[c].present
                           /\ outbox'[c].version = outbox[c].version
    BY <1>0, <1>7 DEF RetryComesDue, PushLeaseExpires, Event
  <2> QED
    BY <1>7, <2>1 DEF RetryComesDue, PushLeaseExpires
<1>8. ASSUME NEW d \in Devices, Unregister(d) \/ \E e \in Endpoints : Register(d, e)
      PROVE  PushInv'
  BY <1>8 DEF Unregister, Register
<1>9. ASSUME NEW d \in Devices, EnqueueConversationChanged(d)
      PROVE  PushInv'
  <2>1. /\ delivery' = delivery
        /\ \A c \in Devices \ {d} : outbox'[c] = outbox[c] /\ owed'[c] = owed[c]
    BY <1>0, <1>9 DEF EnqueueConversationChanged, EnqueueEvent
  <2>2. outbox'[d] = IF outbox[d].present THEN NewerEvent(outbox[d]) ELSE FirstEvent
    BY <1>0, <1>9 DEF EnqueueConversationChanged, EnqueueEvent
  <2>3. /\ outbox'[d].present
        /\ outbox[d].present => outbox'[d].version = outbox[d].version + 1
    BY <1>0, <2>2 DEF NewerEvent, FirstEvent, Event
  <2> QED
    BY <1>1, <2>1, <2>3
<1>10. CASE Restart
  BY <1>10 DEF Restart, NoDelivery
<1>11. CASE UNCHANGED pushVars
  BY <1>11 DEF pushVars
<1> HIDE DEF PushInv
<1> QED
  BY <1>2, <1>3, <1>4, <1>5, <1>6, <1>7, <1>8, <1>9, <1>10, <1>11
  DEF PushMove, PushStep, Deliver

\* No queued change is ever lost: it is announced, or a row still carries it,
\* whatever is enqueued while a delivery is in flight and wherever it fails.
THEOREM ChangesAreKept == Spec => []NoChangeLost
<1>1. TypeOK /\ PushInv /\ [Next]_vars => (TypeOK /\ PushInv)'
  BY TypeStep, StepMoves, PushKept
<1>2. PushInv => NoChangeLost
  BY DEF PushInv
<1> QED
  BY TypeInit, PushInvInit, <1>1, <1>2, PTL DEF Spec

-----------------------------------------------------------------------------
(* Runs.  Every step but the creation of a run moves rows only forwards    *)
(* and leaves alone what a row was created from.                           *)

RowMoves(r) ==
    /\ run'[r].account = run[r].account
    /\ run'[r].text = run[r].text
    /\ run'[r].image \in {run[r].image, NoImage}
    /\ \/ run'[r].st = run[r].st
       \/ run[r].st = "queued" /\ run'[r].st = "running"
       \/ run[r].st = "running" /\ run'[r].st \in Ended

RowsMove == used' = used /\ sent' = sent /\ \A r \in Runs : RowMoves(r)

\* Ending a row keeps what it was created from, but for the image.
LEMMA EndedRowMoves ==
  \A x \in Run, st \in Ended :
      /\ EndedRow(x, st).account = x.account /\ EndedRow(x, st).text = x.text
      /\ EndedRow(x, st).image = NoImage /\ EndedRow(x, st).st = st
BY DEF EndedRow, Run

\* A step creates a run or moves rows forwards.
LEMMA RunMoves ==
  ASSUME TypeOK, RunMove
  PROVE  RowsMove \/ \E h \in Handlers : CreateRun(h)
<1> USE DEF RowsMove, RowMoves
<1>0. run \in [Runs -> Run] /\ \A t \in Tasks : task[t].pc # "idle" => task[t].id \in Runs
  BY DEF TypeOK, RunsTypeOK
<1>1. ASSUME UNCHANGED <<run, used, sent>>
      PROVE  RowsMove
  BY <1>1
<1>2. ASSUME NEW h \in Handlers, Handle(h) \/ RequestFault(h), ~CreateRun(h)
      PROVE  RowsMove
  BY <1>2 DEF Handle, RequestFault, RefuseStale, AnswerReplay, RefuseTrial, SpawnDispatch, Respond
<1>3. ASSUME NEW h \in Handlers, NEW r \in Runs, NEW text, NEW image,
             Authenticate(h, r, text, image)
      PROVE  RowsMove
  BY <1>3 DEF Authenticate
<1>4. ASSUME NEW t \in Tasks,
             Dispatch(t) \/ HistoryFault(t) \/ TaskFault(t) \/ AnnounceEnd(t)
      PROVE  RowsMove
  <2>1. used' = used /\ sent' = sent
    BY <1>4 DEF Dispatch, Claim, StartResponder, Activity, Finish, HistoryFault,
                TaskFault, AnnounceEnd
  <2>2. CASE Claim(t)
    BY <1>0, <2>1, <2>2 DEF Claim, At, Claimable, Run
  <2>3. CASE StartResponder(t) \/ TaskFault(t) \/ AnnounceEnd(t)
    BY <2>1, <2>3 DEF StartResponder, TaskFault, AnnounceEnd
  <2>4. CASE Activity(t)
    BY <1>0, <2>1, <2>4 DEF Activity, At, Run
  <2>5. ASSUME NEW st \in Ended, Finish(t, st)
        PROVE  RowsMove
    BY <1>0, <2>1, <2>5, EndedRowMoves DEF Finish, At, StillRunning
  <2>6. CASE HistoryFault(t)
    BY <1>0, <2>1, <2>6, EndedRowMoves DEF HistoryFault, At, StillRunning, Ended
  <2> QED
    BY <1>4, <2>2, <2>3, <2>4, <2>5, <2>6 DEF Dispatch
<1>5. CASE \/ FindQueuedRuns \/ PassEnds \/ FindFault
           \/ \E r \in Runs : Redispatch(r)
           \/ \E d \in Devices : AnnounceInterrupted(d) \/ AnnounceFault(d) \/ TrialExpires(d)
  BY <1>1, <1>5 DEF FindQueuedRuns, PassEnds, FindFault, Redispatch, AnnounceInterrupted,
                    AnnounceFault, TrialExpires
<1>6. CASE FailStaleRuns
  BY <1>0, <1>6 DEF FailStaleRuns, StaleRuns, InterruptedRow, EndedRow, Run, Ended
<1>7. ASSUME NEW r \in Runs, RunGoesStale(r)
      PROVE  RowsMove
  BY <1>0, <1>7 DEF RunGoesStale, Run
<1>8. CASE Restart
  BY <1>1, <1>8 DEF Restart
<1>9. CASE UNCHANGED runVars
  BY <1>1, <1>9 DEF runVars
<1> HIDE DEF RowsMove
<1>10. CASE RunStep
  BY <1>2, <1>3, <1>4, <1>5, <1>6, <1>7, <1>10 DEF RunStep, Supervise
<1> QED
  BY <1>2, <1>4, <1>5, <1>8, <1>9, <1>10 DEF RunMove

-----------------------------------------------------------------------------
(* The trial. *)

TrialRuns(d) == {m \in Msgs : run[<<d, m>>].st # "absent" /\ run[<<d, m>>].account = NoUser}

\* A device's anonymous runs are finitely many.
LEMMA TrialRunsFinite == \A d \in Devices : IsFiniteSet(TrialRuns(d))
BY MsgsAssumption, FS_Subset DEF TrialRuns

\* The meter is right at the start and stays right.
LEMMA TrialKept == TypeOK /\ TrialIsMetered /\ RunMove => TrialIsMetered'
<1> SUFFICES ASSUME TypeOK, TrialIsMetered, RunMove, NEW d \in Devices
             PROVE  used'[d] = Cardinality(TrialRuns(d)') /\ used'[d] <= TrialLimit
  BY DEF TrialIsMetered, TrialRuns
<1>0. used[d] = Cardinality(TrialRuns(d)) /\ used[d] <= TrialLimit
  BY DEF TrialIsMetered, TrialRuns
<1>1. CASE RowsMove
  <2>1. \A m \in Msgs : RowMoves(<<d, m>>)
    BY <1>1 DEF RowsMove, Runs
  <2>2. TrialRuns(d)' = TrialRuns(d)
    BY <2>1 DEF TrialRuns, RowMoves, Ended
  <2> QED
    BY <1>0, <1>1, <2>2 DEF RowsMove
<1>2. ASSUME NEW h \in Handlers, CreateRun(h)
      PROVE  used'[d] = Cardinality(TrialRuns(d)') /\ used'[d] <= TrialLimit
  <2> DEFINE r == req[h].id
             row == [st |-> "queued", account |-> req[h].account, text |-> req[h].text,
                     image |-> req[h].image, stale |-> FALSE]
  <2>1. r \in Runs /\ run \in [Runs -> Run] /\ used \in [Devices -> Nat]
    BY <1>2 DEF CreateRun, TypeOK, RunsTypeOK
  <2>2. PICK m \in Msgs : r = <<DeviceOf(r), m>>
    BY <2>1 DEF Runs, DeviceOf
  <2>3. \A k \in Msgs : run'[<<d, k>>] = IF d = DeviceOf(r) /\ k = m THEN row ELSE run[<<d, k>>]
    <3>1. run' = [run EXCEPT ![r] = row]
      BY <1>2 DEF CreateRun
    <3>2. ASSUME NEW k \in Msgs
          PROVE  run'[<<d, k>>] = IF <<d, k>> = r THEN row ELSE run[<<d, k>>]
      <4>1. <<d, k>> \in Runs
        BY DEF Runs
      <4> QED
        BY <2>1, <3>1, <4>1
    <3>3. ASSUME NEW k \in Msgs
          PROVE  <<d, k>> = r <=> d = DeviceOf(r) /\ k = m
      BY <2>2
    <3> QED
      BY <3>2, <3>3
  <2>4. run[r].st = "absent" /\ (req[h].account = NoUser => TrialOpen(DeviceOf(r)))
    BY <1>2 DEF CreateRun
  <2>5. used' = IF req[h].account = NoUser
                THEN [used EXCEPT ![DeviceOf(r)] = @ + 1] ELSE used
    BY <1>2 DEF CreateRun, ClaimQuota
  <2>6. CASE d = DeviceOf(r) /\ req[h].account = NoUser
    <3>1. m \notin TrialRuns(d)
      BY <2>2, <2>4, <2>6 DEF TrialRuns
    <3>2. TrialRuns(d)' = TrialRuns(d) \cup {m}
      BY <2>3, <2>6 DEF TrialRuns
    <3>3. Cardinality(TrialRuns(d)') = Cardinality(TrialRuns(d)) + 1
      BY <3>1, <3>2, TrialRunsFinite, FS_AddElement
    <3>4. used'[d] = used[d] + 1 /\ used[d] < TrialLimit
      BY <2>1, <2>4, <2>5, <2>6 DEF TrialOpen
    <3> QED
      BY <1>0, <2>1, <3>3, <3>4, TrialLimitAssumption
  <2>7. CASE ~(d = DeviceOf(r) /\ req[h].account = NoUser)
    <3>1. TrialRuns(d)' = TrialRuns(d)
      <4>1. CASE d = DeviceOf(r)
        <5>1. m \notin TrialRuns(d)
          BY <2>2, <2>4, <4>1 DEF TrialRuns
        <5> QED
          BY <2>3, <2>7, <4>1, <5>1 DEF TrialRuns
      <4>2. CASE d # DeviceOf(r)
        BY <2>3, <4>2 DEF TrialRuns
      <4> QED
        BY <4>1, <4>2
    <3>2. used'[d] = used[d]
      BY <2>1, <2>5, <2>7
    <3> QED
      BY <1>0, <3>1, <3>2
  <2> QED
    BY <2>6, <2>7
<1> QED
  BY <1>1, <1>2, RunMoves

\* The trial is metered exactly, for every limit and every interleaving of
\* requests, pairing and failures.
THEOREM TrialMetered == Spec => []TrialIsMetered
<1>1. Init => TrialIsMetered
  <2> SUFFICES ASSUME Init, NEW d \in Devices
               PROVE  used[d] = Cardinality(TrialRuns(d)) /\ used[d] <= TrialLimit
    BY DEF TrialIsMetered, TrialRuns
  <2>1. \A m \in Msgs : run[<<d, m>>] = NoRun
    BY DEF Init, RunsInit, Runs
  <2>2. TrialRuns(d) = {}
    BY <2>1 DEF TrialRuns, NoRun
  <2> QED
    BY <2>2, FS_EmptySet, TrialLimitAssumption DEF Init, RunsInit
<1>2. TypeOK /\ TrialIsMetered /\ [Next]_vars => (TypeOK /\ TrialIsMetered)'
  BY TypeStep, StepMoves, TrialKept
<1> QED
  BY TypeInit, <1>1, <1>2, PTL DEF Spec

-----------------------------------------------------------------------------
(* The promise.  The responder is asked once because a run is claimed out  *)
(* of "queued", to which it never returns, by one task, and that task asks *)
(* once: until it does, the run has not been asked.                        *)

UnclaimedUnasked ==
    \A r \in Runs : run[r].st \in {"absent", "queued"} => acted[r].times = 0

ClaimedUnasked ==
    \A t \in Tasks : task[t].pc = "history" =>
        /\ run[task[t].id].st \notin {"absent", "queued"}
        /\ acted[task[t].id].times = 0

ClaimedByOne ==
    \A s, t \in Tasks :
        task[s].pc = "history" /\ task[t].pc = "history" /\ task[s].id = task[t].id => s = t

UnaskedForNobody == \A r \in Runs : acted[r].times = 0 => acted[r].as = {}

\* What a row was created from is what was sent, for the account then linked.
ContentKept ==
    \A r \in Runs : run[r].st # "absent" =>
        /\ run[r].account = sent[r].account
        /\ run[r].text = sent[r].text
        /\ run[r].image \in {sent[r].image, NoImage}

PromiseInv ==
    UnclaimedUnasked /\ ClaimedUnasked /\ ClaimedByOne /\ UnaskedForNobody /\ ContentKept

\* No run exists at the start.
LEMMA PromiseInvInit == Init => PromiseInv
<1> SUFFICES ASSUME Init PROVE PromiseInv
  OBVIOUS
<1>1. /\ \A r \in Runs : run[r].st = "absent" /\ acted[r].times = 0 /\ acted[r].as = {}
      /\ \A t \in Tasks : task[t].pc = "idle"
  BY DEF Init, RunsInit, NoRun, NoTask
<1> QED
  BY <1>1 DEF PromiseInv, UnclaimedUnasked, ClaimedUnasked, ClaimedByOne,
              UnaskedForNobody, ContentKept

\* Apart from the step that asks the responder, nothing touches the record of
\* being asked, and a task reaches that step only by claiming its run.
LEMMA TaskMoves ==
  ASSUME TypeOK, RunMove
  PROVE  \/ \E t \in Tasks : StartResponder(t)
         \/ \E t \in Tasks : Claim(t)
         \/ /\ acted' = acted
            /\ \A t \in Tasks : task'[t].pc = "history" => task'[t] = task[t]
<1> DEFINE Calm == /\ acted' = acted
                   /\ \A t \in Tasks : task'[t].pc = "history" => task'[t] = task[t]
<1>0. task \in [Tasks -> Task]
  BY DEF TypeOK, RunsTypeOK
<1>1. ASSUME UNCHANGED <<task, acted>>
      PROVE  Calm
  BY <1>1
<1>2. ASSUME NEW r, Spawn(r), UNCHANGED acted
      PROVE  Calm
  BY <1>0, <1>2 DEF Spawn
<1>3. ASSUME NEW h \in Handlers, Handle(h) \/ RequestFault(h)
      PROVE  Calm
  BY <1>1, <1>2, <1>3 DEF Handle, RequestFault, RefuseStale, AnswerReplay, RefuseTrial,
                          CreateRun, SpawnDispatch, Respond
<1>4. ASSUME NEW h \in Handlers, NEW r \in Runs, NEW text, NEW image,
             Authenticate(h, r, text, image)
      PROVE  Calm
  BY <1>1, <1>4 DEF Authenticate
<1>5. ASSUME NEW t \in Tasks, Ends(t) \/ Goes(t, "push") \/ UNCHANGED task, UNCHANGED acted
      PROVE  Calm
  BY <1>0, <1>5 DEF Ends, Goes, NoTask, Task
<1>6. ASSUME NEW t \in Tasks,
             \/ Activity(t) \/ (\E st \in Ended : Finish(t, st))
             \/ HistoryFault(t) \/ TaskFault(t) \/ AnnounceEnd(t)
      PROVE  Calm
  BY <1>5, <1>6 DEF Activity, Finish, HistoryFault, TaskFault, AnnounceEnd
<1>7. CASE \/ FailStaleRuns \/ FindQueuedRuns \/ PassEnds \/ FindFault
           \/ (\E d \in Devices : AnnounceInterrupted(d) \/ AnnounceFault(d) \/ TrialExpires(d))
           \/ \E r \in Runs : RunGoesStale(r)
  BY <1>1, <1>7 DEF FailStaleRuns, FindQueuedRuns, PassEnds, FindFault, AnnounceInterrupted,
                    AnnounceFault, TrialExpires, RunGoesStale
<1>8. ASSUME NEW r \in Runs, Redispatch(r)
      PROVE  Calm
  BY <1>2, <1>8 DEF Redispatch
<1>9. CASE Restart
  BY <1>9 DEF Restart, NoTask
<1>10. CASE UNCHANGED runVars
  BY <1>1, <1>10 DEF runVars
<1> HIDE DEF Calm
<1>11. CASE RunStep
  BY <1>3, <1>4, <1>6, <1>7, <1>8, <1>11 DEF RunStep, Dispatch, Supervise, Calm
<1> QED
  BY <1>3, <1>6, <1>7, <1>9, <1>10, <1>11 DEF RunMove, Calm

\* What was sent stays what was sent.
LEMMA ContentKeptStep == TypeOK /\ ContentKept /\ RunMove => ContentKept'
<1> SUFFICES ASSUME TypeOK, ContentKept, RunMove PROVE ContentKept'
  OBVIOUS
<1>1. CASE RowsMove
  BY <1>1 DEF RowsMove, RowMoves, ContentKept, Ended
<1>2. ASSUME NEW h \in Handlers, CreateRun(h)
      PROVE  ContentKept'
  <2> DEFINE r == req[h].id
  <2>1. r \in Runs /\ run \in [Runs -> Run] /\ sent \in [Runs -> Content]
    BY <1>2 DEF CreateRun, TypeOK, RunsTypeOK
  <2>2. /\ run'[r] = [st |-> "queued", account |-> req[h].account, text |-> req[h].text,
                      image |-> req[h].image, stale |-> FALSE]
        /\ sent'[r] = [text |-> req[h].text, image |-> req[h].image,
                       account |-> user[DeviceOf(r)]]
        /\ \A q \in Runs \ {r} : run'[q] = run[q] /\ sent'[q] = sent[q]
    BY <1>2, <2>1 DEF CreateRun
  <2>3. req[h].account = user[DeviceOf(r)]
    BY <1>2 DEF CreateRun, StillLinked
  <2> QED
    BY <2>2, <2>3 DEF ContentKept
<1> QED
  BY <1>1, <1>2, RunMoves

\* Every move of the run tables keeps the invariant of the promise.
LEMMA PromiseKept == TypeOK /\ PromiseInv /\ RunMove => PromiseInv'
<1> SUFFICES ASSUME TypeOK, PromiseInv, RunMove PROVE PromiseInv'
  OBVIOUS
<1> USE DEF PromiseInv
<1>0. /\ task \in [Tasks -> Task] /\ run \in [Runs -> Run]
      /\ acted \in [Runs -> [times : Nat, as : SUBSET Principals]]
      /\ \A t \in Tasks : task[t].pc # "idle" => task[t].id \in Runs
  BY DEF TypeOK, RunsTypeOK
<1>1. ContentKept'
  BY ContentKeptStep
<1>2. ASSUME NEW t \in Tasks, StartResponder(t)
      PROVE  PromiseInv'
  <2> DEFINE r == task[t].id
  <2>1. /\ run' = run /\ r \in Runs /\ task[t].pc = "history"
        /\ \A s \in Tasks \ {t} : task'[s] = task[s]
        /\ task'[t].pc = "respond"
    BY <1>0, <1>2 DEF StartResponder, At, Goes, Task
  <2>2. \A q \in Runs \ {r} : acted'[q] = acted[q]
    BY <1>0, <1>2 DEF StartResponder
  <2>3. acted'[r].times = 1
    BY <1>0, <1>2, <2>1 DEF StartResponder, ClaimedUnasked
  <2>4. UnclaimedUnasked'
    BY <2>1, <2>2 DEF UnclaimedUnasked, ClaimedUnasked
  <2>5. ClaimedUnasked' /\ ClaimedByOne'
    BY <1>0, <2>1, <2>2 DEF ClaimedUnasked, ClaimedByOne
  <2>6. UnaskedForNobody'
    BY <2>2, <2>3 DEF UnaskedForNobody
  <2> QED
    BY <1>1, <2>4, <2>5, <2>6
<1>3. ASSUME NEW t \in Tasks, Claim(t)
      PROVE  PromiseInv'
  <2> DEFINE r == task[t].id
  <2>1. acted' = acted /\ r \in Runs /\ \A s \in Tasks \ {t} : task'[s] = task[s]
    BY <1>0, <1>3 DEF Claim, At, Goes, Ends
  <2>2. CASE run[r].st = "queued"
    <3>1. /\ task'[t].pc = "history" /\ task'[t].id = r
          /\ run'[r].st = "running" /\ \A q \in Runs \ {r} : run'[q] = run[q]
      BY <1>0, <1>3, <2>1, <2>2 DEF Claim, Claimable, Goes, Task, Run
    <3>2. \A s \in Tasks : task[s].pc = "history" => task[s].id # r
      BY <2>2 DEF ClaimedUnasked
    <3>3. acted[r].times = 0
      BY <2>1, <2>2 DEF UnclaimedUnasked
    <3>4. UnclaimedUnasked' /\ UnaskedForNobody'
      BY <2>1, <3>1 DEF UnclaimedUnasked, UnaskedForNobody
    <3>5. ClaimedUnasked' /\ ClaimedByOne'
      BY <1>0, <2>1, <3>1, <3>2, <3>3 DEF ClaimedUnasked, ClaimedByOne
    <3> QED
      BY <1>1, <3>4, <3>5
  <2>3. CASE run[r].st # "queued"
    <3>1. run' = run /\ task'[t].pc = "idle"
      BY <1>0, <1>3, <2>3 DEF Claim, Claimable, Ends, NoTask
    <3> QED
      BY <1>1, <2>1, <3>1 DEF UnclaimedUnasked, UnaskedForNobody, ClaimedUnasked, ClaimedByOne
  <2> QED
    BY <2>2, <2>3
<1>4. CASE /\ acted' = acted
           /\ \A t \in Tasks : task'[t].pc = "history" => task'[t] = task[t]
  <2>1. \A r \in Runs : run'[r].st \in {"absent", "queued"} =>
            run[r].st \in {"absent", "queued"}
    <3>1. CASE RowsMove
      BY <3>1 DEF RowsMove, RowMoves, Ended
    <3>2. ASSUME NEW h \in Handlers, CreateRun(h)
          PROVE  \A r \in Runs : run'[r].st \in {"absent", "queued"} =>
                     run[r].st \in {"absent", "queued"}
      BY <1>0, <3>2 DEF CreateRun
    <3> QED
      BY <3>1, <3>2, RunMoves
  <2>2. UnclaimedUnasked' /\ UnaskedForNobody'
    BY <1>4, <2>1 DEF UnclaimedUnasked, UnaskedForNobody
  <2>3. ClaimedByOne'
    BY <1>4 DEF ClaimedByOne
  <2>4. ClaimedUnasked'
    BY <1>0, <1>4, <2>1 DEF ClaimedUnasked
  <2> QED
    BY <1>1, <2>2, <2>3, <2>4
<1> QED
  BY <1>2, <1>3, <1>4, TaskMoves

\* The phase a status stands for is one of the promise's.
LEMMA Phases ==
  \A st \in Status :
      /\ st = "absent" <=> PhaseAt(st) = "none"
      /\ st \in {"queued", "running"} <=> PhaseAt(st) = "open"
      /\ st \in Ended => PhaseAt(st) = st
      /\ PhaseAt(st) \in {"none", "open", "completed", "failed"}
BY DEF PhaseAt, Status, Ended

\* The state of the promise that a state of the program stands for.
Phase == [r \in Runs |-> PhaseOf(r)]
Owner == [r \in Runs |-> OwnerOf(r)]

\* Phases, for the current state and the next.
LEMMA PhaseFacts ==
  ASSUME TypeOK, TypeOK'
  PROVE  /\ Phase' \in [Runs -> {"none", "open", "completed", "failed"}]
         /\ \A r \in Runs :
             /\ run[r].st \in Status /\ Phase[r] = PhaseAt(run[r].st)
             /\ run'[r].st \in Status /\ Phase'[r] = PhaseAt(run'[r].st)
<1>1. \A r \in Runs : run[r].st \in Status /\ run'[r].st \in Status
  BY DEF TypeOK, RunsTypeOK, Run
<1>2. Phase = [r \in Runs |-> PhaseAt(run[r].st)]
  BY DEF Phase, PhaseOf
<1>3. Phase' = [r \in Runs |-> PhaseAt(run'[r].st)]
  BY DEF Phase, PhaseOf
<1> QED
  BY <1>1, <1>2, <1>3, Phases

\* The program starts where the promise does.
LEMMA PromiseInitMaps == Init => Promised!PromiseInit
<1> SUFFICES ASSUME Init PROVE Promised!PromiseInit
  OBVIOUS
<1>1. \A r \in Runs : PhaseOf(r) = "none" /\ OwnerOf(r) = NoUser
  BY Phases DEF Init, RunsInit, NoRun, NoContent, Status, PhaseOf, OwnerOf
<1> QED
  BY <1>1 DEF Promised!PromiseInit, Init, RunsInit

\* Creating a run is accepting its message for the account its device has.
LEMMA CreateAccepts ==
  ASSUME TypeOK, TypeOK', NEW h \in Handlers, CreateRun(h)
  PROVE  Promised!Accept(req[h].id, user[DeviceOf(req[h].id)])
<1> DEFINE r == req[h].id
<1>1. r \in Runs /\ run \in [Runs -> Run] /\ sent \in [Runs -> Content]
  BY DEF CreateRun, TypeOK, RunsTypeOK
<1>2. /\ run[r].st = "absent" /\ run'[r].st = "queued"
      /\ \A q \in Runs \ {r} : run'[q] = run[q]
      /\ sent'[r].account = user[DeviceOf(r)]
      /\ \A q \in Runs \ {r} : sent'[q] = sent[q]
      /\ acted' = acted
  BY <1>1 DEF CreateRun
<1>3. Phase[r] = "none" /\ Phase' = [Phase EXCEPT ![r] = "open"]
  <2>1. Phase'[r] = "open" /\ \A q \in Runs \ {r} : Phase'[q] = Phase[q]
    BY <1>1, <1>2, PhaseFacts, Phases
  <2>2. Phase[r] = "none"
    BY <1>1, <1>2, PhaseFacts, Phases
  <2>3. Phase' = [q \in Runs |-> IF q = r THEN "open" ELSE Phase[q]]
    BY <2>1 DEF Phase
  <2> QED
    BY <1>1, <2>2, <2>3 DEF Phase
<1>4. Owner' = [Owner EXCEPT ![r] = user[DeviceOf(r)]]
  BY <1>1, <1>2 DEF Owner, OwnerOf
<1> QED
  BY <1>2, <1>3, <1>4 DEF Promised!Accept, Phase, Owner

\* Asking the responder is asking it for the first time, for the owner.
LEMMA StartAsks ==
  ASSUME TypeOK, TypeOK', PromiseInv, NEW t \in Tasks, StartResponder(t)
  PROVE  Promised!Ask(task[t].id)
<1> DEFINE r == task[t].id
<1>1. /\ r \in Runs /\ task[t].pc = "history" /\ run' = run /\ sent' = sent
      /\ acted \in [Runs -> [times : Nat, as : SUBSET Principals]]
  BY DEF StartResponder, At, TypeOK, RunsTypeOK
<1>2. acted[r].times = 0 /\ acted[r].as = {} /\ run[r].st # "absent"
  BY <1>1 DEF PromiseInv, ClaimedUnasked, UnaskedForNobody
<1>3. PrincipalOf(r) = sent[r].account
  BY <1>1, <1>2 DEF PromiseInv, ContentKept, PrincipalOf
<1>4. [times |-> acted[r].times + 1, as |-> acted[r].as \cup {PrincipalOf(r)}]
          = [times |-> 1, as |-> {Owner[r]}]
  <2>1. Owner[r] = sent[r].account
    BY <1>1 DEF Owner, OwnerOf
  <2>2. acted[r].times + 1 = 1
    BY <1>2
  <2>3. acted[r].as \cup {PrincipalOf(r)} = {Owner[r]}
    BY <1>2, <1>3, <2>1
  <2> QED
    BY <2>2, <2>3
<1>5. acted' = [acted EXCEPT ![r] = [times |-> 1, as |-> {Owner[r]}]]
  BY <1>4 DEF StartResponder
<1>6. Phase[r] # "none"
  BY <1>1, <1>2, PhaseFacts, Phases
<1>7. Phase' = Phase /\ Owner' = Owner
  BY <1>1 DEF Phase, PhaseOf, Owner, OwnerOf
<1> QED
  BY <1>2, <1>5, <1>6, <1>7 DEF Promised!Ask, Phase, Owner

\* Moving rows forwards ends messages, or changes nothing the promise sees.
LEMMA RowsMoveEnd ==
  ASSUME TypeOK, TypeOK', RowsMove, acted' = acted
  PROVE  Promised!End
<1>1. ASSUME NEW r \in Runs, Phase[r] # Phase'[r]
      PROVE  Phase[r] = "open" /\ Phase'[r] \in {"completed", "failed"}
  BY <1>1, PhaseFacts, Phases DEF RowsMove, RowMoves, Ended
<1>2. Owner' = Owner
  BY DEF RowsMove, Owner, OwnerOf
<1> QED
  BY <1>1, <1>2, PhaseFacts DEF Promised!End, Phase, Owner

\* The runs implement the promise, for every number of requests, tasks,
\* restarts and failures.
THEOREM PromiseImplemented == Spec => KeepsPromise
<1>1. TypeOK /\ PromiseInv /\ [Next]_vars => (TypeOK /\ PromiseInv)'
  BY TypeStep, StepMoves, PromiseKept
<1>2. TypeOK /\ TypeOK' /\ PromiseInv /\ [Next]_vars
          => [Promised!PromiseNext]_(Promised!promiseVars)
  <2> SUFFICES ASSUME TypeOK, TypeOK', PromiseInv, [Next]_vars
               PROVE  Promised!PromiseNext
    OBVIOUS
  <2>1. ASSUME NEW h \in Handlers, CreateRun(h)
        PROVE  Promised!PromiseNext
    <3>1. req[h].id \in Runs /\ user[DeviceOf(req[h].id)] \in Principals
      BY <2>1, DeviceOfTyped DEF CreateRun, TypeOK, RunsTypeOK, DevicesTypeOK
    <3> QED
      BY <2>1, <3>1, CreateAccepts DEF Promised!PromiseNext
  <2>2. ASSUME NEW t \in Tasks, StartResponder(t)
        PROVE  Promised!PromiseNext
    <3>1. task[t].id \in Runs
      BY <2>2 DEF StartResponder, At, TypeOK, RunsTypeOK
    <3> QED
      BY <2>2, <3>1, StartAsks DEF Promised!PromiseNext
  <2>3. CASE RowsMove /\ acted' = acted
    BY <2>3, RowsMoveEnd, PhaseFacts DEF Promised!PromiseNext
  <2>4. \A t \in Tasks : Claim(t) => acted' = acted
    BY DEF Claim
  <2> QED
    BY <2>1, <2>2, <2>3, <2>4, StepMoves, RunMoves, TaskMoves
<1> QED
  BY TypeInit, PromiseInvInit, PromiseInitMaps, <1>1, <1>2, PTL
  DEF Spec, KeepsPromise, Promised!Promise

-----------------------------------------------------------------------------
(* Replays.  A request is answered from a row, and the row keeps what it   *)
(* was created from; only its image is dropped when the run ends.          *)

\* A request that was told about a run was told about one that exists.
AnsweredFromRow ==
    \A h \in Handlers : req[h].pc \in {"conflict", "existing"} => run[req[h].id].st # "absent"

ReplayInv == ContentKept /\ AnsweredFromRow /\ TextReplayIsFree

\* Who is answered from a row, and that nobody else's answer changes.
LEMMA RequestMoves ==
  ASSUME TypeOK, RunMove
  PROVE  \A h \in Handlers :
            \/ req'[h] = req[h]
            \/ AnswerReplay(h)
            \/ req'[h].pc \notin {"conflict", "existing"}
<1> DEFINE Calm == \A h \in Handlers : \/ req'[h] = req[h] \/ AnswerReplay(h)
                                       \/ req'[h].pc \notin {"conflict", "existing"}
<1>0. req \in [Handlers -> Request]
  BY DEF TypeOK, RunsTypeOK
<1>1. ASSUME UNCHANGED req PROVE Calm
  BY <1>1
<1>2. ASSUME NEW h \in Handlers, NEW reply \in {"unavailable", "created"}, Answers(h, reply)
      PROVE  Calm
  BY <1>0, <1>2 DEF Answers, Request
<1>3. ASSUME NEW h \in Handlers, req' = [req EXCEPT ![h] = NoRequest]
      PROVE  Calm
  BY <1>0, <1>3 DEF NoRequest
<1>4. ASSUME NEW h \in Handlers, AnswerReplay(h) PROVE Calm
  BY <1>0, <1>4 DEF AnswerReplay, Answers
<1>5. ASSUME NEW h \in Handlers, NEW r \in Runs, NEW text, NEW image,
             Authenticate(h, r, text, image)
      PROVE  Calm
  BY <1>0, <1>5 DEF Authenticate
<1>6. ASSUME Restart PROVE Calm
  BY <1>6 DEF Restart, NoRequest
<1> HIDE DEF Calm
<1>7. ASSUME NEW h \in Handlers, Handle(h) \/ RequestFault(h) PROVE Calm
  BY <1>2, <1>3, <1>4, <1>7 DEF Handle, RequestFault, RefuseStale, RefuseTrial, CreateRun,
                               SpawnDispatch, Respond
<1>8. ASSUME \/ (\E t \in Tasks : Dispatch(t) \/ HistoryFault(t) \/ TaskFault(t) \/ AnnounceEnd(t))
             \/ Supervise \/ FindFault
             \/ (\E d \in Devices : AnnounceInterrupted(d) \/ AnnounceFault(d) \/ TrialExpires(d))
             \/ (\E r \in Runs : RunGoesStale(r)) \/ UNCHANGED runVars
      PROVE  Calm
  BY <1>1, <1>8 DEF Dispatch, Claim, StartResponder, Activity, Finish, HistoryFault, TaskFault,
     AnnounceEnd, Supervise, FailStaleRuns, FindQueuedRuns, PassEnds, Redispatch, FindFault,
     AnnounceInterrupted, AnnounceFault, TrialExpires, RunGoesStale, runVars
<1>9. ASSUME RunStep PROVE Calm
  BY <1>5, <1>7, <1>8, <1>9 DEF RunStep
<1>10. Calm
  BY <1>6, <1>7, <1>8, <1>9 DEF RunMove
<1> QED
  BY <1>10 DEF Calm

\* An answer from a row is right when it is given and stays so: the row it
\* was read from is never created again.
LEMMA ReplayKept == TypeOK /\ TypeOK' /\ ReplayInv /\ RunMove => ReplayInv'
<1> SUFFICES ASSUME TypeOK, TypeOK', ReplayInv, RunMove PROVE ReplayInv'
  OBVIOUS
<1>0. /\ run \in [Runs -> Run] /\ sent \in [Runs -> Content] /\ req \in [Handlers -> Request]
      /\ \A h \in Handlers : req[h].pc # "idle" => req[h].id \in Runs
  BY DEF TypeOK, RunsTypeOK
<1>1. ASSUME NEW r \in Runs, run[r].st # "absent"
      PROVE  run'[r].st # "absent" /\ sent'[r] = sent[r]
  <2>1. CASE RowsMove
    BY <1>1, <2>1 DEF RowsMove, RowMoves, Ended
  <2>2. ASSUME NEW h \in Handlers, CreateRun(h)
        PROVE  run'[r].st # "absent" /\ sent'[r] = sent[r]
    BY <1>0, <1>1, <2>2 DEF CreateRun
  <2> QED
    BY <2>1, <2>2, RunMoves
<1>2. ContentKept'
  BY ContentKeptStep DEF ReplayInv
<1>3. ASSUME NEW h \in Handlers, req'[h].pc \in {"conflict", "existing"}
      PROVE  /\ run'[req'[h].id].st # "absent"
             /\ LET original == sent'[req'[h].id]
                    same == req'[h].text = original.text /\ req'[h].account = original.account
                IN  /\ req'[h].pc = "conflict" /\ original.image = NoImage =>
                           ~same \/ req'[h].image # NoImage
                    /\ req'[h].pc = "existing" => same
  <2>1. CASE req'[h] = req[h]
    <3>1. req[h].id \in Runs /\ run[req[h].id].st # "absent"
      BY <1>0, <1>3, <2>1 DEF ReplayInv, AnsweredFromRow
    <3> QED
      BY <1>1, <1>3, <2>1, <3>1 DEF ReplayInv, TextReplayIsFree
  <2>2. CASE AnswerReplay(h)
    <3>1. /\ req[h].id \in Runs /\ run[req[h].id].st # "absent" /\ UNCHANGED <<run, sent>>
          /\ req' = [req EXCEPT ![h].pc = IF SameContent(h) THEN "existing" ELSE "conflict"]
      BY <1>0, <2>2 DEF AnswerReplay, Answers
    <3>2. /\ req'[h].id = req[h].id /\ req'[h].text = req[h].text /\ req'[h].image = req[h].image
          /\ req'[h].account = req[h].account
          /\ req'[h].pc = IF SameContent(h) THEN "existing" ELSE "conflict"
      BY <1>0, <3>1 DEF Request
    <3>3. /\ run[req[h].id].account = sent[req[h].id].account
          /\ run[req[h].id].text = sent[req[h].id].text
          /\ run[req[h].id].image \in {sent[req[h].id].image, NoImage}
      BY <3>1 DEF ReplayInv, ContentKept
    <3> QED
      BY <3>1, <3>2, <3>3 DEF SameContent
  <2> QED
    BY <1>3, <2>1, <2>2, RequestMoves
<1>4. AnsweredFromRow'
  BY <1>3 DEF AnsweredFromRow
<1>5. TextReplayIsFree'
  BY <1>3 DEF TextReplayIsFree
<1> QED
  BY <1>2, <1>4, <1>5 DEF ReplayInv

\* A text sent again is never refused as a conflict, and a replay is only
\* accepted for the text and the principal the run was created for.
THEOREM TextReplaysAreFree == Spec => []TextReplayIsFree
<1>1. Init => ReplayInv
  <2> SUFFICES ASSUME Init PROVE AnsweredFromRow /\ TextReplayIsFree
    BY PromiseInvInit DEF PromiseInv, ReplayInv
  <2>1. \A h \in Handlers : req[h].pc = "idle"
    BY DEF Init, RunsInit, NoRequest
  <2> QED
    BY <2>1 DEF AnsweredFromRow, TextReplayIsFree
<1>2. TypeOK /\ ReplayInv /\ [Next]_vars => (TypeOK /\ ReplayInv)'
  BY TypeStep, StepMoves, ReplayKept
<1>3. ReplayInv => TextReplayIsFree
  BY DEF ReplayInv
<1> QED
  BY TypeInit, <1>1, <1>2, <1>3, PTL DEF Spec

-----------------------------------------------------------------------------
(* The end of a run.  Whoever ends a run keeps it in mind until the push   *)
(* for its device is queued: the task its id, the supervisor the device.   *)

\* The supervisor starts a pass with nobody left over from the last, so that
\* the devices it collects replace none it still had to tell.
PassStartsClean == sup.pc = "sleep" => sup.interrupted = {}

EndInv == EndIsAnnounced /\ PassStartsClean

\* A step that ends no run and forgets no announcement.
LEMMA EndsKept ==
  ASSUME EndIsAnnounced, faults = 0,
         \A r \in Runs : run'[r].st \in Ended => run[r].st \in Ended,
         announced \subseteq announced', sup.interrupted \subseteq sup'.interrupted,
         \A t \in Tasks : task[t].pc = "push" => task'[t] = task[t]
  PROVE  EndIsAnnounced'
BY DEF EndIsAnnounced

\* The rest of a pass drops no device it has to tell.
LEMMA PassGoesOn ==
  ASSUME sup \in Supervisor, FindQueuedRuns \/ PassEnds \/ \E r \in Runs : Redispatch(r)
  PROVE  /\ run' = run /\ announced' = announced /\ sup'.interrupted = sup.interrupted
         /\ sup'.pc = "sleep" => sup.interrupted = {}
<1>1. ASSUME NEW queued, sup' = [sup EXCEPT !.pc = "recover", !.queued = queued]
      PROVE  sup'.interrupted = sup.interrupted /\ sup'.pc = "recover"
  BY <1>1 DEF Supervisor
<1>2. ASSUME NEW r \in Runs, Redispatch(r)
      PROVE  sup'.interrupted = sup.interrupted /\ sup'.pc = "recover"
  BY <1>2 DEF Redispatch, Supervisor
<1>3. CASE PassEnds
  BY <1>3 DEF PassEnds, Asleep
<1>4. CASE FindQueuedRuns
  BY <1>1, <1>4 DEF FindQueuedRuns
<1> QED
  BY <1>2, <1>3, <1>4 DEF Redispatch

\* Requests, tasks, the supervisor and the clock announce what they end.
LEMMA RunStepAnnounces ==
  ASSUME TypeOK, EndInv, RunStep, faults = 0
  PROVE  EndInv'
<1>0. /\ task \in [Tasks -> Task] /\ run \in [Runs -> Run] /\ sup \in Supervisor
      /\ \A t \in Tasks : task[t].pc # "idle" => task[t].id \in Runs
  BY DEF TypeOK, RunsTypeOK
<1>e. EndIsAnnounced /\ PassStartsClean
  BY DEF EndInv
<1>s. ASSUME NEW r, Spawn(r) PROVE \A t \in Tasks : task[t].pc = "push" => task'[t] = task[t]
  BY <1>0, <1>s DEF Spawn
<1>1. ASSUME NEW h \in Handlers,
             \/ Handle(h)
             \/ \E r \in Runs, text \in Texts, image \in Images \cup {NoImage} :
                    Authenticate(h, r, text, image)
      PROVE  EndInv'
  <2>1. sup' = sup /\ announced' = announced
    BY <1>1 DEF Handle, RefuseStale, AnswerReplay, RefuseTrial, CreateRun, SpawnDispatch, Respond,
                Authenticate
  <2>2. \A t \in Tasks : task[t].pc = "push" => task'[t] = task[t]
    BY <1>1, <1>s DEF Handle, RefuseStale, AnswerReplay, RefuseTrial, CreateRun, SpawnDispatch,
                      Respond, Authenticate
  <2>3. \A r \in Runs : run'[r].st \in Ended => run[r].st \in Ended
    <3>1. CASE CreateRun(h)
      BY <1>0, <3>1 DEF CreateRun, Ended
    <3> QED
      BY <1>1, <3>1 DEF Handle, RefuseStale, AnswerReplay, RefuseTrial, SpawnDispatch, Respond,
                        Authenticate
  <2> QED
    BY <1>e, <2>1, <2>2, <2>3, EndsKept DEF EndInv, PassStartsClean
<1>2. ASSUME NEW t \in Tasks, Dispatch(t) PROVE EndInv'
  <2>1. /\ sup' = sup /\ announced' = announced /\ task[t].id \in Runs /\ task[t].pc # "push"
        /\ faults = 0
    BY <1>0, <1>2 DEF Dispatch, Claim, StartResponder, Activity, Finish, At
  <2>2. \A s \in Tasks : task[s].pc = "push" => task'[s] = task[s]
    BY <1>0, <1>2, <2>1 DEF Dispatch, Claim, StartResponder, Activity, Finish, Goes, Ends
  <2>3. PassStartsClean'
    BY <1>e, <2>1 DEF PassStartsClean
  <2>4. CASE Claim(t) \/ StartResponder(t) \/ Activity(t)
    <3>1. \A r \in Runs : run'[r].st \in Ended => run[r].st \in Ended
      BY <1>0, <2>1, <2>4 DEF Claim, StartResponder, Activity, Ended, Run
    <3> QED
      BY <1>e, <2>1, <2>2, <2>3, <3>1, EndsKept DEF EndInv
  <2>5. ASSUME NEW st \in Ended, Finish(t, st) PROVE EndInv'
    <3>1. CASE StillRunning(task[t].id)
      <4>1. /\ \A r \in Runs \ {task[t].id} : run'[r] = run[r]
            /\ task'[t].pc = "push" /\ task'[t].id = task[t].id
        BY <1>0, <2>1, <2>5, <3>1 DEF Finish, Goes, Task
      <4>2. EndIsAnnounced'
        BY <1>e, <2>1, <2>2, <4>1 DEF EndIsAnnounced
      <4> QED
        BY <2>3, <4>2 DEF EndInv
    <3>2. CASE ~StillRunning(task[t].id)
      <4>1. run' = run
        BY <2>5, <3>2 DEF Finish
      <4> QED
        BY <1>e, <2>1, <2>2, <2>3, <4>1, EndsKept DEF EndInv
    <3> QED
      BY <3>1, <3>2
  <2> QED
    BY <1>2, <2>4, <2>5 DEF Dispatch
<1>3. CASE (\E r \in Runs : RunGoesStale(r)) \/ (\E d \in Devices : TrialExpires(d))
  <2>1. /\ sup' = sup /\ announced' = announced /\ task' = task
        /\ \A r \in Runs : run'[r].st \in Ended => run[r].st \in Ended
    BY <1>0, <1>3 DEF RunGoesStale, TrialExpires, Run
  <2> QED
    BY <1>e, <2>1, EndsKept DEF EndInv, PassStartsClean
<1>4. CASE FailStaleRuns
  <2>1. /\ sup.pc = "sleep" /\ sup.interrupted = {} /\ sup'.pc = "find"
        /\ sup'.interrupted = InterruptedDevices
        /\ UNCHANGED <<task, announced>>
        /\ \A r \in Runs : run'[r] = IF r \in StaleRuns THEN InterruptedRow(run[r]) ELSE run[r]
    BY <1>0, <1>4, <1>e DEF FailStaleRuns, PassStartsClean, Supervisor
  <2>2. \A r \in StaleRuns : DeviceOf(r) \in InterruptedDevices
    BY DEF InterruptedDevices
  <2>3. EndIsAnnounced'
    BY <1>e, <2>1, <2>2 DEF EndIsAnnounced
  <2> QED
    BY <2>1, <2>3 DEF EndInv, PassStartsClean
<1>5. CASE FindQueuedRuns \/ PassEnds \/ \E r \in Runs : Redispatch(r)
  <2>1. /\ run' = run /\ announced' = announced /\ sup'.interrupted = sup.interrupted
        /\ sup'.pc = "sleep" => sup.interrupted = {}
    BY <1>0, <1>5, PassGoesOn
  <2>2. \A t \in Tasks : task[t].pc = "push" => task'[t] = task[t]
    BY <1>5, <1>s DEF FindQueuedRuns, PassEnds, Redispatch
  <2> QED
    BY <1>e, <2>1, <2>2, EndsKept DEF EndInv, PassStartsClean
<1> QED
  BY <1>1, <1>2, <1>3, <1>4, <1>5 DEF RunStep, Supervise

\* Every step announces what it ends, or counts as a failure.
LEMMA EndKept == TypeOK /\ EndInv /\ [Next]_vars => EndInv'
<1> SUFFICES ASSUME TypeOK, EndInv, [Next]_vars PROVE EndInv'
  OBVIOUS
<1>0. /\ task \in [Tasks -> Task] /\ run \in [Runs -> Run] /\ sup \in Supervisor
      /\ \A t \in Tasks : task[t].pc # "idle" => task[t].id \in Runs
      /\ faults \in Nat
  BY MaxFaultsAssumption DEF TypeOK, RunsTypeOK, DevicesTypeOK
<1>e. EndIsAnnounced /\ PassStartsClean
  BY DEF EndInv
<1>1. CASE DatabaseFault \/ Restart
  <2>1. faults' # 0
    BY <1>0, <1>1 DEF DatabaseFault, Restart, Fault
  <2>2. PassStartsClean'
    BY <1>0, <1>1, <1>e DEF DatabaseFault, Restart, RequestFault, HistoryFault, TaskFault, FindFault,
       AnnounceFault, DeliveryFault, runVars, PassStartsClean, Supervisor, Asleep
  <2> QED
    BY <2>1, <2>2 DEF EndInv, EndIsAnnounced
<1>2. CASE RunStep /\ UNCHANGED faults
  <2>1. CASE faults = 0
    BY <1>2, <2>1, RunStepAnnounces
  <2>2. CASE faults # 0
    <3>1. CASE FailStaleRuns
      <4>1. sup'.pc = "find"
        BY <1>0, <3>1 DEF FailStaleRuns, Supervisor
      <4> QED
        BY <1>2, <2>2, <4>1 DEF EndInv, EndIsAnnounced, PassStartsClean
    <3>2. CASE FindQueuedRuns \/ PassEnds \/ \E r \in Runs : Redispatch(r)
      BY <1>0, <1>2, <2>2, <3>2, PassGoesOn DEF EndInv, EndIsAnnounced, PassStartsClean
    <3>3. CASE UNCHANGED sup
      BY <1>2, <1>e, <2>2, <3>3 DEF EndInv, EndIsAnnounced, PassStartsClean
    <3> QED
      BY <1>2, <3>1, <3>2, <3>3 DEF RunStep, Handle, RefuseStale, AnswerReplay, RefuseTrial,
         CreateRun, SpawnDispatch, Respond, Authenticate, Dispatch, Claim, StartResponder, Activity,
         Finish, RunGoesStale, TrialExpires, Supervise
  <2> QED
    BY <2>1, <2>2
<1>3. ASSUME NEW t \in Tasks, AnnounceEnd(t), UNCHANGED faults PROVE EndInv'
  <2>1. /\ sup' = sup /\ run' = run /\ task[t].id \in Runs
        /\ announced' = announced \cup EndedOf(DeviceOf(task[t].id))
        /\ \A s \in Tasks \ {t} : task'[s] = task[s]
    BY <1>0, <1>3 DEF AnnounceEnd, At, Ends
  <2>2. \A r \in Runs : r = task[t].id /\ run[r].st \in Ended => r \in announced'
    BY <2>1 DEF EndedOf
  <2>3. EndIsAnnounced'
    BY <1>3, <1>e, <2>1, <2>2 DEF EndIsAnnounced
  <2> QED
    BY <1>e, <2>1, <2>3 DEF EndInv, PassStartsClean
<1>4. ASSUME NEW d \in Devices, AnnounceInterrupted(d), UNCHANGED faults PROVE EndInv'
  <2>1. /\ run' = run /\ task' = task /\ announced' = announced \cup EndedOf(d)
        /\ sup'.pc = "recover" /\ sup'.interrupted = sup.interrupted \ {d}
    BY <1>0, <1>4 DEF AnnounceInterrupted, Supervisor
  <2>2. \A r \in Runs : DeviceOf(r) = d /\ run[r].st \in Ended => r \in announced'
    BY <2>1 DEF EndedOf
  <2>3. EndIsAnnounced'
    BY <1>4, <1>e, <2>1, <2>2 DEF EndIsAnnounced
  <2> QED
    BY <2>1, <2>3 DEF EndInv, PassStartsClean
<1>5. CASE UNCHANGED <<runVars, faults>>
  BY <1>5, <1>e DEF EndInv, EndIsAnnounced, PassStartsClean, runVars
<1> QED
  BY <1>1, <1>2, <1>3, <1>4, <1>5 DEF Next, Announce, vars

\* Without a failure the end of a run is announced to its device, or whoever
\* ended it is about to: completion, failure and recovery alike.
THEOREM EndsAreAnnounced == Spec => []EndIsAnnounced
<1>1. Init => EndInv
  BY DEF Init, RunsInit, NoRun, Asleep, EndInv, EndIsAnnounced, PassStartsClean, Ended
<1>2. TypeOK /\ EndInv /\ [Next]_vars => (TypeOK /\ EndInv)'
  BY TypeStep, EndKept
<1>3. EndInv => EndIsAnnounced
  BY DEF EndInv
<1> QED
  BY TypeInit, <1>1, <1>2, <1>3, PTL DEF Spec

-----------------------------------------------------------------------------
(* Endpoints.  A delivery that found its endpoint gone has recorded it, and *)
(* takes it away only if it is still the registered one.                   *)

RefusedInv == \A d \in Devices : delivery[d].pc = "gone" => delivery[d].to \in refused[d]

\* Nothing is delivered at the start.
LEMMA RefusedInit == Init => RefusedInv
BY DEF Init, PushInit, NoDelivery, RefusedInv

\* Only an answer makes a delivery gone, and it records the endpoint; no step
\* forgets what was recorded.
LEMMA RefusedKept == TypeOK /\ RefusedInv /\ PushMove => RefusedInv'
<1> SUFFICES ASSUME TypeOK, RefusedInv, PushMove PROVE RefusedInv'
  OBVIOUS
<1>0. delivery \in [Devices -> Delivery]
  BY DEF TypeOK, PushTypeOK
<1>1. refused \in [Devices -> SUBSET (Endpoints \cup {NoEndpoint})]
  BY DEF TypeOK, PushTypeOK
<1>2. ASSUME NEW d \in Devices, Deliver(d) \/ DeliveryFault(d) PROVE RefusedInv'
  <2>1. \A c \in Devices : c # d => delivery'[c] = delivery[c] /\ refused'[c] = refused[c]
    BY <1>0, <1>1, <1>2 DEF Deliver, DeliveryFault, FindEndpoint, FindEndpointFails, PostAnswered,
       PostFails, ForgetEndpoint, CompleteEvent, ScheduleRetry
  <2>2. delivery'[d].pc = "gone" => delivery'[d].to \in refused'[d]
    <3>1. CASE PostAnswered(d)
      BY <1>0, <1>1, <3>1 DEF PostAnswered, Delivery
    <3>2. CASE ~PostAnswered(d)
      BY <1>0, <1>1, <1>2, <3>2 DEF RefusedInv, Deliver, DeliveryFault, FindEndpoint,
         FindEndpointFails, PostFails, ForgetEndpoint, CompleteEvent, ScheduleRetry, Delivery,
         NoDelivery
    <3> QED
      BY <3>1, <3>2
  <2> QED
    BY <2>1, <2>2 DEF RefusedInv
<1>3. CASE ClaimDue \/ Restart
  BY <1>3 DEF ClaimDue, Restart, NoDelivery, RefusedInv
<1>4. ASSUME NEW d \in Devices,
             \/ Unregister(d) \/ RetryComesDue(d) \/ PushLeaseExpires(d)
             \/ (\E e \in Endpoints : Register(d, e)) \/ EnqueueConversationChanged(d)
      PROVE  RefusedInv'
  BY <1>4 DEF RefusedInv, Unregister, RetryComesDue, PushLeaseExpires, Register,
     EnqueueConversationChanged
<1>5. CASE UNCHANGED pushVars
  BY <1>5 DEF RefusedInv, pushVars
<1> QED
  BY <1>2, <1>3, <1>4, <1>5 DEF PushMove, PushStep

\* A step that takes an endpoint away is the phone's own, or the guarded
\* delete of one that has answered 404 or 410.
LEMMA ForgetsRefused ==
  ASSUME TypeOK, RefusedInv, PushMove, NEW d \in Devices, endpoint'[d] # endpoint[d],
         ~Unregister(d), \A e \in Endpoints : ~Register(d, e)
  PROVE  endpoint[d] \in refused[d]
<1>0. endpoint \in [Devices -> Endpoints \cup {NoEndpoint}]
  BY DEF TypeOK, PushTypeOK
<1>1. ASSUME NEW c \in Devices, ForgetEndpoint(c) PROVE endpoint[d] \in refused[d]
  BY <1>0, <1>1 DEF ForgetEndpoint, SameEndpoint, RefusedInv
<1>2. ASSUME NEW c \in Devices, c # d, Unregister(c) \/ \E e \in Endpoints : Register(c, e)
      PROVE  FALSE
  BY <1>0, <1>2 DEF Unregister, Register
<1>3. ASSUME UNCHANGED endpoint PROVE FALSE
  BY <1>3
<1> QED
  BY <1>1, <1>2, <1>3 DEF PushMove, PushStep, pushVars, ClaimDue, Restart, Deliver, DeliveryFault,
     FindEndpoint, FindEndpointFails, PostAnswered, PostFails, CompleteEvent, ScheduleRetry,
     RetryComesDue, PushLeaseExpires, EnqueueConversationChanged

\* The backend takes away only an endpoint that has answered 404 or 410: one
\* registered while a push was in flight survives the late answer of the old.
THEOREM ForgottenWereRefused == Spec => ForgottenWasRefused
<1>1. TypeOK /\ RefusedInv /\ [Next]_vars =>
        [\A d \in Devices : endpoint'[d] # endpoint[d] =>
            \/ endpoint[d] \in refused[d]
            \/ Unregister(d) \/ \E e \in Endpoints : Register(d, e)]_pushVars
  BY ForgetsRefused, StepMoves
<1>2. TypeOK /\ RefusedInv /\ [Next]_vars => (TypeOK /\ RefusedInv)'
  BY TypeStep, RefusedKept, StepMoves
<1> QED
  BY TypeInit, RefusedInit, <1>1, <1>2, PTL DEF Spec, ForgottenWasRefused

=============================================================================
