---------------------------- MODULE LightToolRuns ----------------------------
(***************************************************************************)
(* Messages of a Light Tool device as runs: the handler that accepts one,  *)
(* the dispatch task that has it answered, and the supervisor that         *)
(* recovers runs after a restart.                                          *)
(*                                                                         *)
(* A run is named by its device and the client's message id, which the     *)
(* table keeps unique.  The row says under which principal (an account, or *)
(* NoUser for the anonymous trial) it was accepted.  Texts and images are  *)
(* compared and stored, nothing else.  Fifteen minutes without an update   *)
(* are abstracted to a running row being stale.                            *)
(***************************************************************************)
EXTENDS LightToolPush

CONSTANTS
    Msgs, NoMsg,       \* client message ids
    Texts, NoText,     \* normalised message texts
    Images, NoImage,   \* normalised image payloads, and NULL
    TrialLimit,        \* TRIAL_MESSAGE_LIMIT
    Handlers,          \* requests in flight at once
    Tasks              \* dispatch tasks in flight at once

ASSUME MsgsAssumption == IsFiniteSet(Msgs) /\ NoMsg \notin Msgs   \* UUIDs
ASSUME TextsAssumption == NoText \notin Texts
ASSUME ImagesAssumption == NoImage \notin Images
ASSUME TrialLimitAssumption == TrialLimit \in Nat

VARIABLES
    trialLive,   \* trial_expires_at lies ahead
    used,        \* trial_messages_used
    run,         \* light_tool_runs
    req,         \* send-message requests in flight
    task,        \* dispatch_light_tool_run tasks in flight
    sup,         \* the supervisor
    sent,        \* history: what each run was created from
    acted,       \* history: how often, and for whom, the responder was asked
    announced    \* history: ended runs after whose end a push was queued

runVars == <<trialLive, used, run, req, task, sup, sent, acted, announced>>

Runs == Devices \X Msgs
NoRunId == <<NoDevice, NoMsg>>
DeviceOf(r) == r[1]

Status == {"absent", "queued", "running", "completed", "failed"}
Ended == {"completed", "failed"}
Run == [st : Status, account : Principals, text : Texts \cup {NoText},
        image : Images \cup {NoImage}, stale : BOOLEAN]
NoRun == [st |-> "absent", account |-> NoUser, text |-> NoText,
          image |-> NoImage, stale |-> FALSE]

Reply == {"created", "existing", "conflict", "unavailable"}
Request == [pc : {"idle", "authed"} \cup Reply, id : Runs \cup {NoRunId},
            text : Texts \cup {NoText}, image : Images \cup {NoImage},
            account : Principals]
NoRequest == [pc |-> "idle", id |-> NoRunId, text |-> NoText,
              image |-> NoImage, account |-> NoUser]

Task == [pc : {"idle", "claim", "history", "respond", "push"},
         id : Runs \cup {NoRunId}]
NoTask == [pc |-> "idle", id |-> NoRunId]

Supervisor == [pc : {"sleep", "find", "recover"}, interrupted : SUBSET Devices,
               queued : SUBSET Runs]
Asleep == [pc |-> "sleep", interrupted |-> {}, queued |-> {}]

Content == [text : Texts \cup {NoText}, image : Images \cup {NoImage},
            account : Principals]
NoContent == [text |-> NoText, image |-> NoImage, account |-> NoUser]

-----------------------------------------------------------------------------
(* enqueue_message, behind the device authentication. *)

\* The extractor reads the device row; the body may take long to arrive.
Authenticate(h, r, text, image) ==
    /\ req[h].pc = "idle"
    /\ req' = [req EXCEPT ![h] = [pc |-> "authed", id |-> r, text |-> text,
                                  image |-> image, account |-> user[DeviceOf(r)]]]
    /\ UNCHANGED <<trialLive, used, run, task, sup, sent, acted, announced>>

\* Both transactions lock the device row and compare the account again.
StillLinked(h) == user[DeviceOf(req[h].id)] = req[h].account

Answers(h, reply) == req' = [req EXCEPT ![h].pc = reply]

RefuseStale(h) ==
    /\ req[h].pc = "authed"
    /\ ~StillLinked(h)
    /\ Answers(h, "unavailable")
    /\ UNCHANGED <<trialLive, used, run, task, sup, sent, acted, announced>>

\* Mutant: the message id alone identifies the message.
SameContentById(h) == TRUE

\* The stored run is the one this request asks for.
SameContent(h) ==
    LET x == run[req[h].id]
    IN  x.account = req[h].account /\ x.text = req[h].text /\ x.image = req[h].image

AnswerReplay(h) ==
    /\ req[h].pc = "authed"
    /\ StillLinked(h)
    /\ run[req[h].id].st # "absent"
    /\ Answers(h, IF SameContent(h) THEN "existing" ELSE "conflict")
    /\ UNCHANGED <<trialLive, used, run, task, sup, sent, acted, announced>>

\* Mutant: the quota is read but not claimed with the run.
TrialOpenUnmetered(d) == trialLive[d]

TrialOpen(d) == trialLive[d] /\ used[d] < TrialLimit

RefuseTrial(h) ==
    /\ req[h].pc = "authed"
    /\ StillLinked(h)
    /\ run[req[h].id].st = "absent"
    /\ req[h].account = NoUser /\ ~TrialOpen(DeviceOf(req[h].id))
    /\ Answers(h, "unavailable")
    /\ UNCHANGED <<trialLive, used, run, task, sup, sent, acted, announced>>

ClaimQuota(d, account) ==
    used' = IF account = NoUser THEN [used EXCEPT ![d] = @ + 1] ELSE used

CreateRun(h) ==
    LET r == req[h].id
        d == DeviceOf(r)
    IN  /\ req[h].pc = "authed"
        /\ StillLinked(h)
        /\ run[r].st = "absent"
        /\ req[h].account = NoUser => TrialOpen(d)
        /\ ClaimQuota(d, req[h].account)
        /\ run' = [run EXCEPT ![r] = [st |-> "queued", account |-> req[h].account,
                                      text |-> req[h].text, image |-> req[h].image,
                                      stale |-> FALSE]]
        /\ sent' = [sent EXCEPT ![r] = [text |-> req[h].text, image |-> req[h].image,
                                        account |-> user[d]]]
        /\ Answers(h, "created")
        /\ UNCHANGED <<trialLive, task, sup, acted, announced>>

Spawn(r) ==
    \E t \in Tasks : /\ task[t].pc = "idle"
                     /\ task' = [task EXCEPT ![t] = [pc |-> "claim", id |-> r]]

\* Only a request that created its run has it dispatched.
SpawnDispatch(h) ==
    /\ req[h].pc = "created"
    /\ Spawn(req[h].id)
    /\ req' = [req EXCEPT ![h] = NoRequest]
    /\ UNCHANGED <<trialLive, used, run, sup, sent, acted, announced>>

Respond(h) ==
    /\ req[h].pc \in Reply \ {"created"}
    /\ req' = [req EXCEPT ![h] = NoRequest]
    /\ UNCHANGED <<trialLive, used, run, task, sup, sent, acted, announced>>

\* The transaction fails and is rolled back.
RequestFault(h) ==
    /\ req[h].pc = "authed"
    /\ req' = [req EXCEPT ![h] = NoRequest]
    /\ UNCHANGED <<trialLive, used, run, task, sup, sent, acted, announced>>

TrialExpires(d) ==
    /\ trialLive[d]
    /\ trialLive' = [trialLive EXCEPT ![d] = FALSE]
    /\ UNCHANGED <<used, run, req, task, sup, sent, acted, announced>>

-----------------------------------------------------------------------------
(* dispatch_light_tool_run. *)

At(t, pc) == task[t].pc = pc
Goes(t, pc) == task' = [task EXCEPT ![t].pc = pc]
Ends(t) == task' = [task EXCEPT ![t] = NoTask]

\* claim_queued_run filters on the status: of several tasks one wins.
Claimable(r) == run[r].st = "queued"

Claim(t) ==
    /\ At(t, "claim")
    /\ IF Claimable(task[t].id)
       THEN /\ run' = [run EXCEPT ![task[t].id].st = "running",
                                  ![task[t].id].stale = FALSE]
            /\ Goes(t, "history")
       ELSE Ends(t) /\ UNCHANGED run
    /\ UNCHANGED <<trialLive, used, req, sup, sent, acted, announced>>

PrincipalOf(r) == run[r].account

\* The history is loaded and the responder is asked: from here on it may send
\* messages or spend money for the principal.
StartResponder(t) ==
    /\ At(t, "history")
    /\ Goes(t, "respond")
    /\ acted' = [acted EXCEPT ![task[t].id] =
                    [times |-> @.times + 1, as |-> @.as \cup {PrincipalOf(task[t].id)}]]
    /\ UNCHANGED <<trialLive, used, run, req, sup, sent, announced>>

StillRunning(r) == run[r].st = "running"

\* A progress label refreshes updated_at; a run that was given up ends the task.
Activity(t) ==
    /\ At(t, "respond")
    /\ IF StillRunning(task[t].id)
       THEN run' = [run EXCEPT ![task[t].id].stale = FALSE] /\ UNCHANGED task
       ELSE Ends(t) /\ UNCHANGED run
    /\ UNCHANGED <<trialLive, used, req, sup, sent, acted, announced>>

\* The row of an ended run: its image is dropped.
EndedRow(x, st) == [x EXCEPT !.st = st, !.image = NoImage, !.stale = FALSE]

\* The responder answers (complete), or it fails or answers with text that
\* cannot be stored (fail_run).
Finish(t, st) ==
    /\ At(t, "respond")
    /\ IF StillRunning(task[t].id)
       THEN run' = [run EXCEPT ![task[t].id] = EndedRow(@, st)] /\ Goes(t, "push")
       ELSE Ends(t) /\ UNCHANGED run
    /\ UNCHANGED <<trialLive, used, req, sup, sent, acted, announced>>

\* The history cannot be loaded: fail_run without asking the responder.
HistoryFault(t) ==
    /\ At(t, "history")
    /\ IF StillRunning(task[t].id)
       THEN run' = [run EXCEPT ![task[t].id] = EndedRow(@, "failed")] /\ Goes(t, "push")
       ELSE Ends(t) /\ UNCHANGED run
    /\ UNCHANGED <<trialLive, used, req, sup, sent, acted, announced>>

\* The claim, the reading of the claimed row, an update, fail_run, the
\* completion or the enqueueing of the push fails.
TaskFault(t) ==
    /\ ~At(t, "idle")
    /\ Ends(t)
    /\ UNCHANGED <<trialLive, used, run, req, sup, sent, acted, announced>>

EndedOf(d) == {r \in Runs : DeviceOf(r) = d /\ run[r].st \in Ended}

\* The enqueueing itself is the outbox's action.
AnnounceEnd(t) ==
    /\ At(t, "push")
    /\ Ends(t)
    /\ announced' = announced \cup EndedOf(DeviceOf(task[t].id))
    /\ UNCHANGED <<trialLive, used, run, req, sup, sent, acted>>

\* updated_at falls 15 minutes behind.
RunGoesStale(r) ==
    /\ run[r].st = "running" /\ ~run[r].stale
    /\ run' = [run EXCEPT ![r].stale = TRUE]
    /\ UNCHANGED <<trialLive, used, req, task, sup, sent, acted, announced>>

-----------------------------------------------------------------------------
(* supervise_light_tool_runs_once, every 15 seconds and at startup. *)

\* Mutant: only queued runs are recovered.
StaleRunsIgnored == {}

StaleRuns == {r \in Runs : run[r].st = "running" /\ run[r].stale}

\* Mutant: interrupted runs are queued again.
InterruptedRowRequeued(x) == [x EXCEPT !.st = "queued", !.stale = FALSE]

InterruptedRow(x) == EndedRow(x, "failed")

\* Mutant: the devices of interrupted runs are not remembered.
InterruptedNobody == {}

\* Mutant: the wrong half of the (run, device) pairs is collected.
InterruptedIds == StaleRuns

InterruptedDevices == {DeviceOf(r) : r \in StaleRuns}

FailStaleRuns ==
    /\ sup.pc = "sleep"
    /\ run' = [r \in Runs |-> IF r \in StaleRuns THEN InterruptedRow(run[r]) ELSE run[r]]
    /\ sup' = [sup EXCEPT !.pc = "find", !.interrupted = InterruptedDevices]
    /\ UNCHANGED <<trialLive, used, req, task, sent, acted, announced>>

FindQueuedRuns ==
    /\ sup.pc = "find"
    /\ sup' = [sup EXCEPT !.pc = "recover",
                          !.queued = {r \in Runs : run[r].st = "queued"}]
    /\ UNCHANGED <<trialLive, used, run, req, task, sent, acted, announced>>

\* The early return skips the pushes of the runs just failed.
FindFault ==
    /\ sup.pc = "find"
    /\ sup' = Asleep
    /\ UNCHANGED <<trialLive, used, run, req, task, sent, acted, announced>>

\* The enqueueing itself is the outbox's action.
AnnounceInterrupted(d) ==
    /\ sup.pc = "recover" /\ d \in sup.interrupted
    /\ sup' = [sup EXCEPT !.interrupted = @ \ {d}]
    /\ announced' = announced \cup EndedOf(d)
    /\ UNCHANGED <<trialLive, used, run, req, task, sent, acted>>

AnnounceFault(d) ==
    /\ sup.pc = "recover" /\ d \in sup.interrupted
    /\ sup' = [sup EXCEPT !.interrupted = @ \ {d}]
    /\ UNCHANGED <<trialLive, used, run, req, task, sent, acted, announced>>

Redispatch(r) ==
    /\ sup.pc = "recover" /\ sup.interrupted = {} /\ r \in sup.queued
    /\ Spawn(r)
    /\ sup' = [sup EXCEPT !.queued = @ \ {r}]
    /\ UNCHANGED <<trialLive, used, run, req, sent, acted, announced>>

PassEnds ==
    /\ sup.pc = "recover" /\ sup.interrupted = {} /\ sup.queued = {}
    /\ sup' = Asleep
    /\ UNCHANGED <<trialLive, used, run, req, task, sent, acted, announced>>

-----------------------------------------------------------------------------
RunsInit ==
    /\ trialLive = [d \in Devices |-> TRUE]
    /\ used = [d \in Devices |-> 0]
    /\ run = [r \in Runs |-> NoRun]
    /\ req = [h \in Handlers |-> NoRequest]
    /\ task = [t \in Tasks |-> NoTask]
    /\ sup = Asleep
    /\ sent = [r \in Runs |-> NoContent]
    /\ acted = [r \in Runs |-> [times |-> 0, as |-> {}]]
    /\ announced = {}

RunsTypeOK ==
    /\ trialLive \in [Devices -> BOOLEAN]
    /\ used \in [Devices -> Nat]
    /\ run \in [Runs -> Run]
    /\ req \in [Handlers -> Request]
    /\ \A h \in Handlers : req[h].pc # "idle" => req[h].id \in Runs
    /\ task \in [Tasks -> Task]
    /\ \A t \in Tasks : task[t].pc # "idle" => task[t].id \in Runs
    /\ sup \in Supervisor
    /\ sent \in [Runs -> Content]
    /\ acted \in [Runs -> [times : Nat, as : SUBSET Principals]]
    /\ announced \subseteq Runs

Handle(h) ==
    \/ RefuseStale(h) \/ AnswerReplay(h) \/ RefuseTrial(h) \/ CreateRun(h)
    \/ SpawnDispatch(h) \/ Respond(h)

Dispatch(t) ==
    \/ Claim(t) \/ StartResponder(t) \/ Activity(t)
    \/ \E st \in Ended : Finish(t, st)

Supervise ==
    \/ FailStaleRuns \/ FindQueuedRuns \/ PassEnds
    \/ \E r \in Runs : Redispatch(r)

RunStep ==
    \/ \E h \in Handlers :
           \/ Handle(h)
           \/ \E r \in Runs, text \in Texts, image \in Images \cup {NoImage} :
                  Authenticate(h, r, text, image)
    \/ \E t \in Tasks : Dispatch(t)
    \/ \E r \in Runs : RunGoesStale(r)
    \/ \E d \in Devices : TrialExpires(d)
    \/ Supervise

-----------------------------------------------------------------------------
(* Properties of runs. *)

\* The trial is metered exactly: a device has spent one message for every run
\* it created anonymously, replays and account runs cost nothing, and it never
\* spends more than the limit, however pairing and requests interleave.
TrialIsMetered ==
    \A d \in Devices :
        /\ used[d] = Cardinality({m \in Msgs : /\ run[<<d, m>>].st # "absent"
                                               /\ run[<<d, m>>].account = NoUser})
        /\ used[d] <= TrialLimit

\* A replay is refused as a conflict only if it differs from what the run was
\* created from ("a replay returns the original run for free").
ReplayIsFree ==
    \A h \in Handlers :
        req[h].pc = "conflict" =>
            \/ req[h].text # sent[req[h].id].text
            \/ req[h].image # sent[req[h].id].image
            \/ req[h].account # sent[req[h].id].account

\* The same for messages without an image, and an accepted replay is one of
\* the same text by the same principal.
TextReplayIsFree ==
    \A h \in Handlers :
        LET original == sent[req[h].id]
            same == req[h].text = original.text /\ req[h].account = original.account
        IN  /\ req[h].pc = "conflict" /\ original.image = NoImage =>
                   ~same \/ req[h].image # NoImage
            /\ req[h].pc = "existing" => same

\* While nothing has failed, the end of a run is announced to its device, or
\* the task or supervisor pass that ended it is about to.
EndIsAnnounced ==
    faults = 0 =>
        \A r \in Runs : run[r].st \in Ended =>
            \/ r \in announced
            \/ \E t \in Tasks : task[t].pc = "push" /\ task[t].id = r
            \/ DeviceOf(r) \in sup.interrupted
=============================================================================
