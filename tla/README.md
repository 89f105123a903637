# Lightfriend in TLA+

Lightfriend is an assistant for phones without apps. Its backend (Rust, axum,
PostgreSQL) connects a user's WhatsApp, Signal and Telegram accounts through
mautrix bridges and a Matrix homeserver (Tuwunel), stores what arrives, runs an
agent over it and talks to the user by SMS, calls and a small device client. This
directory holds the specifications of the parts whose correctness depends on the
order of things: tasks that interleave at every `await`, leases that run out,
answers that get lost, and processes that restart.

Paths below are relative to `src/backend/src/` unless they start with `src/`.

## 1. Inventory

| Component | State it keeps | Operations | What makes it correct |
|---|---|---|---|
| Bridge connection lifecycle (`handlers/{whatsapp,signal,telegram}_auth.rs`, `jobs/scheduler.rs`) | table `bridges` (one row per user and type, a new id for every generation), the reconnect lease, tasks in memory | connect, monitor, disconnect and its background portal cleanup, health check, sweep of stale rows | reconnects and room deletion exclude each other; a removed row has a cleanup job |
| Disconnected-bridge cleanup (`utils/disconnected_bridge_cleanup.rs`, `repositories/tuwunel_cleanup_repository.rs`) | `bridge_cleanup_jobs`, `bridge_cleanup_rooms`, `bridge_connection_leases` | orphan scan, job processing, room audit, room deletion, retry | only rooms of connections that are gone, and proved gone, are deleted; jobs settle |
| Tuwunel event purge (`utils/tuwunel_event_cleanup.rs`, same repository) | `tuwunel_event_purges`, `tuwunel_room_history_purges`, backfill audit tables | stage, release, submit, poll, retry, requeue | history is purged only after the message was ingested; the in-flight limit holds |
| Usage billing (`repositories/billing_repository.rs`, `services/metronome_billing.rs`, `handlers/billing_handlers.rs`, `utils/usage.rs`) | usage intents, usage events (outbox), webhook events, billing accounts | provision, switch overage, begin, finalize and abandon an intent, claim, send, mark, claim and finish a webhook | what was used is billed and not lost; nobody pays overage without consent; a webhook has one owner |
| Light Tool pairing (`services/light_tool_pairing.rs`, `repositories/light_tool_pairing_repository.rs`) | `light_tool_devices.user_id`, `light_tool_pairing_sessions` | create an offer, consume it, disconnect, status | an offer links once; "connected" is true |
| Light Tool runs (`handlers/light_tool_handlers.rs`, `repositories/light_tool_runs_repository.rs`, `services/light_tool_run_*.rs`) | `light_tool_runs`, the trial counter, requests and dispatch tasks in memory | accept a message, replay it, dispatch, report progress, complete, fail, recover | the responder is asked once and for the right account; every message ends, once; the trial is metered exactly |
| Light Tool push (`services/light_tool_push_*.rs`, `repositories/light_tool_push_*_repository.rs`) | `light_tool_push_registrations`, `light_tool_push_outbox` | register, enqueue, claim, deliver, complete, retry | no change is lost, no fresh registration removed |
| Reminders, reply watches, rules, commitments, digests (`proactive/`, `jobs/scheduler.rs`, `repositories/{ontology,pending_reply_watches,commitment}_repository.rs`) | `ont_events`, `pending_reply_watches`, `ont_rules`, `commitment_prompts`, `ont_messages`, cooldowns in memory | create, move, lease, send, settle, expire; arm, claim, put back; tick, spawn, claim, run; ask, answer; bundle, send, mark | each fires once and for the right thing; nothing due is left behind |
| Agent integrations (`handlers/agent_integration_handlers.rs`, `repositories/agent_integration_repository.rs`) | pairing sessions, credentials, idempotency keys | pair, authenticate, reserve, claim, act, finish | a key acts once; the cap holds |
| SMS delivery and webhook tokens (`channels/`, `handlers/{webhook_sms,twilio}_handlers.rs`, `services/twilio_*`, `repositories/{webhook_tokens,twilio_status}_*`) | `webhook_tokens`, `webhook_idempotency_keys`, `message_status_log`, provider routes | reserve, check, claim a slot, walk the providers, log, report, replay | the user gets a text once |
| Voice, agent core, BYOT, MCP, Tesla, YouTube, e-mail fetching | calls in memory, tokens, credentials | stream, prompt, issue, revoke, use | per-request authorisation |
| Accounts, sign-in, Stripe, admin, dashboard | users, sessions, subscriptions | CRUD | per-request validation |
| Frontend, enclave scripts, Terraform, contracts, CLI, blog | – | – | not part of the backend's state machines |

How the components interact. Backend tasks share no memory to speak of: request
handlers, tasks spawned by them, the jobs of `jobs/scheduler.rs` and a few workers meet
in PostgreSQL and in outside services. Bridge messages pass through
`handle_bridge_message`, which stores them, releases them for the event purge and fires
reply watches and rules; commitments and digests are made of the stored messages.
Whatever costs money leaves an intent or an entry in the usage outbox, and is allowed
only by the entitlement that `BillingAccount` keeps. Whatever the user is told goes
through the SMS channels.

How the bridge components interact: the connect and disconnect handlers, their
background tasks, the scheduler and the cleanup worker share no memory. They meet
in the tables (`bridges`, `bridge_connection_leases`, `bridge_cleanup_jobs`) and in
the outside world (the bridge's login, the rooms the homeserver stores). Every
repository call is its own transaction, and between two of them there is usually an
exchange with Matrix or the bridge that takes seconds.

The Light Tool is a small client on a phone. Its message becomes a run; a task spawned
by the request, or by the supervisor, has the run answered by the agent and then queues
a push, which one worker delivers to the endpoint the phone registered. Pairing links
the phone to an account while its requests and runs are under way. The parts share the
database only; every repository call is one transaction.

Hard behaviours: interleavings of five kinds of tasks; decisions made from a
snapshot that is minutes old; leases that are renewed by one kind of holder only; a
delete request whose answer is lost; a restart anywhere; rooms shared with another
user; jobs with several rooms of which some fail. For the Light Tool: two dispatchers of
one run; a worker that is slow and taken for dead; an account that changes between
authentication and commit; messages sent again; a change queued while a push is in
flight; a restart between two transactions that belong together. For the jobs: a pass
that starts every minute whether or not the last one has ended; a claim that a slower
task settles over a newer one; messages that arrive together and each find the same row;
providers that deliver twice, late, or answer with an error what they have taken.

## 2. Modules

| Module | Models |
|---|---|
| `BridgeTables` | the tables and the repository calls on them, the login and the rooms outside |
| `BridgeConnection` | connect, monitor, disconnect, health check, sweep; the user's phone, other users |
| `BridgeCleanupWorker` | the worker's cycle and `process_job`, step by step; the homeserver's deletion |
| `BridgeSystem` | both over the same tables, lease expiry, time, restarts; all properties |
| `BridgeSystemProofs` | the inductive invariants and the theorems |
| `MCBridgeSystem` | the module TLC runs, with its scenarios and the symmetry over connect invocations |
| `LightToolDevices` | devices, accounts and pairing offers |
| `LightToolPush` | endpoints, the outbox and its worker; extends `LightToolDevices` |
| `LightToolRuns` | requests, runs, dispatch tasks, the supervisor; extends `LightToolPush` |
| `LightTool` | the composition: announcing the end of a run, restarts, failing database calls, fairness |
| `LightToolPromise` | the abstract specification of what happens to a message |
| `LightToolProofs` | the inductive invariants, the theorems and the refinement proof |
| `MCLightTool` | the module TLC runs, with its scenarios and the symmetry over requests and tasks |
| `BillingAccount` | one account: provisioning, the overage switch, webhooks, the entitlement check |
| `UsageOutbox` | usage intents and events, overlapping flushes, reconciliation |
| `EventPurge` | one portal room: ingestion and its marker, event boundaries, room histories, the homeserver's purge tasks |
| `EventReminders` | tracked events, their reminders and the scheduler's passes |
| `ReplyWatches` | one-shot watches, in rooms and mailboxes |
| `RuleFiring` | rules fired by the clock and by messages |
| `Commitments` | detected commitments, prompts and the user's answers |
| `Digests` | slots, recovery and fallback digests |
| `AgentActions` | pairing of agents, credentials, idempotency keys |
| `SmsDelivery` | webhook tokens and keys, the walk over providers, failure reports and replays |
| `BillingAccountProofs`, `UsageOutboxProofs`, `EventPurgeProofs` | the inductive invariants and theorems of the module each is named after |
| `SchedulerProofs` | the same for `EventReminders`, `ReplyWatches`, `RuleFiring`, `Commitments` and the types of `Digests` |
| `IdempotencyProofs` | the same for `AgentActions` and `SmsDelivery` |
| `JobsProofs` | the theorems about the composition of the jobs |
| `MCPurgeBilling`, `MCJobs` | the modules TLC runs: the first holds `EventPurge` and `BillingAccount`, each explored with the other at rest, the second the seven modules of jobs and `SmsDelivery`, with their fairness |

### Correspondence with the code: bridges

One instance of the model is one user and one bridge type; leases, rows and jobs of
different users and types never meet, except through rooms that are shared, which is
what `shared` and `OtherUser` stand for.

* `rows` is the user's part of table `bridges`. `CreateBridge` gives every row a fresh
  id, its *generation*; `DeleteBridge` removes all of them, as `delete_bridge` filters
  on user and type only.
* `lease` is the row of `bridge_connection_leases`. The owner token is fresh for every
  acquisition; the model names the holder instead, and `Restart` turns a holder into
  `"dead"`, which nobody can renew or release. `live` abstracts `lease_until > now`.
* `jobs[g]` is the job with `expected_bridge_id = g`; `jobs[Orphan]` is the open
  orphan audit. `portal` is `portal_cleanup_status`; `aged` says that
  `orphan_proof_recheck_secs` have passed since the first absence. The delay columns
  (`not_before`, grace and retry intervals) become the freedom of `ListDue` to leave
  out any open job.
* `jobRooms[j][r]` is the status in `bridge_cleanup_rooms`, `"absent"` without a row.
* A connect invocation is `conn[c]` until it returns and `mon[c]` afterwards. A step
  is what happens between two awaits; error returns are steps too.
* The worker's program counter `wpc` names the next step of a cycle: `login` after the
  due jobs are listed (`AdminLogin`, or `CycleFails`, which gives the cycle up and counts
  no attempt), then the checks of `process_job`: `pick`, `probe`, `discover`, `acquire`,
  `final`, `recheck`, `audit`, `guard`, `reprobe`, `inflight`. `snap` is the snapshot
  `list_due_bridge_cleanup_jobs` took.
* WhatsApp and Telegram delete the row first, Signal marks it `cleaning_up` and
  deletes it last: `LateRowDelete`.
* A room that failed often enough is `exhausted` in the table; as it is listed again
  like a retrying one, the model has one status for both.

Bounds: `MaxGen` (rows ever inserted), `MaxRestarts`, one disconnect, one health check
and one sweep at a time, and the set `Tasks` of tasks that run at all.

### Correspondence with the code: Light Tool

* `user[d]` is `light_tool_devices.user_id`, `NoUser` for NULL. Tokens are random, so the
  model numbers the offers; `session[u]` is the account's only row of
  `light_tool_pairing_sessions` (`by` is `consumed_by_device_id`, token 0 means no row).
* A run is named by device and client message id, which the table keeps unique.
  `run[r].stale` abstracts `updated_at <= now - 15 min`; ending a run clears the image
  as all three update statements do.
* `req[h]` is a request between the authentication extractor and its answer,
  `account` the account the extractor read. The two creation transactions
  (anonymous, account) differ only in the quota, so one set of actions stands for both.
  The commit and the `tokio::spawn` behind it are separate steps.
* `task[t]` is a `dispatch_light_tool_run` with the push that its caller queues
  afterwards: `claim`, `history`, `respond`, `push`. The responder may report progress,
  answer, fail or do nothing; that it has been asked is recorded in `acted`.
* `sup` is the supervisor's pass: fail stale runs, find queued ones, announce,
  spawn. `FindFault` is the `?` between the first two, which drops the announcements.
* `outbox[d]` is the device's row: `version`, `leased` (`lease_until > now`), `due`
  (`next_attempt_at <= now`). `delivery[d]` is the worker's delivery of a claimed row;
  the worker claims again when all of them are settled, as `process_due_once` does.
* `refused[d]` holds the endpoints that have answered a push with 404 or 410.
* `refused`, `owed`, `links`, `sent`, `acted` and `announced` are history variables; no
  action reads them.
* `Fault` bounds restarts and failing database calls together.

Every device exists from the start, since bootstrap is one insert. `revoked_at` is
filtered on everywhere and written nowhere, so no device is revoked. The responder is
configured; without it neither dispatch nor the supervisor starts. `PushLeaseExpires`
waits for the delivery to end: with one worker a lease that runs out during a delivery
changes nothing, as nobody else could claim the row.

### Correspondence with the code: billing

* `acct` is the row of `billing_accounts` (`known`: it has ids of the provider, `ready`:
  a payment method), `meter` what the provider keeps: the contract, its spend threshold,
  the imported credit. `funds` says whether the provider's balance is positive.
* `prov[p]` is an invocation of `provision_user` with what it does afterwards for its
  caller. `snap` is the account it has read; decisions are made from it, several exchanges
  later. A request to the provider and the write after it are separate steps, and either
  may be the last one.
* `hookRow[e]` is `billing_webhook_events`; `overran` records that a lease ran out under
  its holder. `hookKind` is the meaning of the event, chosen at the start.
* `check` is `has_usage_entitlement`, with the refresh that may change the row.
* `UsageOutbox` names a transaction by its idempotency key. A flush reads what is due,
  claims row by row, sends a batch and marks row by row; two flushes overlap. The
  provider keeps ids unique, so `ingested` is a set. `late` bounds leases that run out.

### Correspondence with the code: event purge

* Events are numbered in the order of the room's timeline; a purge is named by the last
  event it removes and `purgedTo` is how far the homeserver has got. `row[e]` is the
  event's row in `tuwunel_cleanup_events`, `hist[s]` the room's row in
  `tuwunel_room_history_purges` for each of the two sources of the census.
* The clock `now` counts retention periods. A handler decides within a period, which is
  the assumption the code makes (`retention_secs`, 60 s by default). Staleness of blockers and
  the cool-down of exhausted rows are free choices of `StartCycle`.
* `task` and `htask` are purge tasks whose id was answered, `stray` those whose answer was
  lost. A homeserver that restarts forgets both.
* `late` is a history variable: the events whose first handler died without a row and that
  were delivered again a period or more later.
* `purger` is the worker's step: poll, submit a boundary, submit a history, settle.
* `forced` is `backfill_execute_blocked_enabled`.

### Correspondence with the code: jobs

* Times are `ahead` or `past`, and the clock moves one to the other. What a language
  model decides about a message (urgency, spam, a commitment, a rule that matches) is a
  free choice.
* A pass of the event job is `pass[p]`; `cur` is the reminder it is sending, `resetting`
  the reminders whose `update_event` is done and whose `reset_reminder_delivery` is not.
* A reply watch is a row of request, contact and place. Handlers claim it by deleting it
  and put it back when `send_to_user` ends in an error: every provider refused the text,
  or one took it and its answer was lost, which the code cannot tell apart. `fired` counts
  the notifications a row has caused, `lost` those of them whose answer was lost.
* A rule's task carries the kind it was spawned with, as the code carries the row it read.
* `asking` orders the open prompts by `sent_at`, because an answer goes to the latest.
* `checkpoint` is the age of the last successful digest; `digest.ids` the messages
  of the digest being sent, `lazy` those among them that are yet to be classified.
* `reserved` and `hookKey` are idempotency keys: absent, held by a request, done, or older
  than a day. A key is held from before the action until its outcome is stored.
* A request of an agent that cannot charge its credential gives its key back, whether it
  was refused or the database failed (`ClaimCredentialFails`).
* A text in `SmsDelivery` is named by its call. `twilio` is its fate at Twilio, `logRow` its
  row of `message_status_log`, of which only `fallback_attempted_at` matters later on.
  Providers are tried in any order, since routes differ by country and may be edited. After
  a restart, as after a call that was cancelled, a provider that was being asked may have
  taken the text.
* `told` says whether the user was notified since the reminder's time was last set:
  `"overtaken"` is a new time claimed by a pass while another has sent, and not yet
  settled, the old one.
* `told`, `fired`, `lost`, `shots`, `activations`, `tracked`, `acts`, `window`, `reach`, `doubted`,
  `choice` and `consented` are history variables; no action reads them.
* `...Faults`, `MaxCrashes` and `MaxLate` bound restarts, failing writes, lost answers and
  leases that run out.

## 3. Runs

| Run | Shows | Bounds |
|---|---|---|
| `BridgeReconnect` | two reconnects, a disconnect, the lease-less sweep, the orphan proof, the health check and restarts against the worker: critical sections are covered by live leases, rooms go only without row and reconnect, with evidence, closed jobs stay closed | 2 connects, 2 generations, 1 room, 1 attempt, 1 restart |
| `BridgeRooms` | several rooms, an owner who comes to share them, the canary limit, lost answers, a restart, Signal's late row deletion, cycles without an admin token; a confirmed job settles | 1 generation, 2 rooms, 2 attempts, 1 restart |
| `LightRuns` | a message dispatched twice, given up, restarted or sent again under a device that is linked and unlinked; `LightToolPromise` is implemented; codes link once; no change is lost | 2 devices, 2 accounts, 3 offers, 2 messages, 2 requests, 2 tasks, 2 endpoints, 1 fault, trial of 1 |
| `LightLive` | every message ends, every change is announced | 1 message, 2 tasks, 1 endpoint, 1 fault |
| `PurgeAndBilling` | what was not proved to be ingested stays; recorded histories are gone; the limit holds; no overage without consent, one owner of a webhook | purge: 2 events, 3 periods, 1 attempt, 1 task in flight, 2 faults; billing: 2 invocations, 1 event, 2 deliveries, 1 switch |
| `Jobs` | reminders, watches, rules, commitments, digests, agents, outbox and webhook texts: once means once | two of every task that can overlap, 1 fault each |
| `JobsLive` | due reminders settle, the backlog arrives but for what spam crowds out, usage arrives | as `Jobs` with 1 edit, one agent's turn as usage and no digests of events alone |
| `BridgePolling`, `BridgeRemoval`, `LightImageReplay`, `OverageDisable`, `RecoverySpam` | five statements of the documentation or of comments that the code does not keep (section 6) | as small as shows it |

The larger runs explore several *scenarios* (`MCBridgeSystem`, `MCLightTool`) or *parts*
(`MCPurgeBilling`, `MCJobs`), one of which is chosen in the initial state and kept. A
scenario restricts which tasks take part, never what a step does:

* `BridgeReconnect`: `reconnect` (two connects, disconnect and sweep, no audit),
  `orphan` (one connect, health check and audits), `crash` (one connect, disconnect, a
  restart anywhere).
* `LightRuns`: `runs` (one message and account, two tasks, the supervisor, faults),
  `pairing` (all devices, accounts and offers, no messages), `push` (a linked device, two
  messages in a fixed order whose runs do not fail, endpoints, faults, no supervisor),
  `replay` (two requests, both messages and texts, the trial).
* `BridgePolling`: `sweep` (a disconnect runs only while no reconnect is under way, and the
  sweep deletes the row it selected), so that the counterexample is the one section 6
  describes and not a disconnect that meets a newer row, which is `BridgeRemoval`.
* `PurgeAndBilling`: for the purge `boundaries` with faults, `legacy` (a room with a past),
  `histories` with faults and `both` together; the second fault, in the histories only,
  serves to deliver an event late. For the account `provision` (two invocations, no opt-in
  of old), `webhook` (one invocation, two deliveries of a failed payment) and `check` (one
  invocation of a user who had opted in, a delivery of any event and an entitlement check).
  The two components share no table and no task, so nothing is lost by keeping one at rest.
  `OverageDisable` is `optin`: two invocations for a user who had opted in.
* `Jobs`: one part for each module. The parts of `MCJobs` share no table, so nothing is
  lost by exploring one at a time; `JobsProofs` carries the results to the composition.

`LightLive`, `BridgeRooms`, `BridgeRemoval` and `LightImageReplay` restrict nothing;
`RecoverySpam` runs one part of `MCJobs` (`digests`).
`PurgeAndBilling`, `Jobs`, `JobsLive` and `RecoverySpam` do not check deadlock: bounded work
comes to an end there.

Two generations are the smallest number at which an old job meets a new row, two
connects the smallest at which a stale monitor meets another attempt, and two rooms
the smallest at which a job is half done. Two tasks are the smallest number at which a
run is dispatched twice, two messages the smallest at which a change is queued during
the delivery of another, three offers the smallest at which a replaced and a consumed
code meet a fresh one. One device is enough for runs and push, because rows of
different devices are never touched by the same statement except by the supervisor and
`claim_due`, which treat each row alone. `MaxAttempts = 1` makes every retry the
last one, `2` gives one retry that can succeed. Two provisioning invocations, flushes, passes,
ticks, handlers, answers or webhook calls are what it takes to overlap. Two events make
one purge reach over another event; three periods let an event become due, be retried
and be followed by a second census. A digest limit of 1 with two messages, a cap of 1
with two requests and one credential with two pairings put each limit where it is met.

Fairness (`BridgeRooms` only): the worker's loop runs, and a job that stays open is
listed again and again, because `not_before` is a finite delay and jobs are taken
oldest update first (`SF` on `ListDue` with that job, as the job may be closed or the
worker busy in between). The one assumption on the outside is the worker's own admin
login: `admin_access_token` succeeds now and then in cycles that have listed the job (`SF`
on `AdminLogin`), because a cycle without a token is given up and uses none of the job's
attempts, so a homeserver that refuses the admin for ever keeps jobs open for ever. Nothing
else is assumed of users, the bridge or the homeserver; their steps may never happen. `LeaseExpires` needs no fairness: a job that meets a
foreign lease uses up its attempts.

Fairness of the Light Tool (`FairSpec`): every request, dispatch step, announcement and
supervisor step that can run does run, the clock reaches every deadline, and the worker
claims and settles. Nothing is assumed of the responder, so `RunsEnd` rests on the
supervisor; it excludes only a responder that reports progress for ever, which does keep
a run alive in the code. For `ChangesArrive` a delivery that is tried again and again
must now and then find its registration and be answered (`SF`). This is an assumption on
the endpoint, not on the code: a host that is never allowed is retried for ever.

Fairness of the jobs (`FairSpec` of `MCJobs`): the scheduler starts its passes and their
steps are taken, the clock moves, leases end, a reset that has begun is finished, flushes
run and rows become due (`WF` for each). One `SF` for each kind of sending says that a
provider which is offered a reminder, a digest or a batch of usage again and again
accepts one at last. Faults are bounded, so they end.

## 4. Properties

Bridges:

* `LeaseExcludes`: each task inside a critical section holds a live lease.
* `DeleteExcludesReconnect`: a room is purged only while no row exists and no
  reconnect is inside its lease. It holds with `ReconnectMayOverrun = FALSE` and fails
  with `TRUE`: nobody renews a reconnect's lease.
* `EvidenceBeforeDelete`: the job row still carries a confirmed portal cleanup, or a
  verified absence, when the room goes, although the worker decided from a snapshot.
* `OrphanProofTakesTwo`: two absences, the first aged and still on record.
* `SuccessAccountsForEveryRoom`, `DeletedRoomsAreGone`: what a closed job and a
  succeeded room mean.
* `ClosedJobsStayClosed`, `JobsSettle`: a job ends, and ends once; it ends whatever probes,
  audits and deletions are answered, given an admin login that now and then succeeds.

Light Tool:

* `KeepsPromise`: the refinement of `LightToolPromise`. `phase` is the run's status with
  `queued` and `running` merged, `owner` the account linked when the run was committed,
  `asked` the record of calls to the responder.
* `TrialIsMetered`: the counter equals the number of anonymous runs and never passes the
  limit.
* `TextReplayIsFree`, `ReplayIsFree`: a replay is refused only if it differs.
* `EndIsAnnounced`: while nothing has failed, an ended run has had a push queued after
  its end, or the task that ended it is about to. After a failure the code does lose
  pushes, which the hazards record.
* `OfferLinksOnce`, `ConnectedIsTrue`: pairing.
* `NoChangeLost`: settling a push never discards a change queued since.
* `ForgottenWasRefused`: an endpoint is only forgotten on the phone's request or after that
  endpoint itself has answered 404 or 410, although pushes to several endpoints of a device
  are answered late.
* `RunsEnd`, `ChangesArrive`: liveness.

Billing and purge:

* `OverageNeedsConsent`: an account is marked for overage, or sends usage to a contract
  whose threshold is on, only after the user agreed. The provider's package has it on by
  default, so this depends on the order of provisioning under failures and overlaps.
* `WebhookHasOneOwner`: two deliveries work on one event only if a lease ran out.
* `CostIsOnRecord`, `SentWasIngested`, `UsageArrives`: usage is on record from the moment
  it costs, is in the outbox before the answer goes out, counts as sent only when the
  provider has it, and gets there.
* `UnprovenIsKept`: no purge reaches over an event behind a blocker that was never stored,
  except one that is first blocked by a late delivery (section 6).
* `HistoryIsGone`, `InFlightIsBounded`: what a succeeded history means, and the limit that
  both tables share.

Jobs:

* `NotifiedWasSent`: a reminder counts as notified only after a notification since its
  time was last set, except one that was overtaken (section 6). `RemindersSettle`: a due one is not left behind.
* `RowFiresOnce`, `OneShotRunsOnce`, `ReplyTracksOnce`, `OnePromptPerSender`, `KeyActsOnce`:
  at most once, against messages that arrive together, ticks that repeat, answers
  delivered twice and requests sent again. A row of `pending_reply_watches` may fire once
  more for each answer that was lost, since that error puts it back; and the property is
  about rows, of which an agent's watch has one per mailbox (section 6).
* `BacklogArrives`: a message that can wait does not wait for ever, unless as many newer
  pending spam messages as the query returns crowd it out (`Crowded`). `BacklogNeverStrands`
  is the same without the exception, as the code's comment has it; it is violated.
* `TextReachesOnce`: at most one copy of a text can reach the user, over all calls with its
  key in a day, all providers tried, and all replays of what Twilio failed.

## 5. Proofs

Every safety invariant and every action property that a passing run checks is also a
theorem, for all values of the constants. Each inductive invariant was checked by TLC on
the runs' instances before it was proved. The proofs use only the named assumptions of
the modules they extend: that the NULL values are no members of their sets, that ticks
and arrivals, turns and messages are different things, that bounds are natural numbers
(limits that a listing, an attempt or a retry needs are positive) and flags Booleans, that
the seeded rooms are rooms, and that there are finitely many message ids.

Two ideas recur. A proof about a large module first shows how a step *moves* the part of
the state the invariant speaks of (`StepMoves`, `MovesTo`, `RowsMove`, `DetectionMoves`,
`ConsentMoves`): a short disjunction or a monotonicity that holds for every action, so
that the invariant is argued about once and not once per action. And where the code
counts, the invariant counts what is promised along with what is done: slots in hand with
purges in flight, claims with runs, anonymous rows with the counter.

**Bridges** (`BridgeSystemProofs`):

* `TypeCorrect`: `Spec => []TypeOK`. `TypeOK` is not inductive, because the budget is
  decremented when a delete is answered; `BudgetReserved` adds that it is positive from
  the moment a room is chosen.
* `LeasesExclude` and `DeletionExcludesReconnect`, from `~ReconnectMayOverrun`. The
  inductive invariant is `LeaseInv`: types, `LeaseExcludes`, and `GuardedQuiet`, that
  no row exists between a renewal and the end of the delete it covers. It is inductive
  because rows are only inserted by holders of a live lease.
* `EvidencePrecedesDelete` and `OrphanProofIsDouble`, with no assumption on leases. The
  invariant `EvidenceInv` says that a proof found in the snapshot is still in the job's
  row. For a generation's job this rests on `MarkedOnce`: a disconnect reports the
  portal cleanup of a generation once, since by then its row is gone or marked; for an
  orphan audit on the worker being the only writer, which drops its snapshot whenever it
  takes a proof back.
* `SuccessIsComplete` and `ClosedIsFinal`, from `RoomsInv`. To `EvidenceInv` it adds
  `OpenInv` (the jobs of the batch and the one being processed are open, since only the
  worker closes any), `Seeded` (a queued job has all the rooms a disconnect names, so
  queueing it again adds none to a job that is under way or closed) and
  `RoomsAccounted`: each room is settled or yet to be visited, unless one has failed or
  was deferred, which keeps the job from succeeding.
* `DeletedIsGone`: a room is recorded as deleted only after the homeserver removed it, and
  rooms do not come back.

**Light Tool** (`LightToolProofs`):

* `TypeCorrect`, one group of tables at a time; `StepMoves` splits a step into what it
  does to devices, push tables and runs, and every later proof starts from that.
* `OffersLinkOnce`, `ConnectedIsLinked`, from `PairingInv`: a consumed session is backed
  by the link it made (which is why disconnecting has to delete it), tokens of two
  accounts differ, tokens not yet issued and open ones have linked nothing.
* `ChangesAreKept`, from `PushInv`: a delivery in progress has a row, at a version no
  newer than the row's, and once it has been answered a change that is owed has raised
  the version. The guard on the version in `complete` is what makes this inductive.
  `ForgottenWereRefused`, from an invariant that links a delivery told that its endpoint is
  gone to the record of that answer.
* `TrialMetered`, by counting: only `CreateRun` adds an anonymous run, one at a time.
* `PromiseImplemented`: `Spec => KeepsPromise`. The invariant `PromiseInv` says that a
  run not yet claimed has not been asked, that the task which claimed it is the only one
  between claim and question, and that a row keeps the account and text it was created
  with. Creating a run maps to `Accept`, `StartResponder` to `Ask`, everything that ends
  runs to `End`, the rest to stuttering.
* `TextReplaysAreFree`, from `ReplayInv`: a row keeps its content but for the image
  (`ContentKept`), and a request that was answered from a row names one that exists.
* `EndsAreAnnounced`, from `EndInv`. It needs `PassStartsClean`: the supervisor sleeps with
  nobody left to tell, so the devices it collects next replace none.

**Billing account** (`BillingAccountProofs`):

* `BillingTypeCorrect`, with `SwitchInv`: only invocations of the overage switch reach its
  steps.
* `WebhooksHaveOneOwner`, from `OwnerInv`: an event being handled is leased, or its lease
  ran out under the handler. The property alone is not inductive, since a claim has to
  find the lease of the other delivery.
* `OverageIsConsented`, from `ConsentInv`: the row is written with overage only by
  invocations whose caller consented; an account becomes provisioned, or an invocation
  gets to that write, only with the threshold of an existing contract turned off, and no
  step turns it on again without consent.

**Usage outbox** (`UsageOutboxProofs`): `CostIsRecorded`, from `CostInv` (an intent is open as
long as its turn is under way), and `SentUsageWasIngested`, from `SentInv` (a flush that got
an answer marks a batch the provider has). `OutboxTypeCorrect` is the type theorem.

**Event purge** (`EventPurgeProofs`). `PurgeIsInductive` proves `PurgeInv`: types, that a sleeping
worker holds nothing, that a row beyond a blocker was stored or is no payload, that events
arrive in order, that what the worker polls or submits is provable, and `HistoryInv`.

* `HistoriesAreGone`: a history is recorded as purged by its own completed task or by one
  of another source that reached as far. `HistoryInv` follows the task: as long as it is
  active it reaches far enough, and when it is complete the past is gone. Events that
  arrive later lie behind the cutoff, because the cutoff is before the present period.
* `FlightsAreBounded`, from `SlotInv`: purges in flight plus what the worker has listed and not
  yet submitted stay within the limit. The bound alone is not inductive.
* `UnprovenEventsAreKept`, from `KeptInv`: from the moment a purge is listed until its task
  ends, also when its id was lost, all it covers lies in the past and is not kept. The
  attempt to prove an earlier form of the property, without `late`, failed and showed
  the window of section 6.

**Jobs** (`SchedulerProofs`, `IdempotencyProofs`, `JobsProofs`); each module has a type theorem
(`ReminderTypeCorrect`, `WatchTypeCorrect`, `RuleTypeCorrect`, `CommitmentTypeCorrect`,
`DigestTypeCorrect`, `AgentTypeCorrect`, `SmsTypeCorrect`):

* `NotifiedMeansSent`, from `NotifiedInv`: a row in `reminder_sending` for which some pass has
  sent and not settled belongs to a reminder the user was told of, or was overtaken. The
  failed attempt to prove it without the second case is why `told` has three values.
* `RowsFireOnce`, from `WatchIInv`: a row is in the table or with one handler, and while it
  is in either it has fired no more often than answers were lost.
* `OneShotsRunOnce`, from `ShotInv`: runs, tasks with a claim, and the claim an active rule
  still allows never exceed the activations.
* `RepliesTrackOnce`, `SendersArePromptedOnce`, from `CommitmentIInv`: the answer that claimed a
  prompt is the only one about to create its event and has not yet done so; a sender has
  one unresolved prompt, because a unique index refuses the insertion of another.
* `KeysActOnce`, from `KeyInv`: a key's row is held while a request works under it, by one
  request, which has not acted yet.
* `TextsReachOnce`, in three layers. `CopyInv` (`CopiesAreSingle`): the text of one call is
  with at most one provider or replay. `RowInv` (`RowsAreExclusive`): one call works under
  a key's row. `WindowInv`: of the calls under one row at most one has a live text, none
  after the key was given back.
* `JobsTypeCorrect` and `JobsAreSafe`: the parts share no variable, so a behaviour of the
  composition is one of each part (`SpecProjects`), and all nine invariants carry over.

Only model-checked: the liveness properties `JobsSettle`, `RunsEnd`, `ChangesArrive`,
`RemindersSettle`, `BacklogArrives` and `UsageArrives`, since fairness and `ENABLED` are outside
the proof system's reach, and the five violations, which are counterexamples.

## 6. Where code and documentation differ

1. `BridgePolling`: `.env.example` says that reconnects block room deletion. The sweep
   deletes a `connecting` row after five minutes while its monitor polls for eight to
   ten, and the worker then sees nothing of that reconnect. In the trace an older connection
   has been disconnected, with nothing else under way, and its job confirmed; the user
   reconnects, the sweep deletes the new row, and the worker purges the older connection's
   room while the monitor polls.
2. `BridgeRemoval`: a job is to be stored before its row is removed. `delete_bridge`
   removes whatever row is there, also one newer than the one that was queued.
3. `LightImageReplay`: a replay is to return the original run, and a refused one is told
   that its content differs. The stored image is part of the comparison and is cleared
   when the run ends, so the same image message sent again later is refused.
4. `OverageDisable`: `docs/METRONOME_BILLING.md` says that the migration marker keeps a later
   disable by the user. The marker is looked at in an account read before an exchange with
   the provider, and the update after it filters on the user only, so a disable in between
   is overwritten by the legacy opt-in.
5. `RecoverySpam`: the comment on the recovery digest says that preferences "must never strand
   a real `later` backlog indefinitely". The query takes the 30 newest pending messages and
   spam is left out afterwards, and never marked as delivered; so spam that fills the query
   strands every older message, in the recovery digest and in the normal ones.

Two windows the code leaves open are assumptions of the checks and not runs of their own.
Migration 51 says that reconnects and cleanup are serialised, but the reconnect lease
lasts 300 s and is never renewed: `DeleteExcludesReconnect` fails with
`ReconnectMayOverrun = TRUE`. And `.env.example` says that shared owners block deletion,
but `audit_room` looks once, so another owner may connect before the request is served
(`OtherUser` between `audit` and `inflight`).

Other windows that the models contain and no property excludes, because the code leaves
them open:

* A pass that outlives its two-minute lease sends a reminder that the next pass sends too.
  When a pass has sent a reminder that is then moved, and a second pass claims the new
  one before the first has settled, the first settles the new one too: the filter of
  `mark_reminder_delivered` on the status does not tell them apart.
  The expiry loop at the end of a pass (`jobs/scheduler.rs:1232`) writes over a reminder
  that was moved after it was read.
* A restart between claiming a reply watch and notifying loses the watch. When a provider
  takes the notification and its answer is lost, the row is put back and notifies again,
  which `RowFiresOnce` counts.
* `src/docs/AGENT_INTEGRATION.md:36` says that an agent's watch fires once. It is a row per
  mailbox and nothing removes the others when one fires, so it can fire once per mailbox
  (`ArmAgent` puts a row in every place). `RowFiresOnce` is therefore about rows, and says
  nothing of that statement.
* A one-shot rule that is claimed and then skipped for its budget, or lost in a restart,
  stays completed.
* A prompt nobody answers stays open: the job that `commitment_repository.rs:286` names
  for it does not exist.
* If both storing a message and writing its marker fail, no blocker protects the event.
  Blockers are looked at when a purge is listed and not when it is served: an event whose
  handler died without a row, and whose delivery a period later writes the first blocker,
  may lie in the range of a purge that is under way.
* A payment-failure webhook turns overage off in the account and not at the provider.
* A provider that takes a text and answers with an error is followed by the next one. A
  restart between the claim of a failed text and its replay loses it, and so does a report
  that comes more than about 1.5 s before the log row. A webhook call whose user cannot
  be read leaves its key in flight for a day.

## 7. Not modelled

* Errors of repository writes that the worker drops (`let _ =`): a status write that is
  lost is repeated in the next cycle from the same row, as after a restart.
* A delete the homeserver serves after the client has given up.
* Several disconnect handlers of one user at once: the second is refused the lease.
* Light Tool: deletion of an account (its cascade removes sessions and runs), the voice
  session, history reads, batch sizes, several outbox workers (`main.rs` starts one), and
  what the responder does.
* Billing: prices and amounts, the legacy credit ledger that Metronome replaces, the
  cutover entry, notices of a low balance.
* Event purge: dry runs, `tuwunel_history_prune` and the storage report, which only look;
  batch sizes; how a census pages through rooms.
* Jobs: the flow and the actions of a rule, morning briefings, temporary suppressions
  (a free choice where they are consulted), `purge_old_messages`, which removes messages
  older than a month.
* SMS: report columns and prices, the number a text is sent from, callbacks of Telnyx and
  Sinch, which write reports and queue charges as `MessageCallback` in `UsageOutbox` does.
* Voice, the agent and its tools, MCP, own Twilio numbers, Tesla, YouTube, IMAP: exchanges
  with outside services whose state is theirs, or lasts as long as a call.
* Accounts, subscriptions, admin, dashboards and statistics: each request validates and
  updates rows in one transaction, or reads; there is no protocol between two of them.
* The frontend, a third of the Rust code, and the clients, scripts, contracts and pages:
  views of the state above, with no state machine that outlives a page.

The map covers a small share of all lines for that reason, and because most of the
backend's lines parse, format, prompt, validate or test.

## 8. Plan

1. (done) The bridge lifecycle and the cleanup worker, with proofs.
2. (done) The Light Tool: pairing, runs, push, its promise, with proofs.
3. (done) Tuwunel event purge.
4. (done) Usage billing: the account, the outbox.
5. (done) Reminders, watches, rules, commitments, digests; agent actions; SMS fallback, late
   reports and webhook keys.
6. (done) Proofs of all safety and action properties that runs check.
7. Abstract specifications of the webhook key and of the usage outbox (at most once, at least
   once) that `SmsDelivery` and `UsageOutbox` implement, with refinement proofs as for
   `LightToolPromise`.
8. Account deletion: the cascade over Light Tool rows, and over bridges and jobs.
