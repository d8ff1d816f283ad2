# Formal models of Nervion

Nervion is a multi-tenant work tracker: a NestJS API (`apps/backend`), a web
client (`apps/frontend`), PostgreSQL data shards with row-level security, one
platform database with tenants and memberships, Redis, S3 storage, a mail
provider and a release pipeline (`deploy/`). These modules model the parts of
the service whose correctness depends on the order in which replicas, users,
operators and external systems act.

## The system and its parts

| Part | State | Operations | What must hold |
|---|---|---|---|
| Mail outbox (`mailbox/mail-outbox.service.ts`) | `mail_outbox` rows, `mail_messages.status`, one `running` flag per replica | enqueue, claim, deliver, settle, abandon | a message is handed over at most once; "failed" is safe to retry; every message gets an outcome |
| Messages and drafts (`mailbox/mailbox.service.ts`) | `mail_messages` | send, save draft, send draft, delete, retry | an edit does not bring a stale status back |
| Delivery events (`mailbox/mail-delivery.service.ts`) | events, delivery status, counters | apply an event, find its message | the status never goes back, an event counts once |
| Seats (`platform/platform.service.ts`, `users/users.service.ts`) | `platform_memberships`, `platform_tenants.seat_limit`, `users` | reserve, activate, release, archive, synchronise, reconcile | seats stay within the limit; no access without an account; both databases agree |
| Tenant transactions (`tenancy/tenant-database.service.ts`) | one transaction and its hooks per request | run, commit, roll back, hooks | hooks run after, and only after, their outcome |
| Tenant jobs (`tenancy/tenant-jobs.service.ts`) | `tenant_jobs` | enqueue, schedule, run one, retry | the effects of a handler commit with its completion |
| Voice cluster (`voice/`) | lease in Redis, lease and rooms per node, command queues | route, join, leave, renew, fence, sweep | one SFU per room; a node without its lease stops |
| Voice room in a tab (`composables/useVoiceRoom.ts`) | `sessionGeneration`, transports, consumers, microphone, screen | join, leave, consume, share, stop; the gateway's events | what is captured is captured in a session; a connected participant hears the room |
| Healthchecks (`healthchecks/`) | `healthchecks` rows, timers or probe jobs, the last alert | create, change, remove, probe, alert | the chat's last alert agrees with the row; a removed monitor stays removed; an active one is probed |
| Calendar reminders (`calendar/`) | `calendar_event_reminders` with a lease | claim, notify, mark; replace, remove | a participant is reminded once; what is marked was notified |
| Time tracking and billing (`timelogs/`, `tasks/`, `reportings/`) | timer rows, `billing_type`, reviews, fixed revenue | start, pause, complete, delete; close, change billing; review | time that ran is counted once, in whole seconds; a task is billed one way |
| Git copies (`git/`) | `repos.gitdir`, directories, cleanup jobs, advisory lock | create, fetch, delete, clean | a row has its directory; no directory is forgotten; the limit holds |
| Release (`deploy/release/run.sh`) | three head files, lock, migration container, services | prepare, migrate, deploy | nothing is deployed that was not migrated; one migration at a time; the deployed head names what runs |
| Certificate sync, host monitor, storage migration | certificate link, monitor state, session lock | switch, restart; copy | not modelled |
| Everything else (CRM, projects, wiki, chats, files, notifications, the rest of the front end) | rows | CRUD | database constraints |

Interactions: every request runs in one transaction of its tenant's shard
(`TenantDatabaseService.run`). The platform database, Redis, S3 and the mail
provider take part in none of these transactions, so each call to them from
inside a request is a point where the two sides can disagree. They are brought
together again by hooks after the commit or the rollback, by tenant jobs and by
timers that every replica runs. This is where the hard behaviour lies, and what
the models are about.

## Modules

| Module | Role |
|---|---|
| `MailOutbox` | the queue of outgoing mail of one tenant: replicas, requests, provider |
| `MailPromise` | what outgoing mail promises its user, without replicas and crashes |
| `Memberships` | accounts and seats of one tenant in two databases |
| `MembershipsProofs` | theorems about `Memberships` |
| `VoiceCluster` | one voice room on several replicas: lease in Redis, local fence, command queue |
| `RoomPromise` | what the voice cluster promises about a room: a lock with a lease |
| `VoiceClusterProofs` | theorems about `VoiceCluster`, refinement of `RoomPromise` included |
| `TenantJobs` | the job table of several tenants, the ticks of several replicas, the transaction of one job |
| `JobPromise` | what a job promises whoever enqueued it |
| `TenantJobsProofs` | theorems about `TenantJobs`, refinement of `JobPromise` included |
| `MailDelivery` | delivery events in batches, folded into the message row |
| `MailProofs` | theorems about `MailOutbox`, refinement of `MailPromise` included, and `MailDelivery` |
| `GitCopies` | private repository copies: rows in the database, directories on disk |
| `ReleaseRunner` | `run.sh`: head files, lock, migration container, replacement of services |
| `OperationsProofs` | theorems about `GitCopies` and `ReleaseRunner` |
| `Reminders` | reminders of one meeting, hosted and on its own |
| `Monitors` | monitors of one tenant, probed by jobs or by timers |
| `MonitorsProofs` | theorems about `Monitors` |
| `Billing` | one task: its timers, its billing type, its reviews |
| `WorkProofs` | theorems about `Reminders` and `Billing` |
| `VoiceCalls` | commands between two replicas: envelopes, replies, the cache that knows a repeated one |
| `VoiceSession` | one browser tab in a voice room, with the gateway's answers and events |
| `VoiceSessionProofs` | theorems about `VoiceSession` and `VoiceCalls` |
| `MCMailOutbox`, `MCMemberships`, `MCVoiceCluster`, `MCTenantJobs` | instances for TLC (symmetry sets, functions that are constants) |
| `MCServices` | one small instance of each module that is not checked by a run of its own; `part` says which one moves |

A module per component, and components meet where the code lets them meet through
state. `MailOutbox` holds the outbox and the edits of its messages together, and a
delivery event there is the action that settles a row; `MailDelivery` has the other
half of that handler, the snapshot. `Memberships`, `GitCopies` and `Monitors` each
contain the tenant job they depend on as steps of their own (take, apply, retry,
give up); that these steps are what a job may do is the subject of `TenantJobs`,
which knows a handler only as work, success or failure.

### MailOutbox

`status` is `mail_messages.status`, `outbox` is `mail_outbox.status`; both are
functions on messages because of `UNIQUE (tenant_id, message_id)`. A worker is
a replica: `pc` follows `tickDetached` from the claim transaction (`Claim`,
`Sweep`) over the first policy check (`OpenDelivery`), the attachments and the
second policy check (`RecheckTenant`) and the second look at the message
(`RecheckMessage`) to the request (`Dispatch`) and what comes
back (`RecordSent`, `Refused`, `OutcomeUnknown`, `CommitAnswerLost`), then the
maintenance transaction (`Settle`, or `LeaveClaim` for a tenant that may not be
written). `Crash` stops a replica anywhere; its call may still be on the wire
(`stray`). `ClaimAges` is the passing of 15 minutes and `Abandoned` the claims the
next sweep gives up. `EditRead` and `EditWrite` are the two halves of `saveDraft`
and `softDeleteMessage`, which read an entity without a lock and save all of it.
`accepted` counts what the provider took; the code cannot see it.

Between `RecheckMessage` and `Dispatch` the worker awaits `assertSenderAccess`, which
reads the platform and the users. A worker that stalls there for 15 minutes sends a
message whose row another replica has declared uncertain meanwhile. The code does not
prevent this; `LateRequestIsTheOnlyOne` says why it does no harm: the message was not
accepted and nobody else is sending it, and its row is sending or uncertain, neither of
which `retryMessage` takes for a failure that may be sent again.

Abstracted: the sweep's loop over tenants and its limit of ten messages (a
worker may stop after any message), message contents, `delivery_status`, sender
checks (`PreparationFails` covers every reason they fail), and the database
deadlock between the claim and the confirmation, which PostgreSQL resolves by
aborting one side: that is `OutcomeUnknown` or `Crash`.

### Memberships

`account` is the row of `users`; `member` the status of the platform membership
and `linked` whether it carries a local user id. A request goes through the
stages open (before the reservation), ready (before the commit), hook (commit
hooks pending) and undo (rollback hooks pending). `CommitData` saves the account
together with the `membership-sync` job. `SyncTake` is the job's read of the
account, `SyncApply` the platform transaction after it. `ReviewList`, `ReviewRead`
and `ReviewWrite` are the three separate database accesses of
`reconcileMemberships`. A process that stops between any two of these steps is
`RequestCrash` or `SyncOutage`.

`Faults` names what a run allows: "overlap" lets work on one account overlap
(two requests, a job and a request, a reconciliation and a job); "ambiguous"
lets a commit take effect although the client is told it failed
(`CommitReportedFailed`), so the rollback hooks run for a committed account.

`reconcileMemberships` is an endpoint that an operator may call: `Operator` is part of
the next-state relation and of no fairness. That a reservation ends is therefore not
true of the system left to itself (finding 1).

### VoiceCluster

`owner` and `ttl` are the owner key in Redis and what is left of its 30 seconds.
Everything else is the memory of a process: `lease` is the entry of
`VoiceClusterService.leases` as an age, `job` the command at the head of the room's
queue and how far its handler has come, `room`, `creating` and `peers` the SFU's
router, its creation token and the participants with the age of their last
authorization. A handler is cut at every `await` after which state is used again:
`Start` and `FirstAnswer` are `assertOwnership` in the queue, `Authorized` and
`SecondAnswer` the second one in the handler, `Enter` the read of the user and
`Created` the new router. `Heartbeat`, `Sweep`, `RenewAnswer`, `RedisError` and
`Misrouted` act outside the queue, between any two of these. A call takes effect in
Redis in one step and is answered in another one; `asked` keeps the answers of a
node's connection in order. Without it an answer of `SET NX` could overtake the
release sent after it, and `LeasedRoomIsOwned` would fail. `slipped` and `stale` are
history variables.

Time is counted in ticks of ten seconds: `Lease` is 3 and `Fence` is 2, for both
`FENCE_MS` and the sweep's deadline. A timer that runs every second is due before
the next tick; a hanging event loop is outside the model (`docs/saas-voice.md`
leaves it to a liveness probe). Ages stop counting at `Fence`, where every reader of
them treats them alike. A process that starts again has a new `nodeId`: what the old
one left in Redis belongs to `Dead`.

Abstracted: commands on an existing participant ("use") change no ownership;
transports, producers and the limit of 50 participants are left out; commands that
wait in the queue have no state; a command may reach a node that is not, or no
longer, the owner, so how it travels adds no behaviour here: that is the subject of
`VoiceCalls`. The
evaluation of `OWNER_RELEASE` may fail but is not delayed: a connection evaluates it
before a later `SET NX` of the same node.

`RoomPromise` is what all of this promises to the rest of the system: a lock with a
lease. Its `holder` is the key, `left` the time until it expires, and `serving` the
replicas that have a router and a lease that is still fresh. `KeepsRoomPromise` says
that every step is one of `RoomPromise`: the room is taken only when nobody holds or
serves it, given back only by the holder and together with its router, extended only
while it is held, served only by the holder and with a margin (`Safe`) before the key
expires; when a process is gone, the key waits for its end.

### VoiceCalls

One source, one owner, one room. `caller` is the promise that `execute` returned and,
while "waiting", an entry of `pending`; `envelope` says of each message on the owner's
channel where it is: `SendCall`, `Received` (the tests up to the first `await`), `NotOwner`
(`assertOwnership` failed, which closes the room: `VoiceCluster!Misrouted`), `AwaitAgain`
for an id that `completed` knows or `Accept` for a new one, `PublishReply` and
`ReplyArrives`. `waiting` is the room's queue, `RunCommand` and `CommandEnds` its head.
`Duplicate` delivers an envelope again at any time; a message in "sent" for ever is a lost
one. Time is the owner's: a call is before its deadline ("open"), has a reply that is still
kept ("late") or not ("over"); clocks differ, so the source gives up when it likes.
`ForgetReply` is the last loop of `renew`, `OwnerStops` the end of the process.

`runs` and `hung` are history. `receive` does not read the deadline again after
`assertOwnership`: a repeated envelope whose receipt waits for Redis until its reply has
been forgotten, ten seconds after the deadline, is executed again. `hung` names such calls,
`CallsRunOnce` says that there is no other way.

Abstracted: the limit of 1000 pending calls, which refuses a call before it is sent;
commands of the owner's own sockets, which share the queue and may fill it.

### TenantJobs

`status` and `attempts` are columns of `tenant_jobs`; `due` are the pending rows whose
`available_at` has come and `ahead` the due rows before a row in that order. A slot is a
replica's call for one tenant. `TickBegins`, `TenantScheduled`, `RoundBegins`,
`BatchBegins`, `BatchEnds` and `TickEnds` are `tick()`: the schedules of every tenant, then
rounds in which each tenant has one job run, `Concurrency` tenants at a time, and comes
back in the next round when its job ran. `PickJob` is the SELECT with `FOR UPDATE SKIP
LOCKED`, `HandlerWrites` and `DetachedWorkEnds` are the two parts of a handler's work (what
it awaits, and what it leaves running), `SavepointReleased` and `SavepointRolledBack` wait
for the second (`drainTenantWork`), `Commit` makes work and row visible, `RunHooks` runs
the hooks after it. `TransactionLost` is a lost connection, `CommitAnswerLost` a COMMIT
that took effect without an answer, `Crash` the end of a process, `Pause` and `Resume` an
operator who makes a space read-only or suspended.

`JobPromise` has the status of a job, its attempts and the parts of its work in the
data; `TenantJobs` implements it WITH `state <- status`, `tries <- attempts`,
`seen <- writes`, so savepoints, detached work, replicas and crashes are invisible to
whoever enqueued the job. An attempt is counted only when a handler fails and the
transaction lives: a job whose transaction always dies is tried for ever and never
becomes "failed" (no property covers that, see the hazards). `EveryJobSettles` assumes
finitely many lost transactions (`MaxFaults`).

### MailDelivery

A request of the webhook (`Ingest`) has a batch and one transaction. `FindMessage` is
the read without a lock, `ApplyEvent` the read under `FOR UPDATE` with the look-up of
`provider_event_id` and `updateMessageSnapshot`; `draft` and `fresh` are what the
transaction has not committed. Batches come again in any number, two at a time.

The row has other writers. `OutboxClaims` and `OutboxRecordsSent` are the outbox's
(`UPDATE ... WHERE delivery_status IS NULL`), `QueueDraft` is `sendDraft`, which sets the
delivery status to null. `softDeleteMessage` and `saveDraft` save a whole message:
`SaveRead` is their read, `SaveCompare` the second read of TypeORM's `save`, `SaveWrite` the
UPDATE of the columns that differed. An event, or the outbox, may write between any two
of them, and what it wrote is then undone, the status "draft" included. `overwritten` is
history: the messages to which that has happened. For those `SnapshotMatchesEvents` still
says that nothing is counted twice and no status shown that no event gave;
`DeliveryOnlyAdvances` says that nothing but such a write sets anything back. A deleted
thread takes its messages and their events along and is left out. Events of the kinds Send
and Complaint are not in the instance that TLC checks; the proofs are about all kinds.

### GitCopies

`gitdir` is the committed column, `disk` the directories, `made` the directory a
request has created and its rollback hook will remove, `previous` the one it replaces.
`gitLock` is the advisory lock of `assertWritable`, which holds until the transaction
ends and so, deliberately, not until the hook has run. `CleanupChecks` and
`CleanupRemoves` are the query and the removal of the job, between which any request
may act. `abandoned` and `doubtful` are history: directories whose removal was
interrupted for good, and copies of a COMMIT that took effect although its client was
told that it had failed. For those the rollback hook removes a copy in use:
`RowHasCopy` excuses them and nothing else.

### Reminders

`hosted` chooses between the two ways the service runs. Hosted, claim, notifications
and marks are one transaction (`SweepEnds`); on its own each statement commits at once,
and the lease of five minutes (`LeaseRunsOut`) is what keeps two processes apart.
`update()` reads meeting, participants and reminders, waits, and replaces all rows
(`ReadForUpdate`, `ReplaceRows`), also those of participants who are invited or removed
with it: `P` is any set, and a participant has a row while `invited`. The creator, whom
`update()` never removes, is reminded like a participant who stays. `gen` tells a row from
the one put in its place.

`notices` counts the notifications made for a participant of a moment. They are what the
mark vouches for: `createWithEmail` makes the notification and then logs what fails of its
mail, so a row with `sent_at` need not have been mailed, and no property says so.
`excused` lists when a second notification is no error: a crash or a failure (`MarkFails`:
the push subscriptions cannot be read, or the mark cannot be written) between notification
and mark, a lease that ran out during the delivery, an update that met a delivery, put the
time back, or invited again somebody who had been removed, whose new row knows nothing
of the old one. `processingReminders` is one flag per process for
all tenants: a sweep that finds it set ends without work and its job is completed. That
delays the reminders of one tenant until the next sweep and changes no state here.

### Monitors

`perTenant` chooses between probes as jobs, each in one transaction with the lock of
its row (`TakeProbe`, `CommitProbe`), and the timers of one process (`TimerFires`,
`ServerAnswers`, `ProbeSaves`, `ProbeWrites`, `SendAlert`). A TypeORM `save` is what it is in
the library: a second read, then an UPDATE of the columns that differ or an INSERT
(`SaveReads`, `SaveWrites`). `blurred`, `unwatched` and `returned` are history: how an alert
came to disagree, a timer to be missing, a removed monitor to come back.

### Billing

A clock of `Second` ticks to the second; `ran` is how long a timer really ran. A request
reads the timer (`ReadTimer`), reads the clock and is compared by `save` (`CompareTimer`), and
is written (`WriteTimer`); time passes between any two of these, and `delay` is how much of it
lies between the last two. A pause counts whole seconds and restarts from now
(`Elapsed`), so each of the `pauses` drops up to a second. `TrackedTimeFallsShort` says that this
is all that is lost and that nothing is gained. Any status may be asked for; `Offered` is what
`BaseTimetrack.vue` offers for a timer, and the property speaks of timers whose requests came
one at a time and as offered:
for the others (`uneven`) the recorded time is wrong in the code as well. The three
statements of `updateTask` with `syncTaskBilling` (`SaveTask`, `BillLogs`, `BillTask`) commit
one by one without tenants, which is the mode modelled here.

### ReleaseRunner

The three heads are the three JSON files, `flock` the lock on `release.lock`, which a child
process inherits: a killed runner (`killed`) keeps the lock while its docker client is at
work. `strays` are migration containers without a runner. `offered` says which release
the inputs of a commit make now, so that `Unchanged` is `verify_sources`. Files are
replaced by `mv`, one step each; a runner may stop between any two of them.

Two fingerprints of one commit may define a service alike. `docker compose up` then keeps
its container (`UpToDate`: the hash of the definition and the image), and `running` is the
release that made it, perhaps an earlier one. So `DeployedHeadIsTrue` speaks of
definitions: every service runs a container defined as in the release of the head
(`Runs`), which includes the commit label and the image (`ConfigAssumption`). It is
`up --wait` that makes this true. The two health passes compare less (`HasIdentity`: project,
service, commit, image): with `up --no-recreate` they would let the old container pass, and
that is the mutant. Inputs that change without a change of the definition, such as a
mounted script or secret, give a new fingerprint and no new container: what the deployed
head says of those is not true of the services, and no property claims it.

### VoiceSession

The composable is a set of callbacks over module-level state. A callback goes on after an
`await`, in whatever session there is by then; `generation` is `sessionGeneration`, and
every call keeps the number it began with (`of`). `join` says for each call of `joinRoom`
where it waits: `JoinRoom`, `SocketConnects`, `GatewayJoins` and `HearJoined`,
`TransportsMade`, the two loops over producers (`LoopGoesOn`), the browser's question for
the microphone (`MicrophoneGranted`), `MicrophoneProduced`. `pulling` are the calls of
`consumeProducer`, each between its command (`GatewayAnswers`), the answer (`HearAck`) and
the consumer (`ConsumerMade`). `Cleared` is what `leaveRoom` and the handler of
`disconnect` have in common, `SessionEnds` and `JoinFails` the ways there. A share of the
screen goes from `StartShare` over the browser's question (`ScreenPicked`, `PickRefused`)
to the transport's queue and `ScreenProduced` or `ScreenRefused`; it is stopped by the
panel (`StopScreenShare`), by the browser (`ScreenEnded`) or by the gateway (`GatewayRemoves`).
`wire` is the way from the gateway to the tab: `Hear` takes its first message, or, as a
counted fault, an answer that overtakes an event or the reverse, since a replica that does
not hold the socket sends the two on different channels.

`live` is what the browser's indicator would show: tracks that capture. The code has no
such set; it stops what it remembers (`Released`), and `CapturedOnlyInSession` says that
this is enough. `RoomIsHeard` compares what plays with the producers there are once
nothing is on its way. `hitch` excuses a session in which a command failed or a message
was overtaken: `consumeProducer` only logs a failure and asks no second time, so that
participant stays silent until the next join.

Four things the model shows in passing, which no document excludes. A second click on
the share button before the first share is done starts another one, which the gateway
refuses; the preview of the first, which goes on, disappears with it. A share whose answer
comes after 15 seconds is given up by the tab and kept by the gateway until the session
ends, so that no other one can be started. A share that the user ends with the browser's
button before `onended` is attached (line 517) stays shown while nothing is captured. A
`producer-closed` that overtakes the answer of `resume-consumer` leaves a dead tile or a
silent element (one of the cases of `hitch`).

Abstracted: one room and one tab, so a command of an old callback that would name another
room is refused for its session only; muting and the list of participants; the owner's
failures, which end the session as `SessionEnds` and are the subject of `VoiceCluster`;
both transports are one step, since nothing reads the first before the second is there.

## Runs

| Run | Bounds | Shows |
|---|---|---|
| `mail_safety` | 2 messages, 2 replicas, both kinds of edits | type, at most once, failed is final, message agrees with row, a late request is the only one |
| `mail_liveness` | 1 message, 2 replicas, both kinds of edits | outcome for every queued message, refinement |
| `mail_draft_race` | 1 message, 1 replica, saveDraft | finding: a message may stay "queued" |
| `memberships` | 2 accounts, 2 requests, 1 runner, 1 seat, both faults, no reconciliation | the seat limit under overlapping work; access needs an account |
| `memberships_calm` | 2 accounts, 2 requests, 2 runners, no faults | agreement at rest |
| `memberships_stuck` | 1 account, 2 requests, both faults | finding: a reservation that nothing ends |
| `memberships_overlap` | 1 account, 2 requests, 2 runners | finding: a live account without a seat |
| `voice` | 2 replicas, 1 person | no two leases on one room; a lost lease takes the room along, a creation included; refinement of `RoomPromise` |
| `voice_people` | 1 replica, 2 people | a room without a key ends while a timer or another person's command acts in the middle of a join |
| `voice_gap` | 1 replica, 1 person | finding: a room may open after its lease was lost |
| `jobs` | 2 replicas, 1 tenant, 2 jobs, 1 lost transaction | one transaction per job, hooks only of committed work, refinement of `JobPromise`, every job settles |
| `services` | see below, one part at a time | the properties of delivery events, Git copies, reminders, monitors, billing, the release runner, the tab in a voice room and the calls between its replicas, and the fairness of the ticks between two tenants |

Why the bounds are enough. Two replicas and two messages give every pair of
conflicting steps: two claims, a claim and the sweep that gives another row up,
a slow worker and the replica that gave its row up. Messages interact only
through the sweep and `retryMessage`, which copies one message into another. One
seat and two accounts are the smallest instance in which two reservations
compete; two requests on one account are a restore and an archive, or a late
hook and a new request. `MaxSeats`, `MaxJobs` and `MaxReviews` bound the limit,
the pending jobs of a kind and the concurrent reconciliations; the theorems hold
for all values. A room has one key, so two replicas show every conflict about it, and
two people every way in which a command of one meets the end of the other; both
together (2.9 million states) hold as well and take too long for a routine run.

`jobs` ends a job at its second failed attempt instead of the tenth (`LastAttempt`): what
matters is that an attempt may be followed by another one or by none.

`services` chooses a module by `part` and lets it move alone, so its states are the sum
of the modules', not their product:

| `part` | Instance | Why it is enough |
|---|---|---|
| `jobs` | 1 replica, 2 tenants (one pausable), 3 jobs, one of them in the wrong shard | a busy tenant and another one that waits for its turn: `FairRounds` |
| `delivery` | 2 requests, 2 messages, 4 events, 2 batches, 1 whole save | an event in two batches, a batch over two messages, a lower status after a higher one, a save around an event |
| `git` | 2 requests, 2 repositories, 2 copies, limit 1, 1 fault | a create beside a create, a refresh beside a cleanup; the theorems hold for all values |
| `reminders` | 2 sweeps, 1 update, 1 participant, 2 moments, 1 fault | two sweeps and an update; participants meet only in the loop |
| `invitations` | 1 sweep, 2 updates, 1 participant, 2 moments, 1 fault | an update there and back, a removal and a new invitation |
| `probes` | 2 probes, 1 change, 1 monitor, 1 fault | an overlap of two probes, and of a probe with an update or a removal |
| `changes` | 1 probe, 2 changes, 1 monitor, 1 fault | an update beside a removal, with a probe in the middle |
| `billing` | 2 requests at a time, 3 in all, 1 timer, 3 half seconds, 1 fault | a pause that drops half a second, a start and a completion; any two requests of any kind interleaved |
| `release` | 2 runners, 2 commits, 3 releases, 2 services, 1 stop | a commit prepared twice with different inputs, of which one service is defined alike; a killed runner and its successor |
| `hearing` | 2 producers of others, 2 joins, no shares, no faults | a producer that is there, queued or announced at any point of a join, and a callback of the first session in the second |
| `sharing` | 1 producer of others, 2 shares, 2 joins, 1 fault | a share beside another one, a late answer of the user, an overtaken message |
| `calls` | 1 call, 3 envelopes | calls meet only in the queue, whose order nothing here reads: an envelope that comes again beside, during and after the first, and once more |

A repetition of these instances with one more timer, participant or fault adds states
and no pair of conflicting steps; the clocks and counters (`MaxTime`, `MaxTries`,
`MaxWindows`, `MaxEdits`, `MaxChanges`, `MaxRequests`, `MaxRounds`, `MaxJoins`) bound how long a
behaviour goes on.

`CHECK_DEADLOCK` is off in `services` only: releases, meetings and changes are bounded
there, and a service that has used up its bound rests. In the other runs somebody can
always act. `memberships` leaves the operator's reconciliation out: with it two accounts
have ten times as many states. It moves in `memberships_calm`, it holds beside both
faults for one account (`MaxReviews = 1`, not a routine run), and the theorems about the
limit and about access cover any number of reconciliations.

Fairness. `services` states safety only. `TenantJobs` assumes weak fairness of the steps a
replica takes by itself (every call has a time limit, and the tick is an interval
timer) and of the passing of the minute after which a failed job is due again;
crashes, pauses and the choice whether a handler fails are not fair.
`VoiceCluster` states safety only: its deadlines are ticks, not fairness.
Each replica runs its sweep every five seconds and every call has a
time limit (provider timeout, `statement_timeout`, `idle_in_transaction_session_timeout`),
so a worker that can take a step takes one: weak fairness on `WorkerStep`.
Crashes, users and the provider are not fair. Time passes (`ClaimAges`). For
memberships requests end (weak fairness), the job sweep tries again and outages
end before the tenth attempt (strong fairness on `SyncTake` and `SyncApply`), and a
reconciliation that has begun goes on. Nothing makes an operator begin one: no schedule
calls `reconcileMemberships` and no document asks for it.

## Proofs

Proved for every value of the constants (TLAPS, no axioms beyond the named assumption
of each module, which TLC evaluates in every run):

- `MailProofs!AcceptedAtMostOnce`, `FailedIsSafeToRetry`. At most once is
  not inductive: a message that was not accepted yet may have two calls on the
  wire. The strengthening `Knowledge` says where the one permitted call can be:
  a row that is queued, or absent, has no worker, no stray and no acceptance; a
  row has at most one worker; a worker with a call has the only one. `IInv` is
  `TypeOK /\ Knowledge`.
- `StatusShowsRow`, `LateRequestIsAlone`. The status of a message follows its row but
  where a form saved over a draft that had been sent in the meantime (finding 2).
  `Follows` therefore says of every save under way that what it read was a draft
  (`SavesSawDrafts`), so such a save is the only step that can part them. A request that
  leaves late is the only one by `Knowledge`: its row was given up, not queued again.
- `OutboxKeepsPromise`: initial states map to initial states and every step maps
  to a step of `MailPromise` or a stutter, by cases on what the step does to one
  message (`OutcomeByRow`, `PromiseStep`).
- `EachEventOnce`, `NeverBack`. `Folded` states the same as
  `SnapshotMatchesEvents` of every uncommitted snapshot too, over the committed and the
  transaction's own events: row locks exclude each other, and every uncommitted event
  is of a locked row. What a whole save has read is bounded by the events that were stored
  then, and so by those stored when it writes; columns it does not write keep their bounds.
- `MembershipsProofs!SeatsNeverExceeded`: by cardinality lemmas (`NoMoreSeats`,
  `OneMoreSeat`), one case per action; the constants are any finite set of
  accounts and any sets of requests and replicas.
- `AccessNeedsAccount`: the strengthening `Evidence` says that
  whoever is about to grant access has seen the account: the request whose
  transaction committed, the job or the operator that read it as live. Accounts
  are archived, never removed, so evidence does not expire.
- `DatabasesAgree`. `AgreeAtRest` is false when work on one account overlaps or a commit
  is ambiguous: that is finding 3, and what an operator reconciles for. So the
  theorem has the hypothesis `Faults = {}` of the run `memberships_calm`, and the constants
  are otherwise any. At rest says nothing of an account that somebody works on. `Calm`
  does: what the platform has not heard of an account is promised by a job that waits or
  is being executed (`Promised`), and whoever works on the account is alone with it and
  what it has read still holds (`Serial`).
- `TenantJobsProofs!OneRun`, `OnlyTrueNews`, `JobsKeepPromise`. The properties do not say that
  a locked row is still pending, nor that a slot about to run hooks is the only one for
  its job. `Knowledge` adds both, what a slot has written at each stage, and that a job
  which is not completed has nothing in the data. With it, every step maps to a step of
  `JobPromise` or a stutter.
- `RoundsAreFair`. `FairRounds` compares two tenants of a tick; `RoundsFit` compares each
  one with the number of the round, which every step of a slot can keep on its own: in
  the n-th round a tenant that has another turn has run n jobs, one that still waits for
  its turn n - 1, and none has run more.
- `OperationsProofs!RowsHaveCopies`, `CopiesAreAccountedFor`. `Ownership` is the argument:
  the copy a request has made belongs to no other request and to no row; only the
  holder of the lock is between reading the rows and COMMIT; no two rows name one
  copy; a copy that is being cleaned up is named by no row. UUIDs are never drawn twice,
  so a copy that left its row does not return to one. `LimitHolds` adds that a holder of
  the lock that will insert a row has counted the rows that are still there.
- `NeverTwoMigrations`, `DeployFollowsMigration`, `HeadIsTrue`. `Order`
  says that one invocation is at work, that it waits for its container, that a stray and
  a new container exclude each other, that a receipt for a release means that its
  migration is the last one that was started, and succeeded, and that between `up --wait`
  and the head every service keeps a container defined as in the release. It is needed
  because the deployment reads only the receipt, and checks only commit and image.
- `VoiceClusterProofs!LostLeaseTakesTheRoom`: whenever a node holds neither a lease nor an
  attempt to get one, its room, its creation token and its participants are gone
  together, unless a join had slipped in. Each of the five ways to lose a lease is a case.
- `LeaseHasTheKey`, `StaleRoomIsSwept`. A node learns of its key through answers that come
  late and in any order with its sweeps. `LeaseInv` says of each node what it relies on: a
  lease, an acquisition or a renewal younger than the fence has a key that outlives it
  (`KeyOutlives`), a renewal that counts was asked after the acquisition
  (`AnswersInOrder`), and the people in a room are younger than an acquisition that still
  counts, so no sweep releases the key beside a join that has passed its checks
  (`Younger`). A node that released its key may still be given a lease by a late answer to
  its SET: it then has no room and no join that passed (`KeyIsHeld`). For the sweep it is
  enough that a room is never stale for longer than the age of its people (`StaleIsOld`).
  Of `Lease` and `Fence` only `0 < Fence < Lease` is assumed.
- `RoomHasOneServer`: `VoiceCluster` implements `RoomPromise`. By `LeaseInv` whoever serves
  the room is the holder, and alone (`ServerHolds`, `ServerIsHolder`). What a step does to
  the key is one of few things (`KeyKept`, `KeyTaken`, `KeyRenewed`, `KeyLeft`, `KeyDead`);
  each maps to a step of `RoomPromise`, given that nobody but the holder begins to serve.
  The margin `Safe` follows from `LeasedRoomIsOwned`: the lease in use is younger than the
  fence, and the key outlives it.
- `VoiceSessionProofs!SessionCapture`. The tab can stop only what it remembers, so the
  invariant says that it remembers all it captures: the microphone is that of the one
  call whose session goes on, a live screen is the producer's or waits in the transport's
  queue (`CapturedByOwner`). This fails if a new producer overwrites one that is live. It
  does not, because the gateway takes one screen at a time and never thinks less of it
  than the tab does, but for commands to stop one that are on their way (`OneScreen`),
  and because a session has entered the room once before it shares (`SharedInSession`).
- `RoomHeard`. That a tab plays just the open producers once nothing is on its way needs to
  say what is. Of each open producer `HeardInv` names a way to the ear: it plays, waits
  for the transports, is being fetched, is announced by a message, or a join will ask for
  it (`OnItsWay`); one the tab has a consumer of is fetched or plays, because
  `consumeProducer` refuses it a second time. Of a closed one that plays, and of every answer
  that will make one play, it says that the event of its end is behind (`Arrives`,
  `AckFits`). When the wire is empty the two sides meet.
- `CommandsRunOnce`. The property counts executions; `CallsInv` follows the envelope by which
  a call was accepted, its root. There is one (`OneRoot`), as the cache remembers it until no
  other envelope can pass: the deadline is over and no receipt is between its tests and the
  cache (`Closed`), or the call counts as hung. The root is in the queue once
  (`QueueOfRoots`), and a command that has run has a root that has left the queue or is at
  work (`RunsHaveRoots`). Every receipt awaits the promise of its call's root
  (`ReceiptsAreKnown`), so a reply of success stands for an execution (`RepliesAreTrue`).
- `WorkProofs!OneNoticeEach`, `MarkMeansNotice`. Neither speaks of a sweep between its
  claim, its notification and its mark. `RemindersInv` does, up to the excused repetitions:
  without tenants a row that waits for its notification keeps its lease, no other sweep
  has read the same time, and a row without a mark has no notification but that of the
  sweep about to mark it; hosted, the row lock does all of this. An update replaces rows:
  the one that replaces a claimed row, or puts a row where there was none, excuses what
  the new row may repeat (`OldIsExcused`).
- `TimeIsWhatRan`, `HoursOrPrice`. Requests on a task save copies of rows they have read.
  `BillingInv` says what a request knows at each stage, by its kind: of its timer
  (`TimerAsk`), of the billing it changes (`BillAsk`), of the task it reviews (`TaskAsk`).
  The attempt to prove `BilledOneWay` corrected the model: a decision on the hours of a
  timer that still runs counts as reopened (`NowReopened`) as well as the restart of one
  that was decided, which the small instance is too small to show.
- `MonitorsProofs!RemovedStaysRemoved`, `ChatKnows`, `TimersRun`. The properties are about
  rows; probes and requests write back copies. `MonitorInv` says that a probe's status of before
  is the row's until it saves and the chat's afterwards, unless its monitor is blurred
  (`ProbeKnows`, `ProbedOnce`), and that whoever stopped a timer, or will write a row that
  needs one, will set it (`Minds`).
- type correctness of every module.

Only model-checked:

- liveness (`QueuedIsResolved`, `EveryJobSettles`): it needs fairness,
  and so ENABLED, which the prover cannot reason about;
- `ServicesTypeOK`, which only joins the type invariants of the modules that share the
  instance `MCServices`; each of them is a theorem of its module.

## Findings

1. `reserveMembership` commits a seat before the account is committed. A process that stops
   in between leaves the membership reserved: no hook runs, no job exists, and a new attempt
   to create the account is refused. Only `reconcileMemberships` (`platform.service.ts:430`)
   gives the seat back, and it is an endpoint that no schedule calls (`docs/saas.md:53`: an
   unfinished activation reserves a seat temporarily).
2. `saveDraft` (`mailbox.service.ts:1260`) reads the draft without a lock and saves
   it whole. If `sendDraft` commits in between, the message becomes a draft again
   while its queue row is delivered. Sent a second time from the form it is set
   to "queued", but `enqueue` does nothing beside the existing row: nothing will
   ever resolve it (`docs/saas-mail.md:106` promises a result).
3. A `membership-sync` job (`platform-membership-sync.service.ts:26`) that read the
   account before a restore writes "archived" over the restored membership. When
   the restore's own job has completed before, nothing repairs it: `restoreUser`
   returns early and reconciliation ignores archived memberships
   (`docs/saas.md:52`: active accounts occupy seats).
4. A join that has passed the second `assertOwnership` (`voice.gateway.ts:209`) still
   reads the socket and the user. If the lease is lost in that time, the room is
   closed, and `getOrCreateRoom` (line 213) then opens it again without a lease
   (`docs/saas-voice.md:43`: the owner closes it). The next revalidation closes it,
   the sweep at the latest: `UnleasedRoomSlippedIn` says that this is the only way,
   `StaleRoomEnds` that it ends within 20 seconds of losing the key.

## Not modelled

- Mailbox folders, threads, search and incoming mail; chats, CRM, projects, wiki, task
  board and recurring tasks: reads and single statements whose correctness is a matter
  of row constraints and access rules, not of order.
- Tenant resolution and the pools of data shards: stateless per request. What a changed
  policy does to work in progress is in `MailOutbox` (`tenant`) and `TenantJobs`
  (`TenantPauses`).
- Muting in a voice room, and what a joiner is told of it (everybody is shown unmuted).
- `smtp-cert-sync.py`, `infra-monitor.py` and the storage migration: one process per host
  or one-shot, under a lock, mostly checks of files.
- `receive.py`, which unpacks pushed images; manifests and their digests are one condition.
- Authentication and platform operators' sessions.
- The front end, more than half of the repository's lines: views over the API. But for
  the voice room it enters the models as what users can ask for (`Offered` in `Billing`,
  the edits in `MailOutbox`). This is why the models stand for a small share of the
  repository's lines.

## Plan

Open, in order of value: the life of a tenant's row (creation, provisioning); the switch of
the certificate link; CRUD of voice rooms beside a call in them.
