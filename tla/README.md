# NexConnect: formal model

TLA+ modules for the concurrent core of NexConnect, the TLC configurations that
check them and TLAPS proofs of the properties that matter most. Paths below are
relative to the repository; `worker/` is `apps/worker/src`, `api/` is `apps/api/src`.

## 1. Inventory

NexConnect is a messaging gateway: a NestJS API, a worker with the WhatsApp
(Baileys) sockets, PostgreSQL, Redis (caches, counters, BullMQ queues) and
object storage.

| Component | State | Operations | Hard behaviours | What makes it correct |
|---|---|---|---|---|
| Circuit breaker (`libs/shared/.../circuit-breaker.ts`) | state, failure count, trial calls, last failure time | execute, reset | overlapping calls complete in any order and state | trial calls accounted for; opens only on failures in a row; is probed again |
| HTTP client (`libs/shared/.../http-client.ts`, `libs/sdk/.../http-client.ts`) | one breaker per client | request with retries and timeout | answers lost after the service has acted; a breaker shared by requests that retry | carried out once but for lost answers; the result tells whether it was |
| Connection pool (`worker/connection`) | Maps of instances, sockets and reconnection states; timers | add, remove, socket open/close, reconnect | close events of replaced sockets, timers racing removal, database reads in flight | the Map holds live sockets; a lost connection is retried or given up on |
| Inbound pipeline (`worker/pipeline`, `message-processor.worker.ts`) | jobs, dedup keys, text buffer, deliveries | seven stages per job | stages of concurrent jobs interleave; retries, stalls, key expiry | no duplicate delivery, no lost text, the buffer stays bounded |
| Webhook delivery (`webhook-delivery.worker.ts`) | none; the jobs are the queue's | POST with timeout | a late success after the timeout | at least once until attempts run out |
| Webhook dispatch (`api/modules/webhooks`) | event rows, jobs | dispatch, replay | event row without job; two webhooks, one id | every event row has its job |
| Outbound messages (`api/modules/messages`, `outbound-message.worker.ts`) | message rows, jobs | send, react, process | status against retries; a send that went out and rejects | a message is sent or failed; sent again only for a failure |
| Message status (`api/modules/meta/webhooks`) | message rows, id mapping | inbound, status update | reports before the mapping exists, redelivered or out of order | a status is settled once, then shows what was reported of that message |
| Channels (`api/modules/{telegram,slack,discord,twilio,meta}`) | message rows, id mappings, events | send, react, mark as read, webhooks, replay | one key for several reports; rows written in steps; stored events handled again | an id leads to the message it was given for; what was reported is told with its content |
| Provider credentials (`api/modules/providers`, lifecycle services, webhook guards) | credential rows, webhook set at the provider | create, rotate, revoke, delete, hooks | hooks are not awaited, overlap, fail, give up without a public URL and are not repeated | events of an active credential get through, for it alone |
| Broadcasts (`api/modules/broadcasts`) | broadcast rows, delayed jobs | create, pause, resume, cancel | jobs queued and removed one by one while others are | paused: nothing is left to send |
| Scheduling (`api/modules/scheduling`, `scheduled-message.worker.ts`) | rows, jobs, send windows | create, update, cancel, tick | row and job written apart; crash between enqueue and update; ticks of several processes; windows over midnight | sent once per process and fault, never after cancel, in its window |
| Admission (`api/modules/auth`, `common/guards/rate-limit.guard.ts`, `instances/blacklist.service.ts`, `sandbox`) | rows, Redis copies and counters | validate, revoke, add, remove, count | fill of a cache racing a change; check-then-count | a revoked key stops working; the limits hold, and the quota but for what races |
| Instances, groups, stories, verification, channels (`api/modules/...`) | instance row, jobs | power on/off, remove, one job per request | rows and jobs written apart | rows and jobs agree |
| Anti-spam, warm-up, graceful shutdown | counters | none has a caller | none | not modelled |
| Media, tenants, health, metrics, SDK, CLI, infrastructure | rows; none | CRUD | none of the above | not modelled |

How they meet: a socket of the pool puts messages on `inbound-messages`; the
pipeline puts deliveries on `webhook-delivery`; the API puts jobs on
`outbound-messages` and on `scheduled` and `broadcast` queues; both processes
share Redis and the database. `PROJECT.json` lists each component's status and,
under hazards, the line where each difficulty bites.

## 2. Modules

**`CircuitBreaker`** models `circuit-breaker.ts` whole. `breaker` holds the
object's fields and `calls` what each overlapping `execute()` is doing. Code
between awaits is one action: a call is rejected (`Reject`), finds the trial
calls used up (`RejectAndReopen`) or is admitted (`Admit`); it ends with
`Succeed` or `Fail`, under whatever state the breaker is in by then. `probe`
and `stale` label pending calls by the half-open period that admitted them, and
`streak` counts failures in a row; both are history and guard nothing. The
clock is the time since `lastFailureTime`, saturated at the timeout, since the
code only compares the two. The failure count is saturated at the threshold for
the same reason.

**`ConnectionPool`** models `worker/connection`. Everything the four services
know of an instance is one record, and each handler is a function of it, as the
code runs to completion between awaits. `disconnect()` awaits nothing outside
the process, so it is no step boundary; `loadAuthState` reads the database and
is one, for `addInstance` and for `reconnectFn`. `timer` is the timer
`state.timer` refers to and `strayTimers` those it no longer does.
What Baileys' `end()` does belongs to a library, so all of the plausible
behaviours are taken: the close update never comes (`quiet`), comes inside
`end()` (`sync`) or later (`late`). Instances without a stored auth state never
get a socket: `addInstance` connects only with one, and nothing in the worker
calls `saveAuthState` (which is why `Paired` is a constant). A missing
reconnection state reads like a fresh one, so the two are the same value. QR
codes and the sending methods of `BaileysConnectionService` are left out.

**`InboundPipeline`** models the path from a socket's message to the webhook
deliveries: `handleMessagesUpsert`, the BullMQ queue, the worker's slots and
the stages. A job's step ends at each await of Redis, the database or storage,
so steps of concurrent jobs interleave. One chat is enough, as no record is
shared between chats; a buffered text is the job it came with. What time
decides (`elapsed`) and the text's last character (`final`) are
nondeterministic. `stageFails` is a rejected await, `crash` the death of the
worker process, after which BullMQ finds the running jobs stalled and queues
them again, or fails them the second time; `bufferExpires` the TTL. `blame`
is history: whether jobs have overlapped, whether a media message has cleared
texts. Classification, enrichment and presence change nothing shared.

**`WebhookDispatch`** models `webhook-dispatch.service.ts` and the webhooks'
service: dispatches of events, test dispatches and replays, for the webhooks of
one instance. A call of the service is one entry of `calls`, named by the id of
the payload it draws, and runs a `dispatch()` per webhook at once; each of these
awaits the webhook, the insertion of the event row and the addition of the job,
one action each, so those of a call and of several calls interleave. The
counter of a webhook's deliveries is read in the last of these steps, and only
selects the delay of the job. A replay holds the rows it has yet to go through
and the call it awaits. Awaits may reject having done what was asked or not,
the process may die, and webhooks may be changed meanwhile; `Past` are the
events there are at the start. `webhooks.create` is not an action: it passes a
ULID for a column of type uuid, so it stores nothing. The jobs are never taken
off the queue, because nothing in the repository consumes `webhook-dispatch`
(the worker listens on `webhook-delivery`).

**`ProviderMessages`** models a message's way through a provider:
`messages.service.ts` and `provider-dispatcher.service.ts` send it through WhatsApp
Cloud, and Meta's webhook (`meta-webhook.service.ts`) reports on it and brings
messages from contacts. `sends` says what each `send()` awaits, one action per
await: the choice of the credential, the row, the credential again in `dispatch()`
and in the provider, the HTTP attempts, and the transaction that makes the row SENT
and inserts its mapping. An attempt that times out may have reached Meta, or reach
it later, so each may make a copy with an id of its own (`<<m, k>>`). `handlers` are
webhook requests served at once; each goes through its messages and statuses in
order, an action per await, and reads and writes the same rows and mappings. Meta is
external: it takes copies, has things to tell of what it took, and serves them in
any batch, again after a timeout or a crash of the process. An await may reject
having had its effect or not, and the credential may be revoked. A request has one
change of one phone number. Left out: the contents, the prices and the media a
notice carries, which go to tables nothing here reads, the raw event log, and the
messages of Baileys instances, which `send()` puts on a queue instead. The sender is
told "failed" by an answer or, if a retry cannot help, by a 400; the two are one end
here.

**`MessageLifecycle`** is what the above promises of the status of an outbound
message, with none of the awaits: created, processed, settled once (as SENT only
if the provider took it), and from then on any status reported of it.
`ProviderMessages` implements it under the mapping `Lifecycle`: `taken` are the
messages with an accepted copy, `tracked` those with a mapping, and `reported`
is read off the notices. Reports are applied in the order they come, so the
status may go back from READ to DELIVERED; nothing in the repository says
otherwise.

**`HttpClient`** models `request()` of `libs/shared/src/http` and of the SDK, on
top of `CircuitBreaker`, which it extends: `attempt` is `execute()` of the shared
breaker, and a response of any status is a success to it. A request sends, waits
for the answer, reads the body or sleeps before the next attempt. Telegram's,
Slack's and Discord's clients share one breaker for a bot (`Callers`); Meta's
factory makes a client for each call and the SDK has none (`Private`). `done`
counts how often the service carried the request out, but for the times its
answer was lost.

**`ChannelMappers`** is what each provider's mapper makes of a message: for each
form (its type, where its media is, how many buttons, rows or contacts) and
channel, the call it becomes or the error it is refused with, and which of the
platform's errors may be retried. **`ChannelMessages`** extends it with one
instance on one of the channels: messages in chats, what the platform reports of
them (posts, edits, presses, votes, reactions, commands, statuses), the webhook
services' handlers await by await, `send()`, reactions, read receipts, and the
replay of stored events. Ids are what it is about: each platform numbers its
messages in its own way, and the webhook services make keys of two tables of
them. The awaits before a send's request, and Meta's batches, are in
`ProviderMessages`.

**`OutboundJobs`** models what the API leaves for the worker: scheduled messages
and cron jobs, broadcasts, messages and reactions of Baileys instances, channel
posts, and what is asked of an instance, a group or a number. An operation is the
sequence of its awaits (`todo`), each the write of a row or of a job, so those of
two operations interleave and a mishap may stop one anywhere; a broadcast that is
paused has its jobs read (`getJobs`) and then removed one await at a time (`found`).
Beside them are the two workers that exist: that of scheduled messages, which on each
tick looks for rows of its own, and that of outbound messages. `Pods` are the
processes that run them: concurrency is per process and the deployment has 2 to 10
(`infra/k8s/worker-deployment.yaml:12`, `worker-hpa.yaml:15`), so ticks of several go
through the same pending rows, await by await, in `scheduler`. A row whose content
does not parse (`Unreadable`) is passed over. `StoredIds` are the ids the database
takes: the services give ULIDs where `schema.prisma` has uuids, and the model takes
either to be put right. `QueryAnswers` says the same of the worker's SQL.
`adjustToSendWindow` follows the code's round trip through date strings in hours: a
wall clock is formatted with midnight as 24 (`formatted`), and what is formatted so is
parsed as the day after (`Read`). Zones are whole hours without a change of clocks,
and the server's own zone is UTC.

**`Credentials`** models the rows of `provider-credential.service.ts`, the
requests of their controller, the lifecycle hooks that follow without being
awaited, and the guards of the webhook endpoints (`Accepts`). A payload has the type
its sender gave it, which need not be that of the row. Encryption is left out: a row
holds its payload. "rcs" is Twilio's RCS, which the guard's lookup leaves out, and
"twilio" its other four. `publicUrl` is whether the process has a URL of its own,
without which Telegram's hook registers nothing; a restart may change it. `webhook`
is what the provider has: with Telegram what the last hook set, elsewhere what the operator
entered at its dashboard. A request may find the hook of an earlier one still
running; hooks fail, and die with the process. `disturbed` (rows whose last hook
failed, gave up, had no URL or met another) and `claims` (which row ever stored which
account) are history.

**`Admission`** models how a request is let in, as the sequence of its awaits: the
API key and its cache, the counters of the rate limits, and behind them the
blacklist's cache and the sandbox's quota. Validation may come before the limits or
after, as the order of the two guards is that in which Nest finds their modules. A
key may pass its `expiresAt` (`passesExpiry`): its row is then refused and its cache
entry deleted by the next request that finds it. `Traffics` is what the requests of
a run may be; it bounds the run and guards nothing else. `raced` are keys and phones
changed under the eyes of a request that had read them.

## 3. Runs

| Run | Bounds | Shows |
|---|---|---|
| `breaker` | 2 requests of a bot, 1 without a breaker, 2 attempts, threshold 2, 1 trial call, timeout 2 ticks | type, accounting of trial calls, failures counted are in a row, a request is carried out once but for lost answers, an open circuit is probed again |
| `pool` | 2 instances (one unpaired), 3 sockets, 2 attempts, 3 runs per instance | the Map holds live sockets, lost connections are retried |
| `pipeline` | 2 texts, 1 photo, 2 slots, 2 webhooks, buffer of 2, 2 attempts, 3 faults | type, buffer bound, no duplicate delivery, no lost or twice-forwarded text, every job settles |
| `pipeline_retry` (violation) | 1 text, 1 photo notified twice, 1 slot, 3 attempts, 1 fault | finding 1 |
| `dispatch` | 2 webhooks, 2 types, 1 past event, 4 payloads, 1 call at a time beside a replay of up to 2 rows, 1 mishap | type, rows before jobs, resolved means queued, order of a replay, rows get their jobs |
| `dispatch_all` (violation) | same | finding 2 |
| `messages` | 1 outbound message, 2 attempts, 1 inbound message, 1 reported status, 2 requests of up to 2 notices, 1 mishap | type, answers agree with rows and mappings, events are of known messages and of what Meta said, `MessageLifecycle` is implemented, sends settle, late reports get through |
| `channels` | 8 channels (RCS and SMS stand for Twilio's three), 13 forms, 1 outbound message, 3 posts in 2 chats, 2 notices, 2 webhook requests, 1 replay, 1 mishap | what a client does with a message reaches that message, what the platform need not send again was told, events carry the content of their report |
| `replay` (violation) | Telegram, 1 notice, 1 replay | finding 3 |
| `sending` | one schedule, cron job and broadcast of 2 recipients, 2 messages, 2 pending rows, one unreadable, 2 worker processes, 2 operations at once and 3 in all, 1 tick of a cron job, 2 windows (9 to 18 in UTC, 21 to 6 three hours east), 1 mishap | nothing retired keeps a job that waits, a message goes out once per process and fault, and in its window |
| `credentials` | 2 rows, 2 accounts, 2 secrets, 3 requests, with a public URL or none, 1 mishap | no hook calls with another type's payload, events get through |
| `admission` | 2 requests at once; 3 in all of lists and keys, or 5 of the sandbox; 1 key, 2 limits, 2 phones, quota 1, 1 mishap | caches agree with tables, the limits hold, the quota is exceeded by no more than what races |

Why the bounds suffice. Two requests against one trial call are the least that
exhaust the trial calls and leave a call of an earlier period pending. Two attempts
reach the open circuit; with three runs an instance has a timer, a stray timer or a
second add, and a socket at once, and `Runs` cannot grow except by `addInstance`, so
the bound never disables a fair action. Two slots are what interleaving two jobs
takes; two texts fill the buffer and a media message clears it, hence three. Three
faults give every pair of failed operation, crash and expiry with one to follow. A
message notified twice is in `pipeline_retry`, and in the theorem on duplicates,
which is about any `key`. Two webhooks are what a clash on an event's id takes; a
past event and a call allow a replay of two rows, beside one call of the other kind.
Two attempts make two copies of a message, of which one or both may be accepted, and
two requests can hold a report of each, or the same one twice; messages share no
row, so one of each direction is enough for the rows and mappings to be mixed up.
Two chats and three posts give two messages with one number, and an outbound one
beside them; two notices of one message are what a clash of keys takes. Two
operations at once meet on every row, and a third may follow their ends; two
processes tick over one readable row, and the unreadable one is beside it in a
batch. The second window is over midnight, and opens at an hour the code reads as
24:00, so a schedule lands a day early in the run. Two secrets of one account are a
rotation; two rows can claim one account; three requests store, rotate and switch
off, or leave two hooks under way. Two requests race for a cache entry or a count;
the third sees what they left. Four messages or ends may follow the creation of a
sandbox session: two messages that race for the last of the quota, its end, and one
whose check finds the count deleted. The two kinds of traffic share the guards
alone, which both go through.

### Fairness

- Breaker: a pending call ends, because the client aborts each request after
  its timeout (`http-client.ts:44`); the clock advances; callers keep calling.
  The last is an assumption on the environment: an OPEN breaker nobody calls
  stays OPEN. A sleeping request makes its next attempt when the timer fires.
- Pool: timers fire and the database answers, one way or the other. Sockets
  are not fair: they may stay opening for ever.
- Pipeline: BullMQ hands waiting jobs to free slots and an awaited operation
  ends. Crashes and failures are not fair, and bounded by `MaxFaults`.
- Dispatch: an await under way is answered, well or badly, so the process does
  not stop while one is (`WF_vars(Progress)`). Requests and mishaps are not fair.
- Messages: the awaits of a `send()` and of a webhook request are answered (the
  HTTP client aborts each attempt after its timeout, `http-client.ts:169`, and
  its attempts are bounded), and Meta delivers what it has to tell. New
  messages, what Meta accepts and reports, and mishaps are not fair.
- Channels, sending, credentials, admission: safety only, no fairness.

### Findings

1. `pipeline_retry`: the retry of a failed job is dropped as its own duplicate.
2. `dispatch_all`: the dispatches of one call insert event rows with the same
   primary key, so of several webhooks that want an event one gets its job.
3. `replay`: a stored Telegram, Discord or Slack event is looked up by its own id
   as if that were the credential's, so its replay delivers nothing.

### Known deviations no run checks

Met while modelling; each is in the model as the code has it, and the properties
are stated so that they hold beside it.

- *Breaker.* `execute()` reopens an exhausted half-open circuit with the old
  `lastFailureTime`, so the next call is let through at once. HTTP error statuses
  are successes to the breaker, and Meta's factory keys its clients by a fresh
  object, so each call has a breaker of its own, where ADR-010:42 has one per
  provider. The timer of an attempt is cleared before the body is read.
- *Pool.* A reconnection that is reading the auth state connects an instance that
  is removed meanwhile. Nothing is scheduled for the end of a cooldown.
- *Pipeline.* A media message deletes the buffered texts its comment says will be
  processed, and the flush timeout is tested only when a text arrives. Jobs of one
  chat that overlap lose or repeat texts, and two copies of a message pass the
  dedup stage together: `AtMostOncePerWebhook`, `TextIsKept` and
  `TextIsForwardedOnce` are stated for histories without overlap, as no line of
  the repository promises otherwise.
- *Channels.* Telegram numbers messages per chat and the key has the number alone,
  so messages of two chats share a row; on Slack a second press of a button
  carries the content of the first. RCS statuses find no mapping, and Twilio's
  status event is published for a row that is not there. A replayed Twilio status
  is handled as a message and, before `persistSuccess`, takes its row's id.
  Instagram and Messenger pass a message's id where their `markAsRead` needs the
  sender's.
- *Sending.* Each worker process SELECTs the pending rows without a lock
  (`scheduled-message.worker.ts:59-119`), so with several of them a message is sent
  once by each without any fault. Deactivating a cron job removes nothing: the key
  handed to `removeRepeatableByKey` (`scheduling.service.ts:246`) is of a form the
  pinned BullMQ (5.71.1) does not store the job under, so the job fires for ever. A
  job that waits again because its process died is not removed with a broadcast's
  others, and one a worker has is not removed at all. Where a window's first hour on
  the server's clock is midnight in the zone, `adjustToSendWindow` is a day early,
  which may be before the time asked for, and `createSmartSchedule` then refuses it if
  it is past. A row whose content does not parse stays pending for ever.
  `scheduled_messages` and cron rows get ULIDs for uuid columns, and the
  scheduled worker's SQL names columns and statuses the schema does not have. Jobs
  the API puts on `outbound-messages` have no `jid`, so the worker refuses them and
  their rows stay PENDING. The queues of broadcasts, verification, channels,
  instance and group operations and webhook dispatch have no consumer in the
  repository; `verifySingle` waits its 30 s and rejects. Removing an instance leaves
  its jobs. An update that overtakes a delete leaves a job for a CANCELED row, and a
  crash after the removal of the job a SCHEDULED row without one. Resuming a
  broadcast queues nothing. Midnight is formatted as 24, so windows over midnight
  put off messages that are in them.
- *Credentials.* A PATCH passes the payload on without the type `create` sets, so a
  rotated Telegram, Slack, Discord or Twilio credential is refused by every guard
  and provider, and Meta's PATCH throws; ADR-010:101 calls rotation a single PATCH.
  The hook of a deleted row resolves a row that is gone and throws, so
  `deleteWebhook` is never called. Rotating a row that is not ACTIVE registers
  nothing, nor does activating it later. Rotating to another bot leaves the old
  bot's webhook. Without a public URL Telegram's hook warns and registers nothing, so a
  rotated secret is not told to Telegram. `findByAccountSid`
  (`provider-credential.service.ts:271`) leaves out TWILIO_RCS, so all events of an
  RCS credential are refused. Any row but Meta's takes a payload of a type that is not
  Twilio's, and is then refused by its guard.
- *Twilio clients* (not modelled). A credential with an `apiKeySid` and no
  `apiKeySecret` gets a client made from its `authToken`
  (`twilio-client.factory.ts:20`), kept under `key:<apiKeySid>` (line 32), so a
  rotation of the token does not reach it, where the comment at line 7 says it
  invalidates the key. An API key entered for two accounts gets the first one's client,
  and the key holds 32 bits of the token, which two tokens may share.
- *Admission.* `createApiKey` passes a ULID for a uuid column. A key revoked, or a
  phone changed, while another request has it read stays in the cache until it
  expires. The worker reads the blacklist under a key nothing invalidates, and
  `expiresAt` is ignored. A message counted after its session was deleted leaves a
  counter without a TTL. A request one limit rejects has used up the limits counted
  before it.

## 4. Proofs

`ChannelProofs` holds the theorems of a channel: of the breaker and the HTTP client
by which the providers call their platforms, and of the messages they exchange. The
breaker's part proves the type invariant, `ProbesAccounted`,
`CountsConsecutiveFailures` and that the circuit opens only on failures in a row
(`OpensOnlyWhenFailing`) for any finite set of callers and positive options. The
accounting invariant is inductive once stated with the set of trial calls:
completions and relabelling change that set and the counter together, and the lemmas
give the cardinality of a set with one element more or less. In CLOSED the failure
count is below the threshold and at most the streak, so the failure that opens the
circuit completes a streak.

The client's part proves `CarriedOutOncePerLoss` for any requests, attempts and
bots, from what is known of a request between its steps (`RequestInv`), and that
`HttpClient` implements the specification of the breaker (`UsesTheBreaker`): each of
its steps is a step of the breaker or leaves it alone. So `ProbesAccounted` holds
beneath the client too, for any number of retrying requests.

The messages' part proves the type invariant of `ChannelMessages`,
`ActionsHitTheNamed`, `AcceptedIsTold` and `EventsCarryTheirReport` for any channels,
chats, messages to send, webhook requests and bounds, however the awaits interleave.
None of the three is inductive; `ChannelIInv` adds

- that all platforms but Telegram number messages so that no two share a number
  (`PostsInv`), and what each platform may report, of whose messages (`Reportable`,
  `NoticesInv`);
- that the reference a `send()` holds is an id of the message it names, in its chat,
  and that a row marked SENT has the id of a message that is in its chat
  (`SendsInv`);
- that a row of the contact's holds the content of a report with the row's id
  (`RowsInv`), and a mapping leads to a row that is there (`MappingInv`);
- what a webhook request has done of its report by each of its steps: stored it by
  "map", linked it by "publish", told it by "log" (`Served`).

Messages, reports, rows, mappings and events are only ever added, and no row's
content or external id changes (`Grows`, a theorem of its own:
`NothingIsTakenBack`), so what holds of one keeps holding, and each action is left
with what it adds. From `RowLeads` a row's id leads to one message, which gives the
first property. `AcceptedIsTold` follows from `Served` at "log", where alone a
report is accepted (`AcceptedAtTheEnd`). It needs that the row found by id is still
found when a send with that id commits in between (`StoredStays`).
`EventsCarryTheirReport` rests on two lemmas: `OwnRow`, that no message sent has the
id of one the contact posted, so that, replays aside, `MESSAGE_RECEIVED` never
points to an outbound row; and `SameId`, that two reports have one id on Slack and
Telegram only, and there they are of one message or of one number. A replayed Twilio
status, which is stored as a message, is why `SameId` must also tell apart a
message's report and a status.

`ConnectionPoolProofs` proves the type invariant, `MapHoldsLiveSockets` and
`DisconnectedIsRetried` for any instances, sockets and limits, and for each way
`end()` may behave. Each handler is a function of one instance's record, so there is
a lemma per handler, and a step of `Next` is one handler applied to one record. The
invariant (`IInv`) is that the sockets, timers and calls of an instance together
stay within the bound (`RunsBounded`, from which the type follows), the property of
the Map, and that an instance that has lost its connection has an attempt to come or
an open circuit (`AllRemembered`).

`InboundPipelineProofs` proves the type invariant, `BufferBelowLimit`,
`AtMostOncePerWebhook`, `TextIsForwardedOnce` and `TextIsKept` for any jobs,
webhooks, concurrency and limits. `BufferBelowLimit` needs a strengthening: a job
about to save has loaded a buffer whose extension was tested against the limit, and
that holds however stale the load is. `AtMostOncePerWebhook` rests on
`Deduplicated`: a job past the dedup stage has its key set, without overlap two of
them never share a key, and a delivery's webhook is one its job's loop has passed.
The two on texts rest on there being one job in the stages as long as none overlap
(`OthersIdle`). The texts it has read are then those in the buffer, so no delivery
has them yet, and its own text is nowhere but in its hands. None is lost because a
job about to store or clear the buffer has read what is still in it (`Unspoilt`),
and its texts are in a delivery before it lets go of them.

`WebhookDispatchProofs` proves the type invariant, `PersistedBeforeQueued`,
`ResolvedMeansQueued` and `ReplayKeepsOrder` for any webhooks, types, history and
bounds. The second needs to know that BullMQ, which ignores a job whose id it has,
never ignores the job of a dispatch that goes on to be `done`: only the dispatch
that inserted the row of an id owns that id, there is one at most, and it is the
only one that reaches the queue. `DispatchInv` says so, and the clash of finding 2
is what makes it true. The third needs `ReplayInv`: the calls of a replay before the
one it awaits are over, so that one alone may still put jobs on the queue.

`ProviderMessagesProofs` proves the type invariant, `AnswersAgree`,
`EventsAreBacked` and that `ProviderMessages` implements `MessageLifecycle`
(`ImplementsLifecycle`), for any messages, requests, attempts, batches and mishaps.
The invariant (`MessagesInv`) says that no copy of a message has a mapping before
its `send()` has made it SENT, that a mapping only leads from a copy Meta accepted
to its own message, and what each request holds of the item it is at. From the first
two a report that finds a row finds that of its own message, and only after it is
settled (`ReportsOwnMessage`), so that reports and `send()` never write a row in an
order `MessageLifecycle` forbids. Each step then maps to the abstract action of its
name or to a stutter: `createMessage` to `Create`, `markProcessing` to `Process`,
`accept` to `Take`, the transaction of `persistSuccess` to `SettleSent`,
`persistFailure` to `SettleFailed`, `raise` to `Report` and the update of
`applyStatusUpdate` to `Reconcile`.

`CredentialsProofs` proves the type invariant and `EventsGetThrough` for any rows,
accounts, secrets, requests and failures, with the exceptions the property names.
The invariant (`IInv`) says that a row that exists has claimed its account and is
looked up by it (`StoredInv`), that a row nothing disturbed has one hook at most
(`Alone`), which calls with the payload the row still has (`Fresh`), and that the
provider has been told the payload of every row that is alone with its account
(`WebhookInv`). A step that sets the webhook of an account has claimed it, so it
disturbs no row that is alone with another claim (`Keeping`): that lemma serves the
operator's requests and the hooks alike.

`AdmissionProofs` proves the type invariant, `CachesAgree`, `RateLimitsHold` and
`QuotaHolds` for any requests, keys, phones, limits and quotas. What a request has
left to await is a suffix of what it began with, so which await comes after which
(`HeadWay`) and what a cached key skips (`Skip`) hold for any sequence of guards.
For keys and phones that are not in `raced`, no validation is about to cache a
revoked key, and a cached one is about to be deleted by whoever revoked it
(`KeyInv`); who is about to cache an entry of the list has read what the table says,
and a cached entry that differs is about to be deleted (`ListInv`). A limit lets
past no more than it has counted (`RateInv`). The sandbox's count and those let past
it that have not counted yet exceed the quota by less than the requests there are;
the messages simulated are that count until the session ends and a late one starts
it again, and from then on have the same excess once more (`QuotaInv`).

`OutboundJobsProofs` proves the type invariant, `SentOncePerProcess`,
`RetiredHasNoJobs` and `SmartScheduleFitsWindow` for any rows, operations, worker
processes, recipients and mishaps. Its first step is a plan: `Tasks` is what each
operation may have left to do, a set closed under taking the next await, and the job
it may have in hand fits its row (`JobFits`). `SentInv` counts, for a message, the
copies sent, the open jobs a worker would send (`Open`) and the processes whose tick
has still to enqueue or mark the row (`DueAt`): no more than the processes and the
mishaps, as a tick that has begun with the row pending is one of them. `RetiredInv`
says of an operation that is alone with its row that the jobs it has not removed yet
are among those it has found (`Left`, `Retires`), that it removes them before the
write that retires the row, and that a row whose operation may still add a job
(`MayAdd`) is not retired. The window theorem is arithmetic over hours, for any window
and hour and any whole-hour zone: `Opens` says what the round trip of `opening` makes
of a day, and where it loses one.

The constants' assumptions are those named in the modules (`...Assumption`).

Only model-checked: liveness, which TLAPS cannot prove (`OpenIsProbed`,
`DisconnectedLeaves`, `JobsSettle`, `PersistedIsQueued`, `SendsSettle`,
`LateReportsArePublished`). Every invariant and every safety property of a step that
a passing run checks is a theorem.

## 5. Plan

Done: the components whose steps interleave each have a module. Modules share no
variables with the others, so each is checked alone; `HttpClient` is the breaker's
composition with its user, and `ProviderMessages` and `ChannelMessages` divide the
way of a message at the dispatcher.

Nothing that the runs check and that TLAPS can prove is left without a theorem. None
of the modules uses a RECURSIVE operator. The claims left to TLC are the six of
liveness; further theorems would be of more code: the parts listed in section 6.

Claims of the repository that the code does not keep, and no run checks: that status
callbacks reconcile with their message (`prisma/schema.prisma:507`; a report that
comes before its mapping is dropped), and that raw events are persisted before any
processing (`prisma/schema.prisma:554`; `logRawEvent` comes last).

## 6. Not modelled

- The webhook delivery worker: one POST per job, no state of its own.
- Anti-spam, warm-up, the outbound pipeline's stages, graceful shutdown's count,
  Twilio's voice, verify, lookup and content services: nothing calls them.
- Media, tenants, health, metrics and audit: single database or storage calls.
- Media conversion, speech services and provider SDKs: calls of external programs.
- The SDK's resources, the CLI, testing helpers and infrastructure files.
