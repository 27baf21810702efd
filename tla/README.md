# SylphBOT in TLA+

Specifications, model-checking runs and machine-checked proofs for the backend of SylphBOT
(`src/backend/src`), a multi-tenant service that answers the WhatsApp and Instagram messages of a
business's leads with an AI sales agent, books appointments and hands conversations over to humans.

The backend is a set of Node.js processes around MongoDB (through Prisma), Redis and BullMQ queues.
Almost every protocol in it has one shape: *a job that may run more than once, a few traces in two
stores that are not written together, and a lease that is not a mutex*. The project follows that
shape: the lease first, then the two workers that depend on it most, then the process that keeps
the workers alive, then the appointments, whose slots are guarded by leases and by a database
transaction; and then the path of a message, from the provider's webhook over the reception jobs to
the human desk, and the outbox of the events that a sent reply leaves behind.

## Contents

| module | what it is |
|---|---|
| `Lease` | abstract: what a lock handle promises, without Redis, time or commands |
| `DistributedLock` | `services/distributedLock.service.ts`; implements `Lease` |
| `CRMRefresh` | `services/crm/refreshQueue.service.ts` and its worker; uses `Lease` |
| `TouchLedger` | the delivery states of `services/revenueTouchLedger.service.ts` |
| `ReplyDelivery` | `workers/ai.partition.worker.ts`; uses `TouchLedger` |
| `ClusterSupervisor` | `workers/cluster.worker.ts` |
| `AppointmentBooking` | `services/appointmentEngine.service.ts`, `rescheduleEngine.service.ts`, `meetingState.service.ts`, `slotLock.service.ts` |
| `WebhookIntake` | `routes/instagram.webhook.ts`, `whatsapp.webhook.ts`, `services/webhookSecurity`, `webhookDedup`, `queues/webhookIntake.queue.ts` |
| `InboundPipeline` | `services/webhookIntakeRuntime`, `receptionIntake`, `workers/receptionRuntime.worker.ts`, `services/receptionClassifier`, `receptionContext`, `inboxRouter`, `inboundLegacyProjection` and what they call |
| `HumanDesk` | `services/humanQueue`, `assignmentEngine`, `escalationLadder`, `inboundSlaMonitor`, `humanReminder`, `takeoverLedger`, `sendMessage`, `revenueBrain/escalation` |
| `EventOutbox` | `services/eventOutbox.service.ts`, `services/revenueBrain/eventBus.service.ts`, the worker's fail-safe in `queues/queue.defaults.ts` |
| `MC*` | the same modules for TLC (symmetry sets; the constants are in the `.cfg` files) |
| `*Proofs` | theorems and their TLAPS proofs; those about `WebhookIntake` are in `InboundPipelineProofs`, which extends both modules of the path from the webhook to whoever answers |

Definitions named "Mutant: ..." in the comment before them are small plausible bugs. They belong to
no specification: they are there so that each property can be shown to fail when the code is broken
in that way (`PROJECT.json`, `mutants`).

# 1. Inventory

Lines of code are those of `src/backend/src`; `src/backend/dist` is compiled output and
`src/frontend` the web client.

## 1.1 The message path

```
provider webhook -> webhook intake (dedup, DLQ) -> reception runtime -> AI queue -> ai.partition.worker
                                                        |                               |  touch ledger (MongoDB)
                                                        v                               |  reply state, lead lock (Redis)
                                                  human queue / takeover ledger         |  message row (MongoDB)
                                                        |                               v
                          lead control state <-----------                        provider (WhatsApp, Instagram)
                          (suppression, cancel token)                                   |
provider receipt -> webhook intake -> touch ledger (DELIVERED) <------------------------
```

**Lead control state** (`services/leadControlState.service.ts`). State: `cancelTokenVersion`,
`manualSuppressUntil` of a lead. Operations: `setLeadHumanControl` (takeover, hand-back),
`bumpLeadCancelToken` (manual message), `evaluateLeadControlGate`. Every queued AI job carries the
version of the moment it was enqueued; a job with another version is cancelled. Hard: the gate is
read before an await and relied upon after it. Correct when a takeover stops every AI message but
those whose gate was already passed.

**Revenue touch ledger** (`services/revenueTouchLedger.service.ts`). State: one row per outbound
key with a delivery state and the provider's message id. Operations: `upsertRevenueTouchLedger`,
`reconcileRevenueTouchDeliveryByProviderMessageId`. It is the durable trace of a send; AI replies,
manual messages and follow-ups share it. Hard: the upsert is a read and then a write; `FAILED`
ranks above the provider boundary. Correct when the state never goes back and "past the boundary"
means that the provider has the message.

**AI reply delivery** (`workers/ai.partition.worker.ts`, `services/aiPipelineState.service.ts`,
`utils/retry.utils.ts`). State: BullMQ jobs, the lead's processing lock and the reply state
(`delivery.confirmed`, `savedMessageId`, `sentMarkedAt`) in Redis, message rows. A job passes the
control gate, takes the lead's lock, routes the message, and delivers the reply: reserve the touch,
pass the execution gate, post (three tries), persist the provider's id, confirm, checkpoint, create
the row, mark it. Hard: death between any two of these; lost answers; a provider that accepted what
the client timed out on; throttling, which moves the message to another job. Correct when the lead
gets the reply once, or once more per fault at most, and the conversation shows what was sent.

**Webhook intake and deduplication** (`routes/*.webhook.ts`, `services/webhookSecurity.service.ts`,
`services/webhookDedup.service.ts`, `queues/webhookIntake.queue.ts`). State: a replay key per signed
request, a Redis marker (`SET NX EX`) and a database row per event, and the ingest job. Hard: three
traces are left before the job is queued and taken back when the add fails; the database read is
raced with 150 ms and a timeout counts as "not seen"; a Redis error counts as "acquired"; the
provider delivers again, also at the same time. Correct when an event that was answered 200 has its
job, and one that was refused is not barred when it comes again.

**Reception runtime** (`services/webhookIntakeRuntime.service.ts`, `workers/receptionRuntime.worker.ts`,
`services/inboundLifecycle.service.ts`, `services/receptionIntake.service.ts` and the services of each
stage). State: the life cycle, the hint and the route of an inbound interaction; its traces in the
legacy inbox, the lead's memory and the outbox; five jobs. Hard: each job writes half a dozen rows
and then adds the next job, may run again or twice at once, and relies on a control gate that changes
meanwhile. Correct when somebody gets each message, once, and its history is whole.

**Human queue, escalation ladder and takeover ledger** (`services/humanQueue.service.ts`,
`services/assignmentEngine.service.ts`, `services/escalationLadder.service.ts`,
`services/inboundSlaMonitor.service.ts`, `services/humanReminder.service.ts`,
`services/takeoverLedger.service.ts`, `services/sendMessage.service.ts`). State: queue rows with an assignee, an SLA checkpoint and a ladder
step in their metadata; open takeovers. Operations: `ensureAssignment`, `escalateQueue`,
`runInboundSlaMonitor`, `emitDueReminders`, `openTakeover`, `recordHumanOutbound`, `releaseTakeover`.
Hard: each of them reads the row and later writes it, without the lock that the ladder takes, and
merges JSON that it read before; the reminder, and the routing job with the interaction's metadata,
read and write it back without a transaction. Correct when a resolved row stays resolved, each escalation is one step and each
breach is escalated.

**Manual messages** (`services/sendMessage.service.ts`) and **follow-ups**
(`queues/followup.queue.ts`, `workers/followup.worker.ts`). Two more writers of the touch ledger,
with other traces. Correct as the AI reply.

## 1.2 Shared mechanisms

**Distributed lock** (`services/distributedLock.service.ts`). State: a Redis key with a token and a
TTL; a handle with a refresh timer in each caller. Operations: acquire (a loop with a deadline and
per-command timeouts), extend, release. Hard: commands that Redis executes after the caller stopped
waiting; refresh timers that nobody waits for; errors that are swallowed. Correct when a handle
that has not expired owns the key and a dead process's key goes away.

**CRM refresh queue** (`services/crm/refreshQueue.service.ts`, `workers/crmRefresh.worker.ts`).
State: `requestedVersion`, `processingVersion`, `completedVersion` of a lead in Redis; wake and
retry jobs. Hard: a request may come while the lock's holder has just stopped looking; ids of
finished jobs cannot be used again. Correct when every request is covered by a refresh that read it
and `completedVersion` never lies.

**Appointments, slot locks and holds** (`services/appointmentEngine.service.ts`,
`services/rescheduleEngine.service.ts`, `services/meetingState.service.ts`,
`services/slotLock.service.ts`). State: rows of appointments (a status out of fifteen, a slot, when
the hold expires), a reserved count per slot, a ledger of reservations, a hold key per slot and
lock keys per slot and appointment in Redis. Operations: `holdSlot`, `confirmSlot`,
`cancelAppointment`, `reschedule`, `meetingState.transition`, `checkAvailability`, and
`reconcileExpiredHolds`, a periodic sweep. Hard: locks are leases of ten seconds without renewal
that two operations take in opposite orders; the sweep, the transitions and `checkAvailability`
take none; rows are read before the transaction that relies on them. Correct when a slot is booked
by as many appointments as it has room for, and reservations that end are given back.

**Autonomous outreach caps** (`services/autonomous/capReservation.service.ts`, `scheduler.service.ts`).
State: reservations per lead, counted and created under a lease. Hard: the duplicate test is made
before the lease. Correct when the cap is not exceeded while leases hold.

**Event outbox and event bus** (`services/eventOutbox.service.ts`,
`services/revenueBrain/eventBus.service.ts`). State: an outbox row, a checkpoint per consumer, the job,
the dead-letter queue. Operations: publish (by the AI job after the send), run the consumers, mark.
Hard: row, job, handlers and checkpoints are written one after the other; errors of the bookkeeping
are swallowed; an open Redis circuit uses up attempts; a process that shuts down runs the consumers
itself. Correct when an accepted event reaches every consumer or leaves a trace, and no handler repeats
more often than something failed.

**Circuit breakers, retries, workflows** (`runtime/execution`, `runtime/workflow`,
`runtime/communication`) and the **Redis safety circuit** (`redis/redisSafety.ts`): state machines
in the memory of one process.

## 1.3 Processes

**Worker cluster supervisor** (`workers/cluster.worker.ts`). State: live workers, restart timers,
healthy timers, recent failures, the breaker, the shutdown. Hard: exit events, timers and signals
in any order. Correct when a crash loop opens the breaker, each place of the cluster is filled,
and a shutdown ends, with the right code and without leaving processes behind.

**Cron and start-up** (`cron/cron.runner.ts`, `runtime/`): periodic triggers of the above.

## 1.4 The rest

Usage and billing, calendar synchronisation, onboarding, the sales agent and its prompts, CRM
scoring, the executive, security and reliability suites (more than half of the code: record-keeping
services without a protocol of their own), the HTTP API and the frontend. `PROJECT.json` lists all
of them, with the reason why they are not modelled.

# 2. Plan

## 2.1 Modules, in order

| | module | composes | state of the work |
|---|---|---|---|
| 1 | `Lease`, `DistributedLock` | | modelled, checked, refinement proved |
| 2 | `CRMRefresh` | `Lease` | modelled, checked, safety proved |
| 3 | `TouchLedger`, `ReplyDelivery` | `TouchLedger` | modelled, checked, safety proved |
| 4 | `ClusterSupervisor` | | modelled, checked, safety proved |
| 5 | `AppointmentBooking` | | modelled, checked, safety proved |
| 6 | `WebhookIntake` | | modelled, checked, safety proved |
| 7 | `InboundPipeline` | starts where `WebhookIntake` ends | modelled, checked, safety proved |
| 8 | `HumanDesk` | starts where `InboundPipeline` hands over | modelled, checked, safety proved |
| 9 | `EventOutbox` | started by `ReplyDelivery`'s send | modelled, checked, safety proved |
| 10 | `ManualSend`, `Followup` | `TouchLedger` | to come |
| 11 | `CapReservation` | `Lease` | to come |
| 12 | calendar synchronisation | `AppointmentBooking` | to come |
| 13 | `CircuitBreaker` (`runtime/`, `redis/redisSafety.ts`) | | to come |

The modules of the message path are not composed in one specification: the product of their states
is out of TLC's reach. They meet at one fact each: an ingest job is queued, an interaction is routed
to people or to the AI queue, a reply was sent. A state in which one module stops is an initial
state of the next.

## 2.2 Abstract specifications worth stating

* `Lease` (done): one owner, handles, and handles whose lease ran out.
* A *reply ledger*: a message is undecided, sent or refused, and a decision is never taken back.
  `ReplyDelivery` should implement it for one job when no read error is swallowed; `ManualSend` and
  `Followup` likewise.
* A *slot book*: a slot has at most `Capacity` appointments, which are held or booked there.
  `AppointmentBooking` does not implement it (section 5, finding 1); it should as long as no call
  has overtaken another, which is what `overtaken` records.
* An *outbox*: an accepted event reaches each consumer. `EventOutbox` states this as properties
  (`DeliveredPlusFaults`, `AcceptedIsSettled`), since the exceptions are part of what it promises.

## 2.3 Theorems to come

The refinement of the reply ledger by one job of `ReplyDelivery`, and of the rest of the slot book by
`AppointmentBooking` (that no slot is overfull without an overtaken row is proved:
`BookingOvertakingIsNeeded`); for each module of the plan its type invariant and the main safety property, by an
inductive invariant that has first been checked by TLC. Properties of the liveness kind stay with
TLC (section 6).

# 3. The models

Conventions: one action per handler or per stretch of code between two awaits that others can see;
the guard is the code's condition. Where a `.catch` swallows an error there is an action for it.
Bounds are constants named in the module's header; nothing else is bounded.

## 3.1 `Lease` and `DistributedLock`

`Lease` has `owner` (the token under the key), `handles` (callers that hold a handle) and `lost`
(handles whose lease ran out). Nobody tells a handle that it was lost: the abstract specification
says so openly, and users of `Lease` must live with it.

`DistributedLock` has the key (`value`, `ttl`), and per client the phase of `acquire ... release`,
the commands sent and not yet executed by Redis (`pipe`, in order: one connection), the answer it
waits for, and its refresh timer (`armed`, `age`). Time is discrete (`Tick`).

* `Begin`, `Attempt`, `Retry`, `GiveUp`, `Denied`, `Granted`: the do-while loop of
  `acquireDistributedLock`. `CommandTimeout`: the caller stops waiting, its command becomes
  "abandoned" and takes effect later or never.
* `AcquireScript`, `ExtendScript`, `ReleaseScript`: the three Lua scripts.
* `RefreshFires`, `ExecExtend`, `CommandFails`: one failed extension, for whatever reason, ends the
  refresh timer.
* `Release`, `ExecRelease`, `Crash`.

Everything may be late without bound, and Redis may fail at any time. `tardy` is a history
variable that restricts nothing: it records that a command timed out, that Redis returned an error,
or that a tick passed over a command, an answer or a refresh that was due. Two properties speak of
runs in which nothing was tardy so far.

## 3.2 `CRMRefresh`

One lead. `requested`, `processing`, `completed` are its hash in Redis; `job` the BullMQ state of
the wake and the retry job of each version; `pc` and `target` the processor of each active job;
`owner`, `handles`, `lost` the lock, through `INSTANCE Lease`: the promise that section 3.1 shows
of the real one. `runs` counts the successful `processRequest` calls, `slips` what goes wrong beside
failing and dying workers: a live worker's lease, a Redis call, or a caller that dies between its
script and its job.

* `Request`, `ScheduleWake`, `ScheduleWakeFails`: `enqueueCRMRefreshRequest`: the script first, the
  job second; the second may fail.
* `GetLock`, `NoLock`, `DeniedDone`, `DeniedDirty`, `RetryReads`, `AddRetry`: the two ways into
  `processCRMRefreshJob`. `AddJob` ignores an id that BullMQ knows, also of a finished job.
* `ReadClean`, `ReadDirty`, `MarkProcessing`, `ProcessSucceeds`, `ProcessFails`, `CompleteReads`,
  `CompleteWrites`, `Exit`, `Throw`: the loop. `markCRMRefreshCompleted` is a read and a write.
* `CleanupReads`, `CleanupWrites`: the stale-state cleanup of any reader.
* `RedisError`: any of the processor's commands may throw. `ReleaseLock` may go wrong, the lock may
  have been granted although the answer timed out (`NoLock`), and a lease may run out at any time; all
  of these count as a slip.
* `Crash`: the process dies; BullMQ runs the job once more, possibly with the same pid (another
  container), and then with the same lock token.

Left out: the in-process debouncer (used by tests), the polling reader, the 24 h TTL of the hash.

## 3.3 `TouchLedger` and `ReplyDelivery`

One inbound message of one lead and the jobs that answer it: job 1, and the jobs that
`scheduleRateLimitedReschedule` makes of a throttled one, each with an outbound key, a touch and a
reply state of its own.

| variables | in the code |
|---|---|
| `version`, `suppressed`, `consent` | the lead's control state and consent |
| `touch` | the touch row of each job: state and provider message id |
| `reply` | the reply state in Redis: confirmed, saved, sent |
| `rows` | message rows |
| `sends`, `late` | messages the provider accepted; those accepted while the gate was closed |
| `holder` | the key of the lead's processing lock |
| `job`, `expected`, `depth`, `made`, `stalled` | BullMQ: state, carried version, `retryCount`, failed attempts, stalled once |
| `pc`, `next`, `seen`, `tries`, `id` | the processor's position and locals |
| `faults`, `blind` | errors, lost answers and deaths so far; whether a read error was swallowed (history) |

An attempt is a path through: `StartAllowed`, `GetLock`, one of `Route*`, `Deliver*`, `Rate*`, then
the touch writes (`UpsertReads`, `UpsertWrites`, `AfterWrite`) around `GatePasses` and the posts
(`PostAccepted`, `PostWithoutId`, `PostUnanswered`, `PostRefused`), `Checkpoint`, `Persist*`,
`MarkSaved`, `MarkSent`, `Unlock`, `Leave`. `Errors` throws at any await, `Crash` ends the process
at any step, `LockExpires` frees a dead worker's lock. Around it: `Takeover`, `Handback`,
`ManualSend`, `SuppressionEnds`, `ConsentChanges` and `Receipt`.

Facts a reader may doubt:

* `retryAsync` does not look at the `retriable` mark of an error: it tries three times whatever
  happened.
* The execution gate looks at suppression and consent, not at the version; the control gate looks
  at both suppression and version, twice per attempt.
* The upsert's read and write are two steps, and only the id is checked for conflicts.
* The reads of the subscription (at the start and before the send) and of the touch swallow their
  errors (`.catch(() => null)`). They may fail (`StartBlind`, `GateBlind`, `DeliverBlind`), and then
  "nothing there" is what the worker believes. The history variable `blind` records that it happened.
* Who finds the touch past the boundary always finds the reply to restore in its metadata
  (`DeliverResumes`): the write that creates the touch puts it there and later ones, the receipt's and
  `FAILED` included, merge. So `provider_boundary_resume_checkpoint_missing` is not thrown.
* The lock of the lead is kept by a live worker. That a lease may run out under its holder is
  the subject of `DistributedLock` and not repeated here.

Left out: replies that stay local (preview), comment replies, the dead-letter copy of a failed job,
the 24 h TTL of the reply state, delivery events.

## 3.4 `ClusterSupervisor`

The whole primary process, except a `fork` that fails. Worker identities are used once; a worker is
running, exited (the process is gone, the event not yet handled), pending (a restart timer runs)
or gone. `age` counts from the fork and, after the exit event, from that event, up to `Horizon`,
beyond which no test in the code tells a value from a greater one. `recentFailureTimestamps` is the
set of the workers that failed; `early` is a history variable: the early exits since the last
healthy one.

* `ExitEvent` with `ExitInShutdown`, `HealthyExit` or `EarlyExit`; `BeginShutdown` for
  `beginPrimaryShutdown`, called by a signal or by the breaker.
* `RestartDue`, `HealthyDue`, `ForceShutdown`: the three timers. `Tick`: time. A timer never fires
  early, and may fire any time later.
* `LoopDrains`: all timers are unref'd, so that a primary without workers may run out of events.
* `SecondSignal`: handlers are installed with `process.once`; the second signal of a kind kills.

## 3.5 `AppointmentBooking`

Appointments, the slots they compete for, and callers. Each caller runs one operation at a time;
the sweep is one more actor.

| variables | in the code |
|---|---|
| `status`, `slotOf`, `expiry` | the appointment's row: `status`, `slotId`, `holdExpiresAt` (none, ahead or past) |
| `reserved`, `open` | `reservedCount` of a slot; rows of the reservation ledger without `releasedAt` |
| `hold` | slots that have a hold key in Redis |
| `lock` | the lock keys of appointments and slots; `Leaked`: held by nobody who will release it |
| `call` | each caller's operation: where it is, the locks still to take, arguments, what it has read |
| `listed`, `freed` | the sweep's list, and the slot whose hold key it drops next |
| `faults`, `lapsed`, `overtaken` | errors so far; a lease ran out at work; a row was written that had ended or moved since it was read (history) |

* `HoldBegins ... HoldCommits`, `ConfirmBegins ... ConfirmCommits`, `CancelBegins ... CancelCommits`,
  `RescheduleBegins ... RescheduleCommits`: take the locks (`TakesLock`, `LockUnavailable`), read,
  commit, drop the hold key (`DropsHold`), unlock (`Unlocks`). Each refusal is an action.
* `MeetBegins`, `ProposeBegins`, `MeetCommits`: a status is read, and written later without a lock.
* `SweepLists`, `SweepExpires`, `SweepSkips`, `SweepDropsHold`: `reconcileExpiredHolds`.
* `Throws`, `Dies`, `SweepDies`, `LeaseEnds`, `LeaseLapses`, `HoldKeyExpires`, `HoldComesDue`:
  failures and time.

Facts a reader may doubt:

* `holdSlot` takes its locks before its `try` block: if the second is taken, the first stays until
  its lease ends. `reschedule` releases what it has.
* `reschedule` to the slot the appointment already has asks for the same lock twice and gives up.
* The transaction of `confirmSlot` and that of `reschedule` read the row again but do not look at
  its status; that of the sweep does, and that of `holdSlot` refuses rows that have ended.
* A second hold of an appointment does not give back the first.
* A transaction is one step. What it relies on it also writes, so that MongoDB aborts one of two
  that conflict; an abort is `Throws`.

Statuses that no code here tells apart are grouped (`Status`): for instance `CONFIRMED`,
`RESCHEDULED` and `CHECKED_IN` are `BOOKED`. Left out: the tokens of hold keys (a key may vanish at
any time, so that they decide nothing), blocked slots, policies, calendar writes, reminders.

## 3.6 `WebhookIntake`

One message event of Instagram or WhatsApp, and the requests in which the provider delivers it, at
the same time or after each other.

| variables | in the code |
|---|---|
| `stamped`, `fresh` | the payload has a timestamp; it is younger than `MAX_WEBHOOK_AGE_MS` |
| `replayKey`, `marker`, `ledger` | the three traces: replay key, idempotency key, `WebhookEvent` row |
| `request`, `undoing` | where each request is, or how it was answered; what its rollback has yet to remove |
| `queued` | BullMQ has the ingest job, whose id is made from the event's |
| `refusals`, `failures` | adds that failed; errors and deaths, these included |

* `Deliver`, `Guard`, `Mark`, `Check`, `Save`, `Enqueue`: the request, one action per awaited call.
* `EnqueueFails`, `UndoMarker`, `UndoLedger` (in either order), `RolledBack`, `Unguard`: the 503. A
  failed add may have made the job.
* `GuardFails`, `DedupFailsOpen`, `UndoFails`, `UnguardFails`, `Dies`: each call may fail with or
  without having done its work. `GoesStale`, `MarkerExpires`: time.

Left out: the signature, tenant resolution, several events in one payload (each has traces of its own;
only the replay key is shared), delivery receipts, metrics. A comment goes the same way. A timestamp in
the future is fresh for longer than the replay key's 300 s; the model has the key live as long as the
event is fresh.

## 3.7 `InboundPipeline`

One interaction, from the queued ingest job to the one who answers it.

| variables | in the code |
|---|---|
| `content` | what the message asks for; `media` has attachments and no text, `empty` nothing |
| `life`, `hint`, `route` | `lifecycleState`, the classifier's `routeHint`, `routeDecision` |
| `events`, `projection`, `remembered` | outbox events, the legacy inbox, `ReceptionMemory` |
| `humanRow`, `appointments`, `aiBatch` | who got it: a queue row, appointments requested, the AI reply job |
| `gate` | what `resolveReceptionControlGate` would answer now |
| `job`, `made`, `stalled`, `holder`, `dead` | BullMQ, and the dead-letter records |
| `task`, `pc`, `plan` | the runs: the job, the place in it, what was decided |

Each job is a path of actions through one processor: ingest (`Receive`, `RecordEvent`, `Resume`),
normalize (`Load`, `Normalize`, `Project`, `CountUnread`, `HandOn`, or `FailClose` and
`AssignFailed`), classify (`Classify`, `Remember`), route (`Control`, `Apply`, `Decide` and one of the
four targets), bridge (`Execution`, `Batch`, `Note`). `Fails` throws at any await and goes where the
processor's `catch` says (`OnError`); `Crash` and `Stall` lose the job's lock, the second with the run
still alive. `Takeover` and `GateChanges` are the lead's side.

Facts a reader may doubt:

* A transition of `inboundLifecycle` is a compare-and-set: it refuses a state it did not expect, and
  that is an error like any other.
* The normalizer catches everything after its load and fails the interaction closed: `FAILED` first,
  then the owner's queue, then the error is thrown again. The retry finds `FAILED` and stops.
* A hint to the human queue is no rule of `resolveInboxRouting`: if the gate has opened since, the
  message goes to the revenue brain.
* A message with attachments and no text has no inbox row, and its bridge job throws until it is dead.

Left out: what the classifier and the scores compute, consent signals in a message, operations on
appointments beyond the request, notifications. Intelligence may send anything but spam to a human,
which is a free choice.

## 3.8 `HumanDesk`

One row of the human queue, and who writes it in production.

| variables | in the code |
|---|---|
| `life` | `lifecycleState` of the interaction from its routing on |
| `queue`, `assigned` | the row's state, and whether it has an assignee |
| `step`, `noted` | in the row's metadata: `escalation.stepIndex` and `slaMonitor.lastEventKey` |
| `mark` | `slaMonitor.lastEventKey` in the interaction's metadata, which the sweep compares |
| `clock` | what `evaluateSlaStatus` says of the deadline now |
| `due` | BullMQ has the routing job |
| `lock` | `human-escalation:<queueId>`; `Gone`: a dead process holds it |
| `call` | each call: its operation, its place, and what it has read of the row |
| `overtaken`, `climbs`, `breached` | history: calls in flight when the row was resolved; escalations written; a breach recorded |
| `undone` | stale writes that took back somebody's step or mark |

* `StartRoute`, `ReadReferences`, `PersistReferences`, `TransitionConflict`: the routing job's
  `persistRuntimeReferences`, and the transition that may follow.
* `Upsert`, `Pick`, `Assign`: `upsertHumanQueueAssignmentInTx` and `assignQueue`.
* `Lock`, `LockBusy`, `Ladder`, `Raise`, `Unlock`: `escalateQueue`, which gives up after a second.
* `StartSweep`, `Checkpoint`: `runInboundSlaMonitor`, whose candidates are read before the transaction.
* `StartReminder`, `ReadNudge`, `RecordNudge`: `emitDueReminders` and `recordReminderNudge`.
* `StartTakeover`, `OpenTakeover`; `StartSend`, `RecordHumanOutbound`, `ReleaseTakeover`.
* `CallFails`, `CallDies`, `JobStalls`, `LockExpires`, `LockIsLost`, `TimePasses`.

A transaction is one step. `MergeStale` and `MergeMark` are `mergeJsonRecords`: what was read before
wins over what the row has now, key by key. The reminder writes back all it has read. The rule, and so
the ladder's last step (`Tops`) and `ownerFallback`, is chosen anew by each escalation, as the row's
priority may have changed. Left out: who is chosen and how loaded people are, the rows of the takeover
ledger, notifications, the dispatch of a manual message, and `services/interactionResolution.service.ts`:
it closes and reopens interactions and rows, but nothing calls it except the tests, so that no row
becomes `CLOSED` and the branches of the takeover ledger for that state are not reached.

## 3.9 `EventOutbox`

One durable event (`delivery_confirmed`, three subscribers) from the AI job that publishes it, possibly
several times, to its consumers.

| variables | in the code |
|---|---|
| `row`, `checkpoints` | the outbox row (`publishedAt`, `failedAt`), `EventConsumerCheckpoint` rows |
| `effects` | how often each handler has done its work |
| `job`, `made`, `stalled`, `holder`, `letter` | BullMQ, and the dead-letter queue |
| `open` | the Redis circuit of the worker's process |
| `due`, `accepted` | the AI job has yet to publish; a publish returned without error |
| `task`, `pc`, `at` | calls of the bus: publish, local dispatch or job; the place; the consumer |
| `errors`, `lost`, `outages`, `reruns` | faults so far, by kind |
| `buried`, `parallel` | history: the job failed for good; two runs were alive at once |

* `Start`, `Find`, `Create`, `Refind`, `Enqueue`, `AddFails`, `DispatchLocally`:
  `queueRevenueBrainEventDurably`.
* `Take`, `Seen`, `Handle`, `Mark`, `MarkPublished`, `Finish`, `MarkFailed`, `Throw`, `ThrowToCaller`:
  `dispatchRevenueBrainQueuedEvent` under `withRedisWorkerFailSafe`.
* `Fails` (a create and a handler may have done their work; the add of a queue that is not writable
  throws at once, past `markEventOutboxFailed`), `Crash`, `Stall`, `CircuitOpens`,
  `CircuitCloses`, `PublishAgain`, `Forget`.

The consumers run in the order in which they subscribed. Left out: the outbox in memory of the tests,
events published without the outbox, fire-and-forget events with random ids.

# 4. The runs

Each run finishes on an ordinary machine within about three minutes. Deadlock is not checked where
the system may really stop: when every job has ended, every client is idle or dead, or the primary has
exited (`CHECK_DEADLOCK FALSE` in all configurations).

| run | specification, instance | distinct states | shows |
|---|---|---|---|
| `lock` | `FairSpec`; 2 clients, TTL 3, refresh 2, 2 attempts, 2 commands in flight | 226 k | `TypeOK`, `UnexpiredHandleOwnsKey`, `ImplementsLease`, `NothingHangs`, `TimelyMutualExclusion`, `ReturnedLeavesNoLease` |
| `crm` | `FairSpec`; 2 versions, 2 attempts, 1 failure, 1 crash, 1 slip, concurrency 2 | 1.6 M | `TypeOK`, `CompletedWasProcessed`, `CompletedNeverRegresses`, `WorkIsNotRepeatedOrLost`, `EveryRequestCompletes` |
| `reply_faults` | `Spec`; 2 jobs, 2 attempts, 2 tries, 1 reschedule, version 0..1, 2 faults | 6.0 M | `TypeOK`, `ConfirmedIsRecorded`, `FailedWasNotAnswered`, `AtMostOneLateMessage`, `RepeatsNeedFaults`, `NoResendAfterBoundary` |
| `reply_live` | `FairSpec`; the same with 1 fault | 369 k | `RepliesSettle` |
| `cluster` | `FairSpec`; 2 workers, 6 forks, cap 3, window 2, healthy 3, delays 1..3, grace 1 | 465 k | `TypeOK`, `BreakerMissesNothing`, `CapacityKept`, `ExitIsTruthful`, `TimersAct` |
| `booking` | `Spec`; 2 appointments, 2 slots of capacity 1, 2 callers (symmetric), no faults, until a row is overtaken | 6.0 M | `TypeOK`, `BookedIsReserved`, `LockedSlotIsStable` |
| `booking_live` | `FairSpec`; 1 appointment, 1 slot, 2 callers, 1 fault | 279 k | `NothingIsStuck` |
| `booking_double` | `Spec`; 2 appointments, 1 slot, no faults | (counterexample) | finding 1 |
| `intake` | `IntakeSpec`; 3 deliveries, 3 faults | 91 k | `IntakeTypeOK`, `AcknowledgedIsQueued`, `RefusalBarsNothing` |
| `inbound` | `Spec`; 2 runs alive (symmetric), 2 attempts, 2 faults, 2 changes of the gate, 3 of these together | 4.7 M | `TypeOK`, `OneFaultIsSurvived`, `AnsweredOnce`, `HistoryIsWhole` |
| `desk` | `Spec`; 3 calls (symmetric), ladders of 3 and of 4 roles, 1 fault or stale write | 6.7 M | `TypeOK`, `EscalationsAddUp`, `PeopleReopen` |
| `events` | `FairSpec`; 3 consumers, 3 calls of the bus, 2 attempts, 2 faults | 827 k | `TypeOK`, `DeliveredPlusFaults`, `AcceptedIsSettled` |

## 4.1 What the properties say

* `UnexpiredHandleOwnsKey`: no late acquire, extend or release of anybody takes the key from a
  handle whose lease has not run out. `ImplementsLease`: the key changes hands by a grant, a
  release or an expiry only, and each expiry is recorded against the handle it hits.
* `NothingHangs`, the first half (`DeadLeaseExpires`): neither a timer nor a command under way keeps a dead process's key alive.
  The second half (`AcquireReturns`): a caller gets its handle or a refusal.
* `CompletedWasProcessed`: `completedVersion` names a version that was processed with success,
  whatever slips. `CompletedNeverRegresses`: the check and the write of `markCRMRefreshCompleted` are
  two steps, and only the lock keeps two of them apart. Once a lease was lost it does go back, which
  is why the property speaks of the time before the first slip.
* `EveryRequestCompletes` holds unless a worker dies or something slips. With one death it may not:
  the retry job of the version fires while the lock is still taken, its id is then spent, and BullMQ
  ignores the next add. `WorkIsNotRepeatedOrLost` says that this, and a job whose attempts are used
  up, are the only ways in which a request is left behind until the next one comes, and that a version
  is processed again only after a death.
* `NoResendAfterBoundary`: a job whose touch is past the provider boundary does not send again,
  unless a read error was swallowed before; so `ConfirmedIsRecorded` and `FailedWasNotAnswered`.
  `RepeatsNeedFaults`: each message and each row beyond the first costs an error, a lost answer or a
  death.
* `AtMostOneLateMessage`: after a takeover or a withdrawn consent, at most the one message whose
  gate had been passed leaves.
* `ConfirmedIsRecorded`, `RepliesSettle`, `FailedWasNotAnswered`: the conversation and the touch
  show what was sent, in the end, and the lead's lock is always freed.
* `TimelyMutualExclusion`, `ReturnedLeavesNoLease`: the lease is a mutex, and a caller that returned
  leaves nothing behind, as long as nothing was tardy; and only then.
* `BookedIsReserved`: as long as no call has overtaken another, `reservedCount` of a slot covers
  each appointment that has it, and each has an open row in the ledger. As `reservedCount` never
  exceeds the capacity, no slot is overbooked. It does not say that nothing is reserved in vain: a
  second hold of an appointment leaves the first one's reservation behind.
* `LockedSlotIsStable`: what a confirmation or a cancellation has read of the appointment's slot
  still holds when it commits, unless a lease ran out at work. The lock protects the slot; it does
  not protect the status, which the sweep and the meetings write without it.
* `NothingIsStuck`: `holdSlot` and `reschedule` may wait for each other, but not for ever; no lock
  stays; the sweep, or somebody else, ends a hold that is due.
* `BreakerMissesNothing`: the timer of a healthy worker, which forgets failures, never forgets
  one that a crash loop's count needs. `CapacityKept`: each place of the cluster is
  taken or has exactly one restart on its way. `ExitIsTruthful`: the primary leaves nobody behind and
  its code tells the breaker. `TimersAct`: a shutdown ends and restarts happen.
* `AcknowledgedIsQueued`: a 200 is a promise, as the provider does not deliver again. One failure never
  breaks it, although a request that is answered "duplicate" relies on traces whose owner has not yet
  queued the job; two may, and one may if the payload has no timestamp (section 5).
  `RefusalBarsNothing`: a 503 is an invitation, so its traces must be gone; a second failure is needed
  to keep one.
* `OneFaultIsSurvived`: when nothing is left to run, somebody has the message, whatever one error,
  crash or stall did, but for an empty payload and for a gate that closes and opens again around a
  lost run (finding 6). `AnsweredOnce`: not two of them, without a fault; a second appointment takes a
  lost lock. `HistoryIsWhole`: what the processors write on the way is there in the end.
* `PeopleReopen`: a resolved row comes back only by a person's reply or through a call that was under
  way, and the transitions of the sweep, the routing job's retry and the AI are not among the former.
* `EscalationsAddUp`: no escalation is lost to another that read the same step, and none is counted
  twice: each moves the row up by one, until a ladder ends. A breach is recorded once, so that an
  escalation that finds the lock busy must find a holder that escalates. It holds until a fault or a
  write of stale metadata that takes somebody's update back (`undone`): the reminder's may come in any
  run and undoes the escalation itself (finding 7).
* `DeliveredPlusFaults`: "published" means that every handler has run; a handler runs again only for a
  fault, and for one fault only one of them does, unless two runs overlapped.
  `AcceptedIsSettled`: in the end the event is published, or the row or the dead-letter queue tells,
  with two exceptions that are named. Runs with an outage of Redis are one of them: it says nothing
  of events that are lost there (finding 8).

## 4.2 Why the bounds are enough

Two clients are what it takes to lose a key to each other, and a pipe of two commands is what it
takes for a release to overtake an abandoned acquire of the same client's next call. TTL 3 with
refresh 2 makes an extension possible in time (with one tick to spare), just in time and too late.
`MaxAttempts = 2` has a first and a repeated attempt of the loop.

Two CRM versions give a newer request during a refresh, and four jobs (two wake, two retry), of
which two run together. One crash and one failure exhaust two attempts; one slip is what it takes to
have two processors at work.

Two jobs are the original and its reschedule. Two attempts, two tries and two faults make
every pair of failures, such as a lost answer and then a crash, or a crash and then a read error
that hides what the first attempt did (liveness is checked with one); every counterexample among the
findings needs one fault. Version 0..1 has one takeover or one manual message; consent and the
suppression's end toggle freely.

Six forks are two workers and four restarts: more than the breaker's cap of three, so that it may
open after a healthy exit has reset it. `Healthy > Window` as in the defaults (300 s and 60 s).

Two appointments that compete for a slot and two slots to move between are the smallest instance
in which a slot can be lost to another, and two callers and the sweep are three actors. Capacity 1
is the one the tests have in mind. `booking` stops (`CONSTRAINT NotOvertaken`) at states after a row
was overtaken, of which `BookedIsReserved` says nothing; faults are left to `booking_live` and, for
any number of them, to the proofs.

Three deliveries are one that fails, one that overlaps with it and one that comes later; three faults
are one more than `AcknowledgedIsQueued` has to survive. Two runs of an interaction's jobs are a job
and its successor, or a job and its own second run; two faults are one more than `OneFaultIsSurvived`
speaks of, so that the counterexamples which need two are really there. Two changes close and open the
gate; with both faults and both changes at once (`MaxTogether = 4`) the run has 11.1 M states and the
same answer. Three calls at a desk are the
routing job or the sweep, the reminder and a person. The ladders (steps 0 to 2, as the shortest,
and 0 to 3, as the default one) leave room for two escalations that meet below the last step of either,
and a row that was at the end of the longer one may come to the shorter.
One fault, or one stale write that undoes an update, is one more than `EscalationsAddUp` has to
survive; without `undone = 0` the run shows what the reminder undoes. Three slots of the bus are the job, its second run and a publisher; the instance with
two consumers, three attempts and three faults (5.5 M states) gives the same answer.

## 4.3 Fairness

* `DistributedLock`: weak fairness of `Tick`, of Redis executing each client's pipe, and of each
  client's event loop. Nobody is obliged to begin, release or die, and Redis is never obliged to fail.
* `CRMRefresh`: callers add the wake job they began to add, BullMQ hands out jobs and fires
  delayed ones, a live processor goes on, leases run out. Nobody is obliged to request, fail or die.
* `ReplyDelivery`: BullMQ starts waiting jobs, a live worker goes on (the provider answers or the
  request times out after 10 s), the lock's key expires.
* `ClusterSupervisor`: time passes and the primary's event loop handles exit events and timers. No
  worker is obliged to exit, not even after SIGTERM; draining and signals are free.

* `AppointmentBooking`: a live process goes on with its call, leases end in Redis, the sweep is a
  repeated job. Nobody is obliged to begin a call, and neither time nor hold keys are obliged to end.

* `EventOutbox`: a call of the bus that has begun goes on and the worker takes up its job. Nobody has
  to publish, no circuit has to close.

All of it is weak fairness: none of these actions is disabled again and again by another.

# 5. Findings

The first is the counterexample of a run. The others were met while the models were written and can be
followed in them; where a property makes the point it is named.

1. **A slot is booked twice** (`booking_double`). `checkAvailability` reads a booked appointment, which
   is then cancelled: its slot is given back. `checkAvailability` writes the status it has read, and
   the appointment is booked again without a reservation, while the slot is free for the next.
   `confirmSlot`, `meetingState.transition` and `reschedule` write over a row that has ended in the
   same way; for a confirmation it takes a sweep between its read and its transaction.
2. **A reply is sent twice** (`ReplayDoesNotResend`). The worker dies after the touch says
   `PROVIDER_ACCEPTED` and before the reply state is checkpointed. When the job runs again the lead's
   AI budget is spent: `executeRouterFlow` looks at the Redis reply state only, reschedules the message
   as a new job whose outbound key is new, and that job, which knows nothing of the old touch, sends
   the reply again.
3. **A reply that was blocked is recorded as sent** (`SentWasAccepted`). Consent is withdrawn, the touch
   is marked `FAILED`, the worker dies. The next attempt asks whether the touch is at least
   `PROVIDER_ACCEPTED`; `FAILED` ranks above it, so the delivery is restored as confirmed, a
   row is created with `deliveryConfirmed` and the reply is marked as sent.
4. **A receipt is overwritten** (`DeliveredIsKept`). `upsertRevenueTouchLedger` reads, resolves in
   memory and writes unconditionally. A `DELIVERED` written in between becomes `CONFIRMED` again, and
   no further receipt comes.
   Findings 2 to 4 can be reproduced by adding the property to a copy of `ReplyDeliveryFaults.cfg`.
5. **Webhook.** A crash or an error after the replay key is set, before the job is queued, loses a
   stamped event for good: redeliveries are answered 403 while the key lives, then 403 as stale.
   Without a timestamp a second request passes the first, is answered 200 as a duplicate, and the first
   one's failed add takes the event away (`AcknowledgedIsQueued` says exactly when).
6. **Reception.** A message with attachments and no text gets no inbox row, and its bridge job throws
   until it is dead-lettered. A payload with nothing in it is failed closed; if the call of the owner
   then fails, the retry finds `FAILED` and nobody is told. A run of the route that was lost after it had
   added the bridge job runs again; when the gate is closed for the bridge, which bins the message, and
   open again for that second run, the route is overwritten with `REVENUE_BRAIN` and its bridge job is
   one that BullMQ knows: nobody has the message (`OneFaultIsSurvived` excepts it by name).
7. **Human desk.** A reminder undoes an escalation: `recordReminderNudge` reads the row's metadata and
   writes all of it back (`humanReminder.service.ts:80-110`), without a transaction and without the
   ladder's lock, and reminders of `SLA_RISK` are sent in the minutes around the deadline, when
   breaches escalate. A `persistEscalation` that commits in between loses its `stepIndex`, and the
   next escalation goes to the same role again, although the ladder says `monotonic: true`
   (`escalationLadder.service.ts`) and a test of it "never oscillates backwards". The same write, and
   the routing job's with the interaction's metadata, may take the SLA mark back, so that a breach is
   recorded twice. (Drop `undone = 0` from `EscalationsAddUp` to see it.) A step also falls when the
   priority has changed to a rule with a shorter ladder whose last role takes over. A sweep that is under
   way writes the state it read over a row that was resolved
   meanwhile. A sweep that found no row writes `PENDING` with nobody over one that was assigned. With a
   fault, an assignment's stale metadata puts an old step back, too. A crash between the sweep's
   checkpoint and `escalateQueue` loses the escalation. An outcome such as "REFUNDED" makes a row that
   was just resolved `ASSIGNED`. Resolving one item hands the lead back to the AI while another item's
   takeover is open. The load counters of people are never decremented, and the lead's unresolved count
   is decremented at every resolved reply.
8. **Event bus.** An outbox row whose producer died before the add is never relayed. A handler that
   always fails keeps later subscribers from the event. With the worker's circuit open each attempt
   throws before the processor, so that 15 s of backoff use up five attempts inside a 30 s cooldown,
   with neither `failedAt` nor a dead letter; a job that lost its lock twice fails as silently
   (`AcceptedIsSettled` names both). During a shutdown AI jobs that still run dispatch locally, possibly
   in parallel with the queued job (`parallel`).
9. **Outreach** (not modelled). A campaign's trace id is `ai-high:<jobId>:0`
   (`services/autonomous/campaign.service.ts:63`), while the worker's events carry the name of the
   partition queue, so that the trackers never find the campaign: it stays queued and its reservation
   reserved.
10. **Redis circuit** (not modelled). A failure recorded while a half-open probe is in flight clears
   `halfOpenInFlight`, so that two probes may run; connections that ended after the last reconnect
   attempt are not opened again while the circuit counts as open.

# 6. Proofs

The proofs hold for every value of the constants that the modules' assumptions allow. Each module
has one inductive invariant; every action has a lemma or a step of its own, and the temporal step
is the last one of the theorem.

**`DistributedLockProofs`**: `LockTypeCorrect`, `LockUnexpiredHandleOwnsKey`, `LockImplementsLease`,
`LockTimelyMutualExclusion` (assuming `0 < RefreshEvery < TTL`), `LockReturnedLeavesNoLease`.
`UnexpiredHandleOwnsKey` is not inductive: nothing in it excludes that an old release of the same
client is still on its way. `PipeInv` does, from the order of the connection: while a handle is held
only its own extensions are in the pipe, and when an awaited acquire has been answered the pipe is
empty. `ClaimInv` says that a client which was answered "ok" owns the key exactly until its lease is
recorded as lost. The refinement maps `handles` to the clients in phase "held" and
`lost` to those of them whose lease ran out; each step is a step of `Lease` or leaves the three
values alone. `TimelyInv` says that, while nothing was tardy, what is left of a holder's lease and the
age of its timer add up to the TTL, or its extension is on the way; so no tick takes the lease from
it. `ReturnedInv` says that a key whose owner returned has its release on the way, as no acquire was
abandoned.

**`CRMRefreshProofs`**: `CRMTypeCorrect`, `CRMCompletedWasProcessed`, `CRMCompletedNeverRegresses`,
`CRMWorkIsNotRepeatedOrLost`.
`WorkInv` says that a processor past `processRequest` works on a version that was processed, so
that whatever it writes was; `JobInv` that a processor's job is active and has attempts left;
`LockInv` that, while no lease slipped (`slips = 0`, which the property states), each job inside the
loop is the lock's owner (so there is one), and what it read of `completedVersion` still holds when
it writes. The last theorem needs two parts more, for runs without a slip. `RunsInv`: a version that is
neither recorded nor about to be was processed at most once for each death, since only a death comes
between the two. `WakeInv`: the wake job of a request is on its way or was added; one that is about to
exit saw its version covered; and one that is done did so or left a retry job for that version or a
later one.

**`ReplyDeliveryProofs`**: `ReplyTypeCorrect`, `ReplyNoResendAfterBoundary`,
`ReplyConfirmedIsRecorded` and `ReplyFailedWasNotAnswered` (these three speak of runs in which no read
error was swallowed so far),
`ReplyAtMostOneLateMessage`, `ReplyRepeatsNeedFaults`. The invariant has, besides the types, five parts: `JobInv` (a processor that works runs an active job, which has attempts and tries
left), `TouchInv` (a processor on its way to a send has a touch below the boundary, and so has the
reserve write it is about to make: the worker's upserts and the receipts cannot carry it past),
`RecordInv` (a saved or sent mark implies a row, and a control token that let the job in is
stale once the lead is suppressed), `LockInv` (whoever works on the reply holds the lead's lock, so
there is one) and `LateInv` (once a message was late, no other is on its way until the gate opens
again). `JobInv`, `LockInv` and `LateInv` hold with swallowed read errors, too; `TouchInv` and
`RecordInv` do not, and are conditioned on `~blind`. `FailInv`, on top of them, says that only a job that has failed
has a touch with an id that says FAILED: whoever has the id has not read FAILED, and the failed
handler runs when BullMQ has given the job up.

`ReplyRepeatsNeedFaults` is a token argument, and holds with swallowed read errors, too. A sum over the
jobs says nothing of what may still come, so the proof counts a set instead: `Sent` has a token for each
message that left, one for each job that may still send (`MaySend`), and one for a job that sends although
its touch has an id, as its upsert will conflict and it may send again (`MayConflict`); `Created` does
the same for rows. `BudgetInv` says that neither set is larger than one plus the number of faults. Each
step trades a token for another, drops one, or is a fault and adds one (`Affords`); that a reschedule
moves the token to a new job, which has none, is the case where the bound is tight. `PhaseInv` says how
far the reply state may be at each place of the worker.

**`ClusterSupervisorProofs`**: `ClusterTypeCorrect`, `ClusterBreakerMissesNothing` (assuming
`Healthy > Window`), `ClusterCapacityKept`, `ClusterExitIsTruthful`. `CountInv` says that the breaker's set contains every early exit that is still in the window, and
that the failures a healthy timer may forget (those of an epoch in which its worker was forked) are
as old as that worker at least: they left the window before the worker became healthy, if
`Healthy > Window`. The assumption is needed: with a shorter healthy uptime the timer forgets
failures that still count. `ShutdownInv` says that only the breaker's shutdown sets the code 1.
`CapacityKept` is a counting argument: each step that empties a place fills one.

**`AppointmentBookingProofs`**: `BookingTypeCorrect`, `BookingBookedIsReserved`,
`BookingLockedSlotIsStable`, `BookingOvertakingIsNeeded`, for every finite set of appointments, any slots, callers, capacity and
number of faults. The types are strengthened by `Frame`: a call has the arguments of its operation, and
waits for locks only while there is one to wait for. `BookedIsReserved` is then inductive: a commit adds
or removes at most one claim at each slot, and three counting lemmas (`CoversFewer`, `CoversGone`,
`CoversMore`) say what that does to the count. `LockedSlotIsStable` is not: `Held` adds that a call
past its locks has that of its appointment, and before that has it or has yet to take it; so a call
that moves an appointment is the only one at work on it. `BookingOvertakingIsNeeded` bounds finding 1
from above: the run shows that a slot can be booked by more appointments than it has room for, the
theorem that this takes a call that wrote over a row which ended or moved after it was read; no
crash, error or lost lock does it by itself.

**`InboundPipelineProofs`**: `InboundTypeCorrect`, `InboundHistoryIsWhole`, `InboundAnsweredOnce`,
`InboundOneFaultIsSurvived`, for any number of runs alive, attempts, faults and changes of the gate. `PlaceInv` (a run is at a place
of its job) and `JobInv` (a job that waits or runs has attempts left) hold whatever happens. The rest
is conditioned on what went wrong so far (`FaultInv`). While no run was lost: `OneRun` (a run holds
the lock of its job), `OrderInv` (a job follows one that has nothing left to do) and `LifeInv` (the
interaction is where its jobs have brought it; one appointment at most). With one error at most in
such a run, `TraceInv`: the normalizer's event, message and count are there when it hands on, since
the one retry that may have repeated its steps has repeated all of them. Without a fault,
`AnswerInv`: the classifier runs once and remembers, and the bridge job and a human row exclude
each other.

`OneFaultIsSurvived` speaks of a state in which nothing runs any more, so the invariant has to follow the
message on its way there (`SurviveInv`). Four parts hold whatever happens: `HoldInv` (an active job is
held by a run of it), `StageInv` (what a run knows of the interaction is still true enough: who is past
the routing finds it routed, in progress or failed), `ChainInv` (a job that is over has handed on, or
found the interaction FAILED) and `GateInv` (a bridge job that ended without an answer found the gate
closed, after a change). Two speak of the states with few faults. `FewInv`: a job that failed has its
dead letter, and an interaction that was failed closed has its owner or a run about to call it; a
letter that is lost would be a second fault (`LetterIsKept`). `TailInv`: when the route is over, the
interaction is settled or the bridge has it, and when the bridge is over it is settled, unless the
route runs once more. A step of a run keeps what settles the interaction (`SettledStays`), and the first
fault finds one run per job, so that the run it hits is not the one others rely on (`FaultTail`). The one
step that could break the last part is a second run of the route that finds the gate open after the
bridge found it closed: that takes two changes of the gate and a lost run. The proof attempt is how this
exception was found; TLC confirmed it.

The same module has the theorems about `WebhookIntake`: `IntakeTypeCorrect`, `IntakeRefusalBarsNothing`,
`IntakeAcknowledgedIsQueued`, for any number of deliveries, refusals and faults. `RefusalInv` says
that, while only refused adds went wrong, each trace of the event (replay key, marker, ledger row)
has a delivery in flight that will remove it, or the event is queued or acknowledged. `SmoothInv`
covers the runs without a fault: whoever finds a trace relies on a delivery that is still on its way
to the queue. With a signed timestamp one fault is survived, too; `GuardedInv` is the reason: the
replay key lets one delivery through at a time (`OneAtATime`), and the next one when the traces of
the last are gone (`CleanUnlessQueued`).

**`HumanDeskProofs`**: `DeskTypeCorrect`, `DeskPeopleReopen`, `DeskEscalationsAddUp`, for any number of
calls and faults and rules with ladders of any heights. `ResolvedInv` says that whoever is at work on a resolved
row was so when it was resolved, or is a person. `EscalationsAddUp` speaks of runs without a fault
and without a stale write that undid an update (`SmoothInv`), and needs four parts: `CallInv` (one
routing job, one sweep, one holder of the escalation lock), `ClockInv` (nobody records a breach before
it is due, and the row's mark is the interaction's), `StepInv` (the step a call is about to write is
still the row's, or none) and `ClimbInv` (a recorded breach is a step of the ladder, or somebody is on
the way to it).

**`EventOutboxProofs`**: `OutboxTypeCorrect` and `OutboxDeliveredPlusFaults`, for any number of consumers,
calls of the bus, attempts and faults. `SlotInv` and `EffectInv` give the first conjunct: a checkpoint
or a run at "mark" means that the handler has run, and the row is published after the last one. The
other two count tokens, as in `ReplyDeliveryProofs`. `Spent(c)` has a token for each time consumer c has
done its work and one for each run, and each job, that may still do it without another fault
(`MayHandle`, `MayPublish`, `MayRun`); it never has more than `1 + faults`. For all consumers together
`Repetition` has a token for each repeated effect and one for a handler that was interrupted before
its checkpoint (`Interrupted`), and never more than `faults`, as long as no two runs overlapped (`AloneInv`:
then the one run never works for a consumer that has its checkpoint).

Only model-checked, not proved:

* all liveness (`NothingHangs`, `EveryRequestCompletes`, `RepliesSettle`, `TimersAct`,
  `NothingIsStuck`, `AcceptedIsSettled`), as fairness and ENABLED are out of the prover's reach.

Every invariant and every action property of a passing run is a theorem.

# 7. Not modelled

* The components of the plan that are not built yet (section 2.1, items 10 to 13).
* What the AI says: prompts and models decide whether to reply; the models take it as a free choice.
* Calendar synchronisation also writes appointments, without any of the locks of section 3.5.
* Billing, calendars, onboarding, record-keeping suites, the HTTP layer, the frontend: no protocol
  between processes that is not already a step of one of the modules above, or pure I/O.
* Redis and MongoDB as systems: a command takes effect atomically, or not at all, or late; a
  failover that loses acknowledged writes is not modelled.
