--------------------------- MODULE ReplyDelivery ---------------------------
(***************************************************************************)
(* workers/ai.partition.worker.ts: the delivery of the AI's reply to one   *)
(* message of one lead over WhatsApp or Instagram.                         *)
(*                                                                         *)
(* The reply leaves three traces which are written one after the other: a  *)
(* touch in the revenue ledger (MongoDB), a reply state in Redis and a     *)
(* message row (MongoDB).  BullMQ runs the job again when it throws or its *)
(* process dies, and the worker decides from the traces where to resume.   *)
(* Meanwhile a human takes the lead over, consent changes, and the         *)
(* provider's delivery receipts arrive.                                    *)
(***************************************************************************)
EXTENDS Integers, FiniteSets, TouchLedger

CONSTANTS
  MaxJobs,        \* bound on the jobs of the message; all but the first are reschedules
  Attempts,       \* attempts of a job (AI_JOB_ATTEMPTS: 3)
  Tries,          \* tries of retryAsync in one attempt (3)
  MaxReschedules, \* retryCount at which a throttled job is not rescheduled (3)
  MaxVersion,     \* bound on the cancel token's version
  MaxFaults       \* bound on errors, lost answers and process deaths

ASSUME ReplyAssumption ==
  /\ MaxJobs \in Nat \ {0} /\ Attempts \in Nat \ {0} /\ Tries \in Nat \ {0}
  /\ MaxReschedules \in Nat /\ MaxVersion \in Nat /\ MaxFaults \in Nat

Job   == 1..MaxJobs
NoJob == 0

VARIABLES
  version, suppressed,  \* LeadControlState: cancelTokenVersion, manualSuppressUntil
  consent,    \* the lead's consent is GRANTED
  touch,      \* each job's touch: its state, and the provider's message id or 0
  reply,      \* each job's reply state in Redis: confirmed, saved, sent
  rows,       \* message rows created for each job
  sends,      \* messages the provider accepted from each job
  late,       \* messages it accepted since the execution gate last closed, while closed
  holder,     \* the job whose key holds the lead's processing lock
  job,        \* state of each job in BullMQ
  expected,   \* the cancel token's version each job was enqueued with
  depth,      \* its retryCount: how often it was rescheduled
  made,       \* its failed attempts
  stalled,    \* jobs that BullMQ already ran again because their process died
  pc,         \* where the processor of each job is
  next,       \* the touch write it is about to make
  seen,       \* the touch state this write has read
  tries,      \* sends that failed in this attempt
  id,         \* the last message id the provider answered with
  faults,     \* errors, lost answers and deaths so far
  blind       \* the code took the error of a read for "nothing there" (history)

leadVars  == <<version, suppressed, consent>>
traces    == <<touch, reply, rows>>
sendVars  == <<sends, late>>
queueVars == <<job, expected, depth, made, stalled>>
procVars  == <<next, seen, tries, id>>
faultVars == <<faults, blind>>
vars == <<leadVars, traces, sendVars, holder, queueVars, pc, procVars, faultVars>>

-----------------------------------------------------------------------------
(* The writes of the touch, in the order the worker makes them *)

\* The state each upsert asks for.  "track" is trackAIMessage, "terminal" is
\* markAIJobTerminalFailure.
Incoming ==
  [reserve |-> "RESERVED", accept |-> "PROVIDER_ACCEPTED",
   persistId |-> "PROVIDER_MESSAGE_ID_PERSISTED", confirm |-> "CONFIRMED",
   fail |-> "FAILED", track |-> "CONFIRMED", terminal |-> "FAILED"]

Write  == DOMAIN Incoming
WithId == {"accept", "persistId", "confirm"}   \* they carry the new message id

\* After the lock was acquired, up to the finally block that releases it.
Inside ==
  {"route", "deliver", "rate", "read", "write", "gate", "post", "checkpoint",
   "persist", "save", "markSent", "return", "throw", "limited"}
PC == {"idle", "start", "lock", "terminal"} \cup Inside

TypeOK ==
  /\ version \in 0..MaxVersion /\ suppressed \in BOOLEAN /\ consent \in BOOLEAN
  /\ touch \in [Job -> [state : DeliveryState \cup {NoTouch}, id : Nat]]
  /\ reply \in [Job -> [confirmed : BOOLEAN, saved : BOOLEAN, sent : BOOLEAN]]
  /\ rows \in [Job -> Nat]
  /\ sends \in [Job -> Nat] /\ late \in Nat
  /\ holder \in Job \cup {NoJob}
  /\ job \in [Job -> {"absent", "waiting", "active", "completed", "failed"}]
  /\ expected \in [Job -> 0..MaxVersion]
  /\ depth \in [Job -> 0..MaxReschedules]
  /\ made \in [Job -> 0..Attempts]
  /\ stalled \subseteq Job
  /\ pc \in [Job -> PC]
  /\ next \in [Job -> Write]
  /\ seen \in [Job -> DeliveryState \cup {NoTouch}]
  /\ tries \in [Job -> 0..Tries]
  /\ id \in [Job -> Nat]
  /\ faults \in 0..MaxFaults /\ blind \in BOOLEAN

\* Job 1 was enqueued with the version of that moment.
Init ==
  /\ version = 0 /\ suppressed \in BOOLEAN /\ consent \in BOOLEAN
  /\ touch = [j \in Job |-> [state |-> NoTouch, id |-> 0]]
  /\ reply = [j \in Job |-> [confirmed |-> FALSE, saved |-> FALSE, sent |-> FALSE]]
  /\ rows = [j \in Job |-> 0]
  /\ sends = [j \in Job |-> 0] /\ late = 0
  /\ holder = NoJob
  /\ job = [j \in Job |-> IF j = 1 THEN "waiting" ELSE "absent"]
  /\ expected = [j \in Job |-> 0]
  /\ depth = [j \in Job |-> 0]
  /\ made = [j \in Job |-> 0]
  /\ stalled = {}
  /\ pc = [j \in Job |-> "idle"]
  /\ next = [j \in Job |-> "reserve"]
  /\ seen = [j \in Job |-> NoTouch]
  /\ tries = [j \in Job |-> 0]
  /\ id = [j \in Job |-> 0]
  /\ faults = 0 /\ blind = FALSE

Step(j, from, to) == pc[j] = from /\ pc' = [pc EXCEPT ![j] = to]

\* One of the bounded number of things that go wrong.
Fault == faults < MaxFaults /\ faults' = faults + 1 /\ UNCHANGED blind

\* Another one: a read fails, and the error is swallowed.
BlindFault == faults < MaxFaults /\ faults' = faults + 1 /\ blind' = TRUE

-----------------------------------------------------------------------------
(* The lead's control state, written by the API and by other workers *)

\* evaluateLeadControlGate, for a job that carries a version.
ControlAllows(j) == ~suppressed /\ expected[j] = version

\* resolveFreshReceptionExecutionGate: it does not look at the version.
GateOpen == ~suppressed /\ consent

\* setLeadHumanControl(isActive: true)
Takeover ==
  /\ version < MaxVersion
  /\ version' = version + 1 /\ suppressed' = TRUE
  /\ late' = IF GateOpen THEN 0 ELSE late
  /\ UNCHANGED <<consent, traces, sends, holder, queueVars, pc, procVars, faultVars>>

\* setLeadHumanControl(isActive: false)
Handback ==
  /\ version < MaxVersion
  /\ version' = version + 1 /\ suppressed' = FALSE
  /\ UNCHANGED <<consent, traces, sendVars, holder, queueVars, pc, procVars, faultVars>>

\* A manual message: bumpLeadCancelToken alone.
ManualSend ==
  /\ version < MaxVersion
  /\ version' = version + 1
  /\ UNCHANGED <<suppressed, consent, traces, sendVars, holder, queueVars, pc, procVars, faultVars>>

\* manualSuppressUntil passes; the version stays.
SuppressionEnds ==
  /\ suppressed
  /\ suppressed' = FALSE
  /\ UNCHANGED <<version, consent, traces, sendVars, holder, queueVars, pc, procVars, faultVars>>

ConsentChanges ==
  /\ consent' = ~consent
  /\ late' = IF GateOpen THEN 0 ELSE late
  /\ UNCHANGED <<version, suppressed, traces, sends, holder, queueVars, pc, procVars, faultVars>>

-----------------------------------------------------------------------------
(* The provider's delivery receipt *)

\* reconcileRevenueTouchDeliveryByProviderMessageId.  Its upsert reads first,
\* but writes DELIVERED whatever it reads.  Without a touch that has the id the
\* receipt is dropped.
Receipt(j) ==
  /\ touch[j].id # 0
  /\ touch' = [touch EXCEPT ![j].state = Resolve(@, "DELIVERED")]
  /\ UNCHANGED <<leadVars, reply, rows, sendVars, holder, queueVars, pc, procVars, faultVars>>

-----------------------------------------------------------------------------
(* The ends of an attempt *)

\* Mutant: one attempt too many.
FailsLate(j, comeBackLater) ==
  LET last == made[j] = Attempts IN
  /\ made' = [made EXCEPT ![j] = @ + 1]
  /\ job' = [job EXCEPT ![j] = IF last THEN "failed" ELSE "waiting"]
  /\ pc' = [pc EXCEPT ![j] = IF last /\ ~comeBackLater THEN "terminal" ELSE "idle"]
  /\ UNCHANGED <<leadVars, traces, sendVars, expected, depth, stalled, procVars>>

\* The processor throws.  BullMQ runs the job again while it has attempts left;
\* then the failed handler marks the touch, unless the error is one of the two
\* that mean "come back later".
Fails(j, comeBackLater) ==
  LET last == made[j] + 1 = Attempts IN
  /\ made' = [made EXCEPT ![j] = @ + 1]
  /\ job' = [job EXCEPT ![j] = IF last THEN "failed" ELSE "waiting"]
  /\ pc' = [pc EXCEPT ![j] = IF last /\ ~comeBackLater THEN "terminal" ELSE "idle"]
  /\ UNCHANGED <<leadVars, traces, sendVars, expected, depth, stalled, procVars>>

Completes(j) ==
  /\ job' = [job EXCEPT ![j] = "completed"]
  /\ pc' = [pc EXCEPT ![j] = "idle"]
  /\ UNCHANGED <<leadVars, traces, sendVars, expected, depth, made, stalled, procVars>>

\* releaseLeadProcessingLock in the finally block; its errors are swallowed.
Unlock(j) ==
  /\ holder = j /\ pc[j] \in {"return", "throw", "limited"}
  /\ holder' = NoJob
  /\ UNCHANGED <<leadVars, traces, sendVars, queueVars, pc, procVars, faultVars>>

Leave(j) ==
  /\ holder # j
  /\ \/ pc[j] = "return" /\ Completes(j)
     \/ pc[j] = "throw" /\ Fails(j, FALSE)
     \/ pc[j] = "limited" /\ Fails(j, TRUE)      \* BusinessRateLimitError
  /\ UNCHANGED <<holder, faultVars>>

\* A read or write of MongoDB or Redis, or making the reply, throws.  Errors
\* of the write of FAILED and of those of the failed handler are swallowed.
Errors(j) ==
  /\ pc[j] \in {"route", "deliver", "rate", "read", "write", "checkpoint", "persist",
                "save", "markSent"}
  /\ Fault
  /\ pc' = [pc EXCEPT ![j] = IF pc[j] \notin {"read", "write"} THEN "throw"
                             ELSE IF next[j] = "fail" THEN "return"
                             ELSE IF next[j] = "terminal" THEN "idle" ELSE "throw"]
  /\ UNCHANGED <<leadVars, traces, sendVars, holder, queueVars, procVars>>

-----------------------------------------------------------------------------
(* processAIMessage: the start gate and the lead's lock *)

Start(j) ==
  /\ job[j] = "waiting" /\ Step(j, "idle", "start")
  /\ job' = [job EXCEPT ![j] = "active"]
  /\ UNCHANGED <<leadVars, traces, sendVars, holder, expected, depth, made, stalled,
                 procVars, faultVars>>

StartAllowed(j) ==
  /\ ControlAllows(j)
  /\ Step(j, "start", "lock")
  /\ UNCHANGED <<leadVars, traces, sendVars, holder, queueVars, procVars, faultVars>>

StartDenied(j) ==
  /\ pc[j] = "start" /\ ~ControlAllows(j)
  /\ Completes(j)
  /\ UNCHANGED <<holder, faultVars>>

\* getSubscriptionAccess(...).catch(() => null) is a locked subscription.
StartBlind(j) ==
  /\ BlindFault
  /\ pc[j] = "start"
  /\ Completes(j)
  /\ UNCHANGED holder

\* The token of the lock is the job's key: the job may take what it left
\* behind when its process died.
GetLock(j) ==
  /\ holder \in {NoJob, j}
  /\ Step(j, "lock", "route")
  /\ holder' = j
  /\ UNCHANGED <<leadVars, traces, sendVars, queueVars, procVars, faultVars>>

\* LeadQueueBusyError, which costs an attempt.
Busy(j) ==
  /\ pc[j] = "lock" /\ holder \notin {NoJob, j}
  /\ Fails(j, TRUE)
  /\ UNCHANGED <<holder, faultVars>>

\* A live worker renews the lock (see DistributedLock); a dead one's expires.
LockExpires ==
  /\ holder # NoJob /\ pc[holder] \notin Inside
  /\ holder' = NoJob
  /\ UNCHANGED <<leadVars, traces, sendVars, queueVars, pc, procVars, faultVars>>

-----------------------------------------------------------------------------
(* executeRouterFlow *)

\* Mutant: the worker does not return after it rescheduled the message.
RescheduleGoesOn(j) ==
  /\ depth[j] < MaxReschedules
  /\ \E k \in Job :
       /\ job[k] = "absent" /\ \A i \in Job : i < k => job[i] # "absent"
       /\ job' = [job EXCEPT ![k] = "waiting"]
       /\ expected' = [expected EXCEPT ![k] = expected[j]]
       /\ depth' = [depth EXCEPT ![k] = depth[j] + 1]
  /\ pc' = [pc EXCEPT ![j] = "deliver"]
  /\ UNCHANGED <<made, stalled>>

\* scheduleRateLimitedRetry: a new job with a key of its own and the version of
\* this one, which then completes.
Reschedule(j) ==
  /\ depth[j] < MaxReschedules
  /\ \E k \in Job :
       /\ job[k] = "absent" /\ \A i \in Job : i < k => job[i] # "absent"
       /\ job' = [job EXCEPT ![k] = "waiting"]
       /\ expected' = [expected EXCEPT ![k] = expected[j]]
       /\ depth' = [depth EXCEPT ![k] = depth[j] + 1]
  /\ pc' = [pc EXCEPT ![j] = "return"]
  /\ UNCHANGED <<made, stalled>>

RouteSent(j) ==
  /\ reply[j].sent
  /\ Step(j, "route", "return")
  /\ UNCHANGED <<leadVars, traces, sendVars, holder, queueVars, procVars, faultVars>>

\* A confirmed reply is delivered as it was; otherwise one is made.
RouteReplies(j) ==
  /\ ~reply[j].sent
  /\ Step(j, "route", "deliver")
  /\ UNCHANGED <<leadVars, traces, sendVars, holder, queueVars, procVars, faultVars>>

\* Mutant: executeRouterFlow does not look for a confirmed reply first.
RouteNoReplyAlways(j) ==
  /\ Step(j, "route", "return")
  /\ UNCHANGED <<leadVars, traces, sendVars, holder, queueVars, procVars, faultVars>>

\* handleIncomingMessage decides not to reply.
RouteNoReply(j) ==
  /\ ~reply[j].confirmed
  /\ Step(j, "route", "return")
  /\ UNCHANGED <<leadVars, traces, sendVars, holder, queueVars, procVars, faultVars>>

\* The hourly AI budget is spent.  (Once the reschedules are spent too, a
\* recovery reply is sent, which is RouteReplies.)
RouteLimited(j) ==
  /\ pc[j] = "route" /\ ~reply[j].confirmed
  /\ Reschedule(j)
  /\ UNCHANGED <<leadVars, traces, sendVars, holder, procVars, faultVars>>

-----------------------------------------------------------------------------
(* processAndSendReply: where to resume *)

DeliverDenied(j) ==
  /\ ~ControlAllows(j)
  /\ Step(j, "deliver", "return")
  /\ UNCHANGED <<leadVars, traces, sendVars, holder, queueVars, procVars, faultVars>>

\* Mutant: only Redis is asked whether the message left.
DeliverIgnoresTouch(j) ==
  /\ ControlAllows(j)
  /\ ~reply[j].confirmed
  /\ Step(j, "deliver", "rate")
  /\ UNCHANGED <<leadVars, traces, sendVars, holder, queueVars, procVars, faultVars>>

\* No trace says that the message left: it is sent.
DeliverFresh(j) ==
  /\ ControlAllows(j)
  /\ ~reply[j].confirmed /\ ~AtLeast(touch[j].state, "PROVIDER_ACCEPTED")
  /\ Step(j, "deliver", "rate")
  /\ UNCHANGED <<leadVars, traces, sendVars, holder, queueVars, procVars, faultVars>>

\* findRevenueTouchLedgerByOutboundKey(...).catch(() => null)
DeliverBlind(j) ==
  /\ BlindFault
  /\ ControlAllows(j)
  /\ ~reply[j].confirmed /\ AtLeast(touch[j].state, "PROVIDER_ACCEPTED")
  /\ Step(j, "deliver", "rate")
  /\ UNCHANGED <<leadVars, traces, sendVars, holder, queueVars, procVars>>

\* restoreReplyCheckpointFromTouch, if need be, and then straight to the rows.
\* Its throw for a touch without a checkpoint cannot happen here: the write that
\* creates the touch puts the checkpoint in its metadata, and all later ones keep it.
DeliverResumes(j) ==
  /\ ControlAllows(j)
  /\ reply[j].confirmed \/ AtLeast(touch[j].state, "PROVIDER_ACCEPTED")
  /\ Step(j, "deliver", "persist")
  /\ reply' = [reply EXCEPT ![j].confirmed = TRUE]
  /\ UNCHANGED <<leadVars, touch, rows, sendVars, holder, queueVars, procVars, faultVars>>

\* The per-minute message budget and the monthly usage.
RateAllows(j) ==
  /\ Step(j, "rate", "read")
  /\ next' = [next EXCEPT ![j] = "reserve"]
  /\ UNCHANGED <<leadVars, traces, sendVars, holder, queueVars, seen, tries, id, faultVars>>

RateLimits(j) ==
  /\ pc[j] = "rate"
  /\ Reschedule(j)
  /\ UNCHANGED <<leadVars, traces, sendVars, holder, procVars, faultVars>>

RateGivesUp(j) ==
  /\ depth[j] = MaxReschedules
  /\ Step(j, "rate", "limited")
  /\ UNCHANGED <<leadVars, traces, sendVars, holder, queueVars, procVars, faultVars>>

UsageExhausted(j) ==
  /\ Step(j, "rate", "return")
  /\ UNCHANGED <<leadVars, traces, sendVars, holder, queueVars, procVars, faultVars>>

-----------------------------------------------------------------------------
(* upsertRevenueTouchLedger: the state is read and written in two calls *)

UpsertReads(j) ==
  /\ Step(j, "read", "write")
  /\ seen' = [seen EXCEPT ![j] = touch[j].state]
  /\ UNCHANGED <<leadVars, traces, sendVars, holder, queueVars, next, tries, id, faultVars>>

\* provider_message_id_conflict: the touch has the id of another message.
Conflict(j) == next[j] \in WithId /\ touch[j].id \notin {0, id[j]}

UpsertConflicts(j) ==
  /\ Conflict(j)
  /\ Step(j, "write", "throw")
  /\ UNCHANGED <<leadVars, traces, sendVars, holder, queueVars, procVars, faultVars>>

\* What the worker does after each write.
AfterWrite ==
  [reserve |-> "gate", accept |-> "read", persistId |-> "read", confirm |-> "checkpoint",
   fail |-> "return", track |-> "markSent", terminal |-> "idle"]

UpsertWrites(j) ==
  /\ pc[j] = "write" /\ ~Conflict(j)
  /\ touch' = [touch EXCEPT ![j] =
       [state |-> Resolve(seen[j], Incoming[next[j]]),
        id    |-> IF next[j] \in WithId THEN id[j] ELSE @.id]]
  /\ pc' = [pc EXCEPT ![j] = AfterWrite[next[j]]]
  /\ next' = [next EXCEPT ![j] = CASE @ = "accept" -> "persistId"
                                   [] @ = "persistId" -> "confirm"
                                   [] OTHER -> @]
  /\ seen' = [seen EXCEPT ![j] = NoTouch]
  /\ tries' = [tries EXCEPT ![j] = 0]
  /\ UNCHANGED <<leadVars, reply, rows, sendVars, holder, queueVars, id, faultVars>>

-----------------------------------------------------------------------------
(* retryAsync around sendPlatformReply *)

\* Mutant: the gate is evaluated once for all tries.
TryFailsKeepsGate(j, isFatal) ==
  LET last == tries[j] + 1 = Tries IN
  /\ tries' = [tries EXCEPT ![j] = @ + 1]
  /\ pc' = [pc EXCEPT ![j] = IF ~last THEN "post" ELSE IF isFatal THEN "read" ELSE "throw"]
  /\ next' = [next EXCEPT ![j] = IF last /\ isFatal THEN "fail" ELSE @]
  /\ UNCHANGED <<leadVars, traces, holder, queueVars, seen>>

\* retryAsync does not ask whether an error is retriable: only the last one
\* decides whether the attempt fails or the touch becomes FAILED.
TryFails(j, isFatal) ==
  LET last == tries[j] + 1 = Tries IN
  /\ tries' = [tries EXCEPT ![j] = @ + 1]
  /\ pc' = [pc EXCEPT ![j] = IF ~last THEN "gate" ELSE IF isFatal THEN "read" ELSE "throw"]
  /\ next' = [next EXCEPT ![j] = IF last /\ isFatal THEN "fail" ELSE @]
  /\ UNCHANGED <<leadVars, traces, holder, queueVars, seen>>

Accepted(j) ==
  /\ sends' = [sends EXCEPT ![j] = @ + 1]
  /\ late' = IF GateOpen THEN late ELSE late + 1

GatePasses(j) ==
  /\ GateOpen
  /\ Step(j, "gate", "post")
  /\ UNCHANGED <<leadVars, traces, sendVars, holder, queueVars, procVars, faultVars>>

GateBlocks(j) ==
  /\ pc[j] = "gate" /\ ~GateOpen
  /\ TryFails(j, TRUE)
  /\ UNCHANGED <<sendVars, id, faultVars>>

\* The error of the subscription's read is taken for a locked subscription.
GateBlind(j) ==
  /\ BlindFault
  /\ pc[j] = "gate"
  /\ TryFails(j, TRUE)
  /\ UNCHANGED <<sendVars, id>>

\* The gate cannot be read, or the provider cannot be reached or refuses.
PostRefused(j) ==
  /\ pc[j] \in {"gate", "post"}
  /\ TryFails(j, FALSE)
  /\ UNCHANGED <<sendVars, id, faultVars>>

\* The provider accepts the message, but its answer does not arrive in time.
PostUnanswered(j) ==
  /\ pc[j] = "post" /\ Fault
  /\ Accepted(j)
  /\ TryFails(j, FALSE)
  /\ UNCHANGED id

\* Its answer carries no message id.
PostWithoutId(j) ==
  /\ pc[j] = "post" /\ Fault
  /\ Accepted(j)
  /\ TryFails(j, TRUE)
  /\ UNCHANGED id

PostAccepted(j) ==
  /\ Step(j, "post", "read")
  /\ Accepted(j)
  /\ id' = [id EXCEPT ![j] = sends[j] + 1]
  /\ next' = [next EXCEPT ![j] = "accept"]
  /\ UNCHANGED <<leadVars, traces, holder, queueVars, seen, tries, faultVars>>

-----------------------------------------------------------------------------
(* checkpointReplyConfirmation and finalizeCheckpointedReplyDelivery *)

Checkpoint(j) ==
  /\ Step(j, "checkpoint", "persist")
  /\ reply' = [reply EXCEPT ![j].confirmed = TRUE]
  /\ UNCHANGED <<leadVars, touch, rows, sendVars, holder, queueVars, procVars, faultVars>>

\* persistConfirmedReplyMessage.  The touch's own messageId, the second place
\* it looks at, is not set before markReplySaved was.
PersistReuses(j) ==
  /\ reply[j].saved
  /\ Step(j, "persist", "read")
  /\ next' = [next EXCEPT ![j] = "track"]
  /\ UNCHANGED <<leadVars, traces, sendVars, holder, queueVars, seen, tries, id, faultVars>>

PersistCreates(j) ==
  /\ ~reply[j].saved
  /\ Step(j, "persist", "save")
  /\ rows' = [rows EXCEPT ![j] = @ + 1]
  /\ UNCHANGED <<leadVars, touch, reply, sendVars, holder, queueVars, procVars, faultVars>>

\* markReplySaved; trackAIMessage follows.
MarkSaved(j) ==
  /\ Step(j, "save", "read")
  /\ reply' = [reply EXCEPT ![j].saved = TRUE]
  /\ next' = [next EXCEPT ![j] = "track"]
  /\ UNCHANGED <<leadVars, touch, rows, sendVars, holder, queueVars, seen, tries, id, faultVars>>

\* Mutant: the mark is lost.
MarkSentLost(j) ==
  /\ Step(j, "markSent", "return")
  /\ UNCHANGED <<leadVars, traces, sendVars, holder, queueVars, procVars, faultVars>>

\* markReplySent, after the delivery_confirmed event was queued.
MarkSent(j) ==
  /\ Step(j, "markSent", "return")
  /\ reply' = [reply EXCEPT ![j].sent = TRUE]
  /\ UNCHANGED <<leadVars, touch, rows, sendVars, holder, queueVars, procVars, faultVars>>

-----------------------------------------------------------------------------
(* markAIJobTerminalFailure, and the death of a worker *)

\* Nothing is marked if there is no touch or it is DELIVERED.
TerminalSkips(j) ==
  /\ touch[j].state \in {NoTouch, "DELIVERED"}
  /\ Step(j, "terminal", "idle")
  /\ UNCHANGED <<leadVars, traces, sendVars, holder, queueVars, procVars, faultVars>>

TerminalMarks(j) ==
  /\ touch[j].state \notin {NoTouch, "DELIVERED"}
  /\ Step(j, "terminal", "read")
  /\ next' = [next EXCEPT ![j] = "terminal"]
  /\ UNCHANGED <<leadVars, traces, sendVars, holder, queueVars, seen, tries, id, faultVars>>

\* BullMQ's stalled check runs the job once more, and fails it the second time.
Crash(j) ==
  /\ pc[j] # "idle" /\ Fault
  /\ pc' = [pc EXCEPT ![j] = "idle"]
  /\ job' = [job EXCEPT ![j] = IF @ # "active" THEN @
                               ELSE IF j \in stalled THEN "failed" ELSE "waiting"]
  /\ stalled' = IF job[j] = "active" THEN stalled \cup {j} ELSE stalled
  /\ UNCHANGED <<leadVars, traces, sendVars, holder, expected, depth, made, procVars>>

-----------------------------------------------------------------------------
Control == Takeover \/ Handback \/ ManualSend \/ SuppressionEnds \/ ConsentChanges

Upsert(j) == UpsertReads(j) \/ UpsertConflicts(j) \/ UpsertWrites(j)

Attempt(j) ==
  \/ StartAllowed(j) \/ StartDenied(j) \/ StartBlind(j)
  \/ GetLock(j) \/ Busy(j) \/ Unlock(j) \/ Leave(j)

Route(j) == RouteSent(j) \/ RouteReplies(j) \/ RouteNoReply(j) \/ RouteLimited(j)

Deliver(j) ==
  \/ DeliverDenied(j) \/ DeliverFresh(j) \/ DeliverBlind(j) \/ DeliverResumes(j)
  \/ RateAllows(j) \/ RateLimits(j) \/ RateGivesUp(j) \/ UsageExhausted(j)

Send(j) ==
  \/ GatePasses(j) \/ GateBlocks(j) \/ GateBlind(j)
  \/ PostRefused(j) \/ PostUnanswered(j) \/ PostWithoutId(j) \/ PostAccepted(j)

Finalize(j) ==
  \/ Checkpoint(j) \/ PersistReuses(j) \/ PersistCreates(j) \/ MarkSaved(j) \/ MarkSent(j)

Terminal(j) == TerminalSkips(j) \/ TerminalMarks(j)

\* What the processor of a job does while its process lives.
Processor(j) ==
  Attempt(j) \/ Route(j) \/ Deliver(j) \/ Upsert(j) \/ Send(j) \/ Finalize(j) \/ Terminal(j)

Next ==
  \/ Control
  \/ \E j \in Job : Receipt(j) \/ Start(j) \/ Processor(j) \/ Errors(j) \/ Crash(j)
  \/ LockExpires

Spec == Init /\ [][Next]_vars

\* BullMQ starts waiting jobs, a live worker goes on, the provider answers or
\* times out, and Redis expires keys.
FairSpec ==
  /\ Spec
  /\ WF_vars(LockExpires)
  /\ \A j \in Job : WF_vars(Start(j)) /\ WF_vars(Processor(j))

-----------------------------------------------------------------------------
(* Safety *)

\* The copies that f counts of each job's reply, and how many they are.
Copies(f) == UNION {{j} \X (1..f[j]) : j \in DOMAIN f}
Total(f) == Cardinality(Copies(f))

\* Once a job's touch says that the provider has the message, no attempt of
\* the job sends it again, whatever died or failed in between: the delivery is
\* resumed behind the send (processAndSendReply).  Only a read of the touch
\* whose error is swallowed breaks this.
NoResendAfterBoundary ==
  [][\A j \in Job : ~blind /\ sends'[j] # sends[j]
                      => ~AtLeast(touch[j].state, "PROVIDER_ACCEPTED")]_vars

\* The lead gets the reply once, and once more for each error, lost answer or
\* death at most: neither retryAsync, nor BullMQ's retries, nor rescheduled
\* jobs add a message by themselves.  The same of the conversation's rows (the
\* row and markReplySaved are two writes).
RepeatsNeedFaults ==
  /\ Total(sends) <= 1 + faults
  /\ Total(rows) <= 1 + faults

\* After a human took the lead over, or consent was withdrawn, the provider
\* accepts at most the one message whose gate had been passed before.
AtMostOneLateMessage == late <= 1

\* When a job completes whose reply was checkpointed as confirmed, the message
\* row was written and the reply marked as sent, unless the control token has
\* moved or a read error was swallowed: a crash or a retry resumes the
\* bookkeeping and does not skip it.
ConfirmedIsRecorded ==
  \A j \in Job :
    ~blind /\ job[j] = "completed" /\ reply[j].confirmed /\ expected[j] = version
      => reply[j].sent /\ rows[j] > 0

\* The touch of a job that ended without error says FAILED only if the worker
\* never saw the provider's message id (or took a read error for no touch).
FailedWasNotAnswered ==
  \A j \in Job :
    ~blind /\ job[j] = "completed" /\ touch[j].state = "FAILED" => touch[j].id = 0

(* Liveness *)

\* A confirmed reply gets its row and its mark, unless a human moves the
\* control token or the job uses up its attempts.
ConfirmedEnds ==
  \A j \in Job :
    reply[j].confirmed ~> reply[j].sent \/ job[j] = "failed" \/ ~ControlAllows(j)

\* The lead's lock is freed, by its worker or by its expiry.
LockIsFreed == holder # NoJob ~> holder = NoJob

\* Both: neither a reply nor the lead is left hanging.
RepliesSettle == ConfirmedEnds /\ LockIsFreed

(* What the tests of the repository say, and the code does not do *)

\* tests/delivery.replay.test.ts: "delivery replay does not resend after
\* provider message boundary is durable", for the lead's message and not only
\* for one job.
ReplayDoesNotResend ==
  [][Total(sends)' # Total(sends)
       => \A j \in Job : ~AtLeast(touch[j].state, "PROVIDER_ACCEPTED")]_vars

\* tests/revenueBrain.phase3b.test.ts: "delivery truth only marks success after
\* delivery is confirmed": a reply is marked as sent only if the provider
\* accepted a message.
SentWasAccepted == \A j \in Job : reply[j].sent => sends[j] > 0

\* tests/webhook.reconciliation.test.ts: a touch that a receipt marked as
\* DELIVERED stays so.
DeliveredIsKept ==
  [][\A j \in Job : touch[j].state = "DELIVERED" => touch'[j].state = "DELIVERED"]_vars

=============================================================================
