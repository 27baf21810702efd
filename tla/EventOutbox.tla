----------------------------- MODULE EventOutbox -----------------------------
(***************************************************************************)
(* One revenue-brain event from the AI job that publishes it to the        *)
(* handlers that consume it.                                               *)
(*                                                                         *)
(* services/revenueBrain/eventBus.service.ts writes the event to the       *)
(* outbox (services/eventOutbox.service.ts) and adds a job with the        *)
(* event's id; the worker runs the consumers one after the other and       *)
(* writes a checkpoint behind each.  A process that is shutting down has   *)
(* closed its queue and runs the consumers itself.  BullMQ (external) runs *)
(* the job again when it throws or loses its lock, ignores the add of an   *)
(* id it knows, and forgets old jobs.                                      *)
(***************************************************************************)
EXTENDS Integers, FiniteSets

CONSTANTS
  Slots,      \* calls of the bus that may be alive at the same time
  None,       \* no slot, no task
  Consumers,  \* number of subscribers of the event (delivery_confirmed: 3)
  Attempts,   \* attempts of the job (defaultJobOptions: 5)
  MaxFaults   \* bound on everything that goes wrong

ASSUME OutboxAssumption ==
  /\ Consumers \in Nat \ {0} /\ Attempts \in Nat \ {0} /\ MaxFaults \in Nat
  /\ None \notin Slots \cup {"publish", "local", "job"}

Consumer == 1..Consumers

VARIABLES
  row,         \* the outbox row: created, published (publishedAt), failed (failedAt)
  checkpoints, \* consumers with an EventConsumerCheckpoint
  effects,     \* how often each handler has done its work
  job, made, stalled, holder,  \* BullMQ: state, failed attempts, stalled once, lock
  letter,      \* the dead-letter queue has the event
  open,        \* the worker's Redis circuit is open
  due,         \* the AI job has yet to publish, or to publish again
  accepted,    \* a publish has returned without error
  task, pc, at,  \* each slot: what it runs, where, and for which consumer
  errors, lost, outages, reruns,  \* faults so far
  buried, parallel  \* history: the job failed for good; two runs were alive at once

record == <<row, checkpoints, effects>>
bull   == <<job, made, stalled, holder, letter>>
caller == <<due, accepted>>
worker == <<task, pc, at>>
counts == <<errors, lost, outages, reruns>>
past   == <<buried, parallel>>
vars == <<record, bull, open, caller, worker, counts, past>>

faults == errors + lost + outages + reruns

Await == {"find", "create", "refind", "dispatch", "seen", "handle", "mark", "publish", "fail"}

TypeOK ==
  /\ row \in [created : BOOLEAN, published : BOOLEAN, failed : BOOLEAN]
  /\ checkpoints \subseteq Consumer
  /\ effects \in [Consumer -> Nat]
  /\ job \in {"absent", "waiting", "active", "done", "failed"}
  /\ made \in 0..Attempts /\ stalled \in BOOLEAN
  /\ holder \in Slots \cup {None}
  /\ letter \in BOOLEAN /\ open \in BOOLEAN /\ due \in BOOLEAN /\ accepted \in BOOLEAN
  /\ task \in [Slots -> {None, "publish", "local", "job"}]
  /\ pc \in [Slots -> Await \cup {"idle", "finish", "throw"}]
  /\ at \in [Slots -> 1..(Consumers + 1)]
  /\ errors \in 0..MaxFaults /\ lost \in 0..MaxFaults
  /\ outages \in 0..MaxFaults /\ reruns \in 0..MaxFaults
  /\ buried \in BOOLEAN /\ parallel \in BOOLEAN

Init ==
  /\ row = [created |-> FALSE, published |-> FALSE, failed |-> FALSE]
  /\ checkpoints = {} /\ effects = [c \in Consumer |-> 0]
  /\ job = "absent" /\ made = 0 /\ stalled = FALSE /\ holder = None /\ letter = FALSE
  /\ open = FALSE /\ due = TRUE /\ accepted = FALSE
  /\ task = [s \in Slots |-> None]
  /\ pc = [s \in Slots |-> "idle"]
  /\ at = [s \in Slots |-> 1]
  /\ errors = 0 /\ lost = 0 /\ outages = 0 /\ reruns = 0
  /\ buried = FALSE /\ parallel = FALSE

-----------------------------------------------------------------------------
Goto(s, to)       == pc' = [pc EXCEPT ![s] = to]
Step(s, from, to) == pc[s] = from /\ Goto(s, to)

Runs(s) == task[s] \in {"local", "job"}

\* A run of the consumers begins in slot s.
Begin(s, what) ==
  /\ task' = [task EXCEPT ![s] = what]
  /\ parallel' = (parallel \/ \E r \in Slots \ {s} : Runs(r))

Vacate(s) ==
  /\ task' = [task EXCEPT ![s] = None]
  /\ at' = [at EXCEPT ![s] = 1]
  /\ Goto(s, "idle")

-----------------------------------------------------------------------------
(* queueRevenueBrainEventDurably, in beforeSent of the AI job *)

Start(s) ==
  /\ due /\ Step(s, "idle", "find")
  /\ due' = FALSE
  /\ task' = [task EXCEPT ![s] = "publish"]
  /\ UNCHANGED <<record, bull, open, accepted, at, counts, past>>

\* The AI job has published, or is about to, and is run again for a reason of
\* its own: its mark "sent" failed, or it lost its lock.  The event's id is the
\* same.
PublishAgain ==
  /\ ~due /\ faults < MaxFaults
  /\ due' = TRUE
  /\ reruns' = reruns + 1
  /\ UNCHANGED <<record, bull, open, accepted, worker, errors, lost, outages, past>>

\* createDurableOutboxEvent: look for the dedupe key, create, and after an
\* error, be it the unique index or the answer that was lost, look again.
Find(s) ==
  /\ Step(s, "find", IF row.created THEN "dispatch" ELSE "create")
  /\ UNCHANGED <<record, bull, open, caller, task, at, counts, past>>

Create(s) ==
  /\ Step(s, "create", IF row.created THEN "refind" ELSE "dispatch")
  /\ row' = [row EXCEPT !.created = TRUE]
  /\ UNCHANGED <<checkpoints, effects, bull, open, caller, task, at, counts, past>>

Refind(s) ==
  /\ Step(s, "refind", IF row.created THEN "dispatch" ELSE "throw")
  /\ UNCHANGED <<record, bull, open, caller, task, at, counts, past>>

\* queue.add: a job BullMQ still knows is not added again.
Add == job' = IF job = "absent" THEN "waiting" ELSE job

Enqueue(s) ==
  /\ pc[s] = "dispatch"
  /\ Add
  /\ accepted' = TRUE
  /\ Vacate(s)
  /\ UNCHANGED <<record, made, stalled, holder, letter, open, due, counts, past>>

\* The process has closed its queue (closeRevenueBrainEventQueue).
DispatchLocally(s) ==
  /\ Step(s, "dispatch", "seen")
  /\ Begin(s, "local")
  /\ UNCHANGED <<record, bull, open, caller, at, counts, buried>>

\* Mutant: an error of the add is taken for "the job exists".
AddFailsQuietly(s) ==
  /\ pc[s] = "dispatch" /\ faults < MaxFaults
  /\ Add \/ UNCHANGED job
  /\ accepted' = TRUE
  /\ Vacate(s)
  /\ errors' = errors + 1
  /\ UNCHANGED <<record, made, stalled, holder, letter, open, due, lost, outages, reruns, past>>

\* The promise of the add is rejected: the circuit is open in this process too, or
\* the connection breaks before or after the job is added.
AddFails(s) ==
  /\ Step(s, "dispatch", "fail")
  /\ \/ open /\ UNCHANGED <<job, errors>>
     \/ faults < MaxFaults /\ (Add \/ UNCHANGED job) /\ errors' = errors + 1
  /\ UNCHANGED <<record, made, stalled, holder, letter, open, caller, task, at, lost, outages,
                 reruns, past>>

-----------------------------------------------------------------------------
(* The worker, and dispatchRevenueBrainQueuedEvent *)

\* withRedisWorkerFailSafe: with the circuit open the job throws before the
\* processor and its catch block are reached.
Take(s) ==
  /\ pc[s] = "idle" /\ job = "waiting"
  /\ job' = "active" /\ holder' = s
  /\ Goto(s, IF open THEN "throw" ELSE "seen")
  /\ Begin(s, "job")
  /\ UNCHANGED <<record, made, stalled, letter, open, caller, at, counts, buried>>

\* Mutant: the checkpoints are not looked at.
SeenNever(s) ==
  /\ pc[s] = "seen"
  /\ Goto(s, IF at[s] > Consumers THEN "publish" ELSE "handle")
  /\ UNCHANGED <<record, bull, open, caller, task, at, counts, past>>

\* hasProcessed, for the next subscriber.
Seen(s) ==
  /\ pc[s] = "seen"
  /\ IF at[s] \in checkpoints
     THEN at' = [at EXCEPT ![s] = @ + 1] /\ UNCHANGED pc
     ELSE /\ Goto(s, IF at[s] > Consumers THEN "publish" ELSE "handle")
          /\ UNCHANGED at
  /\ UNCHANGED <<record, bull, open, caller, task, counts, past>>

Handle(s) ==
  /\ Step(s, "handle", "mark")
  /\ effects' = [effects EXCEPT ![at[s]] = @ + 1]
  /\ UNCHANGED <<row, checkpoints, bull, open, caller, task, at, counts, past>>

\* markOutboxConsumerCheckpoint, an upsert.
Mark(s) ==
  /\ Step(s, "mark", "seen")
  /\ checkpoints' = checkpoints \cup {at[s]}
  /\ at' = [at EXCEPT ![s] = @ + 1]
  /\ UNCHANGED <<row, effects, bull, open, caller, task, counts, past>>

MarkPublished(s) ==
  /\ Step(s, "publish", "finish")
  /\ row' = [row EXCEPT !.published = TRUE, !.failed = FALSE]
  /\ UNCHANGED <<checkpoints, effects, bull, open, caller, task, at, counts, past>>

\* Of the job, whose result BullMQ takes only from the holder of its lock, or
\* of the local dispatch, which the publisher awaits.
Finish(s) ==
  /\ pc[s] = "finish"
  /\ IF holder = s THEN job' = "done" /\ holder' = None ELSE UNCHANGED <<job, holder>>
  /\ accepted' = (accepted \/ task[s] = "local")
  /\ Vacate(s)
  /\ UNCHANGED <<record, made, stalled, letter, open, due, counts, past>>

\* markEventOutboxFailed.  The local dispatch, whose caller has its error
\* already, does not wait for it.
MarkFailed(s) ==
  /\ Step(s, "fail", "throw")
  /\ row' = [row EXCEPT !.failed = TRUE]
  /\ UNCHANGED <<checkpoints, effects, bull, open, caller, task, at, counts, past>>

Told(s) == task[s] = "local" /\ pc[s] \in {"fail", "throw"}

\* The publisher's error makes the AI job's attempt fail, and the next one
\* publishes again.
ThrowToCaller(s) ==
  /\ pc[s] = "throw" /\ task[s] # "job"
  /\ due' = (due \/ ~Told(s))
  /\ Vacate(s)
  /\ UNCHANGED <<record, bull, open, accepted, counts, past>>

\* Mutant: the attempts are not counted against the limit.
ThrowRetriesAlways(s) ==
  /\ pc[s] = "throw" /\ holder = s
  /\ made' = made + 1 /\ job' = "waiting" /\ holder' = None
  /\ Vacate(s)
  /\ UNCHANGED <<record, stalled, letter, open, caller, counts, past>>

\* After the last attempt the failed handler adds the event to the dead-letter
\* queue.  Its error is swallowed, and an open circuit is one.
Throw(s) ==
  /\ pc[s] = "throw" /\ task[s] = "job"
  /\ IF holder # s THEN UNCHANGED <<job, holder, made, letter, errors, buried>>
     ELSE /\ made' = made + 1 /\ holder' = None
          /\ IF made + 1 < Attempts
             THEN job' = "waiting" /\ UNCHANGED <<letter, errors, buried>>
             ELSE /\ job' = "failed" /\ buried' = TRUE
                  /\ \/ letter' = (letter \/ ~open) /\ UNCHANGED errors
                     \/ ~open /\ faults < MaxFaults /\ errors' = errors + 1 /\ UNCHANGED letter
  /\ Vacate(s)
  /\ UNCHANGED <<record, stalled, open, caller, lost, outages, reruns, parallel>>

-----------------------------------------------------------------------------
(* What goes wrong *)

\* A call throws.  A create and a handler may have done their work.  The add of a
\* queue that is not writable throws before there is a promise whose error would
\* be caught, and the row does not get to know.
Fails(s) ==
  /\ pc[s] \in Await /\ faults < MaxFaults
  /\ Goto(s, CASE pc[s] = "create"                                -> "refind"
               [] pc[s] \in {"find", "refind", "dispatch", "fail"} -> "throw"
               [] OTHER                                           -> "fail")
  /\ \/ UNCHANGED record
     \/ /\ pc[s] = "create"
        /\ row' = [row EXCEPT !.created = TRUE]
        /\ UNCHANGED <<checkpoints, effects>>
     \/ /\ pc[s] = "handle"
        /\ effects' = [effects EXCEPT ![at[s]] = @ + 1]
        /\ UNCHANGED <<row, checkpoints>>
  /\ due' = (due \/ (task[s] = "local" /\ ~Told(s)))
  /\ errors' = errors + 1
  /\ UNCHANGED <<bull, open, accepted, task, at, lost, outages, reruns, past>>

\* The job's lock runs out: BullMQ runs it again once, then it fails for good,
\* with no dead letter, because its attempts are not used up.
LoseLock ==
  /\ job' = IF stalled THEN "failed" ELSE "waiting"
  /\ stalled' = TRUE
  /\ holder' = None
  /\ buried' = (buried \/ stalled)

\* The process of a slot dies, with the AI job or with the event's job ...
Crash(s) ==
  /\ pc[s] # "idle" /\ faults < MaxFaults
  /\ IF holder = s THEN LoseLock ELSE UNCHANGED <<job, stalled, holder, buried>>
  /\ due' = (due \/ (task[s] # "job" /\ ~Told(s)))
  /\ Vacate(s)
  /\ lost' = lost + 1
  /\ UNCHANGED <<record, made, letter, open, accepted, errors, outages, reruns, parallel>>

\* ... or it is too slow to renew the lock, and goes on.
Stall(s) ==
  /\ pc[s] # "idle" /\ holder = s /\ faults < MaxFaults
  /\ LoseLock
  /\ lost' = lost + 1
  /\ UNCHANGED <<record, made, letter, open, caller, worker, errors, outages, reruns, parallel>>

CircuitOpens ==
  /\ ~open /\ faults < MaxFaults
  /\ open' = TRUE
  /\ outages' = outages + 1
  /\ UNCHANGED <<record, bull, caller, worker, errors, lost, reruns, past>>

CircuitCloses ==
  /\ open /\ open' = FALSE
  /\ UNCHANGED <<record, bull, caller, worker, counts, past>>

\* BullMQ keeps the last 1000 done and 5000 failed jobs.
Forget ==
  /\ job \in {"done", "failed"}
  /\ job' = "absent" /\ made' = 0 /\ stalled' = FALSE
  /\ UNCHANGED <<record, holder, letter, open, caller, worker, counts, past>>

-----------------------------------------------------------------------------
Publish(s) ==
  \/ Find(s) \/ Create(s) \/ Refind(s) \/ Enqueue(s) \/ DispatchLocally(s)

Run(s) ==
  \/ Take(s) \/ Seen(s) \/ Handle(s) \/ Mark(s) \/ MarkPublished(s) \/ Finish(s)
  \/ MarkFailed(s) \/ ThrowToCaller(s) \/ Throw(s)

Next ==
  \/ \E s \in Slots : \/ Start(s) \/ Publish(s) \/ Run(s)
                      \/ AddFails(s) \/ Fails(s) \/ Crash(s) \/ Stall(s)
  \/ PublishAgain \/ CircuitOpens \/ CircuitCloses \/ Forget

Spec == Init /\ [][Next]_vars

\* Calls that have begun go on, and the worker takes up its job.  Nobody has to
\* publish, no circuit has to close and nothing has to fail.
FairSpec == Spec /\ \A s \in Slots : WF_vars(Publish(s) \/ Run(s))

-----------------------------------------------------------------------------
(* Properties *)

\* The repeated effects, and how many they are.
Repeated == UNION {{c} \X (2..effects[c]) : c \in Consumer}
Repeats  == Cardinality(Repeated)

\* Every consumer of a published event has done its work, and no consumer did it
\* more often than once plus once per fault.  As long as no two runs overlapped,
\* all consumers together repeat no more than that: a retry repeats the one
\* handler it was interrupted in, and none that has its checkpoint, even if
\* BullMQ has forgotten the job by then.
DeliveredPlusFaults ==
  /\ row.published => \A c \in Consumer : effects[c] >= 1
  /\ \A c \in Consumer : effects[c] <= 1 + faults
  /\ ~parallel => Repeats <= faults

\* An event whose publication was accepted is published in the end, or its job is
\* buried and the row or the dead-letter queue tells.  The exceptions are silent:
\* a job that lost its lock twice, and attempts used up while the worker's
\* circuit was open, leave no trace.
AcceptedIsSettled ==
  accepted ~> \/ row.published
              \/ buried /\ (row.failed \/ letter)
              \/ lost > 1 \/ outages > 0
=============================================================================
