--------------------------- MODULE InboundPipeline ---------------------------
(***************************************************************************)
(* One inbound interaction on its way from the webhook-ingest job to the   *)
(* one who answers it.                                                     *)
(*                                                                         *)
(* services/webhookIntakeRuntime.service.ts and receptionIntake.service.ts *)
(* write the interaction; workers/receptionRuntime.worker.ts normalizes,   *)
(* classifies and routes it, each in a job of its own, and hands it to the *)
(* AI reply queue (the bridge job), to the appointment engine, to the      *)
(* human queue or to the spam bin.  BullMQ (external) runs a job at least  *)
(* once, ignores an add whose id it knows, retries a job that throws, and  *)
(* gives a job whose lock ran out to another worker once, although the     *)
(* first run may still be alive.                                           *)
(***************************************************************************)
EXTENDS Integers, FiniteSets

CONSTANTS
  Slots,          \* runs of a job that may be alive at the same time
  None,           \* no slot, no job, no state
  Attempts,       \* attempts of a job (defaultJobOptions: 3 and 5)
  MaxFaults,      \* bound on errors and on lost runs, together
  MaxGateChanges, \* bound on takeovers and changes of consent or control
  MaxTogether     \* bound on faults and changes of the gate together

ASSUME InboundAssumption ==
  /\ Attempts \in Nat \ {0}
  /\ MaxFaults \in Nat /\ MaxGateChanges \in Nat /\ MaxTogether \in Nat
  /\ None \notin Slots

Job     == {"ingest", "normalize", "classify", "route", "bridge"}
Content == {"sales", "booking", "support", "spam", "media", "empty"}
Route   == {"REVENUE_BRAIN", "APPOINTMENTS", "HUMAN_QUEUE", "SPAM_BIN"}
Hint    == Route \cup {"SUPPORT"}
Gate    == {"open", "human", "spam"}
Life    == {"RECEIVED", "NORMALIZED", "CLASSIFIED", "ROUTED", "IN_PROGRESS", "FAILED"}

ASSUME NoneAssumption == None \notin Job \cup Life \cup Hint

VARIABLES
  content,       \* what the message asks for; "media" has attachments and no text
  life, hint, route,  \* the InboundInteraction: lifecycleState, classified routeHint,
                      \* routeDecision
  events,        \* reception events written to the outbox
  projection,    \* legacy inbox: nothing, the message, the lead's unread count too
  remembered,    \* ReceptionMemory counts the interaction
  humanRow,      \* the interaction has a HumanWorkQueue row
  appointments,  \* AppointmentLedger rows requested for it
  aiBatch,       \* the AI reply job is queued
  gate,          \* what resolveReceptionControlGate answers at this moment
  job, made, stalled, holder,  \* BullMQ: state, failed attempts, stalled once, lock
  dead,          \* jobs with a dead-letter record
  task, pc, plan,  \* each slot: the job it runs, where, and what it has decided
  errors, lost, gateChanges

interaction == <<life, hint, route>>
record  == <<events, projection, remembered>>
answers == <<humanRow, appointments, aiBatch>>
bull    == <<job, made, stalled, holder, dead>>
worker  == <<task, pc, plan>>
counts  == <<errors, lost, gateChanges>>
vars == <<content, interaction, record, answers, gate, bull, worker, counts>>

faults == errors + lost

Spare(n) == faults + gateChanges + n <= MaxTogether

Await == {"receive", "recordReceived", "resume",
          "load", "normalize", "recordNormalized", "project", "count", "toClassify",
          "failClose", "assignFailed", "resumeClassify",
          "classify", "recordClassified", "remember", "toRoute",
          "control", "apply", "recordRouted", "decide", "toBridge",
          "active", "request", "propose", "handled", "handOver",
          "block", "assign", "assigned", "execution", "batch", "note"}
PC == Await \cup {"idle", "throw", "finish"}

TypeOK ==
  /\ content \in Content
  /\ life \in Life \cup {None} /\ hint \in Hint \cup {None}
  /\ route \in Route \cup {None}
  /\ events \subseteq {"received", "normalized", "classified", "routed"}
  /\ projection \in {"none", "message", "counted"}
  /\ remembered \in BOOLEAN /\ humanRow \in BOOLEAN /\ aiBatch \in BOOLEAN
  /\ appointments \in Nat
  /\ gate \in Gate
  /\ job \in [Job -> {"absent", "waiting", "active", "done", "failed"}]
  /\ made \in [Job -> 0..Attempts]
  /\ stalled \subseteq Job /\ dead \subseteq Job
  /\ holder \in [Job -> Slots \cup {None}]
  /\ task \in [Slots -> Job \cup {None}]
  /\ pc \in [Slots -> PC]
  /\ plan \in [Slots -> Life \cup Route \cup {None}]
  /\ errors \in 0..MaxFaults /\ lost \in 0..MaxFaults /\ gateChanges \in 0..MaxGateChanges

\* A webhook has just queued the ingest job.
Init ==
  /\ content \in Content
  /\ life = None /\ hint = None /\ route = None
  /\ events = {} /\ projection = "none" /\ remembered = FALSE
  /\ humanRow = FALSE /\ appointments = 0 /\ aiBatch = FALSE
  /\ gate \in Gate
  /\ job = [j \in Job |-> IF j = "ingest" THEN "waiting" ELSE "absent"]
  /\ made = [j \in Job |-> 0]
  /\ stalled = {} /\ dead = {}
  /\ holder = [j \in Job |-> None]
  /\ task = [s \in Slots |-> None]
  /\ pc = [s \in Slots |-> "idle"]
  /\ plan = [s \in Slots |-> None]
  /\ errors = 0 /\ lost = 0 /\ gateChanges = 0

-----------------------------------------------------------------------------
(* BullMQ and the slots *)

Goto(s, to)     == pc' = [pc EXCEPT ![s] = to]
Step(s, from, to) == pc[s] = from /\ Goto(s, to)
Plan(s, what)   == plan' = [plan EXCEPT ![s] = what]

\* queue.add with a stable job id: a job BullMQ knows is not added again.
Add(j) == job' = [job EXCEPT ![j] = IF @ = "absent" THEN "waiting" ELSE @]

Vacate(s) ==
  /\ task' = [task EXCEPT ![s] = None]
  /\ plan' = [plan EXCEPT ![s] = None]
  /\ Goto(s, "idle")

Holds(s) == holder[task[s]] = s

Release(j, state) ==
  /\ job' = [job EXCEPT ![j] = state]
  /\ holder' = [holder EXCEPT ![j] = None]

Take(s, j) ==
  /\ pc[s] = "idle" /\ job[j] = "waiting"
  /\ job' = [job EXCEPT ![j] = "active"]
  /\ holder' = [holder EXCEPT ![j] = s]
  /\ task' = [task EXCEPT ![s] = j]
  /\ Goto(s, IF j = "ingest" THEN "receive" ELSE "load")
  /\ UNCHANGED <<content, interaction, record, answers, gate, made, stalled, dead, plan, counts>>

\* The processor returns.  Without the job's lock BullMQ refuses its result.
Finish(s) ==
  /\ pc[s] = "finish"
  /\ IF Holds(s) THEN Release(task[s], "done") ELSE UNCHANGED <<job, holder>>
  /\ Vacate(s)
  /\ UNCHANGED <<content, interaction, record, answers, gate, made, stalled, dead, counts>>

\* The failed handler writes a dead letter after the last attempt.  Its errors
\* are swallowed: one loses the ingest job's letter; the other jobs have two.
LetterCost(j) == IF j = "ingest" THEN 1 ELSE 2

\* Mutant: the attempts are not counted against the limit.
ThrowRetriesAlways(s) ==
  /\ pc[s] = "throw" /\ Holds(s)
  /\ made' = [made EXCEPT ![task[s]] = @ + 1]
  /\ Release(task[s], "waiting") /\ Vacate(s)
  /\ UNCHANGED <<content, interaction, record, answers, gate, stalled, dead, counts>>

Throw(s) ==
  /\ pc[s] = "throw"
  /\ LET j == task[s] IN
     IF ~Holds(s) THEN UNCHANGED <<job, holder, made, dead, errors>>
     ELSE /\ made' = [made EXCEPT ![j] = @ + 1]
          /\ IF made[j] + 1 < Attempts
             THEN Release(j, "waiting") /\ UNCHANGED <<dead, errors>>
             ELSE /\ Release(j, "failed")
                  /\ \/ dead' = dead \cup {j} /\ UNCHANGED errors
                     \/ /\ faults + LetterCost(j) <= MaxFaults /\ Spare(LetterCost(j))
                        /\ errors' = errors + LetterCost(j)
                        /\ UNCHANGED dead
  /\ Vacate(s)
  /\ UNCHANGED <<content, interaction, record, answers, gate, stalled, lost, gateChanges>>

\* A run loses the job's lock: once it is run again, then it fails for good,
\* with no dead letter, because its attempts are not used up.
LoseLock(s) ==
  LET j == task[s] IN
  IF ~Holds(s) THEN UNCHANGED <<job, holder, stalled>>
  ELSE /\ Release(j, IF j \in stalled THEN "failed" ELSE "waiting")
       /\ stalled' = stalled \cup {j}

\* The run's process dies ...
Crash(s) ==
  /\ pc[s] # "idle" /\ faults < MaxFaults /\ Spare(1)
  /\ LoseLock(s) /\ Vacate(s)
  /\ lost' = lost + 1
  /\ UNCHANGED <<content, interaction, record, answers, gate, made, dead, errors, gateChanges>>

\* ... or it is too slow to renew the lock, and goes on.
Stall(s) ==
  /\ pc[s] # "idle" /\ Holds(s) /\ faults < MaxFaults /\ Spare(1)
  /\ LoseLock(s)
  /\ lost' = lost + 1
  /\ UNCHANGED <<content, interaction, record, answers, gate, made, dead, worker, errors, gateChanges>>

\* An awaited call throws; a lost compare-and-set of the lifecycle is one of
\* these.  The normalizer and the appointment route catch; the others do not.
\*
\* Mutant: the normalizer rethrows instead of failing closed.
NormalizerRethrows(p) ==
  IF p \in {"active", "request", "propose", "handled"} THEN "handOver" ELSE "throw"

OnError(p) ==
  CASE p \in {"normalize", "recordNormalized", "project", "count", "toClassify"} -> "failClose"
    [] p \in {"active", "request", "propose", "handled"} -> "handOver"
    [] OTHER -> "throw"

Fails(s) ==
  /\ pc[s] \in Await /\ faults < MaxFaults /\ Spare(1)
  /\ Goto(s, OnError(pc[s]))
  /\ errors' = errors + 1
  /\ UNCHANGED <<content, interaction, record, answers, gate, bull, task, plan, lost, gateChanges>>

-----------------------------------------------------------------------------
(* The ingest job *)

Receive(s) ==
  /\ Step(s, "receive", "recordReceived")
  /\ life' = IF life = None THEN "RECEIVED" ELSE life
  /\ Plan(s, life')
  /\ UNCHANGED <<content, hint, route, record, answers, gate, bull, task, counts>>

\* publishReceptionEvent, in each of the four places that await it.
Record(s, e, from, to) ==
  /\ Step(s, from, to)
  /\ events' = events \cup {e}
  /\ UNCHANGED <<content, interaction, projection, remembered, answers, gate, bull, task, plan,
                 counts>>

RecordEvent(s) ==
  \/ Record(s, "received", "recordReceived", "resume")
  \/ Record(s, "normalized", "recordNormalized", "project")
  \/ Record(s, "classified", "recordClassified", "remember")
  \/ Record(s, "routed", "recordRouted", "decide")

\* The state is the one that the upsert returned.
Resume(s) ==
  /\ Step(s, "resume", "finish")
  /\ CASE plan[s] = "RECEIVED"                -> Add("normalize")
       [] plan[s] = "NORMALIZED"              -> Add("classify")
       [] plan[s] \in {"CLASSIFIED", "ROUTED"} -> Add("route")
       [] OTHER                               -> UNCHANGED job
  /\ UNCHANGED <<content, interaction, record, answers, gate, made, stalled, holder, dead, task, plan,
                 counts>>

-----------------------------------------------------------------------------
(* processInboundNormalization and processInboundClassification *)

\* Mutant: a classification that finds itself done does not go on to the route.
AfterLoadStops(j) ==
  CASE j = "normalize" ->
         (CASE life = "RECEIVED" -> "normalize" [] life = "NORMALIZED" -> "resumeClassify"
            [] OTHER -> "finish")
    [] j = "classify" -> IF life = "NORMALIZED" THEN "classify" ELSE "finish"
    [] j = "route" -> IF life \in {"CLASSIFIED", "ROUTED"} THEN "control" ELSE "finish"
    [] OTHER -> "execution"

\* What each processor does with the state it finds.
AfterLoad(j) ==
  CASE j = "normalize" ->
         (CASE life = "RECEIVED" -> "normalize"
            [] life = "NORMALIZED" -> "resumeClassify"
            [] life \in {"CLASSIFIED", "ROUTED"} -> "toRoute"
            [] OTHER -> "finish")
    [] j = "classify" ->
         (CASE life = "NORMALIZED" -> "classify"
            [] life \in {"CLASSIFIED", "ROUTED"} -> "toRoute"
            [] life \in {"IN_PROGRESS", "FAILED"} -> "finish"
            [] OTHER -> "throw")
    [] j = "route" ->
         (CASE life \in {"CLASSIFIED", "ROUTED"} -> "control"
            [] life \in {"IN_PROGRESS", "FAILED"} -> "finish"
            [] OTHER -> "throw")
    [] OTHER -> IF life = "ROUTED" /\ route = "REVENUE_BRAIN" /\ content # "media"
                THEN "execution" ELSE "throw"

Load(s) ==
  /\ Step(s, "load", AfterLoad(task[s]))
  /\ UNCHANGED <<content, interaction, record, answers, gate, bull, task, plan, counts>>

\* A payload with nothing in it, and an interaction that another run has
\* normalized in between, are both errors of the try block.
Normalize(s) ==
  /\ pc[s] = "normalize"
  /\ IF content # "empty" /\ life = "RECEIVED"
     THEN life' = "NORMALIZED" /\ Goto(s, "recordNormalized")
     ELSE UNCHANGED life /\ Goto(s, "failClose")
  /\ UNCHANGED <<content, hint, route, record, answers, gate, bull, task, plan, counts>>

\* projectInboundInteractionToLegacyInbox: not one transaction, and a message
\* without text is passed over.
Project(s) ==
  /\ pc[s] = "project"
  /\ IF projection = "none" /\ content # "media"
     THEN projection' = "message" /\ Goto(s, "count")
     ELSE UNCHANGED projection /\ Goto(s, "toClassify")
  /\ UNCHANGED <<content, interaction, events, remembered, answers, gate, bull, task, plan, counts>>

CountUnread(s) ==
  /\ Step(s, "count", "toClassify")
  /\ projection' = "counted"
  /\ UNCHANGED <<content, interaction, events, remembered, answers, gate, bull, task, plan, counts>>

\* markFailClosedInteraction: FAILED first, which nothing follows, then the
\* owner's queue.
FailClose(s) ==
  /\ pc[s] = "failClose"
  /\ IF life # "FAILED"
     THEN life' = "FAILED" /\ route' = "HUMAN_QUEUE" /\ Goto(s, "assignFailed")
     ELSE UNCHANGED <<life, route>> /\ Goto(s, "throw")
  /\ UNCHANGED <<content, hint, record, answers, gate, bull, task, plan, counts>>

AssignFailed(s) ==
  /\ Step(s, "assignFailed", "throw")
  /\ humanRow' = TRUE
  /\ UNCHANGED <<content, interaction, record, appointments, aiBatch, gate, bull, task, plan, counts>>

ContentHint ==
  CASE content = "booking" -> "APPOINTMENTS"
    [] content = "support" -> "SUPPORT"
    [] content = "spam"    -> "SPAM_BIN"
    [] OTHER               -> "REVENUE_BRAIN"

\* Human control and a revoked consent decide the hint before the content does;
\* a consent not yet given and a suppression close the same gate and do not.
Hints == {ContentHint} \cup IF gate = "human" THEN {"HUMAN_QUEUE"} ELSE {}

Classify(s) ==
  /\ pc[s] = "classify"
  /\ IF life \in {"NORMALIZED", "CLASSIFIED"}
     THEN life' = "CLASSIFIED" /\ hint' \in Hints /\ Goto(s, "recordClassified")
     ELSE UNCHANGED <<life, hint>> /\ Goto(s, "throw")
  /\ UNCHANGED <<content, route, record, answers, gate, bull, task, plan, counts>>

\* receptionMemory.recordInbound: a replay of the same interaction counts once.
Remember(s) ==
  /\ Step(s, "remember", "toRoute")
  /\ remembered' = TRUE
  /\ UNCHANGED <<content, interaction, events, projection, answers, gate, bull, task, plan, counts>>

\* The queue adds that end a processor.
HandOn(s) ==
  /\ \/ Step(s, "toClassify", "finish") /\ Add("classify")
     \/ Step(s, "resumeClassify", "finish") /\ Add("classify")
     \/ Step(s, "toRoute", "finish") /\ Add("route")
     \/ Step(s, "toBridge", "finish") /\ Add("bridge")
  /\ UNCHANGED <<content, interaction, record, answers, gate, made, stalled, holder, dead, task, plan,
                 counts>>

-----------------------------------------------------------------------------
(* processInboundRouting and processRevenueBrainBridge *)

\* resolveReceptionControlGate: the route that overrides, if there is one.
Override ==
  CASE gate = "human" -> "HUMAN_QUEUE"
    [] gate = "spam"  -> "SPAM_BIN"
    [] OTHER          -> None

Control(s) ==
  /\ Step(s, "control", "apply")
  /\ Plan(s, Override)
  /\ UNCHANGED <<content, interaction, record, answers, gate, bull, task, counts>>

\* resolveInboxRouting, under the override read before.  Intelligence, an
\* abusive or a complaining message may send anything but spam to a human.  A
\* hint to the human queue, left from a gate that is open by now, is no rule
\* of the table and falls through to the revenue brain.
Decisions(override) ==
  IF content = "spam" \/ override = "SPAM_BIN" THEN {"SPAM_BIN"}
  ELSE {"HUMAN_QUEUE"} \cup
       CASE override = "HUMAN_QUEUE" -> {}
         [] override # "HUMAN_QUEUE" /\ hint = "SPAM_BIN" -> {"SPAM_BIN"}
         [] override # "HUMAN_QUEUE" /\ hint = "APPOINTMENTS" -> {"APPOINTMENTS"}
         [] override # "HUMAN_QUEUE" /\ hint = "SUPPORT" -> {}
         [] OTHER -> {"REVENUE_BRAIN"}

Apply(s) ==
  /\ pc[s] = "apply"
  /\ IF life \in {"CLASSIFIED", "ROUTED"}
     THEN \E r \in Decisions(plan[s]) :
            life' = "ROUTED" /\ route' = r /\ Plan(s, r) /\ Goto(s, "recordRouted")
     ELSE UNCHANGED <<life, route, plan>> /\ Goto(s, "throw")
  /\ UNCHANGED <<content, hint, record, answers, gate, bull, task, counts>>

Decide(s) ==
  /\ Step(s, "decide", CASE plan[s] = "REVENUE_BRAIN" -> "execution"
                         [] plan[s] = "APPOINTMENTS"  -> "active"
                         [] plan[s] = "HUMAN_QUEUE"   -> "assign"
                         [] OTHER                     -> "finish")
  /\ UNCHANGED <<content, interaction, record, answers, gate, bull, task, plan, counts>>

\* resolveFreshReceptionExecutionGate: in the router and again in the bridge.
Execution(s) ==
  /\ Step(s, "execution", CASE Override # None     -> "block"
                            [] task[s] = "bridge"  -> "batch"
                            [] OTHER               -> "toBridge")
  /\ Plan(s, Override)
  /\ UNCHANGED <<content, interaction, record, answers, gate, bull, task, counts>>

Block(s) ==
  /\ pc[s] = "block"
  /\ IF life = "ROUTED"
     THEN route' = plan[s] /\ Goto(s, IF plan[s] = "SPAM_BIN" THEN "finish" ELSE "assign")
     ELSE UNCHANGED route /\ Goto(s, "throw")
  /\ UNCHANGED <<content, life, hint, record, answers, gate, bull, task, plan, counts>>

\* ensureAssignment: the row is written, then somebody is chosen and told.
Assign(s) ==
  /\ Step(s, "assign", "assigned")
  /\ humanRow' = TRUE
  /\ UNCHANGED <<content, interaction, record, appointments, aiBatch, gate, bull, task, plan, counts>>

Assigned(s) ==
  /\ Step(s, "assigned", "finish")
  /\ UNCHANGED <<content, interaction, record, answers, gate, bull, task, plan, counts>>

\* enqueueAIBatch, keyed by the interaction, and the note of it after.
Batch(s) ==
  /\ Step(s, "batch", "note")
  /\ aiBatch' = TRUE
  /\ UNCHANGED <<content, interaction, record, humanRow, appointments, gate, bull, task, plan, counts>>

Note(s) ==
  /\ Step(s, "note", "finish")
  /\ UNCHANGED <<content, interaction, record, answers, gate, bull, task, plan, counts>>

\* Mutant: every run of the route requests an appointment.
ActiveUnchecked(s) ==
  /\ Step(s, "active", "request")
  /\ UNCHANGED <<content, interaction, record, answers, gate, bull, task, plan, counts>>

\* processCanonicalAppointmentRoute: the read of an active appointment, the
\* request of a new one, then the intent, which may be one it does not handle.
Active(s) ==
  /\ Step(s, "active", IF appointments > 0 THEN "propose" ELSE "request")
  /\ UNCHANGED <<content, interaction, record, answers, gate, bull, task, plan, counts>>

Request(s) ==
  /\ Step(s, "request", "propose")
  /\ appointments' = appointments + 1
  /\ UNCHANGED <<content, interaction, record, humanRow, aiBatch, gate, bull, task, plan, counts>>

Propose(s) ==
  /\ Step(s, "propose", "handled") \/ Step(s, "propose", "assign")
  /\ UNCHANGED <<content, interaction, record, answers, gate, bull, task, plan, counts>>

Handled(s) ==
  /\ pc[s] = "handled"
  /\ IF life \in {"ROUTED", "IN_PROGRESS"}
     THEN life' = "IN_PROGRESS" /\ Goto(s, "finish")
     ELSE UNCHANGED life /\ Goto(s, "handOver")
  /\ UNCHANGED <<content, hint, route, record, answers, gate, bull, task, plan, counts>>

HandOver(s) ==
  /\ pc[s] = "handOver"
  /\ IF life = "ROUTED"
     THEN route' = "HUMAN_QUEUE" /\ Goto(s, "assign")
     ELSE UNCHANGED route /\ Goto(s, "throw")
  /\ UNCHANGED <<content, life, hint, record, answers, gate, bull, task, plan, counts>>

-----------------------------------------------------------------------------
(* The lead's side: a takeover, or another change of what the gate reads *)

Takeover ==
  /\ gateChanges < MaxGateChanges /\ Spare(1) /\ life # None
  /\ gate' = "human"
  /\ life' = IF life = "ROUTED" THEN "IN_PROGRESS" ELSE life
  /\ gateChanges' = gateChanges + 1
  /\ UNCHANGED <<content, hint, route, record, answers, bull, worker, errors, lost>>

GateChanges ==
  /\ gateChanges < MaxGateChanges /\ Spare(1)
  /\ gate' \in Gate \ {gate}
  /\ gateChanges' = gateChanges + 1
  /\ UNCHANGED <<content, interaction, record, answers, bull, worker, errors, lost>>

Work(s) ==
  \/ (\E j \in Job : Take(s, j)) \/ Finish(s) \/ Throw(s)
  \/ Receive(s) \/ RecordEvent(s) \/ Resume(s) \/ Load(s)
  \/ Normalize(s) \/ Project(s) \/ CountUnread(s) \/ FailClose(s) \/ AssignFailed(s)
  \/ Classify(s) \/ Remember(s) \/ HandOn(s)
  \/ Control(s) \/ Apply(s) \/ Decide(s) \/ Execution(s) \/ Block(s)
  \/ Assign(s) \/ Assigned(s) \/ Batch(s) \/ Note(s)
  \/ Active(s) \/ Request(s) \/ Propose(s) \/ Handled(s) \/ HandOver(s)

Next ==
  \/ \E s \in Slots : Work(s) \/ Fails(s) \/ Crash(s) \/ Stall(s)
  \/ Takeover \/ GateChanges

Spec == Init /\ [][Next]_vars

-----------------------------------------------------------------------------
(* Properties *)

Quiet ==
  /\ \A s \in Slots : pc[s] = "idle"
  /\ \A j \in Job : job[j] # "waiting"

Owned ==
  \/ aiBatch \/ humanRow \/ dead # {}
  \/ life = "IN_PROGRESS"
  \/ life = "ROUTED" /\ route = "SPAM_BIN"

\* Whatever one error, crash or stall does to a queued event, somebody ends up
\* with it: the AI, the appointment engine, a human, the spam bin or the dead
\* letters.  There are two exceptions.  An empty payload: its run fails it closed
\* before it calls the owner, and a retry finds it FAILED and leaves it.  And a
\* gate that closes and opens again: when a lost run has handed on already, the
\* bridge job bins the message while the gate is closed, and the second run of
\* the route, which finds it open, adds a bridge job that BullMQ knows.
OneFaultIsSurvived ==
  Quiet /\ ~Owned => \/ faults >= IF content = "empty" THEN 1 ELSE 2
                     \/ lost > 0 /\ gateChanges > 1

\* Without a fault the message gets one answer: not the AI's and a human's,
\* not two appointments, whatever the gate did in between.  And one error alone
\* does not make a second appointment: that takes a run that lost its lock.
AnsweredOnce ==
  /\ aiBatch /\ humanRow => faults > 0
  /\ appointments > 1 => lost > 0

\* An interaction with text that is past its classification is in the inbox,
\* with its unread count and its event, whatever call failed: missing one takes
\* a lost run, or a second error while the first one fails the interaction
\* closed.  One error can skip the lead's memory of it.
HistoryIsWhole ==
  life \in {"ROUTED", "IN_PROGRESS"} /\ content # "media" =>
    /\ projection # "counted" \/ "normalized" \notin events => lost > 0 \/ errors > 1
    /\ ~remembered => faults > 0
=============================================================================
