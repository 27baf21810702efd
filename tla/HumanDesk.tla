------------------------------ MODULE HumanDesk ------------------------------
(***************************************************************************)
(* One HumanWorkQueue row and who writes it in production: the routing job *)
(* (humanQueue.service.ts and assignmentEngine.service.ts), the sweep of   *)
(* inboundSlaMonitor.service.ts, the ladder of escalationLadder.service.ts *)
(* under its lock, the reminders of humanReminder.service.ts, the AI's     *)
(* escalation to the owner, and a person who answers                       *)
(* (sendMessage.service.ts, takeoverLedger.service.ts).                    *)
(*                                                                         *)
(* A transaction is one step; what a call reads before its transaction, or *)
(* writes without one, is in its record.  The sweep and the jobs have      *)
(* several processes.  What a takeover does to the lead's control state is *)
(* in ReplyDelivery.  Left out: interactionResolution.service.ts, which    *)
(* only the tests call, and with it the state CLOSED, which only its close *)
(* writes.                                                                 *)
(***************************************************************************)
EXTENDS Integers

CONSTANTS
  Calls,     \* the calls that may be in flight at the same time
  None,      \* nobody holds the ladder's lock
  Gone,      \* a process that died holds it
  Top,       \* the last step of the longest ladder
  Tops,      \* the last steps of the ladders that rules give (the default: 3)
  MaxFaults  \* bound on errors, crashes, lost locks and leases, and on stale
             \* writes that undo an update, all together

ASSUME DeskAssumption ==
  /\ Top \in Nat /\ Tops \subseteq 0..Top /\ Tops # {}
  /\ MaxFaults \in Nat
  /\ None \notin Calls /\ Gone \notin Calls /\ None # Gone

Active == {"PENDING", "ASSIGNED", "IN_PROGRESS", "ESCALATED"}
State  == Active \cup {"none", "RESOLVED"}
Mark   == {"none", "warning", "breached"}

VARIABLES
  life,      \* lifecycleState of the interaction, from its routing on
  queue,     \* state of the row; "none" before there is one
  assigned,  \* assignedHumanId is set
  step,      \* metadata.escalation.stepIndex
  noted,     \* slaMonitor.lastEventKey in the metadata of the row
  mark,      \* the same in the metadata of the interaction, which the sweep reads
  clock,     \* what evaluateSlaStatus says of the deadline now
  due,       \* BullMQ has a job that routes the message
  lock,      \* human-escalation:<queueId>
  call,      \* what each call does, and what it has read
  overtaken, \* calls that were in flight when the row was resolved
  climbs,    \* escalations written
  breached,  \* the sweep has recorded a breach
  undone,    \* writes of stale metadata that undid somebody's update
  faults     \* errors, crashes, stalls, and locks and leases lost

row  == <<life, queue, assigned, step, noted, mark>>
vars == <<row, clock, due, lock, call, overtaken, climbs, breached, undone, faults>>

Idle == [op |-> "none", pc |-> "idle", state |-> "none", kind |-> "none", step |-> 0, mark |-> "none"]

TypeOK ==
  /\ life \in {"ROUTED", "IN_PROGRESS", "RESOLVED", "REOPENED"}
  /\ queue \in State /\ assigned \in BOOLEAN
  /\ step \in 0..Top /\ noted \in Mark /\ mark \in Mark /\ clock \in Mark
  /\ due \in BOOLEAN /\ lock \in Calls \cup {None, Gone}
  /\ call \in [Calls ->
       [op: {"none", "route", "sweep", "remind", "takeover", "send"},
        pc: {"idle", "refer", "store", "upsert", "pick", "assign", "check", "climb", "ladder",
             "raise", "unlock", "remind", "nudge", "open", "record", "release", "last"},
        state: State, kind: Mark, step: 0..Top, mark: Mark]]
  /\ overtaken \subseteq Calls
  /\ climbs \in Nat /\ breached \in BOOLEAN /\ undone \in 0..MaxFaults
  /\ faults \in 0..MaxFaults

\* A message was routed, and the job has yet to do something about it or not.
Init ==
  /\ life = "ROUTED" /\ queue = "none" /\ assigned = FALSE
  /\ step = 0 /\ noted = "none" /\ mark = "none" /\ clock = "none"
  /\ due \in BOOLEAN /\ lock = None
  /\ call = [c \in Calls |-> Idle]
  /\ overtaken = {} /\ climbs = 0 /\ breached = FALSE
  /\ undone = 0 /\ faults = 0

-----------------------------------------------------------------------------
(* Calls *)

At(c, pc) == call[c].pc = pc
Fault     == faults + undone < MaxFaults /\ faults' = faults + 1

Begin(c, op, pc, state, kind) ==
  /\ At(c, "idle")
  /\ call' = [call EXCEPT ![c] = [Idle EXCEPT !.op = op, !.pc = pc, !.state = state, !.kind = kind]]
  /\ overtaken' = overtaken \ {c}

End(c) == call' = [call EXCEPT ![c] = Idle]

\* What has been read so far is not used any more.
Goto(c, pc) == call' = [call EXCEPT ![c] = [Idle EXCEPT !.op = call[c].op, !.pc = pc]]

\* A job or a sweep has written all: the events that follow, and the return.
Leave(c) == Goto(c, "last")

\* What a call has read of the row's metadata, to be merged into it later; the
\* ladder replaces the step.
Take(c, pc, s) == call' = [call EXCEPT ![c].pc = pc, ![c].step = s, ![c].mark = noted]
Read(c, pc)    == Take(c, pc, step)

\* A write of what was read counts if it undoes an update made meanwhile.
Undo(stale) == IF stale THEN faults + undone < MaxFaults /\ undone' = undone + 1 ELSE UNCHANGED undone

Finish(c) ==
  /\ At(c, "last") /\ End(c)
  /\ UNCHANGED <<row, clock, due, lock, overtaken, climbs, breached, undone, faults>>

\* mergeJsonRecords: a key the stale metadata has replaces the one in the row,
\* and the one in the interaction.
MergeMark(c) ==
  /\ noted' = IF call[c].mark # "none" THEN call[c].mark ELSE noted
  /\ mark'  = IF call[c].mark # "none" THEN call[c].mark ELSE mark

MergeStale(c) ==
  /\ step' = IF call[c].step > 0 THEN call[c].step ELSE step
  /\ MergeMark(c)

-----------------------------------------------------------------------------
(* The routing job *)

StartRoute(c) ==
  /\ due /\ life = "ROUTED" /\ due' = FALSE
  /\ Begin(c, "route", "refer", "none", "none")
  /\ UNCHANGED <<row, clock, lock, climbs, breached, undone, faults>>

\* The job reads the interaction's metadata and writes it back with references
\* added, without a transaction.  It may do so again, for a reply that is blocked
\* or a booking that failed, and it ends there if the AI is to answer or a booking
\* has succeeded.
ReadReferences(c) ==
  /\ At(c, "refer")
  /\ call' = [call EXCEPT ![c].pc = "store", ![c].mark = mark]
  /\ UNCHANGED <<row, clock, due, lock, overtaken, climbs, breached, undone, faults>>

PersistReferences(c) ==
  /\ At(c, "store")
  /\ \/ (Goto(c, "upsert") \/ Goto(c, "refer") \/ Leave(c)) /\ UNCHANGED life
     \/ life \in {"ROUTED", "IN_PROGRESS"} /\ Leave(c) /\ life' = "IN_PROGRESS"
  /\ mark' = call[c].mark /\ Undo(mark # call[c].mark)
  /\ UNCHANGED <<queue, assigned, step, noted, clock, due, lock, overtaken, climbs, breached, faults>>

\* transitionInboundInteraction throws when somebody else has moved it on.
TransitionConflict(c) ==
  /\ At(c, "store") /\ life # "ROUTED"
  /\ End(c) /\ due' = TRUE
  /\ UNCHANGED <<row, clock, lock, overtaken, climbs, breached, undone, faults>>

\* The job finds the interaction in other hands, takes the message for spam, or
\* has failed for good.
RouteElsewhere ==
  /\ due /\ due' = FALSE
  /\ UNCHANGED <<row, clock, lock, call, overtaken, climbs, breached, undone, faults>>

\* upsertHumanQueueAssignmentInTx writes over whatever is there.
Upsert(c) ==
  /\ At(c, "upsert") /\ Goto(c, "pick")
  /\ queue' = "PENDING" /\ assigned' = FALSE
  /\ UNCHANGED <<life, step, noted, mark, clock, due, lock, overtaken, climbs, breached, undone, faults>>

\* assignQueue reads the row; who is free, and whether anybody is, is open.
Pick(c) ==
  /\ At(c, "pick")
  /\ IF assigned /\ queue \in {"ASSIGNED", "IN_PROGRESS", "ESCALATED"}
     THEN Leave(c)
     ELSE Read(c, "assign") \/ Goto(c, "climb")
  /\ UNCHANGED <<row, clock, due, lock, overtaken, climbs, breached, undone, faults>>

\* persistAssignment.
Assign(c) ==
  /\ At(c, "assign") /\ Leave(c)
  /\ queue' = "ASSIGNED" /\ assigned' = TRUE
  /\ MergeStale(c)
  /\ UNCHANGED <<life, clock, due, lock, overtaken, climbs, breached, undone, faults>>

-----------------------------------------------------------------------------
(* escalateQueue *)

\* Mutant: the lock is taken from whoever holds it.
LockUnchecked(c) ==
  /\ At(c, "climb")
  /\ Goto(c, "ladder") /\ lock' = c
  /\ UNCHANGED <<row, clock, due, overtaken, climbs, breached, undone, faults>>

Lock(c) ==
  /\ At(c, "climb") /\ lock = None
  /\ Goto(c, "ladder") /\ lock' = c
  /\ UNCHANGED <<row, clock, due, overtaken, climbs, breached, undone, faults>>

\* After a second without the lock the escalation is skipped.
LockBusy(c) ==
  /\ At(c, "climb") /\ lock # None
  /\ Leave(c)
  /\ UNCHANGED <<row, clock, due, lock, overtaken, climbs, breached, undone, faults>>

\* Mutant: the ladder has no last step.
NextStepUncapped(s, t, owner) == s + 1

\* From step s on a ladder with last step t, with ownerFallback or without.
NextStep(s, t, owner) ==
  IF s < t THEN s + 1 ELSE IF owner THEN t ELSE s

\* The rule is chosen for what the row is now, and what there is to write is
\* read with it.  Nothing is written if the step and its role are the old ones.
Ladder(c) ==
  /\ At(c, "ladder")
  /\ \E t \in Tops, owner \in BOOLEAN :
       LET next == NextStep(step, t, owner) IN
         \/ (next # step \/ step = t) /\ Take(c, "raise", next)
         \/ next = step /\ Goto(c, "unlock")
  /\ UNCHANGED <<row, clock, due, lock, overtaken, climbs, breached, undone, faults>>

\* persistEscalation.
Raise(c) ==
  /\ At(c, "raise") /\ Goto(c, "unlock")
  /\ queue' = "ESCALATED" /\ assigned' = FALSE
  /\ step' = call[c].step /\ MergeMark(c)
  /\ climbs' = climbs + 1
  /\ UNCHANGED <<life, clock, due, lock, overtaken, breached, undone, faults>>

Unlock(c) ==
  /\ At(c, "unlock") /\ Leave(c)
  /\ lock' = IF lock = c THEN None ELSE lock
  /\ UNCHANGED <<row, clock, due, overtaken, climbs, breached, undone, faults>>

-----------------------------------------------------------------------------
(* runInboundSlaMonitor, as far as it is about this row *)

\* Mutant: the sweep loads the rows of every state.
CandidateInEveryState ==
  IF queue = "none" THEN life \in {"ROUTED", "IN_PROGRESS", "REOPENED"} ELSE TRUE

\* loadHumanQueueCandidates and loadInteractionCandidatesWithoutQueue.
Candidate ==
  IF queue = "none" THEN life \in {"ROUTED", "IN_PROGRESS", "REOPENED"} ELSE queue \in Active

\* The candidates are read once; one sweep at a time, unless a lease was lost.
StartSweep(c) ==
  /\ clock # "none" /\ Candidate
  /\ Begin(c, "sweep", "check", queue, clock)
  /\ \/ (\A d \in Calls : call[d].op # "sweep") /\ UNCHANGED faults
     \/ (\E d \in Calls : call[d].op = "sweep") /\ Fault
  /\ UNCHANGED <<row, clock, due, lock, climbs, breached, undone>>

\* The transaction: the checkpoint is read in it, the state was read before.
Checkpoint(c) ==
  /\ At(c, "check")
  /\ LET kind == call[c].kind  seen == call[c].state IN
     IF mark = kind THEN Leave(c) /\ UNCHANGED <<queue, assigned, noted, mark, breached>>
     ELSE /\ mark' = kind /\ noted' = kind
          /\ queue' = CASE seen = "none"                       -> "PENDING"
                        [] seen # "none" /\ kind = "breached" -> "ESCALATED"
                        [] OTHER                               -> seen
          /\ assigned' = (assigned /\ seen # "none")
          /\ breached' = (breached \/ kind = "breached")
          /\ IF kind = "breached" THEN Goto(c, "climb") ELSE Leave(c)
  /\ UNCHANGED <<life, step, clock, due, lock, overtaken, climbs, undone, faults>>

-----------------------------------------------------------------------------
(* emitDueReminders *)

\* The rows are loaded once.  An active row may be due: one that is critical
\* always is, and the others are near their deadline or after a pause.
StartReminder(c) ==
  /\ queue \in Active
  /\ Begin(c, "remind", "remind", "none", "none")
  /\ UNCHANGED <<row, clock, due, lock, climbs, breached, undone, faults>>

ReadNudge(c) ==
  /\ At(c, "remind") /\ Read(c, "nudge")
  /\ UNCHANGED <<row, clock, due, lock, overtaken, climbs, breached, undone, faults>>

\* recordReminderNudge writes back all the metadata it has read.
RecordNudge(c) ==
  /\ At(c, "nudge") /\ End(c)
  /\ step' = call[c].step /\ noted' = call[c].mark
  /\ Undo(step # call[c].step \/ noted # call[c].mark)
  /\ UNCHANGED <<life, queue, assigned, mark, clock, due, lock, overtaken, climbs, breached, faults>>

-----------------------------------------------------------------------------
(* The AI gives up, and a person answers *)

\* activateRevenueBrainEscalation finds an active row of the lead.
StartTakeover(c) ==
  /\ queue \in Active
  /\ Begin(c, "takeover", "open", "none", "none")
  /\ UNCHANGED <<row, clock, due, lock, climbs, breached, undone, faults>>

\* openTakeover.
OpenTakeover(c) ==
  /\ At(c, "open") /\ End(c)
  /\ queue' = "IN_PROGRESS" /\ assigned' = TRUE
  /\ life' = IF life = "ROUTED" THEN "IN_PROGRESS" ELSE life
  /\ UNCHANGED <<step, noted, mark, clock, due, lock, overtaken, climbs, breached, undone, faults>>

\* A reply was delivered and resolveHumanTakeoverTarget found the row.
StartSend(c) ==
  /\ queue # "none"
  /\ Begin(c, "send", "record", "none", "none")
  /\ UNCHANGED <<row, clock, due, lock, climbs, breached, undone, faults>>

Resolved ==
  overtaken' = overtaken \cup {d \in Calls : ~At(d, "idle")}

\* recordHumanOutbound, with the person's mark "resolved" or without.
RecordHumanOutbound(c) ==
  /\ At(c, "record")
  /\ \/ Goto(c, "release") /\ queue' = "RESOLVED" /\ life' = "RESOLVED" /\ Resolved
     \/ /\ End(c) /\ queue' = "IN_PROGRESS" /\ UNCHANGED overtaken
        /\ life' = IF life = "RESOLVED" THEN "REOPENED" ELSE "IN_PROGRESS"
  /\ UNCHANGED <<assigned, step, noted, mark, clock, due, lock, climbs, breached, undone, faults>>

\* releaseTakeover, a transaction of its own: an outcome that does not say
\* RESOLVED makes the row ASSIGNED.
ReleaseTakeover(c) ==
  /\ At(c, "release") /\ End(c)
  /\ \/ queue' = "RESOLVED" /\ Resolved
     \/ queue' = "ASSIGNED" /\ UNCHANGED overtaken
  /\ UNCHANGED <<life, assigned, step, noted, mark, clock, due, lock, climbs, breached, undone, faults>>

-----------------------------------------------------------------------------
(* Time and faults *)

TimePasses ==
  /\ clock' = CASE clock = "none"    -> "warning"
                [] clock = "warning" -> "breached"
                [] OTHER             -> clock
  /\ clock # "breached"
  /\ UNCHANGED <<row, due, lock, call, overtaken, climbs, breached, undone, faults>>

Retries(c) == due' = (due \/ call[c].op = "route")

\* An awaited call throws: a routing job is retried, a sweep is not.
CallFails(c) ==
  /\ ~At(c, "idle") /\ Fault
  /\ End(c) /\ Retries(c)
  /\ lock' = IF lock = c THEN None ELSE lock
  /\ UNCHANGED <<row, clock, overtaken, climbs, breached, undone>>

\* The process dies, and the ladder's lock outlives it.
CallDies(c) ==
  /\ ~At(c, "idle") /\ Fault
  /\ End(c) /\ Retries(c)
  /\ lock' = IF lock = c THEN Gone ELSE lock
  /\ UNCHANGED <<row, clock, overtaken, climbs, breached, undone>>

\* A slow run of the routing job loses the job's lock, and goes on.
JobStalls(c) ==
  /\ call[c].op = "route" /\ Fault /\ due' = TRUE
  /\ UNCHANGED <<row, clock, lock, call, overtaken, climbs, breached, undone>>

LockExpires ==
  /\ lock = Gone /\ lock' = None
  /\ UNCHANGED <<row, clock, due, call, overtaken, climbs, breached, undone, faults>>

\* The lock of a holder that is alive runs out.
LockIsLost ==
  /\ lock \in Calls /\ Fault
  /\ lock' = None
  /\ UNCHANGED <<row, clock, due, call, overtaken, climbs, breached, undone>>

Advance(c) ==
  \/ StartRoute(c) \/ ReadReferences(c) \/ PersistReferences(c) \/ TransitionConflict(c)
  \/ Upsert(c) \/ Pick(c) \/ Assign(c)
  \/ Lock(c) \/ LockBusy(c) \/ Ladder(c) \/ Raise(c) \/ Unlock(c)
  \/ StartSweep(c) \/ Checkpoint(c)
  \/ StartReminder(c) \/ ReadNudge(c) \/ RecordNudge(c)
  \/ StartTakeover(c) \/ OpenTakeover(c)
  \/ StartSend(c) \/ RecordHumanOutbound(c) \/ ReleaseTakeover(c)
  \/ Finish(c)

Next ==
  \/ \E c \in Calls : Advance(c) \/ CallFails(c) \/ CallDies(c) \/ JobStalls(c)
  \/ RouteElsewhere \/ TimePasses \/ LockExpires \/ LockIsLost

Spec == Init /\ [][Next]_vars

-----------------------------------------------------------------------------
(* Properties *)

\* A resolved row is reopened by a person who writes again, or by a call that
\* was under way when it was resolved, and by nothing that starts later: not by
\* the next sweep, a routing job's retry or the AI.
PeopleReopen ==
  [][queue = "RESOLVED" /\ queue' # "RESOLVED" =>
       \E c \in Calls : /\ call'[c] # call[c]
                        /\ c \in overtaken \/ call[c].op = "send"]_vars

\* Escalations that meet add up: without a fault the row is as many steps up as
\* it was escalated, unless a ladder ends there or lower, although each writes a
\* step and metadata that it has read before.  And a breach the sweep has
\* recorded is one of them, although it is recorded once and the ladder may have
\* been busy.  A reminder, or the routing job, that writes back what it had read
\* before an escalation or a breach takes it back: nothing is said from then on.
EscalationsAddUp ==
  faults = 0 /\ undone = 0 =>
    /\ climbs > step => \E t \in Tops : t <= step
    /\ (\A c \in Calls : At(c, "idle")) /\ breached => step > 0 \/ 0 \in Tops
=============================================================================
