------------------------ MODULE InboundPipelineProofs ------------------------
(***************************************************************************)
(* Proofs about InboundPipeline, for any number of runs that are alive, of *)
(* attempts, faults and changes of the gate, and about WebhookIntake,      *)
(* which queues its first job, for any number of deliveries and faults.    *)
(***************************************************************************)
EXTENDS InboundPipeline, WebhookIntake, TLAPS

USE InboundAssumption, IntakeAssumption

-----------------------------------------------------------------------------
(* Type correctness *)

DataType ==
  /\ content \in Content
  /\ life \in Life \cup {None} /\ hint \in Hint \cup {None}
  /\ route \in Route \cup {None}
  /\ events \subseteq {"received", "normalized", "classified", "routed"}
  /\ projection \in {"none", "message", "counted"}
  /\ appointments \in Nat
  /\ gate \in Gate

BullType ==
  /\ job \in [Job -> {"absent", "waiting", "active", "done", "failed"}]
  /\ made \in [Job -> 0..Attempts]
  /\ stalled \subseteq Job /\ dead \subseteq Job
  /\ holder \in [Job -> Slots \cup {None}]

WorkType ==
  /\ task \in [Slots -> Job \cup {None}]
  /\ pc \in [Slots -> PC]
  /\ plan \in [Slots -> Life \cup Route \cup {None}]

CountType == errors \in 0..MaxFaults /\ lost \in 0..MaxFaults /\ gateChanges \in 0..MaxGateChanges

Types == DataType /\ BullType /\ WorkType /\ CountType

FlagType == remembered \in BOOLEAN /\ humanRow \in BOOLEAN /\ aiBatch \in BOOLEAN

\* Every run is at a place of the job it runs.
PlaceInv == \A s \in Slots :
  /\ pc[s] = "idle" <=> task[s] = None
  /\ pc[s] \in {"receive", "recordReceived", "resume"} => task[s] = "ingest"
  /\ pc[s] \in {"normalize", "recordNormalized", "project", "count", "toClassify", "failClose",
                "assignFailed", "resumeClassify"} => task[s] = "normalize"
  /\ pc[s] \in {"classify", "recordClassified", "remember"} => task[s] = "classify"
  /\ pc[s] \in {"control", "apply", "recordRouted", "decide", "toBridge", "active", "request",
                "propose", "handled", "handOver"} => task[s] = "route"
  /\ pc[s] \in {"batch", "note"} => task[s] = "bridge"
  /\ pc[s] \in {"execution", "block", "assign", "assigned"} => task[s] \in {"route", "bridge"}
  /\ pc[s] = "toRoute" => task[s] \in {"normalize", "classify"}
  /\ pc[s] = "load" => task[s] # "ingest"
  /\ pc[s] = "block" => plan[s] \in {"HUMAN_QUEUE", "SPAM_BIN"}

JobInv == \A j \in Job :
  /\ job[j] = "absent" => made[j] = 0
  /\ job[j] \in {"waiting", "active"} => made[j] < Attempts
  /\ holder[j] # None => job[j] = "active"

LEMMA InitType == Init => Types /\ FlagType /\ PlaceInv /\ JobInv
  <1>1. Init => FlagType
    BY Zenon DEF Init, FlagType
  <1>2. Init => Types
    BY DEF Init, Types, DataType, BullType, WorkType, CountType, Job, Content, Route, Hint, Gate,
           Life, PC, Await
  <1>3. Init => PlaceInv /\ JobInv
    BY DEF Init, PlaceInv, JobInv, Job
  <1>4. QED BY <1>1, <1>2, <1>3

LEMMA NextData == DataType /\ WorkType /\ PlaceInv /\ [Next]_vars => DataType'
  <1> SUFFICES ASSUME DataType, WorkType, PlaceInv, [Next]_vars PROVE DataType'
    OBVIOUS
  <1> USE DEF DataType, WorkType, PlaceInv, Life, Hint, Route, Gate, interaction, record, answers,
              bull, worker, counts
  <1>1. ASSUME NEW s \in Slots, Work(s) PROVE DataType'
    <2>1. CASE (\E j \in Job : Take(s, j))
      BY <2>1 DEF Take, Goto
    <2>2. CASE Finish(s)
      BY <2>2 DEF Finish, Release, Vacate, Holds, Goto
    <2>3. CASE Throw(s)
      BY <2>3 DEF Throw, Release, Vacate, Holds, Goto, LetterCost
    <2>4. CASE Receive(s) \/ Resume(s) \/ HandOn(s)
      BY <2>4 DEF Receive, Step, Goto, Plan, Resume, Add, HandOn
    <2>5. CASE RecordEvent(s)
      <3>1. PICK e, from, to :
              /\ e \in {"received", "normalized", "classified", "routed"}
              /\ Record(s, e, from, to)
        BY <2>5 DEF RecordEvent
      <3>2. QED BY <3>1 DEF Record
    <2>6. CASE Normalize(s) \/ FailClose(s) \/ Handled(s)
      BY <2>6 DEF Normalize, Goto, FailClose, Handled
    <2>7. CASE Project(s) \/ CountUnread(s)
      BY <2>7 DEF Project, Goto, CountUnread, Step
    <2>8. CASE AssignFailed(s) \/ Remember(s) \/ Control(s) \/ Execution(s)
      BY <2>8 DEF AssignFailed, Step, Goto, Remember, Control, Plan, Override, Execution
    <2>9. CASE Classify(s)
      BY <2>9 DEF Classify, Goto, Hints, ContentHint
    <2>10. CASE Apply(s)
      BY <2>10 DEF Apply, Goto, Plan, Decisions
    <2>11. CASE Block(s)
      BY <2>11 DEF Block, Goto
    <2>12. CASE HandOver(s)
      BY <2>12 DEF HandOver, Goto
    <2>13. CASE Assign(s)
      BY <2>13 DEF Assign, Step, Goto
    <2>14. CASE Batch(s)
      BY <2>14 DEF Batch, Step, Goto
    <2>15. CASE Request(s)
      BY <2>15 DEF Request, Step, Goto
    <2>16. CASE Load(s) \/ Decide(s) \/ Assigned(s) \/ Note(s) \/ Active(s) \/ Propose(s)
      BY <2>16 DEF Load, Step, Goto, AfterLoad, Decide, Assigned, Note, Active, Propose
    <2>17. QED
      BY <1>1, <2>1, <2>2, <2>3, <2>4, <2>5, <2>6, <2>7, <2>8, <2>9, <2>10, <2>11, <2>12,
         <2>13, <2>14, <2>15, <2>16 DEF Work
  <1>2. ASSUME NEW s \in Slots, Fails(s) PROVE DataType'
    BY <1>2 DEF Fails
  <1>3. ASSUME NEW s \in Slots, Crash(s) \/ Stall(s) PROVE DataType'
    BY <1>3 DEF Crash, Stall
  <1>4. CASE Takeover \/ GateChanges
    BY <1>4 DEF Takeover, GateChanges
  <1>5. CASE UNCHANGED vars
    BY <1>5 DEF vars
  <1>6. QED BY <1>1, <1>2, <1>3, <1>4, <1>5 DEF Next

LEMMA NextBull == BullType /\ WorkType /\ PlaceInv /\ JobInv /\ [Next]_vars => BullType'
  <1> SUFFICES ASSUME BullType, WorkType, PlaceInv, JobInv, [Next]_vars PROVE BullType'
    OBVIOUS
  <1> USE DEF BullType, WorkType, PlaceInv, JobInv, interaction, record, answers, bull, worker,
              counts
  <1>1. ASSUME NEW s \in Slots, Work(s) PROVE BullType'
    <2>1. CASE (\E j \in Job : Take(s, j))
      BY <2>1 DEF Take, Goto
    <2>2. CASE Finish(s)
      BY <2>2 DEF Finish, Release, Vacate, Holds, Goto
    <2>3. CASE Throw(s)
      BY <2>3 DEF Throw, Release, Vacate, Holds, Goto, LetterCost
    <2>4. CASE Resume(s)
      BY <2>4 DEF Resume, Step, Goto, Add
    <2>5. CASE HandOn(s)
      BY <2>5 DEF HandOn, Step, Goto, Add
    <2>6. CASE Receive(s) \/ RecordEvent(s) \/ Load(s) \/ Normalize(s) \/ Project(s) \/
               CountUnread(s) \/ FailClose(s) \/ AssignFailed(s) \/ Classify(s) \/ Remember(s)
      BY <2>6
      DEF Receive, Step, Goto, Plan, RecordEvent, Record, Load, AfterLoad, Normalize, Project,
          CountUnread, FailClose, AssignFailed, Classify, Hints, ContentHint, Remember
    <2>7. CASE Control(s) \/ Apply(s) \/ Decide(s) \/ Execution(s) \/ Block(s) \/
               Assign(s) \/ Assigned(s) \/ Batch(s) \/ Note(s) \/ Active(s) \/ Request(s) \/
               Propose(s) \/ Handled(s) \/ HandOver(s)
      BY <2>7
      DEF Control, Step, Goto, Plan, Override, Apply, Decisions, Decide, Execution, Block, Assign,
          Assigned, Batch, Note, Active, Request, Propose, Handled, HandOver
    <2>8. QED
      BY <1>1, <2>1, <2>2, <2>3, <2>4, <2>5, <2>6, <2>7 DEF Work
  <1>2. ASSUME NEW s \in Slots, Fails(s) PROVE BullType'
    BY <1>2 DEF Fails
  <1>3. ASSUME NEW s \in Slots, Crash(s) \/ Stall(s) PROVE BullType'
    BY <1>3 DEF Crash, Stall, LoseLock, Release, Holds
  <1>4. CASE Takeover \/ GateChanges
    BY <1>4 DEF Takeover, GateChanges
  <1>5. CASE UNCHANGED vars
    BY <1>5 DEF vars
  <1>6. QED BY <1>1, <1>2, <1>3, <1>4, <1>5 DEF Next

LEMMA NextWork == DataType /\ WorkType /\ [Next]_vars => WorkType'
  <1> SUFFICES ASSUME DataType, WorkType, [Next]_vars PROVE WorkType'
    OBVIOUS
  <1> USE DEF DataType, WorkType, PC, Await, Life, Hint, Route, Gate, interaction, record,
              answers, bull, worker, counts
  <1>1. ASSUME NEW s \in Slots, Work(s) PROVE WorkType'
    <2>1. CASE (\E j \in Job : Take(s, j))
      BY <2>1 DEF Take, Goto
    <2>2. CASE Finish(s)
      BY <2>2 DEF Finish, Release, Vacate, Holds, Goto
    <2>3. CASE Throw(s)
      BY <2>3 DEF Throw, Release, Vacate, Holds, Goto, LetterCost
    <2>4. CASE Receive(s) \/ RecordEvent(s) \/ Resume(s)
      BY <2>4 DEF Receive, Step, Goto, Plan, RecordEvent, Record, Resume, Add
    <2>5. CASE Load(s)
      BY <2>5 DEF Load, Step, Goto, AfterLoad
    <2>6. CASE Normalize(s) \/ Project(s) \/ CountUnread(s)
      BY <2>6 DEF Normalize, Goto, Project, CountUnread, Step
    <2>7. CASE FailClose(s) \/ AssignFailed(s)
      BY <2>7 DEF FailClose, Goto, AssignFailed, Step
    <2>8. CASE Classify(s) \/ Remember(s) \/ HandOn(s)
      BY <2>8 DEF Classify, Goto, Hints, ContentHint, Remember, Step, HandOn, Add
    <2>9. CASE Control(s) \/ Execution(s)
      BY <2>9 DEF Control, Step, Goto, Plan, Override, Execution
    <2>10. CASE Apply(s)
      BY <2>10 DEF Apply, Goto, Plan, Decisions
    <2>11. CASE Decide(s) \/ Block(s)
      BY <2>11 DEF Decide, Step, Goto, Block
    <2>12. CASE Assign(s) \/ Assigned(s) \/ Batch(s) \/ Note(s)
      BY <2>12 DEF Assign, Step, Goto, Assigned, Batch, Note
    <2>13. CASE Active(s) \/ Request(s) \/ Propose(s)
      BY <2>13 DEF Active, Step, Goto, Request, Propose
    <2>14. CASE Handled(s) \/ HandOver(s)
      BY <2>14 DEF Handled, Goto, HandOver
    <2>15. QED
      BY <1>1, <2>1, <2>2, <2>3, <2>4, <2>5, <2>6, <2>7, <2>8, <2>9, <2>10, <2>11, <2>12,
         <2>13, <2>14 DEF Work
  <1>2. ASSUME NEW s \in Slots, Fails(s) PROVE WorkType'
    BY <1>2 DEF Fails, Goto, OnError
  <1>3. ASSUME NEW s \in Slots, Crash(s) \/ Stall(s) PROVE WorkType'
    BY <1>3 DEF Crash, Stall, Vacate, Goto
  <1>4. CASE Takeover \/ GateChanges
    BY <1>4 DEF Takeover, GateChanges
  <1>5. CASE UNCHANGED vars
    BY <1>5 DEF vars
  <1>6. QED BY <1>1, <1>2, <1>3, <1>4, <1>5 DEF Next

LEMMA NextCount == CountType /\ [Next]_vars => CountType'
  <1> SUFFICES ASSUME CountType, [Next]_vars PROVE CountType'
    OBVIOUS
  <1> USE DEF CountType, faults, interaction, record, answers, bull, worker, counts
  <1>1. ASSUME NEW s \in Slots, Work(s) PROVE CountType'
    <2>1. CASE (\E j \in Job : Take(s, j))
      BY <2>1 DEF Take, Goto
    <2>2. CASE Finish(s)
      BY <2>2 DEF Finish, Release, Vacate, Holds, Goto
    <2>3. CASE Throw(s)
      BY <2>3 DEF Throw, Release, Vacate, Holds, Goto, LetterCost
    <2>4. CASE Resume(s)
      BY <2>4 DEF Resume, Step, Goto, Add
    <2>5. CASE HandOn(s)
      BY <2>5 DEF HandOn, Step, Goto, Add
    <2>6. CASE Receive(s) \/ RecordEvent(s) \/ Load(s) \/ Normalize(s) \/ Project(s) \/
               CountUnread(s) \/ FailClose(s) \/ AssignFailed(s) \/ Classify(s) \/ Remember(s)
      BY <2>6
      DEF Receive, Step, Goto, Plan, RecordEvent, Record, Load, AfterLoad, Normalize, Project,
          CountUnread, FailClose, AssignFailed, Classify, Hints, ContentHint, Remember
    <2>7. CASE Control(s) \/ Apply(s) \/ Decide(s) \/ Execution(s) \/ Block(s) \/
               Assign(s) \/ Assigned(s) \/ Batch(s) \/ Note(s) \/ Active(s) \/ Request(s) \/
               Propose(s) \/ Handled(s) \/ HandOver(s)
      BY <2>7
      DEF Control, Step, Goto, Plan, Override, Apply, Decisions, Decide, Execution, Block, Assign,
          Assigned, Batch, Note, Active, Request, Propose, Handled, HandOver
    <2>8. QED
      BY <1>1, <2>1, <2>2, <2>3, <2>4, <2>5, <2>6, <2>7 DEF Work
  <1>2. ASSUME NEW s \in Slots, Fails(s) PROVE CountType'
    BY <1>2 DEF Fails
  <1>3. ASSUME NEW s \in Slots, Crash(s) \/ Stall(s) PROVE CountType'
    BY <1>3 DEF Crash, Stall
  <1>4. CASE Takeover \/ GateChanges
    BY <1>4 DEF Takeover, GateChanges
  <1>5. CASE UNCHANGED vars
    BY <1>5 DEF vars
  <1>6. QED BY <1>1, <1>2, <1>3, <1>4, <1>5 DEF Next

LEMMA NextPlace == WorkType /\ PlaceInv /\ [Next]_vars => PlaceInv'
  <1> SUFFICES ASSUME WorkType, PlaceInv, [Next]_vars PROVE PlaceInv'
    OBVIOUS
  <1> USE NoneAssumption
        DEF WorkType, PlaceInv, Job, interaction, record, answers, bull, worker, counts
  <1>1. ASSUME NEW s \in Slots, Work(s) PROVE PlaceInv'
    <2>1. CASE (\E j \in Job : Take(s, j))
      BY <2>1 DEF Take, Goto
    <2>2. CASE Finish(s)
      BY <2>2 DEF Finish, Release, Vacate, Holds, Goto
    <2>3. CASE Throw(s)
      BY <2>3 DEF Throw, Release, Vacate, Holds, Goto, LetterCost
    <2>4. CASE Receive(s) \/ RecordEvent(s) \/ Resume(s)
      BY <2>4 DEF Receive, Step, Goto, Plan, RecordEvent, Record, Resume, Add
    <2>5. CASE Load(s)
      BY <2>5 DEF Load, Step, Goto, AfterLoad
    <2>6. CASE Normalize(s) \/ Project(s) \/ CountUnread(s)
      BY <2>6 DEF Normalize, Goto, Project, CountUnread, Step
    <2>7. CASE FailClose(s) \/ AssignFailed(s)
      BY <2>7 DEF FailClose, Goto, AssignFailed, Step
    <2>8. CASE Classify(s) \/ Remember(s)
      BY <2>8 DEF Classify, Goto, Hints, ContentHint, Remember, Step
    <2>9. CASE HandOn(s)
      BY <2>9 DEF HandOn, Step, Goto, Add
    <2>10. CASE Control(s) \/ Apply(s)
      BY <2>10 DEF Control, Step, Goto, Plan, Override, Apply, Decisions
    <2>11. CASE Decide(s) \/ Execution(s)
      BY <2>11 DEF Decide, Step, Goto, Execution, Plan, Override
    <2>12. CASE Block(s) \/ Assign(s) \/ Assigned(s)
      BY <2>12 DEF Block, Goto, Assign, Step, Assigned
    <2>13. CASE Batch(s) \/ Note(s)
      BY <2>13 DEF Batch, Step, Goto, Note
    <2>14. CASE Active(s) \/ Request(s) \/ Propose(s)
      BY <2>14 DEF Active, Step, Goto, Request, Propose
    <2>15. CASE Handled(s) \/ HandOver(s)
      BY <2>15 DEF Handled, Goto, HandOver
    <2>16. QED
      BY <1>1, <2>1, <2>2, <2>3, <2>4, <2>5, <2>6, <2>7, <2>8, <2>9, <2>10, <2>11, <2>12,
         <2>13, <2>14, <2>15 DEF Work
  <1>2. ASSUME NEW s \in Slots, Fails(s) PROVE PlaceInv'
    BY <1>2 DEF Fails, Goto, OnError, Await
  <1>3. ASSUME NEW s \in Slots, Crash(s) \/ Stall(s) PROVE PlaceInv'
    BY <1>3 DEF Crash, Stall, Vacate, Goto
  <1>4. CASE Takeover \/ GateChanges
    BY <1>4 DEF Takeover, GateChanges
  <1>5. CASE UNCHANGED vars
    BY <1>5 DEF vars
  <1>6. QED BY <1>1, <1>2, <1>3, <1>4, <1>5 DEF Next

LEMMA NextJob == BullType /\ WorkType /\ PlaceInv /\ JobInv /\ [Next]_vars => JobInv'
  <1> SUFFICES ASSUME BullType, WorkType, PlaceInv, JobInv, [Next]_vars PROVE JobInv'
    OBVIOUS
  <1> USE DEF BullType, WorkType, PlaceInv, JobInv, interaction, record, answers, bull, worker,
              counts
  <1>0. {"ingest", "normalize", "classify", "route", "bridge"} = Job
    BY DEF Job
  <1>1. ASSUME NEW s \in Slots, Work(s) PROVE JobInv'
    <2>1. CASE (\E j \in Job : Take(s, j))
      BY <2>1 DEF Take, Goto
    <2>2. CASE Finish(s)
      BY <2>2 DEF Finish, Release, Vacate, Holds, Goto
    <2>3. CASE Throw(s)
      BY <2>3 DEF Throw, Release, Vacate, Holds, Goto, LetterCost
    <2>4. CASE Resume(s)
      BY <2>4 DEF Resume, Step, Goto, Add
    <2>5. CASE HandOn(s)
      BY <2>5 DEF HandOn, Step, Goto, Add
    <2>6. CASE Receive(s) \/ RecordEvent(s) \/ Load(s) \/ Normalize(s) \/ Project(s) \/
               CountUnread(s) \/ FailClose(s) \/ AssignFailed(s) \/ Classify(s) \/ Remember(s)
      BY <2>6
      DEF Receive, Step, Goto, Plan, RecordEvent, Record, Load, AfterLoad, Normalize, Project,
          CountUnread, FailClose, AssignFailed, Classify, Hints, ContentHint, Remember
    <2>7. CASE Control(s) \/ Apply(s) \/ Decide(s) \/ Execution(s) \/ Block(s) \/
               Assign(s) \/ Assigned(s) \/ Batch(s) \/ Note(s) \/ Active(s) \/ Request(s) \/
               Propose(s) \/ Handled(s) \/ HandOver(s)
      BY <2>7
      DEF Control, Step, Goto, Plan, Override, Apply, Decisions, Decide, Execution, Block, Assign,
          Assigned, Batch, Note, Active, Request, Propose, Handled, HandOver
    <2>8. QED
      BY <1>1, <2>1, <2>2, <2>3, <2>4, <2>5, <2>6, <2>7 DEF Work
  <1>2. ASSUME NEW s \in Slots, Fails(s) PROVE JobInv'
    BY <1>2 DEF Fails
  <1>3. ASSUME NEW s \in Slots, Crash(s) \/ Stall(s) PROVE JobInv'
    BY <1>3 DEF Crash, Stall, LoseLock, Release, Holds
  <1>4. CASE Takeover \/ GateChanges
    BY <1>4 DEF Takeover, GateChanges
  <1>5. CASE UNCHANGED vars
    BY <1>5 DEF vars
  <1>6. QED BY <1>1, <1>2, <1>3, <1>4, <1>5 DEF Next

LEMMA NextFlags == FlagType /\ [Next]_vars => FlagType'
  <1> SUFFICES ASSUME FlagType, [Next]_vars PROVE FlagType'
    OBVIOUS
  <1> USE DEF FlagType, record, answers
  <1>1. ASSUME NEW s \in Slots, Work(s) PROVE FlagType'
    <2>1. CASE (\E j \in Job : Take(s, j)) \/ Finish(s) \/ Throw(s) \/ Receive(s) \/ Resume(s)
               \/ Load(s) \/ HandOn(s)
      BY <2>1, Zenon DEF Take, Finish, Throw, Receive, Resume, Load, HandOn
    <2>2. CASE RecordEvent(s)
      <3>1. PICK e, from, to : Record(s, e, from, to)
        BY <2>2, Zenon DEF RecordEvent
      <3>2. QED BY <3>1, Zenon DEF Record
    <2>3. CASE Normalize(s) \/ Project(s) \/ CountUnread(s) \/ FailClose(s) \/ AssignFailed(s)
               \/ Classify(s) \/ Remember(s)
      BY <2>3, Zenon
      DEF Normalize, Project, CountUnread, FailClose, AssignFailed, Classify, Remember
    <2>4. CASE Control(s) \/ Apply(s) \/ Decide(s) \/ Execution(s) \/ Block(s) \/ Assign(s)
               \/ Assigned(s) \/ Batch(s) \/ Note(s)
      BY <2>4, Zenon DEF Control, Apply, Decide, Execution, Block, Assign, Assigned, Batch, Note
    <2>5. CASE Active(s) \/ Request(s) \/ Propose(s) \/ Handled(s) \/ HandOver(s)
      BY <2>5, Zenon DEF Active, Request, Propose, Handled, HandOver
    <2>6. QED BY <1>1, <2>1, <2>2, <2>3, <2>4, <2>5, Zenon DEF Work
  <1>2. ASSUME NEW s \in Slots, Fails(s) \/ Crash(s) \/ Stall(s) PROVE FlagType'
    BY <1>2, Zenon DEF Fails, Crash, Stall
  <1>3. CASE Takeover \/ GateChanges \/ UNCHANGED vars
    BY <1>3, Zenon DEF Takeover, GateChanges, vars
  <1>4. QED BY <1>1, <1>2, <1>3, Zenon DEF Next

LEMMA TypeInvariant == Spec => [](Types /\ FlagType /\ PlaceInv /\ JobInv)
  BY InitType, NextData, NextBull, NextWork, NextCount, NextFlags, NextPlace, NextJob, PTL
  DEF Spec, Types

\* The interaction, its jobs and their runs keep their types: no job is tried
\* more often than it has attempts, whatever fails, crashes or stalls.
THEOREM InboundTypeCorrect == Spec => []TypeOK
  <1>1. Types /\ FlagType => TypeOK
    BY Zenon DEF Types, DataType, BullType, WorkType, CountType, FlagType, TypeOK
  <1>2. QED BY <1>1, TypeInvariant, PTL

-----------------------------------------------------------------------------
(* While no run was lost *)

\* While no run was lost, each job has one run at a time.
OneRun ==
  /\ \A s \in Slots : pc[s] # "idle" => holder[task[s]] = s
  /\ \A j \in Job : holder[j] # None => task[holder[j]] = j

Over(j) == job[j] = "done" \/ (holder[j] # None /\ pc[holder[j]] = "finish")

\* A job follows the one before it, which has nothing left to do.
OrderInv ==
  /\ job["normalize"] # "absent" => Over("ingest")
  /\ job["classify"] # "absent" => Over("normalize")
  /\ job["route"] # "absent" => Over("classify")
  /\ job["bridge"] # "absent" => Over("route")

\* The interaction is where its jobs have brought it.
LifeInv ==
  /\ job["normalize"] = "absent" => life \in {None, "RECEIVED"}
  /\ job["normalize"] # "absent" => life # None
  /\ life \in {"CLASSIFIED", "ROUTED", "IN_PROGRESS"} => job["classify"] # "absent"
  /\ life \in {"ROUTED", "IN_PROGRESS"} => job["route"] # "absent"
  /\ \A s \in Slots :
       /\ pc[s] \in {"recordReceived", "resume"} => plan[s] = "RECEIVED" /\ life # None
       /\ pc[s] = "normalize" => life = "RECEIVED"
       /\ pc[s] \in {"recordNormalized", "project", "count", "toClassify", "resumeClassify"} =>
            life = "NORMALIZED"
       /\ pc[s] = "toRoute" => task[s] = "classify"
  /\ life \in {None, "RECEIVED"} => projection = "none"
  /\ appointments <= 1
  /\ \A s \in Slots : pc[s] = "request" => appointments = 0

\* A step in which no run is lost.
KeptStep ==
  \/ \E s \in Slots : Work(s) \/ Fails(s)
  \/ Takeover \/ GateChanges \/ UNCHANGED vars

LEMMA NoLoss ==
  ASSUME CountType, [Next]_vars, lost' = 0
  PROVE  lost = 0 /\ KeptStep
  <1> USE DEF CountType, counts
  <1>1. ASSUME NEW s \in Slots, Crash(s) \/ Stall(s) PROVE FALSE
    BY <1>1 DEF Crash, Stall
  <1>2. ASSUME NEW s \in Slots, Work(s) PROVE lost' = lost
    BY <1>2
    DEF Work, Take, Finish, Throw, Receive, RecordEvent, Record, Resume, Load, Normalize, Project,
        CountUnread, FailClose, AssignFailed, Classify, Remember, HandOn, Control, Apply, Decide,
        Execution, Block, Assign, Assigned, Batch, Note, Active, Request, Propose, Handled,
        HandOver
  <1>3. ASSUME NEW s \in Slots, Fails(s) PROVE lost' = lost
    BY <1>3 DEF Fails
  <1>4. CASE Takeover \/ GateChanges \/ UNCHANGED vars
    BY <1>4 DEF Takeover, GateChanges, vars, KeptStep
  <1>5. QED BY <1>1, <1>2, <1>3, <1>4 DEF Next, KeptStep

LEMMA NextOneRun ==
  ASSUME BullType, WorkType, PlaceInv, JobInv, OneRun, KeptStep
  PROVE  OneRun'
  <1> USE NoneAssumption
        DEF BullType, WorkType, PlaceInv, JobInv, OneRun, interaction, record, answers, bull,
            worker, counts
  <1>1. ASSUME NEW s \in Slots, Work(s) PROVE OneRun'
    <2>1. CASE (\E j \in Job : Take(s, j))
      BY <2>1 DEF Take, Goto
    <2>2. CASE Finish(s)
      BY <2>2 DEF Finish, Release, Vacate, Holds, Goto
    <2>3. CASE Throw(s)
      BY <2>3 DEF Throw, Release, Vacate, Holds, Goto, LetterCost
    <2>4. CASE Receive(s) \/ RecordEvent(s) \/ Load(s)
      BY <2>4 DEF Receive, Step, Goto, Plan, RecordEvent, Record, Load, AfterLoad
    <2>5. CASE Resume(s) \/ HandOn(s)
      BY <2>5 DEF Resume, Step, Goto, Add, HandOn
    <2>6. CASE Normalize(s) \/ Project(s) \/ CountUnread(s)
      BY <2>6 DEF Normalize, Goto, Project, CountUnread, Step
    <2>7. CASE FailClose(s) \/ AssignFailed(s)
      BY <2>7 DEF FailClose, Goto, AssignFailed, Step
    <2>8. CASE Classify(s) \/ Remember(s)
      BY <2>8 DEF Classify, Goto, Hints, ContentHint, Remember, Step
    <2>9. CASE Control(s) \/ Execution(s)
      BY <2>9 DEF Control, Step, Goto, Plan, Override, Execution
    <2>10. CASE Apply(s)
      BY <2>10 DEF Apply, Goto, Plan, Decisions
    <2>11. CASE Decide(s) \/ Block(s)
      BY <2>11 DEF Decide, Step, Goto, Block
    <2>12. CASE Assign(s) \/ Assigned(s) \/ Batch(s) \/ Note(s)
      BY <2>12 DEF Assign, Step, Goto, Assigned, Batch, Note
    <2>13. CASE Active(s) \/ Request(s) \/ Propose(s)
      BY <2>13 DEF Active, Step, Goto, Request, Propose
    <2>14. CASE Handled(s) \/ HandOver(s)
      BY <2>14 DEF Handled, Goto, HandOver
    <2>15. QED
      BY <1>1, <2>1, <2>2, <2>3, <2>4, <2>5, <2>6, <2>7, <2>8, <2>9, <2>10, <2>11, <2>12,
         <2>13, <2>14 DEF Work
  <1>2. ASSUME NEW s \in Slots, Fails(s) PROVE OneRun'
    BY <1>2 DEF Fails, Goto, OnError, Await
  <1>3. CASE Takeover \/ GateChanges \/ UNCHANGED vars
    BY <1>3 DEF Takeover, GateChanges, vars
  <1>4. QED BY <1>1, <1>2, <1>3 DEF KeptStep

\* A run at work is the only one of its job; a job that is over has none.
LEMMA Working ==
  ASSUME BullType, WorkType, PlaceInv, JobInv, OneRun
  PROVE  /\ \A s \in Slots : pc[s] \notin {"idle", "finish"} =>
              /\ job[task[s]] = "active" /\ ~Over(task[s])
              /\ \A r \in Slots : task[r] = task[s] => r = s
         /\ \A j \in Job, r \in Slots : Over(j) /\ task[r] = j => pc[r] = "finish"
         /\ \A j \in Job : Over(j) => job[j] \in {"active", "done"}
  BY NoneAssumption DEF BullType, WorkType, PlaceInv, JobInv, OneRun, Over

LEMMA NextOrder ==
  ASSUME BullType, WorkType, PlaceInv, JobInv, OneRun, OrderInv, LifeInv, KeptStep
  PROVE  OrderInv'
  <1> USE NoneAssumption
        DEF BullType, WorkType, PlaceInv, JobInv, OneRun, OrderInv, Over, interaction, record,
            answers, bull, worker, counts
  <1>0. /\ "ingest" \in Job /\ "normalize" \in Job /\ "classify" \in Job /\ "route" \in Job
        /\ "bridge" \in Job
        /\ None \notin {"RECEIVED", "NORMALIZED", "CLASSIFIED", "ROUTED", "IN_PROGRESS",
            "FAILED"}
    BY NoneAssumption DEF Job, Life
  <1> USE <1>0
  <1>1. ASSUME NEW s \in Slots, Work(s) PROVE OrderInv'
    <2>1. CASE (\E j \in Job : Take(s, j))
      BY <2>1 DEF Take, Goto
    <2>2. CASE Finish(s)
      BY <2>2 DEF Finish, Release, Vacate, Holds, Goto
    <2>3. CASE Throw(s)
      BY <2>3 DEF Throw, Release, Vacate, Holds, Goto, LetterCost
    <2>4. CASE Receive(s) \/ RecordEvent(s) \/ Load(s)
      BY <2>4 DEF Receive, Step, Goto, Plan, RecordEvent, Record, Load, AfterLoad
    <2>5. CASE Resume(s)
      <3>1. task[s] = "ingest" /\ plan[s] = "RECEIVED" /\ pc[s] = "resume"
        BY <2>5 DEF Resume, Step, LifeInv
      <3>2. /\ job["normalize"] = "absent" /\ job["classify"] = "absent"
            /\ job["route"] = "absent" /\ job["bridge"] = "absent"
        BY <3>1, Working
      <3>3. job' = [job EXCEPT !["normalize"] = "waiting"]
        BY <2>5, <3>1, <3>2 DEF Resume, Add
      <3>4. Over("ingest")'
        BY <2>5, <3>1 DEF Resume, Step, Goto
      <3>5. QED BY <3>2, <3>3, <3>4
    <2>6. CASE HandOn(s)
      <3>1. UNCHANGED <<holder, task>> /\ pc' = [pc EXCEPT ![s] = "finish"] /\ pc[s] # "idle"
        BY <2>6 DEF HandOn, Step, Goto
      <3>2. \A j \in Job : (task[s] = j \/ Over(j)) => Over(j)'
        BY <2>6, <3>1 DEF HandOn, Add
      <3>3. \/ job' = [job EXCEPT !["classify"] = "waiting"] /\ task[s] = "normalize"
            \/ job' = [job EXCEPT !["route"] = "waiting"] /\ task[s] = "classify"
            \/ job' = [job EXCEPT !["bridge"] = "waiting"] /\ task[s] = "route"
            \/ UNCHANGED job
        BY <2>6 DEF HandOn, Step, Add, LifeInv
      <3>4. /\ Over("ingest") => Over("ingest")'
            /\ Over("normalize") \/ task[s] = "normalize" => Over("normalize")'
            /\ Over("classify") \/ task[s] = "classify" => Over("classify")'
            /\ Over("route") \/ task[s] = "route" => Over("route")'
        BY <3>2
      <3> HIDE DEF Over
      <3>5. QED BY <3>3, <3>4
    <2>7. CASE Normalize(s) \/ Project(s) \/ CountUnread(s)
      BY <2>7 DEF Normalize, Goto, Project, CountUnread, Step
    <2>8. CASE FailClose(s) \/ AssignFailed(s)
      BY <2>8 DEF FailClose, Goto, AssignFailed, Step
    <2>9. CASE Classify(s) \/ Remember(s)
      BY <2>9 DEF Classify, Goto, Hints, ContentHint, Remember, Step
    <2>10. CASE Control(s) \/ Execution(s)
      BY <2>10 DEF Control, Step, Goto, Plan, Override, Execution
    <2>11. CASE Apply(s)
      BY <2>11 DEF Apply, Goto, Plan, Decisions
    <2>12. CASE Decide(s) \/ Block(s)
      BY <2>12 DEF Decide, Step, Goto, Block
    <2>13. CASE Assign(s) \/ Assigned(s) \/ Batch(s) \/ Note(s)
      BY <2>13 DEF Assign, Step, Goto, Assigned, Batch, Note
    <2>14. CASE Active(s) \/ Request(s) \/ Propose(s)
      BY <2>14 DEF Active, Step, Goto, Request, Propose
    <2>15. CASE Handled(s) \/ HandOver(s)
      BY <2>15 DEF Handled, Goto, HandOver
    <2>16. QED
      BY <1>1, <2>1, <2>2, <2>3, <2>4, <2>5, <2>6, <2>7, <2>8, <2>9, <2>10, <2>11, <2>12,
         <2>13, <2>14, <2>15 DEF Work
  <1>2. ASSUME NEW s \in Slots, Fails(s) PROVE OrderInv'
    BY <1>2 DEF Fails, Goto, OnError, Await
  <1>3. CASE Takeover \/ GateChanges \/ UNCHANGED vars
    BY <1>3 DEF Takeover, GateChanges, vars
  <1>4. QED BY <1>1, <1>2, <1>3 DEF KeptStep

LEMMA NextLife ==
  ASSUME DataType, BullType, WorkType, PlaceInv, JobInv, OneRun, OrderInv, LifeInv, KeptStep
  PROVE  LifeInv'
  <1> USE NoneAssumption
        DEF DataType, BullType, WorkType, PlaceInv, JobInv, OneRun, OrderInv, Over, LifeInv,
            interaction, record, answers, bull, worker, counts
  <1>0. /\ "ingest" \in Job /\ "normalize" \in Job /\ "classify" \in Job /\ "route" \in Job
        /\ "bridge" \in Job
        /\ None \notin {"RECEIVED", "NORMALIZED", "CLASSIFIED", "ROUTED", "IN_PROGRESS",
            "FAILED"}
    BY NoneAssumption DEF Job, Life
  <1> USE <1>0
  <1>1. ASSUME NEW s \in Slots, Work(s) PROVE LifeInv'
    <2>1. CASE (\E j \in Job : Take(s, j))
      BY <2>1 DEF Take, Goto
    <2>2. CASE Finish(s)
      BY <2>2 DEF Finish, Release, Vacate, Holds, Goto
    <2>3. CASE Throw(s)
      BY <2>3 DEF Throw, Release, Vacate, Holds, Goto, LetterCost
    <2>4. CASE Receive(s)
      BY <2>4 DEF Receive, Step, Goto, Plan
    <2>5. CASE RecordEvent(s)
      BY <2>5 DEF RecordEvent, Record, Step, Goto
    <2>6. CASE Resume(s)
      <3>1. task[s] = "ingest" /\ plan[s] = "RECEIVED" /\ pc[s] = "resume"
        BY <2>6 DEF Resume, Step
      <3>2. job["normalize"] = "absent"
        BY <3>1, Working
      <3>3. job' = [job EXCEPT !["normalize"] = "waiting"]
        BY <2>6, <3>1, <3>2 DEF Resume, Add
      <3>4. life # None
        BY <3>1
      <3>5. QED BY <2>6, <3>1, <3>3, <3>4 DEF Resume, Step, Goto
    <2>7. CASE Load(s)
      BY <2>7 DEF Load, Step, Goto, AfterLoad
    <2>8. CASE HandOn(s)
      BY <2>8 DEF HandOn, Step, Goto, Add
    <2>9. CASE Normalize(s)
      <3>1. job[task[s]] = "active" /\ \A r \in Slots : task[r] = task[s] => r = s
        BY <2>9, Working DEF Normalize
      <3>2. job["classify"] # "absent" =>
              /\ job["normalize"] # "absent"
              /\ \A r \in Slots : task[r] = "normalize" => pc[r] = "finish"
        BY Working
      <3>3. job["route"] # "absent" => job["classify"] # "absent"
        BY Working
      <3> HIDE DEF BullType, JobInv, OneRun, OrderInv, Over
      <3>4. QED BY <2>9, <3>1, <3>2, <3>3 DEF Normalize, Goto
    <2>10. CASE Project(s) \/ CountUnread(s)
      BY <2>10 DEF Project, Goto, CountUnread, Step
    <2>11. CASE FailClose(s)
      <3>1. job[task[s]] = "active" /\ \A r \in Slots : task[r] = task[s] => r = s
        BY <2>11, Working DEF FailClose
      <3>2. job["classify"] # "absent" =>
              /\ job["normalize"] # "absent"
              /\ \A r \in Slots : task[r] = "normalize" => pc[r] = "finish"
        BY Working
      <3>3. job["route"] # "absent" => job["classify"] # "absent"
        BY Working
      <3> HIDE DEF BullType, JobInv, OneRun, OrderInv, Over
      <3>4. QED BY <2>11, <3>1, <3>2, <3>3 DEF FailClose, Goto
    <2>12. CASE AssignFailed(s)
      BY <2>12 DEF AssignFailed, Step, Goto
    <2>13. CASE Classify(s)
      <3>1. job[task[s]] = "active" /\ \A r \in Slots : task[r] = task[s] => r = s
        BY <2>13, Working DEF Classify
      <3>2. job["classify"] # "absent" =>
              /\ job["normalize"] # "absent"
              /\ \A r \in Slots : task[r] = "normalize" => pc[r] = "finish"
        BY Working
      <3>3. job["route"] # "absent" => job["classify"] # "absent"
        BY Working
      <3> HIDE DEF BullType, JobInv, OneRun, OrderInv, Over
      <3>4. QED BY <2>13, <3>1, <3>2, <3>3 DEF Classify, Goto
    <2>14. CASE Remember(s)
      BY <2>14 DEF Remember, Step, Goto
    <2>15. CASE Control(s) \/ Execution(s)
      BY <2>15 DEF Control, Step, Goto, Plan, Override, Execution
    <2>16. CASE Apply(s)
      <3>1. job[task[s]] = "active" /\ \A r \in Slots : task[r] = task[s] => r = s
        BY <2>16, Working DEF Apply
      <3>2. job["classify"] # "absent" =>
              /\ job["normalize"] # "absent"
              /\ \A r \in Slots : task[r] = "normalize" => pc[r] = "finish"
        BY Working
      <3>3. job["route"] # "absent" => job["classify"] # "absent"
        BY Working
      <3> HIDE DEF BullType, JobInv, OneRun, OrderInv, Over
      <3>4. QED BY <2>16, <3>1, <3>2, <3>3 DEF Apply, Goto, Plan, Decisions
    <2>17. CASE Decide(s) \/ Block(s)
      BY <2>17 DEF Decide, Step, Goto, Block
    <2>18. CASE Assign(s) \/ Assigned(s) \/ Batch(s) \/ Note(s)
      BY <2>18 DEF Assign, Step, Goto, Assigned, Batch, Note
    <2>19. CASE Active(s) \/ Request(s) \/ Propose(s)
      BY <2>19 DEF Active, Step, Goto, Request, Propose
    <2>20. CASE Handled(s)
      <3>1. job[task[s]] = "active" /\ \A r \in Slots : task[r] = task[s] => r = s
        BY <2>20, Working DEF Handled
      <3>2. job["classify"] # "absent" =>
              /\ job["normalize"] # "absent"
              /\ \A r \in Slots : task[r] = "normalize" => pc[r] = "finish"
        BY Working
      <3>3. job["route"] # "absent" => job["classify"] # "absent"
        BY Working
      <3> HIDE DEF BullType, JobInv, OneRun, OrderInv, Over
      <3>4. QED BY <2>20, <3>1, <3>2, <3>3 DEF Handled, Goto
    <2>21. CASE HandOver(s)
      BY <2>21 DEF HandOver, Goto
    <2>22. QED
      BY <1>1, <2>1, <2>2, <2>3, <2>4, <2>5, <2>6, <2>7, <2>8, <2>9, <2>10, <2>11, <2>12,
         <2>13, <2>14, <2>15, <2>16, <2>17, <2>18, <2>19, <2>20, <2>21 DEF Work
  <1>2. ASSUME NEW s \in Slots, Fails(s) PROVE LifeInv'
    BY <1>2 DEF Fails, Goto, OnError, Await
  <1>3. CASE Takeover \/ GateChanges \/ UNCHANGED vars
    <2>1. ASSUME life = "ROUTED", life' = "IN_PROGRESS", UNCHANGED <<job, pc, plan, task,
                 projection, appointments>>
          PROVE  LifeInv'
      <3>1. /\ job["classify"] # "absent" /\ job["route"] # "absent" /\ job["normalize"] # "absent"
            /\ \A r \in Slots : task[r] = "normalize" => pc[r] = "finish"
        BY <2>1, Working
      <3> HIDE DEF BullType, JobInv, OneRun, OrderInv, Over
      <3>2. QED BY <2>1, <3>1
    <2>2. QED BY <1>3, <2>1 DEF Takeover, GateChanges, vars
  <1>4. QED BY <1>1, <1>2, <1>3 DEF KeptStep

-----------------------------------------------------------------------------
(* While no run was lost and one call failed at most *)

\* With one error at most, the normalizer's trace is complete when it hands on.
TraceInv ==
  /\ job["normalize"] = "waiting" => life \in {"RECEIVED", "FAILED"}
  /\ \A s \in Slots :
       /\ task[s] = "normalize" /\ pc[s] \in {"load", "throw", "assignFailed"} =>
            life \in {"RECEIVED", "FAILED"}
       /\ pc[s] = "failClose" => life \in {"RECEIVED", "FAILED"} \/ errors = 1
       /\ pc[s] # "resumeClassify"
       /\ pc[s] \in {"recordNormalized", "project"} => projection = "none"
       /\ pc[s] \in {"project", "count", "toClassify"} => "normalized" \in events
       /\ pc[s] = "toClassify" => content = "media" \/ projection = "counted"
  /\ job["classify"] # "absent" =>
       "normalized" \in events /\ (content = "media" \/ projection = "counted")

LEMMA NextTrace ==
  ASSUME DataType, BullType, WorkType, CountType, PlaceInv, JobInv, OneRun, OrderInv, LifeInv,
         TraceInv, KeptStep, errors' <= 1
  PROVE  TraceInv'
  <1> USE NoneAssumption
        DEF DataType, CountType, BullType, WorkType, PlaceInv, JobInv, OneRun, OrderInv, Over,
            LifeInv, TraceInv, interaction, record, answers, bull, worker, counts
  <1>0. /\ "ingest" \in Job /\ "normalize" \in Job /\ "classify" \in Job /\ "route" \in Job
        /\ "bridge" \in Job
        /\ None \notin {"RECEIVED", "NORMALIZED", "CLASSIFIED", "ROUTED", "IN_PROGRESS",
            "FAILED"}
    BY NoneAssumption DEF Job, Life
  <1> USE <1>0
  <1>1. ASSUME NEW s \in Slots, Work(s) PROVE TraceInv'
    <2>1. CASE (\E j \in Job : Take(s, j))
      BY <2>1 DEF Take, Goto
    <2>2. CASE Finish(s)
      BY <2>2 DEF Finish, Release, Vacate, Holds, Goto
    <2>3. CASE Throw(s)
      BY <2>3 DEF Throw, Release, Vacate, Holds, Goto, LetterCost
    <2>4. CASE Receive(s)
      BY <2>4 DEF Receive, Step, Goto, Plan
    <2>5. CASE RecordEvent(s)
      BY <2>5 DEF RecordEvent, Record, Step, Goto
    <2>6. CASE Resume(s)
      BY <2>6 DEF Resume, Step, Goto, Add
    <2>7. CASE Load(s)
      BY <2>7 DEF Load, Step, Goto, AfterLoad
    <2>8. CASE HandOn(s)
      BY <2>8 DEF HandOn, Step, Goto, Add
    <2>9. CASE Normalize(s)
      BY <2>9 DEF Normalize, Goto
    <2>10. CASE Project(s)
      BY <2>10 DEF Project, Goto
    <2>11. CASE CountUnread(s)
      BY <2>11 DEF CountUnread, Step, Goto
    <2>12. CASE FailClose(s)
      BY <2>12 DEF FailClose, Goto
    <2>13. CASE AssignFailed(s)
      BY <2>13 DEF AssignFailed, Step, Goto
    <2>14. CASE Classify(s)
      BY <2>14 DEF Classify, Goto, Hints, ContentHint
    <2>15. CASE Remember(s)
      BY <2>15 DEF Remember, Step, Goto
    <2>16. CASE Control(s) \/ Execution(s)
      BY <2>16 DEF Control, Step, Goto, Plan, Override, Execution
    <2>17. CASE Apply(s)
      BY <2>17 DEF Apply, Goto, Plan, Decisions
    <2>18. CASE Decide(s) \/ Block(s)
      BY <2>18 DEF Decide, Step, Goto, Block
    <2>19. CASE Assign(s) \/ Assigned(s) \/ Batch(s) \/ Note(s)
      BY <2>19 DEF Assign, Step, Goto, Assigned, Batch, Note
    <2>20. CASE Active(s) \/ Request(s) \/ Propose(s)
      BY <2>20 DEF Active, Step, Goto, Request, Propose
    <2>21. CASE Handled(s)
      BY <2>21 DEF Handled, Goto
    <2>22. CASE HandOver(s)
      BY <2>22 DEF HandOver, Goto
    <2>23. QED
      BY <1>1, <2>1, <2>2, <2>3, <2>4, <2>5, <2>6, <2>7, <2>8, <2>9, <2>10, <2>11, <2>12,
         <2>13, <2>14, <2>15, <2>16, <2>17, <2>18, <2>19, <2>20, <2>21, <2>22 DEF Work
  <1>2. ASSUME NEW s \in Slots, Fails(s) PROVE TraceInv'
    BY <1>2 DEF Fails, Goto, OnError, Await
  <1>3. CASE Takeover \/ GateChanges \/ UNCHANGED vars
    BY <1>3 DEF Takeover, GateChanges, vars
  <1>4. QED BY <1>1, <1>2, <1>3 DEF KeptStep

-----------------------------------------------------------------------------
(* While nothing has gone wrong *)

\* Without a fault the classifier runs once, and one answer is given.
AnswerInv ==
  /\ job["classify"] = "waiting" => life = "NORMALIZED"
  /\ \A s \in Slots : task[s] = "classify" =>
       /\ pc[s] # "throw"
       /\ pc[s] \in {"load", "classify"} => life = "NORMALIZED"
       /\ pc[s] = "toRoute" => remembered
  /\ job["route"] # "absent" => remembered
  /\ \A s \in Slots : pc[s] = "assignFailed" => life = "FAILED"
  /\ humanRow /\ job["classify"] = "absent" => life = "FAILED"
  /\ job["route"] = "absent" /\ job["classify"] # "absent" => ~humanRow
  /\ job["route"] = "waiting" => ~humanRow
  /\ job["bridge"] = "waiting" => ~humanRow /\ ~aiBatch
  /\ job["bridge"] = "absent" => ~aiBatch
  /\ \A s \in Slots :
       /\ task[s] = "route" /\ pc[s] \notin {"assigned", "finish"} => ~humanRow
       /\ task[s] = "bridge" /\ pc[s] \notin {"assigned", "note",
           "finish"} => ~humanRow /\ ~aiBatch
  /\ ~(humanRow /\ aiBatch)

LEMMA NextAnswer ==
  ASSUME DataType, FlagType, BullType, WorkType, CountType, PlaceInv, JobInv, OneRun,
         OrderInv, LifeInv, AnswerInv, KeptStep, faults = 0, faults' = 0
  PROVE  AnswerInv'
  <1> USE NoneAssumption
        DEF DataType, FlagType, CountType, faults, BullType, WorkType, PlaceInv, JobInv, OneRun,
            OrderInv, Over, LifeInv, AnswerInv, interaction, record, answers, bull, worker, counts
  <1>0. /\ "ingest" \in Job /\ "normalize" \in Job /\ "classify" \in Job /\ "route" \in Job
        /\ "bridge" \in Job
        /\ None \notin {"RECEIVED", "NORMALIZED", "CLASSIFIED", "ROUTED", "IN_PROGRESS",
            "FAILED"}
    BY NoneAssumption DEF Job, Life
  <1> USE <1>0
  <1>1. ASSUME NEW s \in Slots, Work(s) PROVE AnswerInv'
    <2>1. CASE (\E j \in Job : Take(s, j))
      BY <2>1 DEF Take, Goto
    <2>2. CASE Finish(s)
      BY <2>2 DEF Finish, Release, Vacate, Holds, Goto
    <2>3. CASE Throw(s)
      BY <2>3 DEF Throw, Release, Vacate, Holds, Goto, LetterCost
    <2>4. CASE Receive(s)
      BY <2>4 DEF Receive, Step, Goto, Plan
    <2>5. CASE RecordEvent(s)
      BY <2>5 DEF RecordEvent, Record, Step, Goto
    <2>6. CASE Resume(s)
      BY <2>6 DEF Resume, Step, Goto, Add
    <2>7. CASE Load(s)
      BY <2>7 DEF Load, Step, Goto, AfterLoad
    <2>8. CASE HandOn(s)
      BY <2>8 DEF HandOn, Step, Goto, Add
    <2>9. CASE Normalize(s)
      BY <2>9 DEF Normalize, Goto
    <2>10. CASE Project(s)
      BY <2>10 DEF Project, Goto
    <2>11. CASE CountUnread(s)
      BY <2>11 DEF CountUnread, Step, Goto
    <2>12. CASE FailClose(s)
      BY <2>12 DEF FailClose, Goto
    <2>13. CASE AssignFailed(s)
      BY <2>13 DEF AssignFailed, Step, Goto
    <2>14. CASE Classify(s)
      BY <2>14 DEF Classify, Goto, Hints, ContentHint
    <2>15. CASE Remember(s)
      BY <2>15 DEF Remember, Step, Goto
    <2>16. CASE Control(s)
      BY <2>16 DEF Control, Step, Goto, Plan, Override
    <2>17. CASE Execution(s)
      BY <2>17 DEF Execution, Step, Goto, Plan, Override
    <2>18. CASE Apply(s)
      BY <2>18 DEF Apply, Goto, Plan, Decisions
    <2>19. CASE Decide(s)
      BY <2>19 DEF Decide, Step, Goto
    <2>20. CASE Block(s)
      BY <2>20 DEF Block, Goto
    <2>21. CASE Assign(s)
      BY <2>21 DEF Assign, Step, Goto
    <2>22. CASE Assigned(s)
      BY <2>22 DEF Assigned, Step, Goto
    <2>23. CASE Batch(s)
      BY <2>23 DEF Batch, Step, Goto
    <2>24. CASE Note(s)
      BY <2>24 DEF Note, Step, Goto
    <2>25. CASE Active(s)
      BY <2>25 DEF Active, Step, Goto
    <2>26. CASE Request(s)
      BY <2>26 DEF Request, Step, Goto
    <2>27. CASE Propose(s)
      BY <2>27 DEF Propose, Step, Goto
    <2>28. CASE Handled(s)
      BY <2>28 DEF Handled, Goto
    <2>29. CASE HandOver(s)
      BY <2>29 DEF HandOver, Goto
    <2>30. QED
      BY <1>1, <2>1, <2>2, <2>3, <2>4, <2>5, <2>6, <2>7, <2>8, <2>9, <2>10, <2>11, <2>12,
         <2>13, <2>14, <2>15, <2>16, <2>17, <2>18, <2>19, <2>20, <2>21, <2>22, <2>23, <2>24,
         <2>25, <2>26, <2>27, <2>28, <2>29 DEF Work
  <1>2. ASSUME NEW s \in Slots, Fails(s) PROVE AnswerInv'
    BY <1>2 DEF Fails
  <1>3. CASE Takeover \/ GateChanges \/ UNCHANGED vars
    BY <1>3 DEF Takeover, GateChanges, vars
  <1>4. QED BY <1>1, <1>2, <1>3 DEF KeptStep

-----------------------------------------------------------------------------
(* The theorems *)

FaultInv ==
  /\ lost = 0 => OneRun /\ OrderInv /\ LifeInv
  /\ lost = 0 /\ errors <= 1 => TraceInv
  /\ faults = 0 => AnswerInv

LEMMA InitFault == Init => FaultInv
  <1> SUFFICES ASSUME Init PROVE OneRun /\ OrderInv /\ LifeInv /\ TraceInv /\ AnswerInv
    BY DEF FaultInv
  <1> USE DEF Init, Job
  <1>1. OneRun /\ OrderInv
    BY DEF OneRun, OrderInv
  <1>2. LifeInv
    BY NoneAssumption DEF LifeInv, NoneAssumption, Life, Hint, Route
  <1>3. TraceInv
    BY DEF TraceInv
  <1>4. AnswerInv
    BY DEF AnswerInv
  <1>5. QED BY <1>1, <1>2, <1>3, <1>4

LEMMA ErrorsGrow ==
  ASSUME CountType, KeptStep
  PROVE  errors' >= errors
  <1> USE DEF CountType, counts
  <1>1. ASSUME NEW s \in Slots, Throw(s) PROVE errors' >= errors
    BY <1>1 DEF Throw, LetterCost
  <1>2. ASSUME NEW s \in Slots, Work(s), ~Throw(s) PROVE errors' = errors
    BY <1>2
    DEF Work, Take, Finish, Receive, RecordEvent, Record, Resume, Load, Normalize, Project,
        CountUnread, FailClose, AssignFailed, Classify, Remember, HandOn, Control, Apply, Decide,
        Execution, Block, Assign, Assigned, Batch, Note, Active, Request, Propose, Handled,
        HandOver
  <1>3. ASSUME NEW s \in Slots, Fails(s) PROVE errors' >= errors
    BY <1>3 DEF Fails
  <1>4. CASE Takeover \/ GateChanges \/ UNCHANGED vars
    BY <1>4 DEF Takeover, GateChanges, vars
  <1>5. QED BY <1>1, <1>2, <1>3, <1>4 DEF KeptStep, CountType

\* Two counters that add up to nothing are both zero.
LEMMA NothingAdds ==
  ASSUME NEW a \in Nat, NEW b \in Nat, a + b = 0
  PROVE  a = 0 /\ b = 0
  OBVIOUS

LEMMA NextFault ==
  Types /\ FlagType /\ PlaceInv /\ JobInv /\ FaultInv /\ [Next]_vars /\ CountType' => FaultInv'
  <1> SUFFICES ASSUME Types, FlagType, PlaceInv, JobInv, FaultInv, [Next]_vars, CountType',
                      lost' = 0
               PROVE  /\ OneRun' /\ OrderInv' /\ LifeInv'
                      /\ errors' <= 1 => TraceInv'
                      /\ faults' = 0 => AnswerInv'
    <2>1. ASSUME CountType', faults' = 0 PROVE lost' = 0
      <3>1. errors' \in Nat /\ lost' \in Nat
        BY <2>1 DEF CountType
      <3>2. errors' + lost' = 0
        BY <2>1 DEF faults
      <3>3. QED BY <3>1, <3>2, NothingAdds
    <2>2. QED BY <2>1 DEF FaultInv
  <1>1. lost = 0 /\ KeptStep /\ errors' >= errors
    BY NoLoss, ErrorsGrow DEF Types
  <1>2. OneRun /\ OrderInv /\ LifeInv
    BY <1>1 DEF FaultInv
  <1>3. OneRun' /\ OrderInv' /\ LifeInv'
    BY <1>1, <1>2, NextOneRun, NextOrder, NextLife DEF Types
  <1>4. ASSUME errors' <= 1 PROVE TraceInv'
    <2>1. TraceInv
      BY <1>1, <1>4 DEF FaultInv, Types, CountType
    <2>2. QED BY <1>1, <1>2, <1>4, <2>1, NextTrace DEF Types
  <1>5. ASSUME faults' = 0 PROVE AnswerInv'
    <2>1. faults = 0
      <3>1. CountType
        BY DEF Types
      <3>2. errors \in Nat /\ errors' \in Nat /\ lost' \in Nat
        BY <3>1 DEF CountType
      <3>3. errors' + lost' = 0
        BY <1>5 DEF faults
      <3>4. errors = 0
        <4>1. errors' = 0
          BY <3>2, <3>3, NothingAdds
        <4>2. QED BY <1>1, <3>2, <4>1
      <3>5. QED BY <1>1, <3>4 DEF faults
    <2>2. QED BY <1>1, <1>2, <1>5, <2>1, NextAnswer DEF FaultInv, Types
  <1>6. QED BY <1>3, <1>4, <1>5

LEMMA FaultInvariant == Spec => [](Types /\ FaultInv)
  <1>1. Types' => CountType'
    BY DEF Types
  <1>2. QED BY <1>1, InitFault, NextFault, TypeInvariant, PTL DEF Spec

\* An interaction with text that is past its classification is in the inbox,
\* with its unread count and its event, unless a run was lost or two calls
\* failed, and in the lead's memory unless something failed, for any number of
\* runs, attempts and faults.
THEOREM InboundHistoryIsWhole == Spec => []HistoryIsWhole
  <1>1. Types /\ FaultInv => HistoryIsWhole
    BY DEF Types, CountType, FaultInv, LifeInv, TraceInv, AnswerInv, HistoryIsWhole, faults
  <1>2. QED BY <1>1, FaultInvariant, PTL

\* Without a fault a message is answered by the AI or a human and not by both,
\* whatever the gate does; and a second appointment takes a lost run.
THEOREM InboundAnsweredOnce == Spec => []AnsweredOnce
  <1>1. Types /\ FaultInv => AnsweredOnce
    BY DEF Types, DataType, CountType, FaultInv, LifeInv, AnswerInv, AnsweredOnce, faults
  <1>2. QED BY <1>1, FaultInvariant, PTL

-----------------------------------------------------------------------------
(* Whatever goes wrong *)

Known(j) == job[j] # "absent"

\* An active job is held by a run of it.
HoldInv ==
  /\ \A j \in Job : /\ job[j] = "active" => holder[j] # None
                    /\ holder[j] # None => task[holder[j]] = j /\ pc[holder[j]] # "idle"
  /\ \A s \in Slots : task[s] # None => Known(task[s])
  /\ Known("ingest")
  /\ stalled # {} => lost > 0
  /\ \A s \in Slots : task[s] = "ingest" /\ pc[s] = "throw" => errors > 0

\* The interaction has been through the routing.
Gone == life \in {"ROUTED", "IN_PROGRESS", "FAILED"}

\* What a run knows of the interaction is still true enough.
StageInv ==
  /\ life \in {"ROUTED", "IN_PROGRESS"} => Known("route")
  /\ \A j \in Job \ {"ingest"} : Known(j) => life # None
  /\ \A s \in Slots :
       /\ pc[s] \in {"recordReceived", "resume"} =>
            /\ life # None
            /\ \/ plan[s] \in {"RECEIVED", "NORMALIZED", "CLASSIFIED", "ROUTED"}
               \/ Known("route") \/ life = "FAILED"
       /\ pc[s] \in {"recordRouted", "decide"} => plan[s] \in Route
       /\ pc[s] \in {"recordRouted", "decide", "execution", "block", "toBridge", "active",
                     "request", "propose", "handled", "handOver"} => Gone
       /\ pc[s] = "assigned" => humanRow
       /\ pc[s] = "note" => aiBatch

\* A job that is over has handed on, or found the interaction FAILED.
ChainInv ==
  /\ Over("ingest") => Known("normalize") \/ Known("classify") \/ Known("route") \/ life = "FAILED"
  /\ Over("normalize") => Known("classify") \/ Known("route") \/ life = "FAILED"
  /\ Over("classify") => Known("route") \/ life = "FAILED"

\* The gate was open, and closed since.
Closed == gateChanges >= 1 /\ (gate = "open" => gateChanges >= 2)

\* The route hands on through an open gate; a bridge job that ends with no answer
\* has found it closed.
GateInv ==
  /\ Known("bridge") => gate = "open" \/ gateChanges >= 1
  /\ \A s \in Slots : /\ pc[s] = "toBridge" => gate = "open" \/ gateChanges >= 1
                      /\ pc[s] = "block" /\ task[s] = "bridge" => Closed
  /\ Over("bridge") => aiBatch \/ humanRow \/ Closed

LEMMA NextHold ==
  ASSUME BullType, WorkType, CountType, PlaceInv, JobInv, HoldInv, [Next]_vars
  PROVE  HoldInv'
  <1> USE NoneAssumption
        DEF BullType, WorkType, CountType, PlaceInv, JobInv, HoldInv, Known, interaction, record,
            answers, bull, worker, counts
  <1>0. /\ "ingest" \in Job /\ "normalize" \in Job /\ "classify" \in Job /\ "route" \in Job
        /\ "bridge" \in Job
        /\ None \notin {"RECEIVED", "NORMALIZED", "CLASSIFIED", "ROUTED", "IN_PROGRESS",
            "FAILED"}
    BY NoneAssumption DEF Job, Life
  <1> USE <1>0
  <1>1. ASSUME NEW s \in Slots, Work(s) PROVE HoldInv'
    <2>1. CASE (\E j \in Job : Take(s, j))
      BY <2>1 DEF Take, Goto
    <2>2. CASE Finish(s)
      BY <2>2 DEF Finish, Release, Vacate, Holds, Goto
    <2>3. CASE Throw(s)
      BY <2>3 DEF Throw, Release, Vacate, Holds, Goto, LetterCost
    <2>4. CASE Receive(s)
      BY <2>4 DEF Receive, Step, Goto, Plan
    <2>5. CASE RecordEvent(s)
      BY <2>5 DEF RecordEvent, Record, Step, Goto
    <2>6. CASE Resume(s)
      BY <2>6 DEF Resume, Step, Goto, Add
    <2>7. CASE Load(s)
      BY <2>7 DEF Load, Step, Goto, AfterLoad
    <2>8. CASE HandOn(s)
      BY <2>8 DEF HandOn, Step, Goto, Add
    <2>9. CASE Normalize(s) \/ Project(s) \/ CountUnread(s)
      BY <2>9 DEF Normalize, Goto, Project, CountUnread, Step
    <2>10. CASE FailClose(s) \/ AssignFailed(s)
      BY <2>10 DEF FailClose, Goto, AssignFailed, Step
    <2>11. CASE Classify(s) \/ Remember(s)
      BY <2>11 DEF Classify, Goto, Hints, ContentHint, Remember, Step
    <2>12. CASE Control(s)
      BY <2>12 DEF Control, Step, Goto, Plan, Override
    <2>13. CASE Execution(s)
      BY <2>13 DEF Execution, Step, Goto, Plan, Override
    <2>14. CASE Apply(s)
      BY <2>14 DEF Apply, Goto, Plan, Decisions
    <2>15. CASE Decide(s)
      BY <2>15 DEF Decide, Step, Goto
    <2>16. CASE Block(s)
      BY <2>16 DEF Block, Goto
    <2>17. CASE Assign(s) \/ Assigned(s)
      BY <2>17 DEF Assign, Step, Goto, Assigned
    <2>18. CASE Batch(s) \/ Note(s)
      BY <2>18 DEF Batch, Step, Goto, Note
    <2>19. CASE Active(s) \/ Request(s) \/ Propose(s)
      BY <2>19 DEF Active, Step, Goto, Request, Propose
    <2>20. CASE Handled(s) \/ HandOver(s)
      BY <2>20 DEF Handled, Goto, HandOver
    <2>21. QED
      BY <1>1, <2>1, <2>2, <2>3, <2>4, <2>5, <2>6, <2>7, <2>8, <2>9, <2>10, <2>11, <2>12,
         <2>13, <2>14, <2>15, <2>16, <2>17, <2>18, <2>19, <2>20 DEF Work
  <1>2. ASSUME NEW s \in Slots, Fails(s) PROVE HoldInv'
    BY <1>2 DEF Fails, Goto, OnError, Await
  <1>3. ASSUME NEW s \in Slots, Crash(s) PROVE HoldInv'
    BY <1>3 DEF Crash, LoseLock, Release, Holds, Vacate, Goto
  <1>4. ASSUME NEW s \in Slots, Stall(s) PROVE HoldInv'
    BY <1>4 DEF Stall, LoseLock, Release, Holds
  <1>5. CASE Takeover \/ GateChanges \/ UNCHANGED vars
    BY <1>5 DEF Takeover, GateChanges, vars
  <1>6. QED BY <1>1, <1>2, <1>3, <1>4, <1>5 DEF Next

LEMMA NextStage ==
  ASSUME DataType, FlagType, BullType, WorkType, PlaceInv, HoldInv, StageInv, [Next]_vars
  PROVE  StageInv'
  <1> USE NoneAssumption
        DEF DataType, BullType, WorkType, PlaceInv, HoldInv, StageInv, Gone, Known, Route,
            interaction, record, answers, bull, worker, counts
  <1>0. /\ "ingest" \in Job /\ "normalize" \in Job /\ "classify" \in Job /\ "route" \in Job
        /\ "bridge" \in Job
        /\ None \notin {"RECEIVED", "NORMALIZED", "CLASSIFIED", "ROUTED", "IN_PROGRESS",
            "FAILED"}
    BY NoneAssumption DEF Job, Life
  <1> USE <1>0
  <1>1. ASSUME NEW s \in Slots, Work(s) PROVE StageInv'
    <2>1. CASE (\E j \in Job : Take(s, j))
      BY <2>1 DEF Take, Goto
    <2>2. CASE Finish(s)
      BY <2>2 DEF Finish, Release, Vacate, Holds, Goto
    <2>3. CASE Throw(s)
      BY <2>3 DEF Throw, Release, Vacate, Holds, Goto, LetterCost
    <2>4. CASE Receive(s)
      BY <2>4 DEF Receive, Step, Goto, Plan, Life
    <2>5. CASE RecordEvent(s)
      BY <2>5 DEF RecordEvent, Record, Step, Goto
    <2>6. CASE Resume(s)
      BY <2>6 DEF Resume, Step, Goto, Add
    <2>7. CASE Load(s)
      BY <2>7 DEF Load, Step, Goto, AfterLoad
    <2>8. CASE Normalize(s)
      BY <2>8 DEF Normalize, Goto
    <2>9. CASE Project(s)
      BY <2>9 DEF Project, Goto
    <2>10. CASE CountUnread(s)
      BY <2>10 DEF CountUnread, Step, Goto
    <2>11. CASE FailClose(s)
      BY <2>11 DEF FailClose, Goto
    <2>12. CASE AssignFailed(s)
      BY <2>12 DEF AssignFailed, Step, Goto
    <2>13. CASE Classify(s)
      BY <2>13 DEF Classify, Goto, Hints, ContentHint
    <2>14. CASE Remember(s)
      BY <2>14 DEF Remember, Step, Goto
    <2>15. CASE HandOn(s)
      BY <2>15 DEF HandOn, Step, Goto, Add
    <2>16. CASE Control(s)
      BY <2>16 DEF Control, Step, Goto, Plan, Override
    <2>17. CASE Apply(s)
      BY <2>17 DEF Apply, Goto, Plan, Decisions
    <2>18. CASE Decide(s)
      BY <2>18 DEF Decide, Step, Goto
    <2>19. CASE Execution(s)
      BY <2>19 DEF Execution, Step, Goto, Plan, Override
    <2>20. CASE Block(s)
      BY <2>20 DEF Block, Goto
    <2>21. CASE Assign(s)
      BY <2>21 DEF Assign, Step, Goto
    <2>22. CASE Assigned(s)
      BY <2>22 DEF Assigned, Step, Goto
    <2>23. CASE Batch(s)
      BY <2>23 DEF Batch, Step, Goto
    <2>24. CASE Note(s)
      BY <2>24 DEF Note, Step, Goto
    <2>25. CASE Active(s)
      BY <2>25 DEF Active, Step, Goto
    <2>26. CASE Request(s)
      BY <2>26 DEF Request, Step, Goto
    <2>27. CASE Propose(s)
      BY <2>27 DEF Propose, Step, Goto
    <2>28. CASE Handled(s)
      BY <2>28 DEF Handled, Goto
    <2>29. CASE HandOver(s)
      BY <2>29 DEF HandOver, Goto
    <2>30. QED
      BY <1>1, <2>1, <2>2, <2>3, <2>4, <2>5, <2>6, <2>7, <2>8, <2>9, <2>10, <2>11, <2>12,
         <2>13, <2>14, <2>15, <2>16, <2>17, <2>18, <2>19, <2>20, <2>21, <2>22, <2>23, <2>24,
         <2>25, <2>26, <2>27, <2>28, <2>29 DEF Work
  <1>2. ASSUME NEW s \in Slots, Fails(s) PROVE StageInv'
    BY <1>2 DEF Fails, Goto, OnError, Await
  <1>3. ASSUME NEW s \in Slots, Crash(s) PROVE StageInv'
    BY <1>3 DEF Crash, LoseLock, Release, Holds, Vacate, Goto
  <1>4. ASSUME NEW s \in Slots, Stall(s) PROVE StageInv'
    BY <1>4 DEF Stall, LoseLock, Release, Holds
  <1>5. CASE Takeover \/ GateChanges \/ UNCHANGED vars
    BY <1>5 DEF Takeover, GateChanges, vars
  <1>6. QED BY <1>1, <1>2, <1>3, <1>4, <1>5 DEF Next

LEMMA NextChain ==
  ASSUME DataType, BullType, WorkType, PlaceInv, HoldInv, StageInv, ChainInv, [Next]_vars
  PROVE  ChainInv'
  <1> USE NoneAssumption
        DEF DataType, BullType, WorkType, PlaceInv, HoldInv, StageInv, ChainInv, Over, Gone,
            Known, interaction, record, answers, bull, worker, counts
  <1>0. /\ "ingest" \in Job /\ "normalize" \in Job /\ "classify" \in Job /\ "route" \in Job
        /\ "bridge" \in Job
        /\ None \notin {"RECEIVED", "NORMALIZED", "CLASSIFIED", "ROUTED", "IN_PROGRESS",
            "FAILED"}
    BY NoneAssumption DEF Job, Life
  <1> USE <1>0
  <1>1. ASSUME NEW s \in Slots, Work(s) PROVE ChainInv'
    <2>1. CASE (\E j \in Job : Take(s, j))
      BY <2>1 DEF Take, Goto
    <2>2. CASE Finish(s)
      BY <2>2 DEF Finish, Release, Vacate, Holds, Goto
    <2>3. CASE Throw(s)
      BY <2>3 DEF Throw, Release, Vacate, Holds, Goto, LetterCost
    <2>4. CASE Receive(s)
      BY <2>4 DEF Receive, Step, Goto, Plan
    <2>5. CASE RecordEvent(s)
      BY <2>5 DEF RecordEvent, Record, Step, Goto
    <2>6. CASE Resume(s)
      BY <2>6 DEF Resume, Step, Goto, Add
    <2>7. CASE Load(s)
      BY <2>7 DEF Load, Step, Goto, AfterLoad, Life
    <2>8. CASE HandOn(s)
      BY <2>8 DEF HandOn, Step, Goto, Add
    <2>9. CASE Normalize(s) \/ Project(s) \/ CountUnread(s)
      BY <2>9 DEF Normalize, Goto, Project, CountUnread, Step
    <2>10. CASE FailClose(s) \/ AssignFailed(s)
      BY <2>10 DEF FailClose, Goto, AssignFailed, Step
    <2>11. CASE Classify(s) \/ Remember(s)
      BY <2>11 DEF Classify, Goto, Hints, ContentHint, Remember, Step
    <2>12. CASE Control(s)
      BY <2>12 DEF Control, Step, Goto, Plan, Override
    <2>13. CASE Execution(s)
      BY <2>13 DEF Execution, Step, Goto, Plan, Override
    <2>14. CASE Apply(s)
      BY <2>14 DEF Apply, Goto, Plan, Decisions
    <2>15. CASE Decide(s)
      BY <2>15 DEF Decide, Step, Goto
    <2>16. CASE Block(s)
      BY <2>16 DEF Block, Goto
    <2>17. CASE Assign(s) \/ Assigned(s)
      BY <2>17 DEF Assign, Step, Goto, Assigned
    <2>18. CASE Batch(s) \/ Note(s)
      BY <2>18 DEF Batch, Step, Goto, Note
    <2>19. CASE Active(s) \/ Request(s) \/ Propose(s)
      BY <2>19 DEF Active, Step, Goto, Request, Propose
    <2>20. CASE Handled(s) \/ HandOver(s)
      BY <2>20 DEF Handled, Goto, HandOver
    <2>21. QED
      BY <1>1, <2>1, <2>2, <2>3, <2>4, <2>5, <2>6, <2>7, <2>8, <2>9, <2>10, <2>11, <2>12,
         <2>13, <2>14, <2>15, <2>16, <2>17, <2>18, <2>19, <2>20 DEF Work
  <1>2. ASSUME NEW s \in Slots, Fails(s) PROVE ChainInv'
    BY <1>2 DEF Fails, Goto, OnError, Await
  <1>3. ASSUME NEW s \in Slots, Crash(s) PROVE ChainInv'
    BY <1>3 DEF Crash, LoseLock, Release, Holds, Vacate, Goto
  <1>4. ASSUME NEW s \in Slots, Stall(s) PROVE ChainInv'
    BY <1>4 DEF Stall, LoseLock, Release, Holds
  <1>5. CASE Takeover \/ GateChanges \/ UNCHANGED vars
    BY <1>5 DEF Takeover, GateChanges, vars
  <1>6. QED BY <1>1, <1>2, <1>3, <1>4, <1>5 DEF Next

LEMMA NextGate ==
  ASSUME DataType, BullType, WorkType, CountType, PlaceInv, HoldInv, StageInv, GateInv,
         [Next]_vars
  PROVE  GateInv'
  <1> USE NoneAssumption
        DEF DataType, BullType, WorkType, CountType, PlaceInv, HoldInv, StageInv, GateInv, Closed,
            Gate, Over, Known, interaction, record, answers, bull, worker, counts
  <1>0. /\ "ingest" \in Job /\ "normalize" \in Job /\ "classify" \in Job /\ "route" \in Job
        /\ "bridge" \in Job
        /\ None \notin {"RECEIVED", "NORMALIZED", "CLASSIFIED", "ROUTED", "IN_PROGRESS",
            "FAILED"}
    BY NoneAssumption DEF Job, Life
  <1> USE <1>0
  <1>1. ASSUME NEW s \in Slots, Work(s) PROVE GateInv'
    <2>1. CASE (\E j \in Job : Take(s, j))
      BY <2>1 DEF Take, Goto
    <2>2. CASE Finish(s)
      BY <2>2 DEF Finish, Release, Vacate, Holds, Goto
    <2>3. CASE Throw(s)
      BY <2>3 DEF Throw, Release, Vacate, Holds, Goto, LetterCost
    <2>4. CASE Receive(s)
      BY <2>4 DEF Receive, Step, Goto, Plan
    <2>5. CASE RecordEvent(s)
      BY <2>5 DEF RecordEvent, Record, Step, Goto
    <2>6. CASE Resume(s)
      BY <2>6 DEF Resume, Step, Goto, Add
    <2>7. CASE Load(s)
      BY <2>7 DEF Load, Step, Goto, AfterLoad
    <2>8. CASE HandOn(s)
      BY <2>8 DEF HandOn, Step, Goto, Add
    <2>9. CASE Normalize(s) \/ Project(s) \/ CountUnread(s)
      BY <2>9 DEF Normalize, Goto, Project, CountUnread, Step
    <2>10. CASE FailClose(s) \/ AssignFailed(s)
      BY <2>10 DEF FailClose, Goto, AssignFailed, Step
    <2>11. CASE Classify(s) \/ Remember(s)
      BY <2>11 DEF Classify, Goto, Hints, ContentHint, Remember, Step
    <2>12. CASE Control(s)
      BY <2>12 DEF Control, Step, Goto, Plan, Override
    <2>13. CASE Execution(s)
      BY <2>13, NoneAssumption DEF Execution, Step, Goto, Plan, Override, Hint, Route
    <2>14. CASE Apply(s)
      BY <2>14 DEF Apply, Goto, Plan, Decisions
    <2>15. CASE Decide(s)
      BY <2>15 DEF Decide, Step, Goto
    <2>16. CASE Block(s)
      BY <2>16 DEF Block, Goto
    <2>17. CASE Assign(s) \/ Assigned(s)
      BY <2>17 DEF Assign, Step, Goto, Assigned
    <2>18. CASE Batch(s) \/ Note(s)
      BY <2>18 DEF Batch, Step, Goto, Note
    <2>19. CASE Active(s) \/ Request(s) \/ Propose(s)
      BY <2>19 DEF Active, Step, Goto, Request, Propose
    <2>20. CASE Handled(s) \/ HandOver(s)
      BY <2>20 DEF Handled, Goto, HandOver
    <2>21. QED
      BY <1>1, <2>1, <2>2, <2>3, <2>4, <2>5, <2>6, <2>7, <2>8, <2>9, <2>10, <2>11, <2>12,
         <2>13, <2>14, <2>15, <2>16, <2>17, <2>18, <2>19, <2>20 DEF Work
  <1>2. ASSUME NEW s \in Slots, Fails(s) PROVE GateInv'
    BY <1>2 DEF Fails, Goto, OnError, Await
  <1>3. ASSUME NEW s \in Slots, Crash(s) PROVE GateInv'
    BY <1>3 DEF Crash, LoseLock, Release, Holds, Vacate, Goto
  <1>4. ASSUME NEW s \in Slots, Stall(s) PROVE GateInv'
    BY <1>4 DEF Stall, LoseLock, Release, Holds
  <1>5. CASE Takeover \/ GateChanges \/ UNCHANGED vars
    BY <1>5 DEF Takeover, GateChanges, vars
  <1>6. QED BY <1>1, <1>2, <1>3, <1>4, <1>5 DEF Next

-----------------------------------------------------------------------------
(* While at most one thing has gone wrong *)

Few == faults <= 1 /\ (content = "empty" => faults = 0)

\* A job that failed for good has left a dead letter, and an interaction that was
\* failed closed gets its owner.
Noticed ==
  /\ \A j \in Job : job[j] = "failed" => dead # {}
  /\ life = "FAILED" => humanRow \/ \E s \in Slots : pc[s] = "assignFailed"
  /\ content # "empty" /\ faults = 0 =>
       life # "FAILED" /\ \A s \in Slots : pc[s] \notin {"failClose", "assignFailed"}

FewInv == Few => Noticed

\* No run was lost, or the gate did not both close and open.
Calm == Few /\ (lost = 0 \/ gateChanges <= 1)

\* A run that will see the interaction answered, whoever holds the job.
Commits(s) ==
  \/ pc[s] \in {"recordRouted", "decide"} /\ plan[s] # "SPAM_BIN"
  \/ pc[s] \in {"execution", "block", "active", "request", "propose", "handled", "handOver",
                "assign", "batch"}

Settled == Owned \/ life = "FAILED" \/ \E s \in Slots : Commits(s)

HandsOn == Known("bridge") \/ \E s \in Slots : pc[s] = "toBridge"

\* The route will be applied, or its job fails.
Fresh == \/ job["route"] = "waiting"
         \/ /\ job["route"] = "active"
            /\ pc[holder["route"]] \in {"load", "control", "apply", "throw"}

\* When the route is over, the interaction is settled or the bridge has it; and
\* when the bridge is over, it is settled, unless the route runs again.
Carried ==
  /\ Over("route") => Settled \/ HandsOn
  /\ \A s \in Slots : pc[s] \in {"recordRouted", "decide"} => Settled \/ HandsOn
  /\ Over("bridge") => Settled \/ Fresh

TailInv == Calm => Carried

\* The counts only grow.
LEMMA CountsGrow ==
  ASSUME CountType, [Next]_vars
  PROVE  /\ errors' >= errors /\ lost' >= lost /\ gateChanges' >= gateChanges
         /\ content' = content
  <1> USE DEF CountType, interaction, record, answers, bull, worker, counts
  <1>1. ASSUME NEW s \in Slots, Throw(s)
        PROVE  errors' >= errors /\ UNCHANGED <<lost, gateChanges, content>>
    BY <1>1 DEF Throw, LetterCost
  <1>2. ASSUME NEW s \in Slots, Work(s), ~Throw(s)
        PROVE  UNCHANGED <<errors, lost, gateChanges, content>>
    BY <1>2
    DEF Work, Take, Finish, Receive, RecordEvent, Record, Resume, Load, Normalize, Project,
        CountUnread, FailClose, AssignFailed, Classify, Remember, HandOn, Control, Apply, Decide,
        Execution, Block, Assign, Assigned, Batch, Note, Active, Request, Propose, Handled,
        HandOver
  <1>3. ASSUME NEW s \in Slots, Fails(s) \/ Crash(s) \/ Stall(s)
        PROVE  /\ errors' >= errors /\ lost' >= lost
               /\ UNCHANGED <<gateChanges, content>>
    BY <1>3 DEF Fails, Crash, Stall
  <1>4. CASE Takeover \/ GateChanges \/ UNCHANGED vars
    BY <1>4 DEF Takeover, GateChanges, vars
  <1>5. QED BY <1>1, <1>2, <1>3, <1>4 DEF Next

LEMMA SumsGrow ==
  ASSUME NEW a \in Nat, NEW b \in Nat, NEW c \in Nat, NEW d \in Nat, c >= a, d >= b
  PROVE  a + b \in Nat /\ c + d \in Nat /\ c + d >= a + b
  OBVIOUS

LEMMA OneMore ==
  ASSUME NEW a \in Nat, NEW b \in Nat, NEW c \in Nat, NEW d \in Nat,
         (c = a + 1 /\ d = b) \/ (c = a /\ d = b + 1)
  PROVE  a + b \in Nat /\ c + d = a + b + 1
  OBVIOUS

LEMMA FewBefore ==
  ASSUME CountType, CountType', [Next]_vars
  PROVE  /\ faults \in Nat /\ faults' \in Nat /\ faults' >= faults
         /\ Few' => Few
         /\ Calm' => Calm /\ Few'
  <1>1. /\ errors' >= errors /\ lost' >= lost /\ gateChanges' >= gateChanges
        /\ content' = content
    BY CountsGrow
  <1>2. /\ errors \in Nat /\ lost \in Nat /\ gateChanges \in Nat
        /\ errors' \in Nat /\ lost' \in Nat /\ gateChanges' \in Nat
    BY DEF CountType
  <1>3. faults \in Nat /\ faults' \in Nat /\ faults' >= faults
    <2>1. /\ errors + lost \in Nat /\ errors' + lost' \in Nat
          /\ errors' + lost' >= errors + lost
      BY <1>1, <1>2, SumsGrow
    <2>2. QED BY <2>1 DEF faults
  <1>4. Few' => Few
    BY <1>1, <1>3 DEF Few
  <1>5. QED BY <1>1, <1>2, <1>3, <1>4 DEF Calm

\* A fault that leaves few is the first one.
LEMMA FirstFault ==
  ASSUME CountType, CountType', NEW s \in Slots, Fails(s) \/ Crash(s) \/ Stall(s), Few'
  PROVE  /\ faults = 0 /\ faults' = 1 /\ lost = 0 /\ content # "empty"
         /\ UNCHANGED <<content, interaction, record, answers, gate, dead, gateChanges>>
  <1>1. /\ errors \in Nat /\ lost \in Nat /\ errors' \in Nat /\ lost' \in Nat
    BY DEF CountType
  <1>2. \/ errors' = errors + 1 /\ lost' = lost
        \/ errors' = errors /\ lost' = lost + 1
    BY DEF Fails, Crash, Stall
  <1>3. UNCHANGED <<content, interaction, record, answers, gate, dead, gateChanges>>
    BY Zenon DEF Fails, Crash, Stall, bull
  <1>4. faults' = faults + 1 /\ faults \in Nat
    <2>1. errors + lost \in Nat /\ errors' + lost' = errors + lost + 1
      <3>1. CASE errors' = errors + 1 /\ lost' = lost
        BY <1>1, <3>1, OneMore
      <3>2. CASE errors' = errors /\ lost' = lost + 1
        BY <1>1, <3>2, OneMore
      <3>3. QED BY <1>2, <3>1, <3>2
    <2>2. QED BY <2>1 DEF faults
  <1>5. faults = 0
    BY <1>4 DEF Few
  <1>6. lost = 0
    BY <1>1, <1>5, NothingAdds DEF faults
  <1>7. content # "empty"
    BY <1>3, <1>4, <1>5 DEF Few
  <1>8. QED BY <1>3, <1>4, <1>5, <1>6, <1>7

\* A letter that is lost costs a second fault.
LEMMA LetterIsKept ==
  ASSUME BullType, CountType, CountType', WorkType, PlaceInv, HoldInv, NEW s \in Slots,
         Throw(s), Few'
  PROVE  \/ dead' = dead /\ \A j \in Job : job'[j] = "failed" => job[j] = "failed"
         \/ dead' # {}
  <1>1. /\ errors \in Nat /\ lost \in Nat /\ errors' \in Nat /\ lost' = lost
    BY DEF CountType, Throw
  <1>2. errors' # errors + LetterCost(task[s])
    <2> SUFFICES ASSUME errors' = errors + LetterCost(task[s]) PROVE FALSE
      OBVIOUS
    <2>1. CASE task[s] = "ingest"
      <3>1. errors > 0
        BY <2>1 DEF HoldInv, Throw
      <3>2. QED BY <1>1, <2>1, <3>1 DEF LetterCost, Few, faults
    <2>2. CASE task[s] # "ingest"
      BY <1>1, <2>2 DEF LetterCost, Few, faults
    <2>3. QED BY <2>1, <2>2
  <1>3. task[s] \in Job
    BY NoneAssumption DEF Throw, WorkType, PlaceInv
  <1>4. CASE Holds(s) /\ ~(made[task[s]] + 1 < Attempts)
    BY <1>2, <1>3, <1>4 DEF Throw
  <1>5. CASE Holds(s) /\ made[task[s]] + 1 < Attempts
    BY <1>3, <1>5 DEF Throw, Release, BullType
  <1>6. CASE ~Holds(s)
    BY <1>6 DEF Throw
  <1>7. QED BY <1>4, <1>5, <1>6

LEMMA NextFew ==
  ASSUME Types, Types', FlagType, PlaceInv, JobInv, FaultInv, HoldInv, StageInv, FewInv,
         [Next]_vars
  PROVE  FewInv'
  <1> SUFFICES ASSUME Few' PROVE Noticed'
    BY DEF FewInv
  <1>c. CountType /\ CountType' /\ WorkType /\ BullType /\ DataType
    BY DEF Types
  <1>f. /\ faults \in Nat /\ faults' \in Nat /\ faults' >= faults /\ Few
        /\ content' = content
    BY <1>c, FewBefore, CountsGrow
  <1>n. Noticed
    BY <1>f DEF FewInv
  <1>l. faults = 0 => \A s \in Slots : pc[s] = "normalize" => life = "RECEIVED"
    <2> SUFFICES ASSUME faults = 0 PROVE LifeInv
      BY DEF LifeInv
    <2>1. errors \in Nat /\ lost \in Nat
      BY <1>c DEF CountType
    <2>2. lost = 0
      BY <2>1, NothingAdds DEF faults
    <2>3. QED BY <2>2 DEF FaultInv
  <1> USE <1>c, <1>f, <1>n, <1>l, NoneAssumption
        DEF DataType, BullType, WorkType, PlaceInv, HoldInv, Noticed, Known, interaction, record,
            answers, bull, worker, counts
  <1>0. /\ "ingest" \in Job /\ "normalize" \in Job /\ "classify" \in Job /\ "route" \in Job
        /\ "bridge" \in Job
        /\ None \notin {"RECEIVED", "NORMALIZED", "CLASSIFIED", "ROUTED", "IN_PROGRESS",
            "FAILED"}
    BY NoneAssumption DEF Job, Life
  <1> USE <1>0
  <1>1. ASSUME NEW s \in Slots, Work(s) PROVE Noticed'
    <2>1. CASE (\E j \in Job : Take(s, j))
      BY <2>1 DEF Take, Goto
    <2>2. CASE Finish(s)
      BY <2>2 DEF Finish, Release, Vacate, Holds, Goto
    <2>3. CASE Throw(s)
      <3>1. life' = life /\ humanRow' = humanRow /\ \A r \in Slots : r # s => pc'[r] = pc[r]
        BY <2>3 DEF Throw, Vacate, Goto
      <3>2. pc[s] = "throw" /\ pc'[s] = "idle"
        BY <2>3 DEF Throw, Vacate, Goto
      <3>3. \/ dead' = dead /\ \A j \in Job : job'[j] = "failed" => job[j] = "failed"
            \/ dead' # {}
        BY <2>3, LetterIsKept
      <3>4. QED BY <3>1, <3>2, <3>3
    <2>4. CASE Receive(s)
      BY <2>4 DEF Receive, Step, Goto, Plan
    <2>5. CASE RecordEvent(s)
      BY <2>5 DEF RecordEvent, Record, Step, Goto
    <2>6. CASE Resume(s)
      BY <2>6 DEF Resume, Step, Goto, Add
    <2>7. CASE Load(s)
      BY <2>7 DEF Load, Step, Goto, AfterLoad
    <2>8. CASE HandOn(s)
      BY <2>8 DEF HandOn, Step, Goto, Add
    <2>9. CASE Normalize(s) \/ Project(s) \/ CountUnread(s)
      BY <2>9 DEF Normalize, Goto, Project, CountUnread, Step
    <2>10. CASE FailClose(s) \/ AssignFailed(s)
      BY <2>10 DEF FailClose, Goto, AssignFailed, Step
    <2>11. CASE Classify(s) \/ Remember(s)
      BY <2>11 DEF Classify, Goto, Hints, ContentHint, Remember, Step
    <2>12. CASE Control(s)
      BY <2>12 DEF Control, Step, Goto, Plan, Override
    <2>13. CASE Execution(s)
      BY <2>13 DEF Execution, Step, Goto, Plan, Override
    <2>14. CASE Apply(s)
      BY <2>14 DEF Apply, Goto, Plan, Decisions
    <2>15. CASE Decide(s)
      BY <2>15 DEF Decide, Step, Goto
    <2>16. CASE Block(s)
      BY <2>16 DEF Block, Goto
    <2>17. CASE Assign(s) \/ Assigned(s)
      BY <2>17 DEF Assign, Step, Goto, Assigned
    <2>18. CASE Batch(s) \/ Note(s)
      BY <2>18 DEF Batch, Step, Goto, Note
    <2>19. CASE Active(s) \/ Request(s) \/ Propose(s)
      BY <2>19 DEF Active, Step, Goto, Request, Propose
    <2>20. CASE Handled(s) \/ HandOver(s)
      BY <2>20 DEF Handled, Goto, HandOver
    <2>21. QED
      BY <1>1, <2>1, <2>2, <2>3, <2>4, <2>5, <2>6, <2>7, <2>8, <2>9, <2>10, <2>11, <2>12,
         <2>13, <2>14, <2>15, <2>16, <2>17, <2>18, <2>19, <2>20 DEF Work
  <1>2. ASSUME NEW s \in Slots, Fails(s) PROVE Noticed'
    <2>1. /\ faults' = 1 /\ content # "empty" /\ UNCHANGED <<life, dead>> /\ life # "FAILED"
      BY <1>2, <1>c, <1>n, FirstFault DEF interaction
    <2>2. stalled = {}
      BY <1>2, <1>c, FirstFault
    <2>3. \A j \in Job : job'[j] = "failed" => job[j] = "failed"
      BY <1>2, <2>2 DEF Fails, Goto, OnError, Await
    <2>4. QED BY <2>1, <2>3
  <1>3. ASSUME NEW s \in Slots, Crash(s) PROVE Noticed'
    <2>1. /\ faults' = 1 /\ content # "empty" /\ UNCHANGED <<life, dead>> /\ life # "FAILED"
      BY <1>3, <1>c, <1>n, FirstFault DEF interaction
    <2>2. stalled = {}
      BY <1>3, <1>c, FirstFault
    <2>3. \A j \in Job : job'[j] = "failed" => job[j] = "failed"
      BY <1>3, <2>2 DEF Crash, LoseLock, Release, Holds, Vacate, Goto
    <2>4. QED BY <2>1, <2>3
  <1>4. ASSUME NEW s \in Slots, Stall(s) PROVE Noticed'
    <2>1. /\ faults' = 1 /\ content # "empty" /\ UNCHANGED <<life, dead>> /\ life # "FAILED"
      BY <1>4, <1>c, <1>n, FirstFault DEF interaction
    <2>2. stalled = {}
      BY <1>4, <1>c, FirstFault
    <2>3. \A j \in Job : job'[j] = "failed" => job[j] = "failed"
      BY <1>4, <2>2 DEF Stall, LoseLock, Release, Holds
    <2>4. QED BY <2>1, <2>3
  <1>5. CASE Takeover \/ GateChanges \/ UNCHANGED vars
    BY <1>5 DEF Takeover, GateChanges, vars
  <1>6. QED BY <1>1, <1>2, <1>3, <1>4, <1>5 DEF Next

\* What settles an interaction settles it still after a step of a run, or the run
\* hands it on to the bridge.
LEMMA SettledStays ==
  ASSUME DataType, FlagType, WorkType, PlaceInv, StageInv, NEW s \in Slots, Work(s),
         NEW r \in Slots, Owned \/ life = "FAILED" \/ Commits(r)
  PROVE  \/ Owned' \/ life' = "FAILED" \/ Commits(r)' \/ Commits(s)'
         \/ pc'[s] = "toBridge"
  <1> USE NoneAssumption
        DEF DataType, WorkType, PlaceInv, StageInv, Gone, Owned, Commits, Route, Life,
            interaction, record, answers, bull, worker, counts
  <1>1. CASE (\E j \in Job : Take(s, j))
    BY <1>1 DEF Take, Goto
  <1>2. CASE Finish(s)
    BY <1>2 DEF Finish, Release, Vacate, Holds, Goto
  <1>3. CASE Throw(s)
    BY <1>3 DEF Throw, Release, Vacate, Holds, Goto, LetterCost
  <1>4. CASE Receive(s)
    BY <1>4 DEF Receive, Step, Goto, Plan
  <1>5. CASE RecordEvent(s)
    BY <1>5 DEF RecordEvent, Record, Step, Goto
  <1>6. CASE Resume(s)
    BY <1>6 DEF Resume, Step, Goto, Add
  <1>7. CASE Load(s)
    BY <1>7 DEF Load, Step, Goto, AfterLoad
  <1>8. CASE HandOn(s)
    BY <1>8 DEF HandOn, Step, Goto, Add
  <1>9. CASE Normalize(s) \/ Project(s) \/ CountUnread(s)
    BY <1>9 DEF Normalize, Project, CountUnread, Step, Goto
  <1>10. CASE FailClose(s) \/ AssignFailed(s)
    BY <1>10 DEF FailClose, Goto, AssignFailed, Step
  <1>11. CASE Classify(s) \/ Remember(s)
    BY <1>11 DEF Classify, Goto, Hints, ContentHint, Remember, Step
  <1>12. CASE Control(s)
    BY <1>12 DEF Control, Step, Goto, Plan, Override
  <1>13. CASE Execution(s)
    BY <1>13 DEF Execution, Step, Goto, Plan, Override
  <1>14. CASE Apply(s)
    BY <1>14 DEF Apply, Goto, Plan, Decisions
  <1>15. CASE Decide(s)
    BY <1>15 DEF Decide, Step, Goto
  <1>16. CASE Block(s)
    BY <1>16 DEF Block, Goto
  <1>17. CASE Assign(s) \/ Assigned(s)
    BY <1>17 DEF Assign, Step, Goto, Assigned
  <1>18. CASE Batch(s) \/ Note(s)
    BY <1>18 DEF Batch, Step, Goto, Note
  <1>19. CASE Active(s) \/ Request(s) \/ Propose(s)
    BY <1>19 DEF Active, Step, Goto, Request, Propose
  <1>20. CASE Handled(s) \/ HandOver(s)
    BY <1>20 DEF Handled, Goto, HandOver
  <1>21. QED
    BY <1>1, <1>2, <1>3, <1>4, <1>5, <1>6, <1>7, <1>8, <1>9, <1>10, <1>11, <1>12, <1>13,
       <1>14, <1>15, <1>16, <1>17, <1>18, <1>19, <1>20 DEF Work

LEMMA HandedOnStays ==
  ASSUME BullType, WorkType, PlaceInv, NEW s \in Slots, Work(s),
         NEW r \in Slots, Known("bridge") \/ pc[r] = "toBridge"
  PROVE  Known("bridge")' \/ pc'[r] = "toBridge"
  <1> USE NoneAssumption
        DEF BullType, WorkType, PlaceInv, Known, interaction, record, answers, bull, worker,
            counts
  <1>z. /\ "ingest" \in Job /\ "normalize" \in Job /\ "classify" \in Job /\ "route" \in Job
        /\ "bridge" \in Job
        /\ None \notin {"RECEIVED", "NORMALIZED", "CLASSIFIED", "ROUTED", "IN_PROGRESS",
            "FAILED"}
    BY NoneAssumption DEF Job, Life
  <1> USE <1>z
  <1>1. CASE (\E j \in Job : Take(s, j))
    BY <1>1 DEF Take, Goto
  <1>2. CASE Finish(s)
    BY <1>2 DEF Finish, Release, Vacate, Holds, Goto
  <1>3. CASE Throw(s)
    BY <1>3 DEF Throw, Release, Vacate, Holds, Goto, LetterCost
  <1>4. CASE Receive(s)
    BY <1>4 DEF Receive, Step, Goto, Plan
  <1>5. CASE RecordEvent(s)
    BY <1>5 DEF RecordEvent, Record, Step, Goto
  <1>6. CASE Resume(s)
    BY <1>6 DEF Resume, Step, Goto, Add
  <1>7. CASE Load(s)
    BY <1>7 DEF Load, Step, Goto, AfterLoad
  <1>8. CASE HandOn(s)
    BY <1>8 DEF HandOn, Step, Goto, Add
  <1>9. CASE Normalize(s) \/ Project(s) \/ CountUnread(s)
    BY <1>9 DEF Normalize, Goto, Project, CountUnread, Step
  <1>10. CASE FailClose(s) \/ AssignFailed(s)
    BY <1>10 DEF FailClose, Goto, AssignFailed, Step
  <1>11. CASE Classify(s) \/ Remember(s)
    BY <1>11 DEF Classify, Goto, Hints, ContentHint, Remember, Step
  <1>12. CASE Control(s)
    BY <1>12 DEF Control, Step, Goto, Plan, Override
  <1>13. CASE Execution(s)
    BY <1>13 DEF Execution, Step, Goto, Plan, Override
  <1>14. CASE Apply(s)
    BY <1>14 DEF Apply, Goto, Plan, Decisions
  <1>15. CASE Decide(s)
    BY <1>15 DEF Decide, Step, Goto
  <1>16. CASE Block(s)
    BY <1>16 DEF Block, Goto
  <1>17. CASE Assign(s) \/ Assigned(s)
    BY <1>17 DEF Assign, Step, Goto, Assigned
  <1>18. CASE Batch(s) \/ Note(s)
    BY <1>18 DEF Batch, Step, Goto, Note
  <1>19. CASE Active(s) \/ Request(s) \/ Propose(s)
    BY <1>19 DEF Active, Step, Goto, Request, Propose
  <1>20. CASE Handled(s) \/ HandOver(s)
    BY <1>20 DEF Handled, Goto, HandOver
  <1>21. QED
    BY <1>1, <1>2, <1>3, <1>4, <1>5, <1>6, <1>7, <1>8, <1>9, <1>10, <1>11, <1>12, <1>13,
       <1>14, <1>15, <1>16, <1>17, <1>18, <1>19, <1>20 DEF Work

LEMMA RouteEnds ==
  ASSUME DataType, FlagType, BullType, WorkType, PlaceInv, JobInv, HoldInv, StageInv,
         NEW s \in Slots,
         Work(s), Over("route")', ~Over("route")
  PROVE  Owned' \/ life' = "FAILED" \/ Known("bridge")' \/ pc[s] = "decide"
  <1> USE NoneAssumption
        DEF DataType, BullType, WorkType, PlaceInv, JobInv, HoldInv, StageInv, Owned, Over, Known,
            Gone, Route, Life, interaction, record, answers, bull, worker, counts
  <1>z. /\ "ingest" \in Job /\ "normalize" \in Job /\ "classify" \in Job /\ "route" \in Job
        /\ "bridge" \in Job
        /\ None \notin {"RECEIVED", "NORMALIZED", "CLASSIFIED", "ROUTED", "IN_PROGRESS",
            "FAILED"}
    BY NoneAssumption DEF Job, Life
  <1> USE <1>z
  <1>1. CASE (\E j \in Job : Take(s, j))
    BY <1>1 DEF Take, Goto
  <1>2. CASE Finish(s)
    BY <1>2 DEF Finish, Release, Vacate, Holds, Goto
  <1>3. CASE Throw(s)
    BY <1>3 DEF Throw, Release, Vacate, Holds, Goto, LetterCost
  <1>4. CASE Receive(s)
    BY <1>4 DEF Receive, Step, Goto, Plan
  <1>5. CASE RecordEvent(s)
    BY <1>5 DEF RecordEvent, Record, Step, Goto
  <1>6. CASE Resume(s)
    BY <1>6 DEF Resume, Step, Goto, Add
  <1>7. CASE Load(s)
    BY <1>7 DEF Load, Step, Goto, AfterLoad
  <1>8. CASE HandOn(s)
    BY <1>8 DEF HandOn, Step, Goto, Add
  <1>9. CASE Normalize(s) \/ Project(s) \/ CountUnread(s)
    BY <1>9 DEF Normalize, Goto, Project, CountUnread, Step
  <1>10. CASE FailClose(s) \/ AssignFailed(s)
    BY <1>10 DEF FailClose, Goto, AssignFailed, Step
  <1>11. CASE Classify(s) \/ Remember(s)
    BY <1>11 DEF Classify, Goto, Hints, ContentHint, Remember, Step
  <1>12. CASE Control(s)
    BY <1>12 DEF Control, Step, Goto, Plan, Override
  <1>13. CASE Execution(s)
    BY <1>13 DEF Execution, Step, Goto, Plan, Override
  <1>14. CASE Apply(s)
    BY <1>14 DEF Apply, Goto, Plan, Decisions
  <1>15. CASE Decide(s)
    BY <1>15 DEF Decide, Step, Goto
  <1>16. CASE Block(s)
    BY <1>16 DEF Block, Goto
  <1>17. CASE Assign(s) \/ Assigned(s)
    BY <1>17 DEF Assign, Step, Goto, Assigned
  <1>18. CASE Batch(s) \/ Note(s)
    BY <1>18 DEF Batch, Step, Goto, Note
  <1>19. CASE Active(s) \/ Request(s) \/ Propose(s)
    BY <1>19 DEF Active, Step, Goto, Request, Propose
  <1>20. CASE Handled(s) \/ HandOver(s)
    BY <1>20 DEF Handled, Goto, HandOver
  <1>21. QED
    BY <1>1, <1>2, <1>3, <1>4, <1>5, <1>6, <1>7, <1>8, <1>9, <1>10, <1>11, <1>12, <1>13,
       <1>14, <1>15, <1>16, <1>17, <1>18, <1>19, <1>20 DEF Work

LEMMA BridgeEnds ==
  ASSUME DataType, FlagType, BullType, WorkType, PlaceInv, JobInv, HoldInv, StageInv,
         NEW s \in Slots,
         Work(s), Over("bridge")', ~Over("bridge")
  PROVE  Owned' \/ life' = "FAILED"
  <1> USE NoneAssumption
        DEF DataType, BullType, WorkType, PlaceInv, JobInv, HoldInv, StageInv, Owned, Over, Known,
            Gone, Route, Life, interaction, record, answers, bull, worker, counts
  <1>z. /\ "ingest" \in Job /\ "normalize" \in Job /\ "classify" \in Job /\ "route" \in Job
        /\ "bridge" \in Job
        /\ None \notin {"RECEIVED", "NORMALIZED", "CLASSIFIED", "ROUTED", "IN_PROGRESS",
            "FAILED"}
    BY NoneAssumption DEF Job, Life
  <1> USE <1>z
  <1>1. CASE (\E j \in Job : Take(s, j))
    BY <1>1 DEF Take, Goto
  <1>2. CASE Finish(s)
    BY <1>2 DEF Finish, Release, Vacate, Holds, Goto
  <1>3. CASE Throw(s)
    BY <1>3 DEF Throw, Release, Vacate, Holds, Goto, LetterCost
  <1>4. CASE Receive(s)
    BY <1>4 DEF Receive, Step, Goto, Plan
  <1>5. CASE RecordEvent(s)
    BY <1>5 DEF RecordEvent, Record, Step, Goto
  <1>6. CASE Resume(s)
    BY <1>6 DEF Resume, Step, Goto, Add
  <1>7. CASE Load(s)
    BY <1>7 DEF Load, Step, Goto, AfterLoad
  <1>8. CASE HandOn(s)
    BY <1>8 DEF HandOn, Step, Goto, Add
  <1>9. CASE Normalize(s) \/ Project(s) \/ CountUnread(s)
    BY <1>9 DEF Normalize, Goto, Project, CountUnread, Step
  <1>10. CASE FailClose(s) \/ AssignFailed(s)
    BY <1>10 DEF FailClose, Goto, AssignFailed, Step
  <1>11. CASE Classify(s) \/ Remember(s)
    BY <1>11 DEF Classify, Goto, Hints, ContentHint, Remember, Step
  <1>12. CASE Control(s)
    BY <1>12 DEF Control, Step, Goto, Plan, Override
  <1>13. CASE Execution(s)
    BY <1>13 DEF Execution, Step, Goto, Plan, Override
  <1>14. CASE Apply(s)
    BY <1>14 DEF Apply, Goto, Plan, Decisions
  <1>15. CASE Decide(s)
    BY <1>15 DEF Decide, Step, Goto
  <1>16. CASE Block(s)
    BY <1>16 DEF Block, Goto
  <1>17. CASE Assign(s) \/ Assigned(s)
    BY <1>17 DEF Assign, Step, Goto, Assigned
  <1>18. CASE Batch(s) \/ Note(s)
    BY <1>18 DEF Batch, Step, Goto, Note
  <1>19. CASE Active(s) \/ Request(s) \/ Propose(s)
    BY <1>19 DEF Active, Step, Goto, Request, Propose
  <1>20. CASE Handled(s) \/ HandOver(s)
    BY <1>20 DEF Handled, Goto, HandOver
  <1>21. QED
    BY <1>1, <1>2, <1>3, <1>4, <1>5, <1>6, <1>7, <1>8, <1>9, <1>10, <1>11, <1>12, <1>13,
       <1>14, <1>15, <1>16, <1>17, <1>18, <1>19, <1>20 DEF Work

LEMMA Routed ==
  ASSUME DataType, FlagType, WorkType, PlaceInv, NEW s \in Slots, Work(s), NEW r \in Slots,
         pc'[r] \in {"recordRouted", "decide"}, pc[r] \notin {"recordRouted", "decide"}
  PROVE  Owned' \/ Commits(r)'
  <1> USE NoneAssumption
        DEF DataType, WorkType, PlaceInv, Owned, Commits, Route, Life, interaction, record,
            answers, bull, worker, counts
  <1>1. CASE (\E j \in Job : Take(s, j))
    BY <1>1 DEF Take, Goto
  <1>2. CASE Finish(s)
    BY <1>2 DEF Finish, Release, Vacate, Holds, Goto
  <1>3. CASE Throw(s)
    BY <1>3 DEF Throw, Release, Vacate, Holds, Goto, LetterCost
  <1>4. CASE Receive(s)
    BY <1>4 DEF Receive, Step, Goto, Plan
  <1>5. CASE RecordEvent(s)
    BY <1>5 DEF RecordEvent, Record, Step, Goto
  <1>6. CASE Resume(s)
    BY <1>6 DEF Resume, Step, Goto, Add
  <1>7. CASE Load(s)
    BY <1>7 DEF Load, Step, Goto, AfterLoad
  <1>8. CASE HandOn(s)
    BY <1>8 DEF HandOn, Step, Goto, Add
  <1>9. CASE Normalize(s) \/ Project(s) \/ CountUnread(s)
    BY <1>9 DEF Normalize, Goto, Project, CountUnread, Step
  <1>10. CASE FailClose(s) \/ AssignFailed(s)
    BY <1>10 DEF FailClose, Goto, AssignFailed, Step
  <1>11. CASE Classify(s) \/ Remember(s)
    BY <1>11 DEF Classify, Goto, Hints, ContentHint, Remember, Step
  <1>12. CASE Control(s)
    BY <1>12 DEF Control, Step, Goto, Plan, Override
  <1>13. CASE Execution(s)
    BY <1>13 DEF Execution, Step, Goto, Plan, Override
  <1>14. CASE Apply(s)
    BY <1>14 DEF Apply, Goto, Plan, Decisions
  <1>15. CASE Decide(s)
    BY <1>15 DEF Decide, Step, Goto
  <1>16. CASE Block(s)
    BY <1>16 DEF Block, Goto
  <1>17. CASE Assign(s) \/ Assigned(s)
    BY <1>17 DEF Assign, Step, Goto, Assigned
  <1>18. CASE Batch(s) \/ Note(s)
    BY <1>18 DEF Batch, Step, Goto, Note
  <1>19. CASE Active(s) \/ Request(s) \/ Propose(s)
    BY <1>19 DEF Active, Step, Goto, Request, Propose
  <1>20. CASE Handled(s) \/ HandOver(s)
    BY <1>20 DEF Handled, Goto, HandOver
  <1>21. QED
    BY <1>1, <1>2, <1>3, <1>4, <1>5, <1>6, <1>7, <1>8, <1>9, <1>10, <1>11, <1>12, <1>13,
       <1>14, <1>15, <1>16, <1>17, <1>18, <1>19, <1>20 DEF Work

LEMMA FreshStays ==
  ASSUME DataType, FlagType, BullType, WorkType, CountType, CountType', PlaceInv, JobInv,
         HoldInv,
         NEW s \in Slots, Work(s), Fresh, Few'
  PROVE  Fresh' \/ Owned' \/ life' = "FAILED" \/ Commits(s)'
  <1> USE NoneAssumption
        DEF DataType, BullType, WorkType, PlaceInv, JobInv, HoldInv, Owned, Commits, Fresh, Known,
            Route, Life, interaction, record, answers, bull, worker, counts
  <1>z. /\ "ingest" \in Job /\ "normalize" \in Job /\ "classify" \in Job /\ "route" \in Job
        /\ "bridge" \in Job
        /\ None \notin {"RECEIVED", "NORMALIZED", "CLASSIFIED", "ROUTED", "IN_PROGRESS",
            "FAILED"}
    BY NoneAssumption DEF Job, Life
  <1> USE <1>z
  <1>1. CASE (\E j \in Job : Take(s, j))
    BY <1>1 DEF Take, Goto
  <1>2. CASE Finish(s)
    BY <1>2 DEF Finish, Release, Vacate, Holds, Goto
  <1>3. CASE Throw(s)
    <2>1. \/ dead' = dead /\ \A j \in Job : job'[j] = "failed" => job[j] = "failed"
          \/ dead' # {}
      BY <1>3, LetterIsKept
    <2>2. QED BY <1>3, <2>1 DEF Throw, Release, Vacate, Holds, Goto
  <1>4. CASE Receive(s)
    BY <1>4 DEF Receive, Step, Goto, Plan
  <1>5. CASE RecordEvent(s)
    BY <1>5 DEF RecordEvent, Record, Step, Goto
  <1>6. CASE Resume(s)
    BY <1>6 DEF Resume, Step, Goto, Add
  <1>7. CASE Load(s)
    BY <1>7 DEF Load, Step, Goto, AfterLoad
  <1>8. CASE HandOn(s)
    BY <1>8 DEF HandOn, Step, Goto, Add
  <1>9. CASE Normalize(s) \/ Project(s) \/ CountUnread(s)
    BY <1>9 DEF Normalize, Goto, Project, CountUnread, Step
  <1>10. CASE FailClose(s) \/ AssignFailed(s)
    BY <1>10 DEF FailClose, Goto, AssignFailed, Step
  <1>11. CASE Classify(s) \/ Remember(s)
    BY <1>11 DEF Classify, Goto, Hints, ContentHint, Remember, Step
  <1>12. CASE Control(s)
    BY <1>12 DEF Control, Step, Goto, Plan, Override
  <1>13. CASE Execution(s)
    BY <1>13 DEF Execution, Step, Goto, Plan, Override
  <1>14. CASE Apply(s)
    BY <1>14 DEF Apply, Goto, Plan, Decisions
  <1>15. CASE Decide(s)
    BY <1>15 DEF Decide, Step, Goto
  <1>16. CASE Block(s)
    BY <1>16 DEF Block, Goto
  <1>17. CASE Assign(s) \/ Assigned(s)
    BY <1>17 DEF Assign, Step, Goto, Assigned
  <1>18. CASE Batch(s) \/ Note(s)
    BY <1>18 DEF Batch, Step, Goto, Note
  <1>19. CASE Active(s) \/ Request(s) \/ Propose(s)
    BY <1>19 DEF Active, Step, Goto, Request, Propose
  <1>20. CASE Handled(s) \/ HandOver(s)
    BY <1>20 DEF Handled, Goto, HandOver
  <1>21. QED
    BY <1>1, <1>2, <1>3, <1>4, <1>5, <1>6, <1>7, <1>8, <1>9, <1>10, <1>11, <1>12, <1>13,
       <1>14, <1>15, <1>16, <1>17, <1>18, <1>19, <1>20 DEF Work

\* A run that hands on to the bridge is in the router, and found the gate open.
LEMMA HandsOver ==
  ASSUME DataType, WorkType, PlaceInv, NEW s \in Slots, Work(s), pc'[s] = "toBridge"
  PROVE  /\ task[s] = "route" /\ pc[s] = "execution" /\ gate = "open"
         /\ UNCHANGED <<aiBatch, humanRow>>
  <1> USE NoneAssumption
        DEF DataType, WorkType, PlaceInv, Gate, Hint, Route, interaction, record, answers, bull,
            worker, counts
  <1>1. CASE (\E j \in Job : Take(s, j))
    BY <1>1 DEF Take, Goto
  <1>2. CASE Finish(s)
    BY <1>2 DEF Finish, Release, Vacate, Holds, Goto
  <1>3. CASE Throw(s)
    BY <1>3 DEF Throw, Release, Vacate, Holds, Goto, LetterCost
  <1>4. CASE Receive(s)
    BY <1>4 DEF Receive, Step, Goto, Plan
  <1>5. CASE RecordEvent(s)
    BY <1>5 DEF RecordEvent, Record, Step, Goto
  <1>6. CASE Resume(s)
    BY <1>6 DEF Resume, Step, Goto, Add
  <1>7. CASE Load(s)
    BY <1>7 DEF Load, Step, Goto, AfterLoad
  <1>8. CASE HandOn(s)
    BY <1>8 DEF HandOn, Step, Goto, Add
  <1>9. CASE Normalize(s) \/ Project(s) \/ CountUnread(s)
    BY <1>9 DEF Normalize, Goto, Project, CountUnread, Step
  <1>10. CASE FailClose(s) \/ AssignFailed(s)
    BY <1>10 DEF FailClose, Goto, AssignFailed, Step
  <1>11. CASE Classify(s) \/ Remember(s)
    BY <1>11 DEF Classify, Goto, Hints, ContentHint, Remember, Step
  <1>12. CASE Control(s)
    BY <1>12 DEF Control, Step, Goto, Plan, Override
  <1>13. CASE Execution(s)
    BY <1>13 DEF Execution, Step, Goto, Plan, Override
  <1>14. CASE Apply(s)
    BY <1>14 DEF Apply, Goto, Plan, Decisions
  <1>15. CASE Decide(s)
    BY <1>15 DEF Decide, Step, Goto
  <1>16. CASE Block(s)
    BY <1>16 DEF Block, Goto
  <1>17. CASE Assign(s) \/ Assigned(s)
    BY <1>17 DEF Assign, Step, Goto, Assigned
  <1>18. CASE Batch(s) \/ Note(s)
    BY <1>18 DEF Batch, Step, Goto, Note
  <1>19. CASE Active(s) \/ Request(s) \/ Propose(s)
    BY <1>19 DEF Active, Step, Goto, Request, Propose
  <1>20. CASE Handled(s) \/ HandOver(s)
    BY <1>20 DEF Handled, Goto, HandOver
  <1>21. QED
    BY <1>1, <1>2, <1>3, <1>4, <1>5, <1>6, <1>7, <1>8, <1>9, <1>10, <1>11, <1>12, <1>13,
       <1>14, <1>15, <1>16, <1>17, <1>18, <1>19, <1>20 DEF Work

\* While no run was lost, a run of the route has not handed on yet.
LEMMA RouteRuns ==
  ASSUME BullType, WorkType, PlaceInv, JobInv, OneRun, NEW s \in Slots
  PROVE  ~Over("route") \/ task[s] # "route" \/ pc[s] = "finish"
  <1> SUFFICES ASSUME task[s] = "route", pc[s] # "finish" PROVE ~Over("route")
    OBVIOUS
  <1>1. pc[s] # "idle"
    BY NoneAssumption DEF PlaceInv, Job
  <1>2. holder["route"] = s
    BY <1>1 DEF OneRun
  <1>3. job["route"] = "active"
    BY <1>2 DEF JobInv, Job
  <1>4. QED BY <1>2, <1>3 DEF Over

LEMMA RouteFirst ==
  ASSUME BullType, WorkType, PlaceInv, JobInv, FaultInv, NEW s \in Slots, lost = 0,
         task[s] = "route", pc[s] = "execution"
  PROVE  ~Known("bridge")
  BY RouteRuns DEF FaultInv, OrderInv, Known

LEMMA FaultMoves ==
  ASSUME BullType, WorkType, PlaceInv, JobInv, NEW s \in Slots, Fails(s) \/ Crash(s) \/ Stall(s)
  PROVE  /\ \A j \in Job : Over(j)' => Over(j)
         /\ \A j \in Job : Known(j) => Known(j)'
         /\ \A r \in Slots : r # s => pc'[r] = pc[r]
         /\ \A r \in Slots : pc'[r] \in {"recordRouted", "decide"} => pc'[r] = pc[r]
         /\ pc'[s] # pc[s] => \A r \in Slots : pc'[r] \in {"recordRouted", "decide"} => r # s
  <1> USE NoneAssumption DEF BullType, WorkType, PlaceInv, JobInv, Over, Known, bull, worker
  <1>1. CASE Fails(s)
    BY <1>1 DEF Fails, Goto, OnError, Await
  <1>2. CASE Crash(s)
    BY <1>2 DEF Crash, LoseLock, Release, Holds, Vacate, Goto
  <1>3. CASE Stall(s)
    BY <1>3 DEF Stall, LoseLock, Release, Holds
  <1>4. QED BY <1>1, <1>2, <1>3

\* A step of a run carries the interaction on.
LEMMA WorkTail ==
  ASSUME Types, Types', FlagType, PlaceInv, JobInv, FaultInv, HoldInv, StageInv, GateInv,
         Carried,
         NEW s \in Slots, Work(s), Calm'
  PROVE  Carried'
  <1>c. CountType /\ CountType' /\ WorkType /\ BullType /\ DataType
    BY DEF Types
  <1>f. Calm /\ Few'
    <2>1. [Next]_vars
      BY DEF Next
    <2>2. QED BY <1>c, <2>1, FewBefore
  <1>1. Settled => Settled' \/ pc'[s] = "toBridge"
    BY <1>c, SettledStays DEF Settled
  <1>2. Settled \/ HandsOn => Settled' \/ HandsOn'
    BY <1>1, <1>c, HandedOnStays DEF HandsOn
  <1>3. Over("route")' => Settled' \/ HandsOn'
    <2>1. CASE Over("route")
      BY <1>2, <2>1 DEF Carried
    <2>2. CASE pc[s] = "decide"
      BY <1>2, <2>2 DEF Carried
    <2>3. CASE ~Over("route") /\ pc[s] # "decide"
      BY <1>c, <2>3, RouteEnds DEF Settled, HandsOn
    <2>4. QED BY <2>1, <2>2, <2>3
  <1>4. ASSUME NEW r \in Slots, pc'[r] \in {"recordRouted", "decide"}
        PROVE  Settled' \/ HandsOn'
    <2>1. CASE pc[r] \in {"recordRouted", "decide"}
      BY <1>2, <2>1 DEF Carried
    <2>2. CASE pc[r] \notin {"recordRouted", "decide"}
      BY <1>c, <1>4, <2>2, Routed DEF Settled
    <2>3. QED BY <2>1, <2>2
  <1>5. Over("bridge")' => Settled' \/ Fresh'
    <2>1. CASE ~Over("bridge")
      BY <1>c, <2>1, BridgeEnds DEF Settled
    <2>2. CASE Over("bridge") /\ Fresh
      BY <1>c, <1>f, <2>2, FreshStays DEF Settled
    <2>3. CASE Over("bridge") /\ ~Fresh /\ pc'[s] # "toBridge"
      BY <1>1, <2>3 DEF Carried
    <2>4. CASE Over("bridge") /\ pc'[s] = "toBridge"
      <3>1. aiBatch \/ humanRow \/ Closed
        BY <2>4 DEF GateInv
      <3>2. CASE aiBatch \/ humanRow
        <4>1. UNCHANGED <<aiBatch, humanRow>>
          BY <2>4, <1>c, HandsOver
        <4>2. QED BY <3>2, <4>1 DEF Settled, Owned
      <3>3. CASE Closed
        <4>1. task[s] = "route" /\ pc[s] = "execution" /\ gate = "open"
          BY <2>4, <1>c, HandsOver
        <4>2. gateChanges >= 2
          BY <3>3, <4>1 DEF Closed
        <4>3. lost = 0
          BY <1>c, <1>f, <4>2 DEF Calm, CountType
        <4>4. ~Known("bridge")
          BY <1>c, <4>1, <4>3, RouteFirst
        <4>5. QED BY <2>4, <4>4 DEF Over, Known, JobInv, Job
      <3>4. QED BY <3>1, <3>2, <3>3
    <2>5. QED BY <2>1, <2>2, <2>3, <2>4
  <1>6. QED BY <1>3, <1>4, <1>5 DEF Carried

\* A first fault leaves to the rest what they have.
LEMMA FaultTail ==
  ASSUME Types, Types', FlagType, PlaceInv, JobInv, FaultInv, HoldInv, Carried, [Next]_vars,
         NEW s \in Slots, Fails(s) \/ Crash(s) \/ Stall(s), Calm'
  PROVE  Carried'
  <1>c. CountType /\ CountType' /\ WorkType /\ BullType /\ DataType
    BY DEF Types
  <1> DEFINE Ends == task[s] = "route" /\ pc[s] # "finish" /\ pc'[s] # pc[s]
  <1>1. lost = 0 /\ UNCHANGED <<content, interaction, record, answers, gate, dead, gateChanges>>
    BY <1>c, FewBefore, FirstFault
  <1>2. OneRun /\ OrderInv
    BY <1>1 DEF FaultInv
  <1>3. /\ \A j \in Job : Over(j)' => Over(j)
        /\ \A j \in Job : Known(j) => Known(j)'
        /\ \A r \in Slots : r # s => pc'[r] = pc[r]
        /\ \A r \in Slots : pc'[r] \in {"recordRouted", "decide"} => pc'[r] = pc[r]
        /\ pc'[s] # pc[s] => \A r \in Slots : pc'[r] \in {"recordRouted", "decide"} => r # s
    BY <1>c, FaultMoves
  <1>4. Owned => Owned'
    BY <1>1 DEF Owned, interaction, answers
  <1>5. ~Over("route") \/ task[s] # "route" \/ pc[s] = "finish"
    BY <1>c, <1>2, RouteRuns
  <1>6. Settled \/ HandsOn => Settled' \/ HandsOn' \/ Ends
    <2>1. CASE Owned \/ life = "FAILED"
      BY <1>1, <1>4, <2>1 DEF Settled, interaction
    <2>2. ASSUME NEW r \in Slots, Commits(r) PROVE Settled' \/ HandsOn' \/ Ends
      <3>1. CASE pc'[r] = pc[r]
        <4>1. plan'[r] = plan[r]
          BY <3>1, <2>2, <1>c DEF Fails, Crash, Stall, Vacate, Goto, worker, Commits, WorkType
        <4>2. QED BY <2>2, <3>1, <4>1 DEF Settled, Commits
      <3>2. CASE pc'[r] # pc[r]
        <4>1. r = s
          BY <1>3, <3>2
        <4>2. task[s] \in {"route", "bridge"} /\ pc[s] # "finish"
          BY <2>2, <4>1 DEF Commits, PlaceInv
        <4>3. CASE task[s] = "bridge"
          BY <1>3, <4>3, NoneAssumption DEF HoldInv, HandsOn, Job
        <4>4. QED BY <3>2, <4>1, <4>2, <4>3
      <3>3. QED BY <3>1, <3>2
    <2>3. CASE HandsOn
      <3>1. CASE Known("bridge")
        BY <1>3, <3>1 DEF HandsOn, Job
      <3>2. ASSUME NEW r \in Slots, pc[r] = "toBridge"
            PROVE  HandsOn' \/ Ends
        BY <1>3, <3>2 DEF HandsOn, PlaceInv
      <3>3. QED BY <2>3, <3>1, <3>2 DEF HandsOn
    <2>4. QED BY <2>1, <2>2, <2>3 DEF Settled
  <1>7. Over("route")' => Settled' \/ HandsOn'
    BY <1>3, <1>5, <1>6 DEF Carried, Job
  <1>8. ASSUME NEW r \in Slots, pc'[r] \in {"recordRouted", "decide"} PROVE Settled' \/ HandsOn'
    <2>1. task[r] = "route" /\ pc[r] \in {"recordRouted", "decide"}
      BY <1>3, <1>8 DEF PlaceInv
    <2>2. task[s] = "route" /\ pc[s] # "finish" => s = r
      BY <1>2, <2>1, <1>c, NoneAssumption DEF OneRun, PlaceInv, WorkType
    <2>3. Settled \/ HandsOn
      BY <2>1 DEF Carried
    <2>4. QED BY <1>3, <1>6, <1>8, <2>2, <2>3
  <1>9. Over("bridge")' => Settled'
    <2> SUFFICES ASSUME Over("bridge")' PROVE Settled'
      OBVIOUS
    <2>1. Over("bridge")
      BY <1>3 DEF Job
    <2>2. Known("bridge")
      BY <2>1 DEF Over, Known, JobInv, Job
    <2>3. Over("route")
      BY <1>2, <2>2 DEF OrderInv, Known
    <2>4. ~Fresh
      BY <2>3 DEF Over, Fresh, JobInv, Job
    <2>5. Settled
      BY <2>1, <2>4 DEF Carried
    <2>6. CASE Owned \/ life = "FAILED"
      BY <1>1, <1>4, <2>6 DEF Settled, interaction
    <2>7. ASSUME NEW r \in Slots, Commits(r) PROVE FALSE
      <3>1. /\ task[r] \in {"route", "bridge"} /\ pc[r] \notin {"finish", "idle"}
        BY <2>7 DEF Commits, PlaceInv
      <3>2. holder[task[r]] = r
        BY <1>2, <3>1 DEF OneRun
      <3>3. job[task[r]] = "active"
        BY <3>1, <3>2, NoneAssumption, InboundAssumption DEF JobInv, Job
      <3>4. ~Over(task[r])
        BY <3>1, <3>2, <3>3 DEF Over
      <3>5. QED BY <2>1, <2>3, <3>1, <3>4
    <2>8. QED BY <2>5, <2>6, <2>7 DEF Settled
  <1>10. QED BY <1>7, <1>8, <1>9 DEF Carried

LEMMA NextTail ==
  ASSUME Types, Types', FlagType, PlaceInv, JobInv, FaultInv, HoldInv, StageInv, GateInv,
         TailInv,
         [Next]_vars
  PROVE  TailInv'
  <1> SUFFICES ASSUME Calm' PROVE Carried'
    BY DEF TailInv
  <1>1. Carried
    BY FewBefore DEF TailInv, Types
  <1>2. CASE \E s \in Slots : Work(s)
    BY <1>1, <1>2, WorkTail
  <1>3. CASE \E s \in Slots : Fails(s) \/ Crash(s) \/ Stall(s)
    BY <1>1, <1>3, FaultTail
  <1>4. CASE Takeover \/ GateChanges \/ UNCHANGED vars
    <2>1. /\ UNCHANGED <<hint, route, answers, bull, worker>>
          /\ life' = life \/ life' = "IN_PROGRESS"
      BY <1>4 DEF Takeover, GateChanges, vars, interaction
    <2>2. /\ Over("route")' <=> Over("route")
          /\ Over("bridge")' <=> Over("bridge")
          /\ Fresh' <=> Fresh
          /\ HandsOn' <=> HandsOn
          /\ \A r \in Slots : Commits(r)' <=> Commits(r)
      BY <2>1 DEF Over, Fresh, HandsOn, Commits, Known, bull, worker
    <2>3. Settled => Settled'
      BY <2>1, <2>2 DEF Settled, Owned, answers, bull
    <2>4. QED BY <1>1, <2>1, <2>2, <2>3 DEF Carried, worker
  <1>5. QED BY <1>2, <1>3, <1>4 DEF Next

-----------------------------------------------------------------------------
(* One fault *)

SurviveInv == HoldInv /\ StageInv /\ ChainInv /\ GateInv /\ FewInv /\ TailInv

LEMMA InitSurvive == Init => SurviveInv
  <1> SUFFICES ASSUME Init PROVE SurviveInv
    OBVIOUS
  <1>0. /\ "ingest" \in Job /\ "normalize" \in Job /\ "classify" \in Job /\ "route" \in Job
        /\ "bridge" \in Job
        /\ None \notin {"RECEIVED", "NORMALIZED", "CLASSIFIED", "ROUTED", "IN_PROGRESS",
            "FAILED"}
    BY NoneAssumption DEF Job, Life
  <1> USE <1>0
  <1> USE NoneAssumption DEF Init, Known, Over, Life, Hint, Route
  <1>1. HoldInv /\ ChainInv /\ GateInv
    BY DEF HoldInv, ChainInv, GateInv
  <1>2. StageInv
    BY DEF StageInv
  <1>3. FewInv
    BY DEF FewInv, Noticed
  <1>4. TailInv
    BY DEF TailInv, Carried
  <1>5. QED BY <1>1, <1>2, <1>3, <1>4 DEF SurviveInv

LEMMA NextSurvive ==
  /\ Types /\ FlagType /\ PlaceInv /\ JobInv /\ FaultInv /\ Types' /\ SurviveInv /\ [Next]_vars
  => SurviveInv'
  <1> SUFFICES ASSUME Types, FlagType, PlaceInv, JobInv, FaultInv, Types', SurviveInv,
      [Next]_vars
               PROVE  SurviveInv'
    OBVIOUS
  <1>1. DataType /\ BullType /\ WorkType /\ CountType
    BY DEF Types
  <1>2. HoldInv' /\ StageInv' /\ ChainInv' /\ GateInv'
    BY <1>1, NextHold, NextStage, NextChain, NextGate DEF SurviveInv
  <1>3. FewInv' /\ TailInv'
    BY NextFew, NextTail DEF SurviveInv
  <1>4. QED BY <1>2, <1>3 DEF SurviveInv

LEMMA SurviveInvariant == Spec => [](Types /\ PlaceInv /\ JobInv /\ SurviveInv)
  BY InitSurvive, NextSurvive, TypeInvariant, FaultInvariant, PTL DEF Spec

\* When nothing runs and nothing waits, whoever has the message has it for good.
LEMMA QuietIsOwned ==
  ASSUME Types, PlaceInv, JobInv, SurviveInv, Quiet, Calm
  PROVE  Owned
  <1>0. /\ "ingest" \in Job /\ "normalize" \in Job /\ "classify" \in Job /\ "route" \in Job
        /\ "bridge" \in Job
        /\ None \notin {"RECEIVED", "NORMALIZED", "CLASSIFIED", "ROUTED", "IN_PROGRESS",
            "FAILED"}
    BY NoneAssumption DEF Job, Life
  <1> USE <1>0
  <1> SUFFICES ASSUME ~Owned PROVE FALSE
    OBVIOUS
  <1>1. \A s \in Slots : pc[s] = "idle"
    BY DEF Quiet
  <1>2. Noticed /\ Carried
    BY DEF SurviveInv, FewInv, TailInv, Calm
  <1>3. life # "FAILED"
    BY <1>1, <1>2 DEF Noticed, Owned
  <1>4. ASSUME NEW j \in Job, Known(j) PROVE job[j] = "done"
    <2>1. job[j] # "failed"
      BY <1>2 DEF Noticed, Owned
    <2>2. job[j] # "waiting"
      BY DEF Quiet
    <2>3. job[j] # "active"
      BY <1>1 DEF SurviveInv, HoldInv, Types, BullType
    <2>4. QED BY <1>4, <2>1, <2>2, <2>3 DEF Known, Types, BullType
  <1>5. \A j \in Job : Known(j) => Over(j)
    BY <1>4 DEF Over
  <1>6. Known("route")
    BY <1>3, <1>5 DEF SurviveInv, HoldInv, ChainInv
  <1>7. ~Settled
    BY <1>1, <1>3 DEF Settled, Commits
  <1>8. Known("bridge")
    BY <1>1, <1>2, <1>5, <1>6, <1>7 DEF Carried, HandsOn
  <1>9. Fresh
    BY <1>2, <1>5, <1>7, <1>8 DEF Carried
  <1>10. QED BY <1>4, <1>6, <1>9 DEF Fresh

\* Whatever one error, crash or stall does to a queued event, somebody ends up
\* with it, for any number of runs, attempts and faults: a message that nobody
\* has when all is quiet took two faults, or one when it was empty, or a lost run
\* and a gate that changed twice.
THEOREM InboundOneFaultIsSurvived == Spec => []OneFaultIsSurvived
  <1>1. ASSUME Types, PlaceInv, JobInv, SurviveInv PROVE OneFaultIsSurvived
    <2> SUFFICES ASSUME Quiet, ~Owned,
                        ~(faults >= IF content = "empty" THEN 1 ELSE 2),
                        ~(lost > 0 /\ gateChanges > 1)
                 PROVE  FALSE
      BY DEF OneFaultIsSurvived
    <2>0. CountType
      BY <1>1 DEF Types
    <2>1. lost \in Nat /\ errors \in Nat /\ gateChanges \in Nat
      BY <2>0 DEF CountType
    <2>2. faults \in Nat
      BY <2>1 DEF faults
    <2>3. Few
      BY <2>2 DEF Few
    <2>4. Calm
      BY <2>1, <2>3 DEF Calm
    <2>5. QED BY <1>1, <2>4, QuietIsOwned
  <1>2. Types /\ PlaceInv /\ JobInv /\ SurviveInv => OneFaultIsSurvived
    BY <1>1
  <1>3. QED BY <1>2, SurviveInvariant, PTL

-----------------------------------------------------------------------------
(* The webhook intake, which queues the ingest job *)

IntakeFlags ==
  /\ stamped \in BOOLEAN /\ fresh \in BOOLEAN
  /\ replayKey \in BOOLEAN /\ marker \in BOOLEAN /\ ledger \in BOOLEAN
  /\ queued \in BOOLEAN

IntakeRest ==
  /\ request \in [Requests -> {"none"} \cup InFlight \cup Answer]
  /\ undoing \in [Requests -> SUBSET {"marker", "ledger"}]
  /\ refusals \in 0..MaxIntakeFaults /\ failures \in 0..MaxIntakeFaults
  /\ refusals <= failures

LEMMA IntakeStarts == IntakeInit => IntakeFlags /\ IntakeRest
  <1>1. IntakeInit => IntakeFlags
    BY Zenon DEF IntakeInit, IntakeFlags
  <1>2. IntakeInit => IntakeRest
    BY DEF IntakeInit, IntakeRest
  <1>3. QED BY <1>1, <1>2

LEMMA NextIntakeFlags == IntakeFlags /\ [IntakeNext]_intakeVars => IntakeFlags'
  <1> SUFFICES ASSUME IntakeFlags, [IntakeNext]_intakeVars PROVE IntakeFlags'
    OBVIOUS
  <1> USE DEF IntakeFlags, traces, tally
  <1>1. ASSUME NEW r \in Requests, Deliver(r) \/ Dies(r) PROVE IntakeFlags'
    BY <1>1, Zenon DEF Deliver, Dies
  <1>2. ASSUME NEW r \in Requests, Guard(r) PROVE IntakeFlags'
    <2>1. (replayKey \/ fresh) \in BOOLEAN
      BY Zenon
    <2>2. CASE stamped
      BY <1>2, <2>1, <2>2, Zenon DEF Guard
    <2>3. CASE ~stamped
      BY <1>2, <2>3, Zenon DEF Guard
    <2>4. QED BY <2>2, <2>3, Zenon
  <1>3. ASSUME NEW r \in Requests,
               GuardFails(r) \/ EnqueueFails(r)
        PROVE  IntakeFlags'
    BY <1>3, Zenon DEF GuardFails, EnqueueFails
  <1>4. ASSUME NEW r \in Requests,
               Mark(r) \/ Check(r) \/ Save(r) \/ Enqueue(r)
        PROVE  IntakeFlags'
    BY <1>4, Zenon DEF Mark, Check, Save, Enqueue
  <1>5. ASSUME NEW r \in Requests, DedupFailsOpen(r) PROVE IntakeFlags'
    BY <1>5, Zenon DEF DedupFailsOpen
  <1>6. ASSUME NEW r \in Requests,
               UndoMarker(r) \/ UndoLedger(r) \/ UndoFails(r)
        PROVE  IntakeFlags'
    BY <1>6, Zenon DEF UndoMarker, UndoLedger, UndoFails, Undo
  <1>7. ASSUME NEW r \in Requests,
               RolledBack(r) \/ Unguard(r) \/ UnguardFails(r)
        PROVE  IntakeFlags'
    BY <1>7, Zenon DEF RolledBack, Unguard, UnguardFails
  <1>8. CASE GoesStale \/ MarkerExpires
    BY <1>8, Zenon DEF GoesStale, MarkerExpires
  <1>9. CASE UNCHANGED intakeVars
    BY <1>9, Zenon DEF intakeVars
  <1>10. QED
    BY <1>1, <1>2, <1>3, <1>4, <1>5, <1>6, <1>7, <1>8, <1>9, Zenon
    DEF IntakeNext, Serve, RequestFails

LEMMA NextIntakeRest == IntakeRest /\ [IntakeNext]_intakeVars => IntakeRest'
  <1> SUFFICES ASSUME IntakeRest, [IntakeNext]_intakeVars PROVE IntakeRest'
    OBVIOUS
  <1> USE DEF IntakeRest, traces, tally, Fault, Move, InFlight, Answer
  <1>1. ASSUME NEW r \in Requests, Deliver(r) \/ Dies(r) PROVE IntakeRest'
    BY <1>1 DEF Deliver, Dies
  <1>2. ASSUME NEW r \in Requests, Guard(r) PROVE IntakeRest'
    BY <1>2 DEF Guard
  <1>3. ASSUME NEW r \in Requests,
               GuardFails(r) \/ EnqueueFails(r)
        PROVE  IntakeRest'
    <2>1. CASE GuardFails(r)
      BY <2>1 DEF GuardFails
    <2>2. CASE EnqueueFails(r)
      BY <2>2 DEF EnqueueFails
    <2>3. QED BY <1>3, <2>1, <2>2
  <1>4. ASSUME NEW r \in Requests,
               Mark(r) \/ Check(r) \/ Save(r) \/ Enqueue(r)
        PROVE  IntakeRest'
    <2>1. CASE Mark(r)
      BY <2>1 DEF Mark
    <2>2. CASE Check(r)
      BY <2>2 DEF Check
    <2>3. CASE Save(r)
      BY <2>3 DEF Save
    <2>4. CASE Enqueue(r)
      BY <2>4 DEF Enqueue
    <2>5. QED BY <1>4, <2>1, <2>2, <2>3, <2>4
  <1>5. ASSUME NEW r \in Requests, DedupFailsOpen(r) PROVE IntakeRest'
    <2>1. request' \in [Requests -> {"none"} \cup InFlight \cup Answer]
      BY <1>5, Zenon DEF DedupFailsOpen
    <2>2. Fault /\ UNCHANGED <<undoing, refusals>>
      BY <1>5, Zenon DEF DedupFailsOpen
    <2>3. QED BY <2>1, <2>2
  <1>6. ASSUME NEW r \in Requests,
               UndoMarker(r) \/ UndoLedger(r) \/ UndoFails(r)
        PROVE  IntakeRest'
    <2>1. PICK trace \in {"marker", "ledger"} :
             Undo(r, trace) /\ (UNCHANGED failures \/ Fault)
      BY <1>6 DEF UndoMarker, UndoLedger, UndoFails
    <2>2. undoing' \in [Requests -> SUBSET {"marker", "ledger"}]
      BY <2>1 DEF Undo
    <2>3. QED BY <2>1, <2>2 DEF Undo
  <1>7. ASSUME NEW r \in Requests,
               RolledBack(r) \/ Unguard(r) \/ UnguardFails(r)
        PROVE  IntakeRest'
    BY <1>7 DEF RolledBack, Unguard, UnguardFails
  <1>8. CASE GoesStale \/ MarkerExpires
    BY <1>8 DEF GoesStale, MarkerExpires
  <1>9. CASE UNCHANGED intakeVars
    BY <1>9 DEF intakeVars
  <1>10. QED
    BY <1>1, <1>2, <1>3, <1>4, <1>5, <1>6, <1>7, <1>8, <1>9 DEF IntakeNext, Serve, RequestFails

LEMMA IntakeTypes == IntakeSpec => [](IntakeFlags /\ IntakeRest)
  BY IntakeStarts, NextIntakeFlags, NextIntakeRest, PTL DEF IntakeSpec

\* The traces, the deliveries and the counts keep their types, for any number
\* of deliveries and faults.
THEOREM IntakeTypeCorrect == IntakeSpec => []IntakeTypeOK
  <1>1. IntakeFlags /\ IntakeRest => IntakeTypeOK
    BY Zenon DEF IntakeFlags, IntakeRest, IntakeTypeOK
  <1>2. QED BY <1>1, IntakeTypes, PTL

-----------------------------------------------------------------------------
(* A refused add *)

\* A delivery the replay guard has let through.
Past(r) == request[r] \in InFlight \ {"guard"}

BarsMarker(r) ==
  \/ request[r] \in {"check", "save", "enqueue"}
  \/ request[r] = "rollback" /\ "marker" \in undoing[r]

BarsLedger(r) == request[r] = "enqueue" \/ (request[r] = "rollback" /\ "ledger" \in undoing[r])

\* While only refused adds went wrong, each trace has somebody in flight who is
\* to remove it, or the event is in good hands.
RefusalInv ==
  failures <= refusals =>
    \/ queued \/ Acknowledged
    \/ /\ stamped /\ replayKey => \E r \in Requests : Past(r)
       /\ marker => \E r \in Requests : BarsMarker(r)
       /\ ledger => \E r \in Requests : BarsLedger(r)

LEMMA NextRefusalInv == IntakeRest /\ RefusalInv /\ [IntakeNext]_intakeVars => RefusalInv'
  <1> SUFFICES ASSUME IntakeRest, RefusalInv, [IntakeNext]_intakeVars PROVE RefusalInv'
    OBVIOUS
  <1> USE DEF IntakeRest, RefusalInv, Acknowledged, Past, InFlight, Answer, Move, Fault, traces,
              tally, BarsMarker, BarsLedger
  <1>1. ASSUME NEW r \in Requests, Deliver(r) PROVE RefusalInv'
    BY <1>1 DEF Deliver
  <1>2. ASSUME NEW r \in Requests, Guard(r) PROVE RefusalInv'
    BY <1>2 DEF Guard
  <1>3. ASSUME NEW r \in Requests, GuardFails(r) PROVE RefusalInv'
    BY <1>3 DEF GuardFails
  <1>4. ASSUME NEW r \in Requests, Mark(r) PROVE RefusalInv'
    BY <1>4 DEF Mark
  <1>5. ASSUME NEW r \in Requests, Check(r) PROVE RefusalInv'
    BY <1>5 DEF Check
  <1>6. ASSUME NEW r \in Requests, Save(r) PROVE RefusalInv'
    BY <1>6 DEF Save
  <1>7. ASSUME NEW r \in Requests, DedupFailsOpen(r) PROVE RefusalInv'
    BY <1>7 DEF DedupFailsOpen
  <1>8. ASSUME NEW r \in Requests, Enqueue(r) PROVE RefusalInv'
    BY <1>8 DEF Enqueue
  <1>9. ASSUME NEW r \in Requests, EnqueueFails(r) PROVE RefusalInv'
    BY <1>9 DEF EnqueueFails
  <1>10. ASSUME NEW r \in Requests, UndoMarker(r) PROVE RefusalInv'
    BY <1>10 DEF UndoMarker, Undo
  <1>11. ASSUME NEW r \in Requests, UndoLedger(r) PROVE RefusalInv'
    BY <1>11 DEF UndoLedger, Undo
  <1>12. ASSUME NEW r \in Requests, UndoFails(r) PROVE RefusalInv'
    BY <1>12 DEF UndoFails, Undo
  <1>13. ASSUME NEW r \in Requests, RolledBack(r) PROVE RefusalInv'
    BY <1>13 DEF RolledBack
  <1>14. ASSUME NEW r \in Requests, Unguard(r) PROVE RefusalInv'
    BY <1>14 DEF Unguard
  <1>15. ASSUME NEW r \in Requests, UnguardFails(r) PROVE RefusalInv'
    BY <1>15 DEF UnguardFails
  <1>16. ASSUME NEW r \in Requests, Dies(r) PROVE RefusalInv'
    BY <1>16 DEF Dies
  <1>17. CASE GoesStale \/ MarkerExpires
    BY <1>17 DEF GoesStale, MarkerExpires
  <1>18. CASE UNCHANGED intakeVars
    BY <1>18 DEF intakeVars
  <1>19. QED
    BY <1>1, <1>2, <1>3, <1>4, <1>5, <1>6, <1>7, <1>8, <1>9, <1>10, <1>11, <1>12, <1>13, <1>14,
       <1>15, <1>16, <1>17, <1>18
    DEF IntakeNext, Serve, RequestFails

\* A refused add, however often, leaves none of the three traces behind by
\* itself, for any number of deliveries.
THEOREM IntakeRefusalBarsNothing == IntakeSpec => []RefusalBarsNothing
  <1>1. IntakeInit => RefusalInv
    BY DEF IntakeInit, RefusalInv
  <1>2. IntakeRest /\ RefusalInv => RefusalBarsNothing
    BY DEF IntakeRest, RefusalInv, RefusalBarsNothing, Served, Past, BarsMarker, BarsLedger,
           InFlight
  <1>3. QED BY <1>1, <1>2, NextRefusalInv, IntakeTypes, IntakeStarts, PTL DEF IntakeSpec

-----------------------------------------------------------------------------
(* An acknowledged event *)

\* Without a fault, whoever was told "ok" relies on a delivery that will add the
\* job.
SmoothInv ==
  failures = 0 =>
    /\ \A r \in Requests : request[r] \notin {"rollback", "unguard", "unavailable", "error",
        "lost"}
    /\ marker \/ Acknowledged =>
         queued \/ \E r \in Requests : request[r] \in {"check", "save", "enqueue"}
    /\ ledger => queued \/ \E r \in Requests : request[r] = "enqueue"

LEMMA NextSmoothInv == IntakeRest /\ SmoothInv /\ [IntakeNext]_intakeVars => SmoothInv'
  <1> SUFFICES ASSUME IntakeRest, SmoothInv, [IntakeNext]_intakeVars PROVE SmoothInv'
    OBVIOUS
  <1> USE DEF IntakeRest, SmoothInv, Acknowledged, Past, InFlight, Answer, Move, Fault, traces,
              tally
  <1>1. ASSUME NEW r \in Requests, Deliver(r) PROVE SmoothInv'
    BY <1>1 DEF Deliver
  <1>2. ASSUME NEW r \in Requests, Guard(r) PROVE SmoothInv'
    BY <1>2 DEF Guard
  <1>3. ASSUME NEW r \in Requests, GuardFails(r) PROVE SmoothInv'
    BY <1>3 DEF GuardFails
  <1>4. ASSUME NEW r \in Requests, Mark(r) PROVE SmoothInv'
    BY <1>4 DEF Mark
  <1>5. ASSUME NEW r \in Requests, Check(r) PROVE SmoothInv'
    BY <1>5 DEF Check
  <1>6. ASSUME NEW r \in Requests, Save(r) PROVE SmoothInv'
    BY <1>6 DEF Save
  <1>7. ASSUME NEW r \in Requests, DedupFailsOpen(r) PROVE SmoothInv'
    BY <1>7 DEF DedupFailsOpen
  <1>8. ASSUME NEW r \in Requests, Enqueue(r) PROVE SmoothInv'
    BY <1>8 DEF Enqueue
  <1>9. ASSUME NEW r \in Requests, EnqueueFails(r) PROVE SmoothInv'
    BY <1>9 DEF EnqueueFails
  <1>10. ASSUME NEW r \in Requests, UndoMarker(r) PROVE SmoothInv'
    BY <1>10 DEF UndoMarker, Undo
  <1>11. ASSUME NEW r \in Requests, UndoLedger(r) PROVE SmoothInv'
    BY <1>11 DEF UndoLedger, Undo
  <1>12. ASSUME NEW r \in Requests, UndoFails(r) PROVE SmoothInv'
    BY <1>12 DEF UndoFails, Undo
  <1>13. ASSUME NEW r \in Requests, RolledBack(r) PROVE SmoothInv'
    BY <1>13 DEF RolledBack
  <1>14. ASSUME NEW r \in Requests, Unguard(r) PROVE SmoothInv'
    BY <1>14 DEF Unguard
  <1>15. ASSUME NEW r \in Requests, UnguardFails(r) PROVE SmoothInv'
    BY <1>15 DEF UnguardFails
  <1>16. ASSUME NEW r \in Requests, Dies(r) PROVE SmoothInv'
    BY <1>16 DEF Dies
  <1>17. CASE GoesStale \/ MarkerExpires
    BY <1>17 DEF GoesStale, MarkerExpires
  <1>18. CASE UNCHANGED intakeVars
    BY <1>18 DEF intakeVars
  <1>19. QED
    BY <1>1, <1>2, <1>3, <1>4, <1>5, <1>6, <1>7, <1>8, <1>9, <1>10, <1>11, <1>12, <1>13, <1>14,
       <1>15, <1>16, <1>17, <1>18
    DEF IntakeNext, Serve, RequestFails

OneAtATime ==
  /\ \A r, s \in Requests : Past(r) /\ Past(s) => r = s
  /\ \A r \in Requests : Past(r) => replayKey
  /\ \A r \in Requests : request[r] \in {"rollback", "unguard"} => failures = 1

\* What delivery r has not written yet, or has removed, is not there.
CleanFor(r) ==
  /\ request[r] \in {"mark", "unguard"} => ~marker /\ ~ledger
  /\ request[r] \in {"check", "save"} => ~ledger
  /\ request[r] = "rollback" => /\ marker => "marker" \in undoing[r]
                                /\ ledger => "ledger" \in undoing[r]

CleanUnlessQueued ==
  ~queued => /\ ~Acknowledged
             /\ ~replayKey => ~marker /\ ~ledger
             /\ \A r \in Requests : CleanFor(r)

\* With a timestamp and one fault at most, the replay guard lets one delivery
\* through at a time, and the next one only when the traces are gone.
GuardedInv == stamped /\ failures <= 1 => OneAtATime /\ CleanUnlessQueued

LEMMA NextGuardedInv == IntakeRest /\ GuardedInv /\ [IntakeNext]_intakeVars => GuardedInv'
  <1> SUFFICES ASSUME IntakeRest, GuardedInv, [IntakeNext]_intakeVars PROVE GuardedInv'
    OBVIOUS
  <1> USE DEF IntakeRest, GuardedInv, OneAtATime, CleanFor, CleanUnlessQueued, Acknowledged, Past,
              InFlight, Answer, Move, Fault, traces, tally
  <1>1. ASSUME NEW r \in Requests, Deliver(r) PROVE GuardedInv'
    BY <1>1 DEF Deliver
  <1>2. ASSUME NEW r \in Requests, Guard(r) PROVE GuardedInv'
    BY <1>2 DEF Guard
  <1>3. ASSUME NEW r \in Requests, GuardFails(r) PROVE GuardedInv'
    <2> SUFFICES ASSUME stamped', failures' <= 1 PROVE (OneAtATime /\ CleanUnlessQueued)'
      OBVIOUS
    <2>1. stamped /\ failures <= 1 /\ queued' = queued /\ marker' = marker /\ ledger' = ledger
      BY <1>3 DEF GuardFails
    <2>2. \A d \in Requests : Past(d)' <=> Past(d)
      BY <1>3 DEF GuardFails
    <2>3. replayKey => replayKey'
      BY <1>3 DEF GuardFails
    <2>4. \A d \in Requests : request'[d] # request[d] => request'[d] = "error"
      BY <1>3 DEF GuardFails
    <2>5. undoing' = undoing /\ failures = 0
      BY <1>3 DEF GuardFails
    <2>6. QED BY <2>1, <2>2, <2>3, <2>4, <2>5
  <1>4. ASSUME NEW r \in Requests, Mark(r) PROVE GuardedInv'
    BY <1>4 DEF Mark
  <1>5. ASSUME NEW r \in Requests, Check(r) PROVE GuardedInv'
    BY <1>5 DEF Check
  <1>6. ASSUME NEW r \in Requests, Save(r) PROVE GuardedInv'
    BY <1>6 DEF Save
  <1>7. ASSUME NEW r \in Requests, DedupFailsOpen(r) PROVE GuardedInv'
    <2> SUFFICES ASSUME stamped', failures' <= 1 PROVE (OneAtATime /\ CleanUnlessQueued)'
      OBVIOUS
    <2>1. /\ stamped /\ failures = 0 /\ failures' = 1
          /\ UNCHANGED <<replayKey, queued, undoing>>
      BY <1>7 DEF DedupFailsOpen
    <2>2. \A d \in Requests : Past(d)' <=> Past(d)
      BY <1>7 DEF DedupFailsOpen
    <2>3. OneAtATime'
      BY <1>7, <2>1, <2>2 DEF DedupFailsOpen
    <2>4. Past(r)
      BY <1>7 DEF DedupFailsOpen
    <2>5. CASE ~queued
      <3>1. ~Acknowledged' /\ replayKey
        <4>1. ~Acknowledged /\ replayKey
          BY <2>1, <2>4, <2>5
        <4>2. \A d \in Requests : request'[d] = request[d] \/ request'[d] # "ok"
          BY <1>7 DEF DedupFailsOpen
        <4>3. QED BY <4>1, <4>2
      <3>2. CleanFor(r)'
        <4>1. CASE request[r] = "mark"
          <5>1. ~ledger
            BY <2>1, <2>5, <4>1
          <5>2. ledger' = ledger /\ request'[r] = "check"
            BY <1>7, <4>1 DEF DedupFailsOpen
          <5>3. QED BY <5>1, <5>2
        <4>2. CASE request[r] = "check"
          BY <1>7, <2>1, <2>5, <4>2 DEF DedupFailsOpen
        <4>3. CASE request[r] = "save"
          BY <1>7, <4>3 DEF DedupFailsOpen
        <4>4. QED BY <1>7, <4>1, <4>2, <4>3 DEF DedupFailsOpen
      <3>3. ASSUME NEW d \in Requests \ {r} PROVE ~Past(d)'
        <4>1. ~Past(d)
          BY <2>1, <2>4
        <4>2. QED BY <2>2, <4>1
      <3>4. QED BY <2>1, <2>3, <3>1, <3>2, <3>3
    <2>6. QED BY <2>1, <2>3, <2>5
  <1>8. ASSUME NEW r \in Requests, Enqueue(r) PROVE GuardedInv'
    BY <1>8 DEF Enqueue
  <1>9. ASSUME NEW r \in Requests, EnqueueFails(r) PROVE GuardedInv'
    <2> SUFFICES ASSUME stamped', failures' <= 1 PROVE (OneAtATime /\ CleanUnlessQueued)'
      OBVIOUS
    <2>1. /\ stamped /\ failures = 0 /\ failures' = 1
          /\ UNCHANGED <<replayKey, marker, ledger>>
      BY <1>9 DEF EnqueueFails
    <2>2. Past(r) /\ \A d \in Requests : Past(d)' <=> Past(d)
      BY <1>9 DEF EnqueueFails
    <2>3. OneAtATime'
      BY <1>9, <2>1, <2>2 DEF EnqueueFails
    <2>4. CASE ~queued'
      <3>1. ~queued /\ ~Acknowledged' /\ replayKey
        <4>1. ~queued
          BY <1>9, <2>4, Zenon DEF EnqueueFails
        <4>2. ~Acknowledged /\ replayKey
          BY <2>1, <2>2, <4>1
        <4>3. \A d \in Requests : request'[d] = request[d] \/ request'[d] # "ok"
          BY <1>9 DEF EnqueueFails
        <4>4. QED BY <4>1, <4>2, <4>3
      <3>2. CleanFor(r)'
        BY <1>9 DEF EnqueueFails
      <3>3. ASSUME NEW d \in Requests \ {r} PROVE ~Past(d)'
        <4>1. ~Past(d)
          BY <2>1, <2>2
        <4>2. QED BY <2>2, <4>1
      <3>4. QED BY <2>1, <2>3, <3>1, <3>2, <3>3
    <2>5. QED BY <2>3, <2>4
  <1>10. ASSUME NEW r \in Requests, UndoMarker(r) PROVE GuardedInv'
    BY <1>10 DEF UndoMarker, Undo
  <1>11. ASSUME NEW r \in Requests, UndoLedger(r) PROVE GuardedInv'
    BY <1>11 DEF UndoLedger, Undo
  <1>12. ASSUME NEW r \in Requests, UndoFails(r) PROVE GuardedInv'
    BY <1>12 DEF UndoFails, Undo
  <1>13. ASSUME NEW r \in Requests, RolledBack(r) PROVE GuardedInv'
    BY <1>13 DEF RolledBack
  <1>14. ASSUME NEW r \in Requests, Unguard(r) PROVE GuardedInv'
    BY <1>14 DEF Unguard
  <1>15. ASSUME NEW r \in Requests, UnguardFails(r) PROVE GuardedInv'
    BY <1>15 DEF UnguardFails
  <1>16. ASSUME NEW r \in Requests, Dies(r) PROVE GuardedInv'
    BY <1>16 DEF Dies
  <1>17. CASE GoesStale \/ MarkerExpires
    BY <1>17 DEF GoesStale, MarkerExpires
  <1>18. CASE UNCHANGED intakeVars
    BY <1>18 DEF intakeVars
  <1>19. QED
    BY <1>1, <1>2, <1>3, <1>4, <1>5, <1>6, <1>7, <1>8, <1>9, <1>10, <1>11, <1>12, <1>13, <1>14,
       <1>15, <1>16, <1>17, <1>18
    DEF IntakeNext, Serve, RequestFails

\* With nobody in flight an acknowledged event has its job unless two things
\* failed, or one where there is no timestamp, for any number of deliveries.
THEOREM IntakeAcknowledgedIsQueued == IntakeSpec => []AcknowledgedIsQueued
  <1>1. IntakeInit => SmoothInv /\ GuardedInv
    <2> SUFFICES ASSUME IntakeInit PROVE SmoothInv /\ GuardedInv
      OBVIOUS
    <2>1. /\ ~queued /\ ~marker /\ ~ledger /\ failures = 0
          /\ \A r \in Requests : request[r] = "none"
      BY DEF IntakeInit
    <2>2. SmoothInv
      BY <2>1 DEF SmoothInv, Acknowledged
    <2>3. OneAtATime /\ CleanUnlessQueued
      BY <2>1 DEF OneAtATime, CleanUnlessQueued, CleanFor, Past, Acknowledged, InFlight
    <2>4. QED BY <2>2, <2>3 DEF GuardedInv
  <1>2. IntakeRest /\ SmoothInv /\ GuardedInv => AcknowledgedIsQueued
    BY DEF IntakeRest, SmoothInv, GuardedInv, CleanUnlessQueued, AcknowledgedIsQueued, Served,
           InFlight
  <1>3. QED BY <1>1, <1>2, NextSmoothInv, NextGuardedInv, IntakeTypes, IntakeStarts, PTL
        DEF IntakeSpec
=============================================================================
