-------------------------- MODULE HumanDeskProofs --------------------------
(***************************************************************************)
(* Proofs about HumanDesk, for any calls, any ladder and any bound on the  *)
(* faults.                                                                 *)
(***************************************************************************)
EXTENDS HumanDesk, TLAPS

USE DeskAssumption

-----------------------------------------------------------------------------
(* Type correctness *)

Op == {"none", "route", "sweep", "remind", "takeover", "send"}
PC == {"idle", "refer", "store", "upsert", "pick", "assign", "check", "climb", "ladder",
       "raise", "unlock", "remind", "nudge", "open", "record", "release", "last"}
Record == [op: Op, pc: PC, state: State, kind: Mark, step: 0..Top, mark: Mark]

RowType ==
  /\ life \in {"ROUTED", "IN_PROGRESS", "RESOLVED", "REOPENED"}
  /\ queue \in State
  /\ step \in 0..Top /\ noted \in Mark /\ mark \in Mark /\ clock \in Mark
  /\ lock \in Calls \cup {None, Gone}
  /\ call \in [Calls -> Record]
  /\ overtaken \subseteq Calls
  /\ climbs \in Nat
  /\ undone \in 0..MaxFaults /\ faults \in 0..MaxFaults

FlagType == assigned \in BOOLEAN /\ due \in BOOLEAN /\ breached \in BOOLEAN

LEMMA InitType == Init => RowType /\ FlagType
  <1>1. Init => FlagType
    BY Zenon DEF Init, FlagType
  <1>2. Init => RowType
    BY DEF Init, RowType, State, Active, Mark, Idle, Record, Op, PC
  <1>3. QED BY <1>1, <1>2

LEMMA NextFlags == FlagType /\ [Next]_vars => FlagType'
  <1> SUFFICES ASSUME FlagType, [Next]_vars PROVE FlagType'
    OBVIOUS
  <1> USE DEF FlagType, row
  <1>1. ASSUME NEW c \in Calls, Advance(c) PROVE FlagType'
    <2>1. CASE StartRoute(c) \/ StartSweep(c) \/ StartTakeover(c) \/ StartSend(c) \/ Finish(c)
      BY <2>1, Zenon DEF StartRoute, StartSweep, StartTakeover, StartSend, Finish
    <2>2. CASE Upsert(c) \/ Pick(c) \/ Assign(c)
      BY <2>2, Zenon DEF Upsert, Pick, Assign
    <2>6. CASE ReadReferences(c) \/ PersistReferences(c) \/ TransitionConflict(c)
      BY <2>6, Zenon DEF ReadReferences, PersistReferences, TransitionConflict
    <2>7. CASE StartReminder(c) \/ ReadNudge(c) \/ RecordNudge(c)
      BY <2>7, Zenon DEF StartReminder, ReadNudge, RecordNudge
    <2>3. CASE Lock(c) \/ LockBusy(c) \/ Ladder(c) \/ Raise(c) \/ Unlock(c)
      BY <2>3, Zenon DEF Lock, LockBusy, Ladder, Raise, Unlock
    <2>4. CASE Checkpoint(c)
      <3>1. (assigned /\ call[c].state # "none") \in BOOLEAN
        BY Zenon
      <3>2. (breached \/ call[c].kind = "breached") \in BOOLEAN
        BY Zenon
      <3>3. CASE mark = call[c].kind
        BY <2>4, <3>3, Zenon DEF Checkpoint
      <3>4. CASE mark # call[c].kind
        BY <2>4, <3>1, <3>2, <3>4, Zenon DEF Checkpoint
      <3>5. QED BY <3>3, <3>4, Zenon
    <2>5. CASE OpenTakeover(c) \/ RecordHumanOutbound(c) \/ ReleaseTakeover(c)
      BY <2>5, Zenon DEF OpenTakeover, RecordHumanOutbound, ReleaseTakeover
    <2>8. QED BY <1>1, <2>1, <2>2, <2>3, <2>4, <2>5, <2>6, <2>7, Zenon DEF Advance
  <1>2. ASSUME NEW c \in Calls, CallFails(c) \/ CallDies(c) PROVE FlagType'
    <2>1. (due \/ call[c].op = "route") \in BOOLEAN
      BY Zenon
    <2>2. QED BY <1>2, <2>1, Zenon DEF CallFails, CallDies, Retries
  <1>3. ASSUME NEW c \in Calls, JobStalls(c) PROVE FlagType'
    BY <1>3, Zenon DEF JobStalls
  <1>4. CASE RouteElsewhere \/ TimePasses \/ LockExpires \/ LockIsLost
    BY <1>4, Zenon DEF RouteElsewhere, TimePasses, LockExpires, LockIsLost
  <1>5. CASE UNCHANGED vars
    BY <1>5, Zenon DEF vars
  <1>6. QED BY <1>1, <1>2, <1>3, <1>4, <1>5, Zenon DEF Next

\* The ways in which a call's record changes keep its type.
LEMMA RecordType ==
  ASSUME RowType, NEW c \in Calls
  PROVE  /\ \A p \in PC : Goto(c, p) => call' \in [Calls -> Record]
         /\ \A p \in PC, s \in 0..Top : Take(c, p, s) => call' \in [Calls -> Record]
         /\ ReadReferences(c) => call' \in [Calls -> Record]
         /\ Leave(c) \/ End(c) => call' \in [Calls -> Record]
         /\ \A o \in Op, p \in PC, s \in State, k \in Mark :
              Begin(c, o, p, s, k) => call' \in [Calls -> Record]
  <1> USE DEF RowType
  <1>1. call[c] \in Record /\ Idle \in Record
    BY DEF Idle, Record, Op, PC, State, Mark
  <1>2. ASSUME NEW p \in PC, Goto(c, p) PROVE call' \in [Calls -> Record]
    <2>1. [Idle EXCEPT !.op = call[c].op, !.pc = p] \in Record
      BY <1>1 DEF Record
    <2>2. QED BY <1>2, <2>1 DEF Goto
  <1>3. ASSUME NEW p \in PC, NEW s \in 0..Top, Take(c, p, s) PROVE call' \in [Calls -> Record]
    <2> DEFINE read == [call[c] EXCEPT !.pc = p, !.step = s, !.mark = noted]
    <2>1. read \in Record
      BY <1>1 DEF Record
    <2>2. call' = [call EXCEPT ![c] = read]
      BY <1>3 DEF Take
    <2>3. QED BY <2>1, <2>2
  <1>4. ASSUME ReadReferences(c) PROVE call' \in [Calls -> Record]
    <2> DEFINE read == [call[c] EXCEPT !.pc = "store", !.mark = mark]
    <2>1. read \in Record
      BY <1>1 DEF Record, PC
    <2>2. call' = [call EXCEPT ![c] = read]
      BY <1>4 DEF ReadReferences
    <2>3. QED BY <2>1, <2>2
  <1>5. Leave(c) \/ End(c) => call' \in [Calls -> Record]
    BY <1>1, <1>2 DEF Leave, End, PC
  <1>6. ASSUME NEW o \in Op, NEW p \in PC, NEW s \in State, NEW k \in Mark, Begin(c, o, p, s, k)
        PROVE  call' \in [Calls -> Record]
    <2>1. [Idle EXCEPT !.op = o, !.pc = p, !.state = s, !.kind = k] \in Record
      BY <1>1 DEF Record
    <2>2. QED BY <1>6, <2>1 DEF Begin
  <1>7. QED BY <1>2, <1>3, <1>4, <1>5, <1>6

OthersKept(c) == \A d \in Calls \ {c} : call'[d] = call[d]

\* What each way of moving does to a call's record.
LEMMA GotoForgets ==
  ASSUME RowType, NEW c \in Calls, NEW p, Goto(c, p)
  PROVE  /\ OthersKept(c) /\ call'[c].pc = p /\ call'[c].op = call[c].op
         /\ call'[c].state = "none" /\ call'[c].kind = "none"
         /\ call'[c].step = 0 /\ call'[c].mark = "none"
  BY DEF RowType, Goto, Idle, OthersKept

LEMMA LeaveForgets ==
  ASSUME RowType, NEW c \in Calls, Leave(c)
  PROVE  /\ OthersKept(c) /\ call'[c].pc = "last" /\ call'[c].op = call[c].op
         /\ call'[c].state = "none" /\ call'[c].kind = "none"
         /\ call'[c].step = 0 /\ call'[c].mark = "none"
  BY GotoForgets DEF Leave

LEMMA EndForgets ==
  ASSUME RowType, NEW c \in Calls, End(c)
  PROVE  /\ OthersKept(c) /\ call'[c].pc = "idle" /\ call'[c].op = "none"
         /\ call'[c].state = "none" /\ call'[c].kind = "none"
         /\ call'[c].step = 0 /\ call'[c].mark = "none"
  BY DEF RowType, End, Idle, OthersKept

LEMMA BeginSets ==
  ASSUME RowType, NEW c \in Calls, NEW o, NEW p, NEW s, NEW k, Begin(c, o, p, s, k)
  PROVE  /\ OthersKept(c) /\ At(c, "idle") /\ overtaken' = overtaken \ {c}
         /\ call'[c].pc = p /\ call'[c].op = o /\ call'[c].state = s /\ call'[c].kind = k
         /\ call'[c].step = 0 /\ call'[c].mark = "none"
  BY DEF RowType, Begin, Idle, OthersKept

LEMMA TakeTakes ==
  ASSUME RowType, NEW c \in Calls, NEW p, NEW s, Take(c, p, s)
  PROVE  /\ OthersKept(c) /\ call'[c].pc = p /\ call'[c].op = call[c].op
         /\ call'[c].state = call[c].state /\ call'[c].kind = call[c].kind
         /\ call'[c].step = s /\ call'[c].mark = noted
  <1>1. call \in [Calls -> Record] /\ call[c] \in Record
    BY DEF RowType
  <1> DEFINE read == [call[c] EXCEPT !.pc = p, !.step = s, !.mark = noted]
  <1>2. call' = [call EXCEPT ![c] = read]
    BY <1>1 DEF Take, Record
  <1>3. /\ read.pc = p /\ read.op = call[c].op /\ read.state = call[c].state
        /\ read.kind = call[c].kind /\ read.step = s /\ read.mark = noted
    BY <1>1 DEF Record
  <1>4. QED BY <1>1, <1>2, <1>3 DEF OthersKept

LEMMA ReadTakes ==
  ASSUME RowType, NEW c \in Calls, NEW p, Read(c, p)
  PROVE  /\ OthersKept(c) /\ call'[c].pc = p /\ call'[c].op = call[c].op
         /\ call'[c].state = call[c].state /\ call'[c].kind = call[c].kind
         /\ call'[c].step = step /\ call'[c].mark = noted
  BY TakeTakes DEF Read

LEMMA ReferencesTakes ==
  ASSUME RowType, NEW c \in Calls, ReadReferences(c)
  PROVE  /\ OthersKept(c) /\ call'[c].pc = "store" /\ call'[c].op = call[c].op
         /\ call'[c].state = call[c].state /\ call'[c].kind = call[c].kind
         /\ call'[c].step = call[c].step /\ call'[c].mark = mark
  <1>1. call \in [Calls -> Record] /\ call[c] \in Record
    BY DEF RowType
  <1> DEFINE read == [call[c] EXCEPT !.pc = "store", !.mark = mark]
  <1>2. call' = [call EXCEPT ![c] = read]
    BY <1>1 DEF ReadReferences, Record
  <1>3. /\ read.pc = "store" /\ read.op = call[c].op /\ read.state = call[c].state
        /\ read.kind = call[c].kind /\ read.step = call[c].step /\ read.mark = mark
    BY <1>1 DEF Record
  <1>4. QED BY <1>1, <1>2, <1>3 DEF OthersKept

LEMMA NextStepInRange ==
  \A s \in 0..Top, t \in Tops, owner \in BOOLEAN : NextStep(s, t, owner) \in 0..Top
  BY DEF NextStep

LEMMA NextRow == RowType /\ [Next]_vars => RowType'
  <1> SUFFICES ASSUME RowType, [Next]_vars PROVE RowType'
    OBVIOUS
  <1> DEFINE Rest == /\ life \in {"ROUTED", "IN_PROGRESS", "RESOLVED", "REOPENED"}
                     /\ queue \in State
                     /\ step \in 0..Top /\ noted \in Mark /\ mark \in Mark /\ clock \in Mark
                     /\ lock \in Calls \cup {None, Gone}
                     /\ overtaken \subseteq Calls
                     /\ climbs \in Nat
                     /\ undone \in 0..MaxFaults /\ faults \in 0..MaxFaults
  <1>a. Rest /\ call \in [Calls -> Record]
    BY DEF RowType
  <1> USE <1>a DEF row, State, Active, Mark, Fault
  <1>1. ASSUME NEW c \in Calls, Advance(c) PROVE RowType'
    <2>1. call' \in [Calls -> Record]
      <3>1. CASE StartRoute(c) \/ StartSweep(c) \/ StartTakeover(c) \/ StartSend(c)
        <4>1. /\ {"route", "sweep", "takeover", "send"} \subseteq Op
              /\ {"refer", "check", "open", "record"} \subseteq PC
              /\ "none" \in State /\ "none" \in Mark
          BY DEF Op, PC
        <4>2. PICK o \in Op, p \in PC, s \in State, k \in Mark : Begin(c, o, p, s, k)
          BY <3>1, <4>1 DEF StartRoute, StartSweep, StartTakeover, StartSend
        <4>3. QED BY <4>2, RecordType
      <3>2. CASE Finish(c) \/ Upsert(c) \/ Pick(c) \/ Assign(c)
        <4>1. \A p \in PC : Read(c, p) => call' \in [Calls -> Record]
          BY RecordType DEF Read
        <4>2. QED BY <3>2, <4>1, RecordType DEF Finish, Upsert, Pick, Assign, PC
      <3>3. CASE Lock(c) \/ LockBusy(c) \/ Raise(c) \/ Unlock(c)
        BY <3>3, RecordType DEF Lock, LockBusy, Raise, Unlock, PC
      <3>6. CASE Ladder(c)
        <4>1. \A t \in Tops, owner \in BOOLEAN : NextStep(step, t, owner) \in 0..Top
          BY NextStepInRange
        <4>2. QED BY <3>6, <4>1, RecordType DEF Ladder, PC
      <3>7. CASE ReadReferences(c) \/ PersistReferences(c) \/ TransitionConflict(c)
        BY <3>7, RecordType DEF PersistReferences, TransitionConflict, PC
      <3>8. CASE StartReminder(c) \/ ReadNudge(c) \/ RecordNudge(c)
        BY <3>8, RecordType DEF StartReminder, ReadNudge, RecordNudge, Read, Op, PC
      <3>4. CASE Checkpoint(c) \/ OpenTakeover(c) \/ RecordHumanOutbound(c) \/ ReleaseTakeover(c)
        BY <3>4, RecordType DEF Checkpoint, OpenTakeover, RecordHumanOutbound, ReleaseTakeover, PC
      <3>5. QED BY <1>1, <3>1, <3>2, <3>3, <3>4, <3>6, <3>7, <3>8 DEF Advance
    <2>2. Rest'
      <3>1. CASE StartRoute(c) \/ StartSweep(c) \/ StartTakeover(c) \/ StartSend(c)
        BY <3>1 DEF StartRoute, StartSweep, StartTakeover, StartSend, Begin
      <3>2. CASE Finish(c) \/ Upsert(c) \/ Pick(c)
        BY <3>2 DEF Finish, Upsert, Pick
      <3>3. CASE Assign(c)
        BY <3>3 DEF Assign, MergeStale, MergeMark, Record
      <3>4. CASE Lock(c) \/ LockBusy(c) \/ Ladder(c) \/ Unlock(c)
        BY <3>4 DEF Lock, LockBusy, Ladder, Unlock
      <3>5. CASE Raise(c)
        BY <3>5 DEF Raise, MergeMark, Record
      <3>6. CASE Checkpoint(c)
        BY <3>6 DEF Checkpoint, Record
      <3>7. CASE OpenTakeover(c) \/ RecordHumanOutbound(c) \/ ReleaseTakeover(c)
        BY <3>7 DEF OpenTakeover, RecordHumanOutbound, ReleaseTakeover, Resolved
      <3>8. CASE ReadReferences(c) \/ PersistReferences(c) \/ TransitionConflict(c)
        BY <3>8 DEF ReadReferences, PersistReferences, TransitionConflict, Undo, Record
      <3>9. CASE StartReminder(c) \/ ReadNudge(c) \/ RecordNudge(c)
        BY <3>9 DEF StartReminder, ReadNudge, RecordNudge, Begin, Undo, Record
      <3>10. QED
        BY <1>1, <3>1, <3>2, <3>3, <3>4, <3>5, <3>6, <3>7, <3>8, <3>9 DEF Advance
    <2>3. QED BY <2>1, <2>2 DEF RowType
  <1>2. ASSUME NEW c \in Calls, CallFails(c) \/ CallDies(c) PROVE RowType'
    BY <1>2, RecordType DEF CallFails, CallDies, RowType
  <1>3. ASSUME NEW c \in Calls, JobStalls(c) PROVE RowType'
    BY <1>3 DEF JobStalls, RowType
  <1>4. CASE RouteElsewhere \/ TimePasses \/ LockExpires \/ LockIsLost
    BY <1>4 DEF RouteElsewhere, TimePasses, LockExpires, LockIsLost, RowType
  <1>5. CASE UNCHANGED vars
    BY <1>5 DEF vars, RowType
  <1>6. QED BY <1>1, <1>2, <1>3, <1>4, <1>5 DEF Next

LEMMA TypeInvariant == Spec => [](RowType /\ FlagType)
  BY InitType, NextRow, NextFlags, PTL DEF Spec

\* The row, the calls and the ladder keep their types: no step is above the
\* ladder's last one, for any number of calls.
THEOREM DeskTypeCorrect == Spec => []TypeOK
  <1>1. RowType /\ FlagType => TypeOK
    BY Zenon DEF RowType, FlagType, TypeOK, Record, Op, PC
  <1>2. QED BY <1>1, TypeInvariant, PTL

-----------------------------------------------------------------------------
(* Who reopens a resolved row *)

\* Nobody starts with a resolved row, and a row that was resolved has been
\* answered by a person, so that no routing job starts; and whoever is at work
\* on a resolved row was so when it was resolved, or is a person who answers.
ResolvedInv ==
  /\ \A c \in Calls : At(c, "release") => life # "ROUTED"
  /\ \A c \in Calls : call[c].state # "RESOLVED"
  /\ queue = "RESOLVED" =>
       /\ life # "ROUTED"
       /\ \A c \in Calls : At(c, "idle") \/ c \in overtaken \/ call[c].op = "send"

LEMMA InitResolved == Init => ResolvedInv
  BY DEF Init, ResolvedInv, At, Idle

\* A step that is not a person's reopens the row only in the hands of a call
\* that was overtaken.
LEMMA StepReopens ==
  ASSUME RowType, ResolvedInv, [Next]_vars, queue = "RESOLVED", queue' # "RESOLVED"
  PROVE  \E c \in Calls : call'[c] # call[c] /\ (c \in overtaken \/ call[c].op = "send")
  <1> USE DEF RowType, ResolvedInv, At, row
  <1>1. PICK c \in Calls : Advance(c)
    <2>1. CASE RouteElsewhere \/ TimePasses \/ LockExpires \/ LockIsLost
      BY <2>1 DEF RouteElsewhere, TimePasses, LockExpires, LockIsLost
    <2>2. ASSUME NEW c \in Calls, CallFails(c) \/ CallDies(c) \/ JobStalls(c) PROVE FALSE
      BY <2>2 DEF CallFails, CallDies, JobStalls
    <2>3. CASE UNCHANGED vars
      BY <2>3 DEF vars
    <2>4. QED BY <2>1, <2>2, <2>3 DEF Next
  <1>2. ~At(c, "idle") /\ call'[c] # call[c]
    <2>1. CASE StartRoute(c) \/ StartSweep(c) \/ StartTakeover(c) \/ StartSend(c) \/ Finish(c)
      BY <2>1 DEF StartRoute, StartSweep, StartTakeover, StartSend, Finish
    <2>2. CASE Upsert(c) \/ Assign(c) \/ Raise(c)
      BY <2>2, GotoForgets, LeaveForgets DEF Upsert, Assign, Raise
    <2>3. CASE Pick(c) \/ Lock(c) \/ LockBusy(c) \/ Ladder(c) \/ Unlock(c)
      BY <2>3 DEF Pick, Lock, LockBusy, Ladder, Unlock
    <2>4. CASE Checkpoint(c)
      BY <2>4, GotoForgets, LeaveForgets DEF Checkpoint
    <2>5. CASE OpenTakeover(c) \/ RecordHumanOutbound(c) \/ ReleaseTakeover(c)
      BY <2>5, GotoForgets, EndForgets DEF OpenTakeover, RecordHumanOutbound, ReleaseTakeover
    <2>6. CASE ReadReferences(c) \/ PersistReferences(c) \/ TransitionConflict(c)
      BY <2>6 DEF ReadReferences, PersistReferences, TransitionConflict
    <2>7. CASE StartReminder(c) \/ ReadNudge(c) \/ RecordNudge(c)
      BY <2>7 DEF StartReminder, ReadNudge, RecordNudge
    <2>8. QED BY <1>1, <2>1, <2>2, <2>3, <2>4, <2>5, <2>6, <2>7 DEF Advance
  <1>3. QED BY <1>2

LEMMA NextResolved == RowType /\ ResolvedInv /\ [Next]_vars => ResolvedInv'
  <1> SUFFICES ASSUME RowType, ResolvedInv, [Next]_vars PROVE ResolvedInv'
    OBVIOUS
  <1> USE DEF RowType, ResolvedInv, At, row, OthersKept
  <1>1. ASSUME NEW c \in Calls, Advance(c) PROVE ResolvedInv'
    <2>0. \A d \in Calls : call[d].state # "RESOLVED"
      OBVIOUS
    <2>1. CASE StartRoute(c) \/ StartSweep(c) \/ StartTakeover(c) \/ StartSend(c)
      <3>1. CASE StartRoute(c)
        BY <3>1, <2>0, BeginSets DEF StartRoute
      <3>2. CASE StartSweep(c)
        <4>1. queue # "RESOLVED" /\ UNCHANGED <<life, queue>>
          BY <3>2 DEF StartSweep, Candidate, Active
        <4>2. Begin(c, "sweep", "check", queue, clock)
          BY <3>2 DEF StartSweep
        <4>3. QED BY <2>0, <4>1, <4>2, BeginSets
      <3>3. CASE StartTakeover(c)
        BY <3>3, <2>0, BeginSets DEF StartTakeover, Active
      <3>4. CASE StartSend(c)
        BY <3>4, <2>0, BeginSets DEF StartSend
      <3>5. QED BY <2>1, <3>1, <3>2, <3>3, <3>4
    <2>2. CASE Finish(c)
      BY <2>2, EndForgets DEF Finish
    <2>3. CASE Upsert(c) \/ Assign(c) \/ Raise(c)
      BY <2>3, GotoForgets, LeaveForgets DEF Upsert, Assign, Raise
    <2>4. CASE Pick(c) \/ Lock(c) \/ LockBusy(c) \/ Ladder(c) \/ Unlock(c)
      <3>1. /\ \A d \in Calls \ {c} : call'[d] = call[d]
            /\ call'[c].pc # "release" /\ call'[c].op = call[c].op /\ ~At(c, "idle")
            /\ call'[c].state # "RESOLVED"
        BY <2>4, <2>0, GotoForgets, LeaveForgets, ReadTakes, TakeTakes
        DEF Pick, Lock, LockBusy, Ladder, Unlock
      <3>2. UNCHANGED <<life, queue, overtaken>>
        BY <2>4 DEF Pick, Lock, LockBusy, Ladder, Unlock
      <3>3. QED BY <3>1, <3>2
    <2>5. CASE Checkpoint(c)
      <3>1. /\ \A d \in Calls \ {c} : call'[d] = call[d]
            /\ call'[c].pc # "release" /\ call'[c].op = call[c].op /\ ~At(c, "idle")
            /\ call'[c].state # "RESOLVED"
        BY <2>5, <2>0, GotoForgets, LeaveForgets DEF Checkpoint
      <3>2. UNCHANGED <<life, overtaken>> /\ (queue' = "RESOLVED" => queue = "RESOLVED")
        BY <2>5, <2>0 DEF Checkpoint
      <3>3. QED BY <3>1, <3>2
    <2>6. CASE OpenTakeover(c) \/ RecordHumanOutbound(c) \/ ReleaseTakeover(c)
      <3>1. CASE OpenTakeover(c)
        BY <3>1, EndForgets DEF OpenTakeover
      <3>2. CASE RecordHumanOutbound(c)
        <4>0. \A d \in Calls : call'[d].state # "RESOLVED"
          BY <3>2, <2>0, GotoForgets, EndForgets DEF RecordHumanOutbound
        <4>1. \A d \in Calls : ~At(d, "idle")' => ~At(d, "idle")
          BY <3>2, GotoForgets, EndForgets DEF RecordHumanOutbound
        <4>2. life' # "ROUTED"
          BY <3>2 DEF RecordHumanOutbound
        <4>3. queue' = "RESOLVED" => Resolved
          BY <3>2 DEF RecordHumanOutbound
        <4>4. QED BY <4>0, <4>1, <4>2, <4>3 DEF Resolved
      <3>3. CASE ReleaseTakeover(c)
        <4>0. \A d \in Calls : call'[d].state # "RESOLVED"
          BY <3>3, <2>0, EndForgets DEF ReleaseTakeover
        <4>1. \A d \in Calls : ~At(d, "idle")' => ~At(d, "idle")
          BY <3>3, EndForgets DEF ReleaseTakeover
        <4>2. life' = life /\ life # "ROUTED"
          BY <3>3 DEF ReleaseTakeover
        <4>3. queue' = "RESOLVED" => Resolved
          BY <3>3 DEF ReleaseTakeover
        <4>4. QED BY <4>0, <4>1, <4>2, <4>3 DEF Resolved
      <3>4. QED BY <2>6, <3>1, <3>2, <3>3
    <2>7. CASE ReadReferences(c) \/ PersistReferences(c) \/ TransitionConflict(c)
      <3>1. CASE ReadReferences(c)
        <4>1. ~At(c, "idle") /\ UNCHANGED <<life, queue, overtaken>>
          BY <3>1 DEF ReadReferences
        <4>2. QED BY <3>1, <2>0, <4>1, ReferencesTakes
      <3>2. CASE PersistReferences(c)
        <4>1. /\ ~At(c, "idle") /\ UNCHANGED <<queue, overtaken>>
              /\ life' = "ROUTED" => life = "ROUTED"
          BY <3>2 DEF PersistReferences
        <4>2. /\ OthersKept(c) /\ call'[c].pc # "release" /\ call'[c].op = call[c].op
              /\ call'[c].state # "RESOLVED"
          BY <3>2, GotoForgets, LeaveForgets DEF PersistReferences
        <4>3. QED BY <2>0, <4>1, <4>2
      <3>3. CASE TransitionConflict(c)
        BY <3>3, <2>0, EndForgets DEF TransitionConflict
      <3>4. QED BY <2>7, <3>1, <3>2, <3>3
    <2>8. CASE StartReminder(c) \/ ReadNudge(c) \/ RecordNudge(c)
      <3>1. CASE StartReminder(c)
        BY <3>1, <2>0, BeginSets DEF StartReminder, Active
      <3>2. CASE ReadNudge(c)
        <4>1. ~At(c, "idle") /\ UNCHANGED <<life, queue, overtaken>>
          BY <3>2 DEF ReadNudge
        <4>2. Read(c, "nudge")
          BY <3>2 DEF ReadNudge
        <4>3. QED BY <2>0, <4>1, <4>2, ReadTakes
      <3>3. CASE RecordNudge(c)
        BY <3>3, <2>0, EndForgets DEF RecordNudge
      <3>4. QED BY <2>8, <3>1, <3>2, <3>3
    <2>9. QED
      BY <1>1, <2>1, <2>2, <2>3, <2>4, <2>5, <2>6, <2>7, <2>8 DEF Advance
  <1>2. ASSUME NEW c \in Calls, CallFails(c) \/ CallDies(c) PROVE ResolvedInv'
    BY <1>2 DEF CallFails, CallDies, End, Idle
  <1>3. ASSUME NEW c \in Calls, JobStalls(c) PROVE ResolvedInv'
    BY <1>3 DEF JobStalls
  <1>4. CASE RouteElsewhere \/ TimePasses \/ LockExpires \/ LockIsLost
    BY <1>4 DEF RouteElsewhere, TimePasses, LockExpires, LockIsLost
  <1>5. CASE UNCHANGED vars
    BY <1>5 DEF vars
  <1>6. QED BY <1>1, <1>2, <1>3, <1>4, <1>5 DEF Next

\* A resolved row is reopened by a person, or by a call that was under way when
\* it was resolved, for any number of calls and faults.
THEOREM DeskPeopleReopen == Spec => PeopleReopen
  <1>1. RowType /\ ResolvedInv /\ [Next]_vars =>
          [queue = "RESOLVED" /\ queue' # "RESOLVED" =>
             \E c \in Calls : /\ call'[c] # call[c]
                              /\ c \in overtaken \/ call[c].op = "send"]_vars
    BY StepReopens
  <1>2. QED
    BY <1>1, InitResolved, NextResolved, TypeInvariant, InitType, PTL DEF Spec, PeopleReopen

-----------------------------------------------------------------------------
(* Escalations that meet *)

Climbing(c) == call[c].pc \in {"climb", "ladder", "raise"}

\* The routing job has yet to write what it reads of the row.
Early == due \/ \E c \in Calls : call[c].pc \in {"refer", "store", "upsert", "pick", "assign"}

\* One routing job, one sweep, and one holder of the lock.
CallInv ==
  /\ \A c \in Calls : call[c].op = "route" => ~due
  /\ \A c, d \in Calls : call[c].op \in {"route", "sweep"} /\ call[d].op = call[c].op => c = d
  /\ \A c \in Calls : call[c].pc \in {"refer", "store", "upsert", "pick", "assign"} => call[c].op = "route"
  /\ \A c \in Calls : At(c, "check") => call[c].op = "sweep"
  /\ \A c \in Calls : Climbing(c) => call[c].op \in {"route", "sweep"}
  /\ \A c \in Calls : call[c].pc \in {"ladder", "raise", "unlock"} <=> lock = c
  /\ lock # Gone

\* What happens while nothing has gone wrong.
SmoothStep ==
  \/ \E c \in Calls : Advance(c) /\ UNCHANGED <<undone, faults>>
  \/ RouteElsewhere \/ TimePasses \/ UNCHANGED vars

LEMMA NothingUndone ==
  ASSUME RowType, NEW stale \in BOOLEAN, Undo(stale), UNCHANGED undone
  PROVE  ~stale
  BY DEF RowType, Undo

\* A fault or an undone update is never forgotten.
LEMMA Smooth ==
  ASSUME RowType, [Next]_vars, faults' = 0, undone' = 0
  PROVE  faults = 0 /\ undone = 0
  <1>1. /\ faults' \in {faults, faults + 1}
        /\ undone' \in {undone, undone + 1}
    BY DEF Next, vars, row, Fault, Undo, Advance, StartRoute, ReadReferences, PersistReferences,
           TransitionConflict, Upsert, Pick, Assign, Lock, LockBusy, Ladder, Raise, Unlock,
           StartSweep, Checkpoint, StartReminder, ReadNudge, RecordNudge, StartTakeover,
           OpenTakeover, StartSend, RecordHumanOutbound, ReleaseTakeover, Finish, CallFails,
           CallDies, JobStalls, RouteElsewhere, TimePasses, LockExpires, LockIsLost
  <1>2. QED BY <1>1 DEF RowType

LEMMA NoFault ==
  ASSUME RowType, CallInv, [Next]_vars, faults' = 0, undone' = 0
  PROVE  SmoothStep
  <1> USE DEF RowType
  <1>1. faults = 0 /\ undone = 0
    BY Smooth
  <1>2. ASSUME NEW c \in Calls, CallFails(c) \/ CallDies(c) \/ JobStalls(c) PROVE FALSE
    BY <1>2 DEF CallFails, CallDies, JobStalls, Fault
  <1>3. ~LockExpires /\ ~LockIsLost
    BY DEF CallInv, LockExpires, LockIsLost, Fault
  <1>4. QED BY <1>1, <1>2, <1>3 DEF Next, SmoothStep

LEMMA NextCall ==
  ASSUME RowType, CallInv, SmoothStep
  PROVE  CallInv'
  <1> USE DEF CallInv, At, Climbing, OthersKept
  <1>1. ASSUME NEW c \in Calls, Advance(c), UNCHANGED <<undone, faults>> PROVE CallInv'
    <2>1. CASE StartRoute(c)
      BY <2>1, BeginSets DEF StartRoute
    <2>2. CASE StartSweep(c)
      <3>1. /\ \A d \in Calls : call[d].op # "sweep"
            /\ Begin(c, "sweep", "check", queue, clock) /\ UNCHANGED <<due, lock>>
        BY <1>1, <2>2 DEF StartSweep, Fault, RowType
      <3>2. QED BY <3>1, BeginSets
    <2>3. CASE StartTakeover(c) \/ StartSend(c)
      BY <2>3, BeginSets DEF StartTakeover, StartSend
    <2>4. CASE Finish(c)
      BY <2>4, EndForgets DEF Finish
    <2>5. CASE Upsert(c) \/ Assign(c)
      BY <2>5, GotoForgets, LeaveForgets DEF Upsert, Assign
    <2>6. CASE Pick(c)
      BY <2>6, ReadTakes, GotoForgets, LeaveForgets DEF Pick
    <2>7. CASE Lock(c) \/ LockBusy(c)
      BY <2>7, GotoForgets, LeaveForgets DEF Lock, LockBusy
    <2>8. CASE Ladder(c) \/ Raise(c)
      BY <2>8, GotoForgets, TakeTakes DEF Ladder, Raise
    <2>9. CASE Unlock(c)
      BY <2>9, LeaveForgets DEF Unlock
    <2>10. CASE Checkpoint(c)
      BY <2>10, GotoForgets, LeaveForgets DEF Checkpoint
    <2>11. CASE OpenTakeover(c) \/ ReleaseTakeover(c)
      BY <2>11, EndForgets DEF OpenTakeover, ReleaseTakeover
    <2>12. CASE RecordHumanOutbound(c)
      BY <2>12, GotoForgets, EndForgets DEF RecordHumanOutbound
    <2>13. CASE ReadReferences(c)
      <3>1. At(c, "refer") /\ UNCHANGED <<due, lock>>
        BY <2>13 DEF ReadReferences
      <3>2. OthersKept(c) /\ call'[c].pc = "store" /\ call'[c].op = call[c].op
        BY <2>13, ReferencesTakes
      <3>3. QED BY <3>1, <3>2
    <2>14. CASE PersistReferences(c)
      BY <2>14, GotoForgets, LeaveForgets DEF PersistReferences
    <2>15. CASE TransitionConflict(c)
      BY <2>15, EndForgets DEF TransitionConflict
    <2>16. CASE StartReminder(c)
      BY <2>16, BeginSets DEF StartReminder
    <2>17. CASE ReadNudge(c) \/ RecordNudge(c)
      BY <2>17, ReadTakes, EndForgets DEF ReadNudge, RecordNudge
    <2>18. QED
      BY <1>1, <2>1, <2>2, <2>3, <2>4, <2>5, <2>6, <2>7, <2>8, <2>9, <2>10, <2>11, <2>12,
         <2>13, <2>14, <2>15, <2>16, <2>17 DEF Advance
  <1>2. CASE RouteElsewhere \/ TimePasses \/ UNCHANGED vars
    BY <1>2 DEF RouteElsewhere, TimePasses, vars
  <1>3. QED BY <1>1, <1>2 DEF SmoothStep

\* The row and the interaction have the same mark, and a breach is seen by
\* nobody before it is due, and not by a sweep that has read an earlier clock.
ClockInv ==
  /\ noted = mark
  /\ clock # "breached" =>
       mark # "breached" /\ \A c \in Calls : call[c].mark # "breached" /\ call[c].kind # "breached"
  /\ \A c \in Calls : At(c, "check") /\ call[c].kind # "breached" =>
       mark # "breached" /\ \A d \in Calls : call[d].mark # "breached"

LEMMA NextClock ==
  ASSUME RowType, CallInv, ClockInv, SmoothStep
  PROVE  ClockInv'
  <1> USE DEF CallInv, ClockInv, At, OthersKept
  <1>1. ASSUME NEW c \in Calls, Advance(c), UNCHANGED <<undone, faults>> PROVE ClockInv'
    <2>1. CASE StartRoute(c) \/ StartTakeover(c) \/ StartSend(c)
      BY <2>1, BeginSets DEF StartRoute, StartTakeover, StartSend, row
    <2>2. CASE StartSweep(c)
      <3>1. Begin(c, "sweep", "check", queue, clock) /\ UNCHANGED <<clock, noted, mark>>
        BY <1>1, <2>2 DEF StartSweep, row
      <3>2. QED BY <3>1, BeginSets
    <2>4. CASE Finish(c)
      BY <2>4, EndForgets DEF Finish, row
    <2>5. CASE Upsert(c)
      BY <2>5, GotoForgets DEF Upsert
    <2>6. CASE Assign(c)
      BY <2>6, LeaveForgets DEF Assign, MergeStale, MergeMark
    <2>7. CASE Pick(c)
      BY <2>7, ReadTakes, GotoForgets, LeaveForgets DEF Pick, row
    <2>8. CASE Lock(c) \/ LockBusy(c)
      BY <2>8, GotoForgets, LeaveForgets DEF Lock, LockBusy, row
    <2>9. CASE Ladder(c)
      BY <2>9, GotoForgets, TakeTakes DEF Ladder, row
    <2>10. CASE Raise(c)
      BY <2>10, GotoForgets DEF Raise, MergeMark
    <2>11. CASE Unlock(c)
      BY <2>11, LeaveForgets DEF Unlock, row
    <2>12. CASE Checkpoint(c)
      <3>1. \A d \in Calls : At(d, "check") => d = c
        BY <2>12 DEF Checkpoint
      <3>2. OthersKept(c) /\ call'[c].pc # "check" /\ clock' = clock
        BY <2>12, GotoForgets, LeaveForgets DEF Checkpoint
      <3>3. call'[c].mark = "none" /\ call'[c].kind = "none"
        BY <2>12, GotoForgets, LeaveForgets DEF Checkpoint
      <3>4. mark' \in {mark, call[c].kind} /\ noted' = mark'
        BY <2>12 DEF Checkpoint
      <3>5. QED BY <3>1, <3>2, <3>3, <3>4
    <2>13. CASE OpenTakeover(c) \/ ReleaseTakeover(c)
      BY <2>13, EndForgets DEF OpenTakeover, ReleaseTakeover
    <2>14. CASE RecordHumanOutbound(c)
      BY <2>14, GotoForgets, EndForgets DEF RecordHumanOutbound
    <2>15. CASE ReadReferences(c)
      <3>1. UNCHANGED <<noted, mark, clock>>
        BY <2>15 DEF ReadReferences, row
      <3>2. /\ OthersKept(c) /\ call'[c].pc = "store" /\ call'[c].mark = mark
            /\ call'[c].kind = call[c].kind
        BY <2>15, ReferencesTakes
      <3>3. QED BY <3>1, <3>2
    <2>16. CASE PersistReferences(c)
      <3>1. mark' = mark
        BY <1>1, <2>16, NothingUndone DEF PersistReferences
      <3>2. QED BY <2>16, <3>1, GotoForgets, LeaveForgets DEF PersistReferences
    <2>17. CASE TransitionConflict(c)
      BY <2>17, EndForgets DEF TransitionConflict, row
    <2>18. CASE StartReminder(c)
      BY <2>18, BeginSets DEF StartReminder, row
    <2>19. CASE ReadNudge(c)
      BY <2>19, ReadTakes DEF ReadNudge, row
    <2>20. CASE RecordNudge(c)
      <3>1. noted' = noted
        BY <1>1, <2>20, NothingUndone DEF RecordNudge
      <3>2. QED BY <2>20, <3>1, EndForgets DEF RecordNudge
    <2>21. QED
      BY <1>1, <2>1, <2>2, <2>4, <2>5, <2>6, <2>7, <2>8, <2>9, <2>10, <2>11, <2>12, <2>13, <2>14,
         <2>15, <2>16, <2>17, <2>18, <2>19, <2>20 DEF Advance
  <1>2. CASE RouteElsewhere \/ TimePasses \/ UNCHANGED vars
    BY <1>2 DEF RouteElsewhere, TimePasses, vars, row
  <1>3. QED BY <1>1, <1>2 DEF SmoothStep

\* What is about to be written still follows from the row's step, or is nothing:
\* while the routing job may write, one breach is recorded and climbs once.
StepInv ==
  /\ \A c \in Calls : At(c, "raise") =>
       \E t \in Tops, owner \in BOOLEAN : call[c].step = NextStep(step, t, owner)
  /\ \A c \in Calls : At(c, "assign") => call[c].step \in {0, step}
  /\ \A c \in Calls : At(c, "unlock") => step > 0 \/ 0 \in Tops
  /\ Early /\ step > 0 =>
       mark = "breached" /\ \A c \in Calls : ~Climbing(c)
  /\ Early => \A c \in Calls : Climbing(c) =>
       /\ mark = "breached"
       /\ At(c, "raise") => call[c].mark = "breached"

LEMMA NextStepClimbs ==
  ASSUME NEW s \in 0..Top, NEW t \in Tops, NEW owner \in BOOLEAN
  PROVE  /\ NextStep(s, t, owner) = s + 1 \/ t <= NextStep(s, t, owner)
         /\ NextStep(s, t, owner) > 0 \/ 0 \in Tops
  BY DEF NextStep

LEMMA NextStepInv ==
  ASSUME RowType, CallInv, ClockInv, StepInv, SmoothStep
  PROVE  StepInv'
  <1> USE DEF CallInv, StepInv, At, Climbing, Early, OthersKept
  <1>0. step \in 0..Top
    BY DEF RowType
  <1>1. ASSUME NEW c \in Calls, Advance(c), UNCHANGED <<undone, faults>> PROVE StepInv'
    <2>1. CASE StartRoute(c) \/ StartTakeover(c) \/ StartSend(c)
      BY <2>1, BeginSets DEF StartRoute, StartTakeover, StartSend, row
    <2>2. CASE StartSweep(c)
      <3>1. Begin(c, "sweep", "check", queue, clock) /\ UNCHANGED <<step, mark, due>>
        BY <1>1, <2>2 DEF StartSweep, row
      <3>2. QED BY <3>1, BeginSets
    <2>3. CASE Finish(c)
      <3>1. At(c, "last") /\ UNCHANGED <<step, mark, due>>
        BY <2>3 DEF Finish, row
      <3>2. OthersKept(c) /\ call'[c].pc = "idle"
        BY <2>3, EndForgets DEF Finish
      <3>3. QED BY <3>1, <3>2
    <2>4. CASE Upsert(c)
      BY <2>4, GotoForgets DEF Upsert
    <2>5. CASE Assign(c)
      <3>1. step' = step /\ due' = due /\ OthersKept(c) /\ call'[c].pc = "last"
        BY <2>5, LeaveForgets DEF Assign, MergeStale
      <3>2. ~Early'
        BY <2>5, <3>1 DEF Assign
      <3>3. QED BY <3>1, <3>2
    <2>6. CASE Pick(c)
      <3>1. OthersKept(c) /\ UNCHANGED <<step, mark, due>>
        BY <2>6, ReadTakes, GotoForgets, LeaveForgets DEF Pick, row
      <3>2. /\ call'[c].pc \in {"last", "assign", "climb"}
            /\ call'[c].pc = "assign" => call'[c].step = step
        BY <2>6, ReadTakes, GotoForgets, LeaveForgets DEF Pick
      <3>3. call'[c].pc # "assign" => ~Early'
        BY <2>6, <3>1, <3>2 DEF Pick
      <3>4. QED BY <2>6, <3>1, <3>2, <3>3 DEF Pick
    <2>7. CASE Lock(c) \/ LockBusy(c)
      <3>1. At(c, "climb") /\ UNCHANGED <<step, mark, due>>
        BY <2>7 DEF Lock, LockBusy, row
      <3>2. OthersKept(c) /\ call'[c].pc \in {"ladder", "last"}
        BY <2>7, GotoForgets, LeaveForgets DEF Lock, LockBusy
      <3>3. Early' => Early
        BY <3>1, <3>2
      <3>4. \A d \in Calls : call'[d].pc \in {"raise", "assign", "unlock"} => call'[d] = call[d]
        BY <3>2
      <3>5. \A d \in Calls : Climbing(d)' => Climbing(d)
        BY <3>1, <3>2
      <3>6. ASSUME NEW d \in Calls, call'[d].pc = "raise"
            PROVE  \E t \in Tops, owner \in BOOLEAN : call'[d].step = NextStep(step', t, owner)
        <4>1. call'[d] = call[d] /\ step' = step
          BY <3>1, <3>4, <3>6
        <4>2. \E t \in Tops, owner \in BOOLEAN : call[d].step = NextStep(step, t, owner)
          BY <3>6, <4>1
        <4>3. QED BY <4>1, <4>2
      <3>7. Early' => \A d \in Calls : Climbing(d)' =>
              mark' = "breached" /\ (At(d, "raise")' => call'[d].mark = "breached")
        BY <3>1, <3>3, <3>4, <3>5
      <3>8. Early' /\ step' > 0 => mark' = "breached" /\ \A d \in Calls : ~Climbing(d)'
        BY <3>1, <3>3, <3>5
      <3>9. QED BY <3>1, <3>4, <3>6, <3>7, <3>8
    <2>8. CASE Ladder(c)
      <3>1. At(c, "ladder") /\ UNCHANGED <<step, mark, due>>
        BY <2>8 DEF Ladder, row
      <3>2. PICK t \in Tops, owner \in BOOLEAN :
              \/ Take(c, "raise", NextStep(step, t, owner))
              \/ NextStep(step, t, owner) = step /\ Goto(c, "unlock")
        BY <2>8 DEF Ladder
      <3>3. CASE Take(c, "raise", NextStep(step, t, owner))
        <4>1. /\ OthersKept(c) /\ call'[c].pc = "raise" /\ call'[c].mark = mark
              /\ call'[c].step = NextStep(step, t, owner)
          BY <3>3, TakeTakes DEF ClockInv
        <4>2. QED BY <3>1, <4>1
      <3>4. CASE NextStep(step, t, owner) = step /\ Goto(c, "unlock")
        <4>1. OthersKept(c) /\ call'[c].pc = "unlock"
          BY <3>4, GotoForgets
        <4>2. step > 0 \/ 0 \in Tops
          BY <1>0, <3>4, NextStepClimbs
        <4>3. QED BY <3>1, <4>1, <4>2
      <3>5. QED BY <3>2, <3>3, <3>4
    <2>9. CASE Raise(c)
      <3>1. OthersKept(c) /\ call'[c].pc = "unlock" /\ due' = due
        BY <2>9, GotoForgets DEF Raise
      <3>2. step' > 0 \/ 0 \in Tops
        <4>1. \E t \in Tops, owner \in BOOLEAN : step' = NextStep(step, t, owner)
          BY <2>9 DEF Raise
        <4>2. QED BY <1>0, <4>1, NextStepClimbs
      <3>3. \A d \in Calls : call[d].pc \in {"ladder", "raise", "unlock"} => d = c
        BY <2>9 DEF Raise
      <3>4. ASSUME Early' PROVE mark' = "breached" /\ \A d \in Calls : ~Climbing(d)'
        <4>1. Early
          BY <3>1, <3>4
        <4>2. call[c].mark = "breached"
          BY <2>9, <4>1 DEF Raise
        <4>3. mark' = "breached"
          BY <2>9, <4>2 DEF Raise, MergeMark
        <4>4. \A d \in Calls : Climbing(d) => call[d].op = "sweep"
          BY <4>1
        <4>5. QED BY <2>9, <3>1, <4>3, <4>4 DEF Raise
      <3>5. ASSUME NEW d \in Calls, At(d, "assign")' PROVE call'[d].step = 0
        <4>1. d # c /\ At(d, "assign") /\ Early /\ call'[d] = call[d]
          BY <3>1, <3>5
        <4>2. step = 0
          BY <1>0, <2>9, <4>1 DEF Raise
        <4>3. QED BY <4>1, <4>2
      <3>6. QED BY <3>1, <3>2, <3>3, <3>4, <3>5
    <2>10. CASE Unlock(c)
      BY <2>10, LeaveForgets DEF Unlock, row
    <2>11. CASE Checkpoint(c)
      <3>1. /\ OthersKept(c) /\ UNCHANGED <<step, due>>
            /\ call'[c].pc \in {"climb", "last"} /\ mark' \in {mark, call[c].kind}
        BY <2>11, GotoForgets, LeaveForgets DEF Checkpoint
      <3>2. CASE mark' = mark /\ call'[c].pc = "last"
        BY <2>11, <3>1, <3>2 DEF Checkpoint
      <3>3. CASE call[c].kind # "breached"
        <4>1. mark # "breached" /\ call'[c].pc = "last"
          BY <2>11, <3>3, LeaveForgets DEF Checkpoint, ClockInv
        <4>2. QED BY <2>11, <3>1, <4>1 DEF Checkpoint
      <3>4. CASE call[c].kind = "breached" /\ mark # "breached"
        <4>1. mark' = "breached" /\ call'[c].pc = "climb"
          BY <2>11, <3>4, GotoForgets DEF Checkpoint
        <4>2. Early => step = 0 /\ \A d \in Calls : ~Climbing(d)
          BY <1>0, <3>4
        <4>3. Early' => Early
          BY <3>1
        <4>4. QED BY <2>11, <3>1, <4>1, <4>2, <4>3 DEF Checkpoint
      <3>5. CASE call[c].kind = "breached" /\ mark = "breached"
        BY <2>11, <3>1, <3>2, <3>5, LeaveForgets DEF Checkpoint
      <3>6. QED BY <3>3, <3>4, <3>5
    <2>12. CASE OpenTakeover(c) \/ ReleaseTakeover(c)
      BY <2>12, EndForgets DEF OpenTakeover, ReleaseTakeover
    <2>13. CASE RecordHumanOutbound(c)
      BY <2>13, GotoForgets, EndForgets DEF RecordHumanOutbound
    <2>14. CASE ReadReferences(c)
      <3>1. At(c, "refer") /\ UNCHANGED <<step, mark, due>>
        BY <2>14 DEF ReadReferences, row
      <3>2. OthersKept(c) /\ call'[c].pc = "store"
        BY <2>14, ReferencesTakes
      <3>3. QED BY <3>1, <3>2
    <2>15. CASE PersistReferences(c)
      <3>1. mark' = mark
        BY <1>1, <2>15, NothingUndone DEF PersistReferences
      <3>2. At(c, "store") /\ UNCHANGED <<step, due>>
        BY <2>15 DEF PersistReferences
      <3>3. OthersKept(c) /\ call'[c].pc \in {"upsert", "refer", "last"}
        BY <2>15, GotoForgets, LeaveForgets DEF PersistReferences
      <3>4. QED BY <3>1, <3>2, <3>3
    <2>16. CASE TransitionConflict(c)
      <3>1. Early /\ UNCHANGED <<step, mark>>
        BY <2>16 DEF TransitionConflict, row
      <3>2. OthersKept(c) /\ call'[c].pc = "idle"
        BY <2>16, EndForgets DEF TransitionConflict
      <3>3. QED BY <3>1, <3>2
    <2>17. CASE StartReminder(c)
      BY <2>17, BeginSets DEF StartReminder, row
    <2>18. CASE ReadNudge(c)
      <3>1. At(c, "remind") /\ UNCHANGED <<step, mark, due>>
        BY <2>18 DEF ReadNudge, row
      <3>2. OthersKept(c) /\ call'[c].pc = "nudge"
        BY <2>18, ReadTakes DEF ReadNudge
      <3>3. QED BY <3>1, <3>2
    <2>19. CASE RecordNudge(c)
      <3>1. step' = step
        BY <1>1, <2>19, NothingUndone DEF RecordNudge
      <3>2. QED BY <2>19, <3>1, EndForgets DEF RecordNudge
    <2>20. QED
      BY <1>1, <2>1, <2>2, <2>3, <2>4, <2>5, <2>6, <2>7, <2>8, <2>9, <2>10, <2>11, <2>12, <2>13,
         <2>14, <2>15, <2>16, <2>17, <2>18, <2>19 DEF Advance
  <1>2. CASE RouteElsewhere \/ TimePasses \/ UNCHANGED vars
    BY <1>2 DEF RouteElsewhere, TimePasses, vars, row
  <1>3. QED BY <1>1, <1>2 DEF SmoothStep

\* Each escalation counts, and a recorded breach is one of them.
ClimbInv ==
  /\ climbs > step => \E t \in Tops : t <= step
  /\ breached => step > 0 \/ 0 \in Tops \/ \E c \in Calls : Climbing(c)

LEMMA NextClimb ==
  ASSUME RowType, CallInv, StepInv, ClimbInv, SmoothStep
  PROVE  ClimbInv'
  <1> USE DEF CallInv, StepInv, ClimbInv, At, Climbing, OthersKept
  <1>0. step \in 0..Top /\ climbs \in Nat
    BY DEF RowType
  <1>1. ASSUME NEW c \in Calls, Advance(c), UNCHANGED <<undone, faults>> PROVE ClimbInv'
    <2>1. CASE StartRoute(c) \/ StartSweep(c) \/ StartTakeover(c) \/ StartSend(c)
      <3>1. UNCHANGED <<step, climbs, breached>>
        BY <2>1 DEF StartRoute, StartSweep, StartTakeover, StartSend, row
      <3>2. \A d \in Calls : Climbing(d) => Climbing(d)'
        BY <2>1, BeginSets DEF StartRoute, StartSweep, StartTakeover, StartSend
      <3>3. QED BY <3>1, <3>2
    <2>2. CASE Finish(c) \/ Upsert(c)
      BY <2>2, EndForgets, GotoForgets DEF Finish, Upsert, row
    <2>3. CASE Assign(c)
      <3>1. step' = step /\ UNCHANGED <<climbs, breached>>
        BY <2>3 DEF Assign, MergeStale
      <3>2. \A d \in Calls : Climbing(d) => Climbing(d)'
        BY <2>3, LeaveForgets DEF Assign
      <3>3. QED BY <3>1, <3>2
    <2>4. CASE Pick(c)
      BY <2>4, ReadTakes, GotoForgets, LeaveForgets DEF Pick, row
    <2>5. CASE Lock(c)
      BY <2>5, GotoForgets DEF Lock, row
    <2>6. CASE LockBusy(c)
      <3>1. PICK d \in Calls : lock = d
        BY <2>6 DEF LockBusy, RowType
      <3>2. Climbing(d) \/ step > 0 \/ 0 \in Tops
        BY <3>1
      <3>3. d # c /\ OthersKept(c) /\ UNCHANGED <<step, climbs, breached>>
        BY <2>6, <3>1, LeaveForgets DEF LockBusy, row
      <3>4. QED BY <3>2, <3>3
    <2>7. CASE Ladder(c)
      <3>1. UNCHANGED <<step, climbs, breached>>
        BY <2>7 DEF Ladder, row
      <3>2. PICK t \in Tops, owner \in BOOLEAN :
              \/ Take(c, "raise", NextStep(step, t, owner))
              \/ NextStep(step, t, owner) = step /\ Goto(c, "unlock")
        BY <2>7 DEF Ladder
      <3>3. CASE Take(c, "raise", NextStep(step, t, owner))
        BY <3>1, <3>3, TakeTakes
      <3>4. CASE NextStep(step, t, owner) = step /\ Goto(c, "unlock")
        <4>1. step > 0 \/ 0 \in Tops
          BY <1>0, <3>4, NextStepClimbs
        <4>2. QED BY <3>1, <4>1
      <3>5. QED BY <3>2, <3>3, <3>4
    <2>8. CASE Raise(c)
      <3>1. PICK t \in Tops, owner \in BOOLEAN : step' = NextStep(step, t, owner)
        BY <2>8 DEF Raise
      <3>2. (step' = step + 1 \/ t <= step') /\ (step' > 0 \/ 0 \in Tops)
        BY <1>0, <3>1, NextStepClimbs
      <3>3. climbs' = climbs + 1
        BY <2>8 DEF Raise
      <3>4. climbs' > step' => \E u \in Tops : u <= step'
        <4>1. CASE t <= step'
          BY <4>1
        <4>2. CASE step' = step + 1
          <5>1. climbs' > step' => \E u \in Tops : u <= step
            BY <1>0, <3>3, <4>2
          <5>2. \A u \in Tops : u <= step => u <= step'
            BY <1>0, <4>2
          <5>3. QED BY <5>1, <5>2
        <4>3. QED BY <3>2, <4>1, <4>2
      <3>5. QED BY <3>2, <3>4
    <2>9. CASE Unlock(c)
      BY <2>9, LeaveForgets DEF Unlock, row
    <2>10. CASE Checkpoint(c)
      <3>1. UNCHANGED <<step, climbs>>
        BY <2>10 DEF Checkpoint
      <3>2. \A d \in Calls : Climbing(d) => Climbing(d)'
        BY <2>10, GotoForgets, LeaveForgets DEF Checkpoint
      <3>3. breached' => breached \/ Climbing(c)'
        BY <2>10, GotoForgets DEF Checkpoint
      <3>4. QED BY <3>1, <3>2, <3>3
    <2>11. CASE OpenTakeover(c) \/ ReleaseTakeover(c)
      BY <2>11, EndForgets DEF OpenTakeover, ReleaseTakeover
    <2>12. CASE RecordHumanOutbound(c)
      BY <2>12, GotoForgets, EndForgets DEF RecordHumanOutbound
    <2>13. CASE ReadReferences(c) \/ PersistReferences(c) \/ TransitionConflict(c)
      <3>1. ~Climbing(c) /\ UNCHANGED <<step, climbs, breached>>
        BY <2>13 DEF ReadReferences, PersistReferences, TransitionConflict, row
      <3>2. OthersKept(c)
        BY <2>13, ReferencesTakes, GotoForgets, LeaveForgets, EndForgets
        DEF PersistReferences, TransitionConflict
      <3>3. QED BY <3>1, <3>2
    <2>14. CASE StartReminder(c)
      BY <2>14, BeginSets DEF StartReminder, row
    <2>15. CASE ReadNudge(c)
      BY <2>15, ReadTakes DEF ReadNudge, row
    <2>16. CASE RecordNudge(c)
      <3>1. step' = step
        BY <1>1, <2>16, NothingUndone DEF RecordNudge
      <3>2. QED BY <2>16, <3>1, EndForgets DEF RecordNudge
    <2>17. QED
      BY <1>1, <2>1, <2>2, <2>3, <2>4, <2>5, <2>6, <2>7, <2>8, <2>9, <2>10, <2>11, <2>12,
         <2>13, <2>14, <2>15, <2>16 DEF Advance
  <1>2. CASE RouteElsewhere \/ TimePasses \/ UNCHANGED vars
    BY <1>2 DEF RouteElsewhere, TimePasses, vars, row
  <1>3. QED BY <1>1, <1>2 DEF SmoothStep

\* While nothing has gone wrong.
SmoothInv == faults = 0 /\ undone = 0 => CallInv /\ ClockInv /\ StepInv /\ ClimbInv

LEMMA InitSmooth == Init => SmoothInv
  BY DEF Init, SmoothInv, CallInv, ClockInv, StepInv, ClimbInv, Climbing, Early, At, Idle

LEMMA NextSmooth == RowType /\ SmoothInv /\ [Next]_vars => SmoothInv'
  <1> SUFFICES ASSUME RowType, SmoothInv, [Next]_vars, faults' = 0, undone' = 0
               PROVE  CallInv' /\ ClockInv' /\ StepInv' /\ ClimbInv'
    BY DEF SmoothInv
  <1>1. CallInv /\ ClockInv /\ StepInv /\ ClimbInv
    BY Smooth DEF SmoothInv
  <1>2. SmoothStep
    BY <1>1, NoFault
  <1>3. QED BY <1>1, <1>2, NextCall, NextClock, NextStepInv, NextClimb

\* Without a fault and until a stale write undoes an update, escalations that
\* meet add up and no recorded breach goes without one, for any number of calls,
\* reminders among them, and for rules with ladders of any heights.
THEOREM DeskEscalationsAddUp == Spec => []EscalationsAddUp
  <1>1. SmoothInv => EscalationsAddUp
    BY DEF SmoothInv, ClimbInv, EscalationsAddUp, Climbing, At
  <1>2. QED
    BY <1>1, InitSmooth, NextSmooth, TypeInvariant, PTL DEF Spec

=============================================================================
