------------------------- MODULE EventOutboxProofs -------------------------
EXTENDS EventOutbox, FiniteSetTheorems, TLAPS

USE OutboxAssumption

-----------------------------------------------------------------------------
(* Type correctness *)

FlagType ==
  /\ stalled \in BOOLEAN /\ letter \in BOOLEAN /\ open \in BOOLEAN
  /\ due \in BOOLEAN /\ accepted \in BOOLEAN
  /\ buried \in BOOLEAN /\ parallel \in BOOLEAN

RestType ==
  /\ row \in [created : BOOLEAN, published : BOOLEAN, failed : BOOLEAN]
  /\ checkpoints \subseteq Consumer
  /\ effects \in [Consumer -> Nat]
  /\ job \in {"absent", "waiting", "active", "done", "failed"}
  /\ made \in 0..Attempts
  /\ holder \in Slots \cup {None}
  /\ task \in [Slots -> {None, "publish", "local", "job"}]
  /\ pc \in [Slots -> Await \cup {"idle", "finish", "throw"}]
  /\ at \in [Slots -> 1..(Consumers + 1)]
  /\ errors \in 0..MaxFaults /\ lost \in 0..MaxFaults
  /\ outages \in 0..MaxFaults /\ reruns \in 0..MaxFaults

\* The job is active while a slot holds its lock, and has attempts left until
\* it ends.
JobOf ==
  /\ holder # None <=> job = "active"
  /\ job \in {"absent", "waiting", "active"} => made < Attempts

\* What a slot runs says where it can be; a run has checkpoints behind it.
SlotOf(s) ==
  /\ pc[s] = "idle" <=> task[s] = None
  /\ pc[s] \in {"find", "create", "refind", "dispatch"} => task[s] = "publish"
  /\ pc[s] \in {"seen", "handle", "mark", "publish", "finish"} => Runs(s)
  /\ ~Runs(s) => at[s] = 1
  /\ \A c \in Consumer : c < at[s] => c \in checkpoints
  /\ pc[s] \in {"handle", "mark"} => at[s] <= Consumers
  /\ pc[s] \in {"publish", "finish"} => at[s] > Consumers
  /\ holder = s => task[s] = "job"

SlotInv == \A s \in Slots : SlotOf(s)

LEMMA NextFlags == FlagType /\ [Next]_vars => FlagType'
  <1> SUFFICES ASSUME FlagType, [Next]_vars PROVE FlagType'
    OBVIOUS
  <1> USE DEF FlagType, record, bull, caller, worker, counts, past
  <1>1. ASSUME NEW s \in Slots, Start(s) PROVE FlagType'
    BY <1>1, Zenon DEF Start, Runs
  <1>2. ASSUME NEW s \in Slots, Find(s) PROVE FlagType'
    BY <1>2, Zenon DEF Find, Runs
  <1>3. ASSUME NEW s \in Slots, Create(s) PROVE FlagType'
    BY <1>3, Zenon DEF Create, Runs
  <1>4. ASSUME NEW s \in Slots, Refind(s) PROVE FlagType'
    BY <1>4, Zenon DEF Refind, Runs
  <1>5. ASSUME NEW s \in Slots, Enqueue(s) PROVE FlagType'
    BY <1>5, Zenon DEF Enqueue, Add, Vacate, Runs
  <1>6. ASSUME NEW s \in Slots, DispatchLocally(s) PROVE FlagType'
    <2>1. parallel' \in BOOLEAN
      BY <1>6, Zenon DEF DispatchLocally, Begin
    <2>2. QED BY <1>6, <2>1, Zenon DEF DispatchLocally
  <1>7. ASSUME NEW s \in Slots, Take(s) PROVE FlagType'
    <2>1. parallel' \in BOOLEAN
      BY <1>7, Zenon DEF Take, Begin
    <2>2. QED BY <1>7, <2>1, Zenon DEF Take
  <1>8. ASSUME NEW s \in Slots, Seen(s) PROVE FlagType'
    BY <1>8, Zenon DEF Seen, Runs
  <1>9. ASSUME NEW s \in Slots, Handle(s) PROVE FlagType'
    BY <1>9, Zenon DEF Handle, Runs
  <1>10. ASSUME NEW s \in Slots, Mark(s) PROVE FlagType'
    BY <1>10, Zenon DEF Mark, Runs
  <1>11. ASSUME NEW s \in Slots, MarkPublished(s) PROVE FlagType'
    BY <1>11, Zenon DEF MarkPublished, Runs
  <1>12. ASSUME NEW s \in Slots, Finish(s) PROVE FlagType'
    <2>1. accepted' \in BOOLEAN
      BY <1>12, Zenon DEF Finish
    <2>2. QED BY <1>12, <2>1, Zenon DEF Finish
  <1>13. ASSUME NEW s \in Slots, MarkFailed(s) PROVE FlagType'
    BY <1>13, Zenon DEF MarkFailed, Runs
  <1>14. ASSUME NEW s \in Slots, ThrowToCaller(s) PROVE FlagType'
    <2>1. due' \in BOOLEAN
      BY <1>14, Zenon DEF ThrowToCaller
    <2>2. QED BY <1>14, <2>1, Zenon DEF ThrowToCaller
  <1>15. ASSUME NEW s \in Slots, Throw(s) PROVE FlagType'
    <2>1. CASE holder # s
      BY <1>15, <2>1, Zenon DEF Throw
    <2>2. CASE holder = s /\ made + 1 < Attempts
      BY <1>15, <2>2, Zenon DEF Throw
    <2>3. CASE holder = s /\ ~(made + 1 < Attempts)
      <3>1. UNCHANGED <<stalled, open, due, accepted, parallel>> /\ buried' = TRUE
        BY <1>15, <2>3, Zenon DEF Throw, caller
      <3>2. letter' = (letter \/ ~open) \/ letter' = letter
        BY <1>15, <2>3, Zenon DEF Throw
      <3>3. (letter \/ ~open) \in BOOLEAN
        BY Zenon
      <3>4. QED BY <3>1, <3>2, <3>3, Zenon
    <2>4. QED BY <2>1, <2>2, <2>3, Zenon
  <1>16. ASSUME NEW s \in Slots, AddFails(s) PROVE FlagType'
    BY <1>16, Zenon DEF AddFails, Add, Runs
  <1>17. ASSUME NEW s \in Slots, Fails(s) PROVE FlagType'
    <2>1. due' \in BOOLEAN
      BY <1>17, Zenon DEF Fails
    <2>2. QED BY <1>17, <2>1, Zenon DEF Fails
  <1>18. ASSUME NEW s \in Slots, Crash(s) PROVE FlagType'
    <2>1. due' \in BOOLEAN
      BY <1>18, Zenon DEF Crash
    <2>2. buried' \in BOOLEAN /\ stalled' \in BOOLEAN
      <3>1. CASE holder = s
        BY <1>18, <3>1, Zenon DEF Crash, LoseLock
      <3>2. CASE holder # s
        BY <1>18, <3>2, Zenon DEF Crash
      <3>3. QED BY <3>1, <3>2, Zenon
    <2>3. QED BY <1>18, <2>1, <2>2, Zenon DEF Crash
  <1>19. ASSUME NEW s \in Slots, Stall(s) PROVE FlagType'
    <2>1. buried' \in BOOLEAN
      BY <1>19, Zenon DEF Stall, LoseLock
    <2>2. QED BY <1>19, <2>1, Zenon DEF Stall, LoseLock
  <1>20. CASE PublishAgain
    BY <1>20, Zenon DEF PublishAgain, Runs
  <1>21. CASE CircuitOpens
    BY <1>21, Zenon DEF CircuitOpens, Runs
  <1>22. CASE CircuitCloses
    BY <1>22, Zenon DEF CircuitCloses, Runs
  <1>23. CASE Forget
    BY <1>23, Zenon DEF Forget, Runs
  <1>24. CASE UNCHANGED vars
    BY <1>24 DEF vars
  <1>25. QED
    BY <1>1, <1>2, <1>3, <1>4, <1>5, <1>6, <1>7, <1>8, <1>9, <1>10, <1>11, <1>12, <1>13,
       <1>14, <1>15, <1>16, <1>17, <1>18, <1>19, <1>20, <1>21, <1>22, <1>23, <1>24 DEF Next,
       Publish, Run

LEMMA NextRest == RestType /\ JobOf /\ SlotInv /\ [Next]_vars => RestType'
  <1> SUFFICES ASSUME RestType, JobOf, SlotInv, [Next]_vars PROVE RestType'
    OBVIOUS
  <1>s. \A s \in Slots : pc[s] \in {"handle", "mark"} => at[s] <= Consumers
    BY DEF SlotInv, SlotOf
  <1> USE <1>s
        DEF RestType, Await, Consumer, Goto, Step, faults, record, bull, caller, worker, counts,
            past
  <1>1. ASSUME NEW s \in Slots, Start(s) PROVE RestType'
    BY <1>1 DEF Start
  <1>2. ASSUME NEW s \in Slots, Find(s) PROVE RestType'
    BY <1>2 DEF Find
  <1>3. ASSUME NEW s \in Slots, Create(s) PROVE RestType'
    BY <1>3 DEF Create
  <1>4. ASSUME NEW s \in Slots, Refind(s) PROVE RestType'
    BY <1>4 DEF Refind
  <1>5. ASSUME NEW s \in Slots, Enqueue(s) PROVE RestType'
    BY <1>5 DEF Enqueue, Add, Vacate
  <1>6. ASSUME NEW s \in Slots, DispatchLocally(s) PROVE RestType'
    <2>1. task' \in [Slots -> {None, "publish", "local", "job"}]
      BY <1>6 DEF DispatchLocally, Begin
    <2>2. QED BY <1>6, <2>1 DEF DispatchLocally
  <1>7. ASSUME NEW s \in Slots, Take(s) PROVE RestType'
    <2>1. task' \in [Slots -> {None, "publish", "local", "job"}]
      BY <1>7 DEF Take, Begin
    <2>2. QED BY <1>7, <2>1 DEF Take
  <1>8. ASSUME NEW s \in Slots, Seen(s) PROVE RestType'
    <2>1. CASE at[s] \in checkpoints
      BY <1>8, <2>1 DEF Seen
    <2>2. CASE at[s] \notin checkpoints
      BY <1>8, <2>2 DEF Seen
    <2>3. QED BY <2>1, <2>2
  <1>9. ASSUME NEW s \in Slots, Handle(s) PROVE RestType'
    BY <1>9 DEF Handle
  <1>10. ASSUME NEW s \in Slots, Mark(s) PROVE RestType'
    <2>1. at[s] \in Consumer
      BY <1>10 DEF Mark
    <2>2. checkpoints' \subseteq Consumer
      BY <1>10, <2>1 DEF Mark
    <2>3. at' \in [Slots -> 1..(Consumers + 1)]
      BY <1>10, <2>1 DEF Mark
    <2>4. QED BY <1>10, <2>2, <2>3 DEF Mark
  <1>11. ASSUME NEW s \in Slots, MarkPublished(s) PROVE RestType'
    BY <1>11 DEF MarkPublished
  <1>12. ASSUME NEW s \in Slots, Finish(s) PROVE RestType'
    BY <1>12 DEF Finish, Vacate
  <1>13. ASSUME NEW s \in Slots, MarkFailed(s) PROVE RestType'
    BY <1>13 DEF MarkFailed
  <1>14. ASSUME NEW s \in Slots, ThrowToCaller(s) PROVE RestType'
    BY <1>14 DEF ThrowToCaller, Vacate, Told
  <1>15. ASSUME NEW s \in Slots, Throw(s) PROVE RestType'
    <2>1. /\ task' \in [Slots -> {None, "publish", "local", "job"}]
          /\ pc' \in [Slots -> Await \cup {"idle", "finish", "throw"}]
          /\ at' \in [Slots -> 1..(Consumers + 1)]
      BY <1>15 DEF Throw, Vacate
    <2>2. UNCHANGED <<row, checkpoints, effects, lost, outages, reruns>>
      BY <1>15 DEF Throw
    <2>3. made' \in 0..Attempts
      BY <1>15 DEF Throw, JobOf
    <2>4. /\ holder' \in Slots \cup {None}
          /\ job' \in {"absent", "waiting", "active", "done", "failed"}
      BY <1>15 DEF Throw
    <2>5. errors' \in 0..MaxFaults
      BY <1>15 DEF Throw
    <2>6. QED BY <2>1, <2>2, <2>3, <2>4, <2>5
  <1>16. ASSUME NEW s \in Slots, AddFails(s) PROVE RestType'
    BY <1>16 DEF AddFails, Add
  <1>17. ASSUME NEW s \in Slots, Fails(s) PROVE RestType'
    <2>1. /\ row' \in [created : BOOLEAN, published : BOOLEAN, failed : BOOLEAN]
          /\ effects' \in [Consumer -> Nat] /\ checkpoints' \subseteq Consumer
      <3>1. CASE UNCHANGED record
        BY <3>1
      <3>2. CASE row' = [row EXCEPT !.created = TRUE] /\ UNCHANGED <<checkpoints, effects>>
        BY <3>2
      <3>3. CASE /\ pc[s] = "handle" /\ effects' = [effects EXCEPT ![at[s]] = @ + 1]
                 /\ UNCHANGED <<row, checkpoints>>
        <4>1. at[s] \in Consumer
          BY <3>3
        <4>2. QED BY <3>3, <4>1
      <3>4. QED BY <1>17, <3>1, <3>2, <3>3 DEF Fails
    <2>2. pc' \in [Slots -> Await \cup {"idle", "finish", "throw"}]
      BY <1>17 DEF Fails
    <2>3. errors' \in 0..MaxFaults
      BY <1>17 DEF Fails
    <2>4. QED BY <1>17, <2>1, <2>2, <2>3 DEF Fails
  <1>18. ASSUME NEW s \in Slots, Crash(s) PROVE RestType'
    <2>1. /\ task' \in [Slots -> {None, "publish", "local", "job"}]
          /\ pc' \in [Slots -> Await \cup {"idle", "finish", "throw"}]
          /\ at' \in [Slots -> 1..(Consumers + 1)]
      BY <1>18 DEF Crash, Vacate
    <2>2. UNCHANGED <<row, checkpoints, effects, made, errors, outages, reruns>>
      BY <1>18 DEF Crash
    <2>3. /\ holder' \in Slots \cup {None}
          /\ job' \in {"absent", "waiting", "active", "done", "failed"}
      BY <1>18 DEF Crash, LoseLock
    <2>4. lost' \in 0..MaxFaults
      BY <1>18 DEF Crash
    <2>5. QED BY <2>1, <2>2, <2>3, <2>4
  <1>19. ASSUME NEW s \in Slots, Stall(s) PROVE RestType'
    BY <1>19 DEF Stall, LoseLock
  <1>20. CASE PublishAgain
    BY <1>20 DEF PublishAgain
  <1>21. CASE CircuitOpens
    BY <1>21 DEF CircuitOpens
  <1>22. CASE CircuitCloses
    BY <1>22 DEF CircuitCloses
  <1>23. CASE Forget
    BY <1>23 DEF Forget
  <1>24. CASE UNCHANGED vars
    BY <1>24 DEF vars
  <1>25. QED
    BY <1>1, <1>2, <1>3, <1>4, <1>5, <1>6, <1>7, <1>8, <1>9, <1>10, <1>11, <1>12, <1>13,
       <1>14, <1>15, <1>16, <1>17, <1>18, <1>19, <1>20, <1>21, <1>22, <1>23, <1>24 DEF Next,
       Publish, Run

LEMMA NextJobs == RestType /\ JobOf /\ SlotInv /\ [Next]_vars => JobOf'
  <1> SUFFICES ASSUME RestType, JobOf, SlotInv, [Next]_vars PROVE JobOf'
    OBVIOUS
  <1>t. /\ job \in {"absent", "waiting", "active", "done", "failed"} /\ made \in 0..Attempts
        /\ None \notin Slots
    BY DEF RestType
  <1> USE <1>t DEF JobOf, Goto, Step, bull
  <1>1. ASSUME NEW s \in Slots, Start(s) PROVE JobOf'
    BY <1>1 DEF Start
  <1>2. ASSUME NEW s \in Slots, Find(s) PROVE JobOf'
    BY <1>2 DEF Find
  <1>3. ASSUME NEW s \in Slots, Create(s) PROVE JobOf'
    BY <1>3 DEF Create
  <1>4. ASSUME NEW s \in Slots, Refind(s) PROVE JobOf'
    BY <1>4 DEF Refind
  <1>5. ASSUME NEW s \in Slots, Enqueue(s) PROVE JobOf'
    BY <1>5 DEF Enqueue, Add, Vacate
  <1>6. ASSUME NEW s \in Slots, DispatchLocally(s) PROVE JobOf'
    BY <1>6 DEF DispatchLocally, Begin
  <1>7. ASSUME NEW s \in Slots, Take(s) PROVE JobOf'
    BY <1>7 DEF Take, Begin
  <1>8. ASSUME NEW s \in Slots, Seen(s) PROVE JobOf'
    BY <1>8 DEF Seen
  <1>9. ASSUME NEW s \in Slots, Handle(s) PROVE JobOf'
    BY <1>9 DEF Handle
  <1>10. ASSUME NEW s \in Slots, Mark(s) PROVE JobOf'
    BY <1>10 DEF Mark
  <1>11. ASSUME NEW s \in Slots, MarkPublished(s) PROVE JobOf'
    BY <1>11 DEF MarkPublished
  <1>12. ASSUME NEW s \in Slots, Finish(s) PROVE JobOf'
    BY <1>12 DEF Finish, Vacate
  <1>13. ASSUME NEW s \in Slots, MarkFailed(s) PROVE JobOf'
    BY <1>13 DEF MarkFailed
  <1>14. ASSUME NEW s \in Slots, ThrowToCaller(s) PROVE JobOf'
    BY <1>14 DEF ThrowToCaller, Vacate, Told
  <1>15. ASSUME NEW s \in Slots, Throw(s) PROVE JobOf'
    BY <1>15 DEF Throw, Vacate
  <1>16. ASSUME NEW s \in Slots, AddFails(s) PROVE JobOf'
    BY <1>16 DEF AddFails, Add
  <1>17. ASSUME NEW s \in Slots, Fails(s) PROVE JobOf'
    BY <1>17 DEF Fails, Told
  <1>18. ASSUME NEW s \in Slots, Crash(s) PROVE JobOf'
    BY <1>18 DEF Crash, Vacate, Told, LoseLock
  <1>19. ASSUME NEW s \in Slots, Stall(s) PROVE JobOf'
    BY <1>19 DEF Stall, LoseLock
  <1>20. CASE PublishAgain
    BY <1>20 DEF PublishAgain
  <1>21. CASE CircuitOpens
    BY <1>21 DEF CircuitOpens
  <1>22. CASE CircuitCloses
    BY <1>22 DEF CircuitCloses
  <1>23. CASE Forget
    BY <1>23 DEF Forget
  <1>24. CASE UNCHANGED vars
    BY <1>24 DEF vars
  <1>25. QED
    BY <1>1, <1>2, <1>3, <1>4, <1>5, <1>6, <1>7, <1>8, <1>9, <1>10, <1>11, <1>12, <1>13,
       <1>14, <1>15, <1>16, <1>17, <1>18, <1>19, <1>20, <1>21, <1>22, <1>23, <1>24 DEF Next,
       Publish, Run

LEMMA NextSlots == RestType /\ JobOf /\ SlotInv /\ [Next]_vars => SlotInv'
  <1> SUFFICES ASSUME RestType, JobOf, SlotInv, [Next]_vars, NEW r \in Slots PROVE SlotOf(r)'
    BY DEF SlotInv
  <1>t. /\ task \in [Slots -> {None, "publish", "local", "job"}]
        /\ pc \in [Slots -> Await \cup {"idle", "finish", "throw"}]
        /\ at \in [Slots -> 1..(Consumers + 1)]
        /\ effects \in [Consumer -> Nat] /\ checkpoints \subseteq Consumer
        /\ holder \in Slots \cup {None}
        /\ job \in {"absent", "waiting", "active", "done", "failed"}
    BY DEF RestType
  <1>i. \A s \in Slots : SlotOf(s)
    BY DEF SlotInv
  <1> USE <1>t, <1>i
        DEF SlotOf, Runs, Consumer, Await, JobOf, Goto, Step, record, bull, caller, worker, counts
  <1>1. ASSUME NEW s \in Slots, Start(s) PROVE SlotOf(r)'
    BY <1>1 DEF Start
  <1>2. ASSUME NEW s \in Slots, Find(s) PROVE SlotOf(r)'
    BY <1>2 DEF Find
  <1>3. ASSUME NEW s \in Slots, Create(s) PROVE SlotOf(r)'
    BY <1>3 DEF Create
  <1>4. ASSUME NEW s \in Slots, Refind(s) PROVE SlotOf(r)'
    BY <1>4 DEF Refind
  <1>5. ASSUME NEW s \in Slots, Enqueue(s) PROVE SlotOf(r)'
    BY <1>5 DEF Enqueue, Add, Vacate
  <1>6. ASSUME NEW s \in Slots, DispatchLocally(s) PROVE SlotOf(r)'
    BY <1>6 DEF DispatchLocally, Begin
  <1>7. ASSUME NEW s \in Slots, Take(s) PROVE SlotOf(r)'
    <2>1. CASE r = s
      BY <1>7, <2>1 DEF Take, Begin
    <2>2. CASE r # s
      BY <1>7, <2>2 DEF Take, Begin
    <2>3. QED BY <2>1, <2>2
  <1>8. ASSUME NEW s \in Slots, Seen(s) PROVE SlotOf(r)'
    <2>1. CASE r = s
      BY <1>8, <2>1 DEF Seen
    <2>2. CASE r # s
      BY <1>8, <2>2 DEF Seen
    <2>3. QED BY <2>1, <2>2
  <1>9. ASSUME NEW s \in Slots, Handle(s) PROVE SlotOf(r)'
    BY <1>9 DEF Handle
  <1>10. ASSUME NEW s \in Slots, Mark(s) PROVE SlotOf(r)'
    <2>1. CASE r = s
      BY <1>10, <2>1 DEF Mark
    <2>2. CASE r # s
      BY <1>10, <2>2 DEF Mark
    <2>3. QED BY <2>1, <2>2
  <1>11. ASSUME NEW s \in Slots, MarkPublished(s) PROVE SlotOf(r)'
    BY <1>11 DEF MarkPublished
  <1>12. ASSUME NEW s \in Slots, Finish(s) PROVE SlotOf(r)'
    <2>1. CASE r = s
      BY <1>12, <2>1 DEF Finish, Vacate
    <2>2. CASE r # s
      BY <1>12, <2>2 DEF Finish, Vacate
    <2>3. QED BY <2>1, <2>2
  <1>13. ASSUME NEW s \in Slots, MarkFailed(s) PROVE SlotOf(r)'
    BY <1>13 DEF MarkFailed
  <1>14. ASSUME NEW s \in Slots, ThrowToCaller(s) PROVE SlotOf(r)'
    BY <1>14 DEF ThrowToCaller, Vacate, Told
  <1>15. ASSUME NEW s \in Slots, Throw(s) PROVE SlotOf(r)'
    <2>1. CASE r = s
      BY <1>15, <2>1 DEF Throw, Vacate
    <2>2. CASE r # s
      BY <1>15, <2>2 DEF Throw, Vacate
    <2>3. QED BY <2>1, <2>2
  <1>16. ASSUME NEW s \in Slots, AddFails(s) PROVE SlotOf(r)'
    BY <1>16 DEF AddFails, Add
  <1>17. ASSUME NEW s \in Slots, Fails(s) PROVE SlotOf(r)'
    <2>1. CASE r = s
      BY <1>17, <2>1 DEF Fails, Told
    <2>2. CASE r # s
      BY <1>17, <2>2 DEF Fails, Told
    <2>3. QED BY <2>1, <2>2
  <1>18. ASSUME NEW s \in Slots, Crash(s) PROVE SlotOf(r)'
    <2>1. CASE r = s
      BY <1>18, <2>1 DEF Crash, Vacate, Told, LoseLock
    <2>2. CASE r # s
      BY <1>18, <2>2 DEF Crash, Vacate, Told, LoseLock
    <2>3. QED BY <2>1, <2>2
  <1>19. ASSUME NEW s \in Slots, Stall(s) PROVE SlotOf(r)'
    BY <1>19 DEF Stall, LoseLock
  <1>20. CASE PublishAgain
    BY <1>20 DEF PublishAgain
  <1>21. CASE CircuitOpens
    BY <1>21 DEF CircuitOpens
  <1>22. CASE CircuitCloses
    BY <1>22 DEF CircuitCloses
  <1>23. CASE Forget
    BY <1>23 DEF Forget
  <1>24. CASE UNCHANGED vars
    BY <1>24 DEF vars
  <1>25. QED
    BY <1>1, <1>2, <1>3, <1>4, <1>5, <1>6, <1>7, <1>8, <1>9, <1>10, <1>11, <1>12, <1>13,
       <1>14, <1>15, <1>16, <1>17, <1>18, <1>19, <1>20, <1>21, <1>22, <1>23, <1>24 DEF Next,
       Publish, Run

-----------------------------------------------------------------------------
(* Handlers behind checkpoints, and behind the mark "published" *)

EffectInv ==
  /\ \A c \in checkpoints : effects[c] >= 1
  /\ \A s \in Slots : pc[s] = "mark" => effects[at[s]] >= 1
  /\ row.published => \A c \in Consumer : effects[c] >= 1

LEMMA NextEffects == RestType /\ SlotInv /\ EffectInv /\ [Next]_vars => EffectInv'
  <1> SUFFICES ASSUME RestType, SlotInv, EffectInv, [Next]_vars PROVE EffectInv'
    OBVIOUS
  <1>t. /\ row \in [created : BOOLEAN, published : BOOLEAN, failed : BOOLEAN]
        /\ task \in [Slots -> {None, "publish", "local", "job"}]
        /\ pc \in [Slots -> Await \cup {"idle", "finish", "throw"}]
        /\ at \in [Slots -> 1..(Consumers + 1)]
        /\ effects \in [Consumer -> Nat] /\ checkpoints \subseteq Consumer
        /\ holder \in Slots \cup {None}
        /\ job \in {"absent", "waiting", "active", "done", "failed"}
    BY DEF RestType
  <1>i. \A s \in Slots : SlotOf(s)
    BY DEF SlotInv
  <1> USE <1>t, <1>i
        DEF EffectInv, SlotOf, Runs, Consumer, Goto, Step, record, bull, caller, worker, counts
  <1>1. ASSUME NEW s \in Slots, Start(s) PROVE EffectInv'
    BY <1>1 DEF Start
  <1>2. ASSUME NEW s \in Slots, Find(s) PROVE EffectInv'
    BY <1>2 DEF Find
  <1>3. ASSUME NEW s \in Slots, Create(s) PROVE EffectInv'
    BY <1>3 DEF Create
  <1>4. ASSUME NEW s \in Slots, Refind(s) PROVE EffectInv'
    BY <1>4 DEF Refind
  <1>5. ASSUME NEW s \in Slots, Enqueue(s) PROVE EffectInv'
    BY <1>5 DEF Enqueue, Add, Vacate
  <1>6. ASSUME NEW s \in Slots, DispatchLocally(s) PROVE EffectInv'
    BY <1>6 DEF DispatchLocally, Begin
  <1>7. ASSUME NEW s \in Slots, Take(s) PROVE EffectInv'
    BY <1>7 DEF Take, Begin
  <1>8. ASSUME NEW s \in Slots, Seen(s) PROVE EffectInv'
    BY <1>8 DEF Seen
  <1>9. ASSUME NEW s \in Slots, Handle(s) PROVE EffectInv'
    <2>1. checkpoints' = checkpoints /\ row' = row /\ at' = at
      BY <1>9 DEF Handle
    <2>2. \A c \in Consumer : effects'[c] \in Nat /\ effects'[c] >= effects[c]
      BY <1>9 DEF Handle
    <2>3. effects'[at[s]] >= 1
      BY <1>9 DEF Handle
    <2>4. \A r \in Slots : pc'[r] = "mark" => pc[r] = "mark" \/ r = s
      BY <1>9 DEF Handle
    <2>5. \A r \in Slots : pc[r] = "mark" => at[r] \in Consumer
      OBVIOUS
    <2>6. \A r \in Slots : pc'[r] = "mark" => effects'[at'[r]] >= 1
      BY <2>1, <2>2, <2>3, <2>4, <2>5
    <2>7. QED BY <2>1, <2>2, <2>6
  <1>10. ASSUME NEW s \in Slots, Mark(s) PROVE EffectInv'
    <2>1. /\ checkpoints' = checkpoints \cup {at[s]} /\ row' = row /\ effects' = effects
          /\ effects[at[s]] >= 1
      BY <1>10 DEF Mark
    <2>2. \A r \in Slots : pc'[r] = "mark" => pc[r] = "mark" /\ at'[r] = at[r]
      BY <1>10 DEF Mark
    <2>3. QED BY <2>1, <2>2
  <1>11. ASSUME NEW s \in Slots, MarkPublished(s) PROVE EffectInv'
    <2>1. \A c \in Consumer : c < at[s]
      BY <1>11 DEF MarkPublished
    <2>2. \A c \in Consumer : c \in checkpoints
      BY <2>1
    <2>3. QED BY <1>11, <2>2 DEF MarkPublished
  <1>12. ASSUME NEW s \in Slots, Finish(s) PROVE EffectInv'
    BY <1>12 DEF Finish, Vacate
  <1>13. ASSUME NEW s \in Slots, MarkFailed(s) PROVE EffectInv'
    BY <1>13 DEF MarkFailed
  <1>14. ASSUME NEW s \in Slots, ThrowToCaller(s) PROVE EffectInv'
    BY <1>14 DEF ThrowToCaller, Vacate, Told
  <1>15. ASSUME NEW s \in Slots, Throw(s) PROVE EffectInv'
    BY <1>15 DEF Throw, Vacate
  <1>16. ASSUME NEW s \in Slots, AddFails(s) PROVE EffectInv'
    BY <1>16 DEF AddFails, Add
  <1>17. ASSUME NEW s \in Slots, Fails(s) PROVE EffectInv'
    <2>1. checkpoints' = checkpoints /\ row'.published = row.published /\ at' = at /\ holder' = holder
      BY <1>17 DEF Fails
    <2>2. \A c \in Consumer : effects'[c] \in Nat /\ effects'[c] >= effects[c]
      <3>1. effects' = effects \/ effects' = [effects EXCEPT ![at[s]] = @ + 1]
        BY <1>17, Zenon DEF Fails, record
      <3>2. effects \in [Consumer -> Nat]
        BY <1>t DEF RestType
      <3>3. CASE effects' = effects
        BY <3>2, <3>3
      <3>4. CASE effects' = [effects EXCEPT ![at[s]] = @ + 1]
        BY <3>2, <3>4
      <3>5. QED BY <3>1, <3>3, <3>4
    <2>3. \A r \in Slots : pc'[r] = "mark" => pc[r] = "mark"
      BY <1>17 DEF Fails
    <2>4. QED BY <2>1, <2>2, <2>3
  <1>18. ASSUME NEW s \in Slots, Crash(s) PROVE EffectInv'
    BY <1>18 DEF Crash, Vacate, Told, LoseLock
  <1>19. ASSUME NEW s \in Slots, Stall(s) PROVE EffectInv'
    BY <1>19 DEF Stall, LoseLock
  <1>20. CASE PublishAgain
    BY <1>20 DEF PublishAgain
  <1>21. CASE CircuitOpens
    BY <1>21 DEF CircuitOpens
  <1>22. CASE CircuitCloses
    BY <1>22 DEF CircuitCloses
  <1>23. CASE Forget
    BY <1>23 DEF Forget
  <1>24. CASE UNCHANGED vars
    BY <1>24 DEF vars
  <1>25. QED
    BY <1>1, <1>2, <1>3, <1>4, <1>5, <1>6, <1>7, <1>8, <1>9, <1>10, <1>11, <1>12, <1>13,
       <1>14, <1>15, <1>16, <1>17, <1>18, <1>19, <1>20, <1>21, <1>22, <1>23, <1>24 DEF Next,
       Publish, Run
-----------------------------------------------------------------------------
(* How often a handler does its work *)

\* The run in slot s may still do the work of consumer c without another fault:
\* it is about to, though its checkpoint may be there by now; or it is on its
\* way there, or will be run again.
MayHandle(s, c) ==
  \/ pc[s] = "handle" /\ at[s] = c
  \/ /\ c \notin checkpoints
     /\ \/ task[s] = "publish"
        \/ pc[s] \in {"seen", "handle"}
        \/ pc[s] = "mark" /\ at[s] # c
        \/ pc[s] \in {"fail", "throw"} /\ holder = s

\* So may the AI job, and the event's job in the queue.
MayPublish(c) == c \notin checkpoints /\ due
MayRun(c)     == c \notin checkpoints /\ job = "waiting"

Token == {"done", "slot", "due", "job"} \X (Nat \cup Slots)

\* What was spent of the one effect and of the faults: what consumer c has done,
\* and what may still come.
Spent(c) ==
  {t \in Token :
     \/ t[1] = "done" /\ t[2] \in 1..effects[c]
     \/ t[1] = "slot" /\ t[2] \in Slots /\ MayHandle(t[2], c)
     \/ t[1] = "due" /\ t[2] = 0 /\ MayPublish(c)
     \/ t[1] = "job" /\ t[2] = 0 /\ MayRun(c)}

Fits(c) == IsFiniteSet(Spent(c)) /\ Cardinality(Spent(c)) <= 1 + faults

\* A step that leaves what is spent on consumer c, or gives some of it up.
Same(c) ==
  /\ effects'[c] = effects[c]
  /\ \A r \in Slots : MayHandle(r, c)' => MayHandle(r, c)
  /\ MayPublish(c)' => MayPublish(c)
  /\ MayRun(c)' => MayRun(c)

\* The steps that spend something.
Spends ==
  \/ \E s \in Slots : \/ Start(s) \/ Enqueue(s) \/ Take(s) \/ Handle(s) \/ ThrowToCaller(s)
                      \/ Throw(s) \/ AddFails(s) \/ Fails(s) \/ Crash(s) \/ Stall(s)
  \/ PublishAgain

LEMMA QuietSame ==
  ASSUME RestType, JobOf, SlotInv, [Next]_vars, ~Spends, NEW c \in Consumer
  PROVE  Same(c) /\ faults' >= faults
  <1>t. /\ task \in [Slots -> {None, "publish", "local", "job"}]
        /\ pc \in [Slots -> Await \cup {"idle", "finish", "throw"}]
        /\ at \in [Slots -> 1..(Consumers + 1)]
        /\ effects \in [Consumer -> Nat] /\ checkpoints \subseteq Consumer
        /\ holder \in Slots \cup {None}
        /\ job \in {"absent", "waiting", "active", "done", "failed"}
        /\ errors \in Nat /\ lost \in Nat /\ outages \in Nat /\ reruns \in Nat
    BY DEF RestType
  <1>i. \A s \in Slots : SlotOf(s)
    BY DEF SlotInv
  <1> USE <1>t, <1>i
        DEF Same, MayHandle, MayPublish, MayRun, SlotOf, Runs, Consumer, faults, Goto, Step,
            record, bull, caller, worker, counts
  <1>1. ASSUME NEW s \in Slots, Start(s) PROVE Same(c) /\ faults' >= faults
    BY <1>1 DEF Spends
  <1>2. ASSUME NEW s \in Slots, Find(s) PROVE Same(c) /\ faults' >= faults
    BY <1>2 DEF Find
  <1>3. ASSUME NEW s \in Slots, Create(s) PROVE Same(c) /\ faults' >= faults
    BY <1>3 DEF Create
  <1>4. ASSUME NEW s \in Slots, Refind(s) PROVE Same(c) /\ faults' >= faults
    BY <1>4 DEF Refind
  <1>5. ASSUME NEW s \in Slots, Enqueue(s) PROVE Same(c) /\ faults' >= faults
    BY <1>5 DEF Spends
  <1>6. ASSUME NEW s \in Slots, DispatchLocally(s) PROVE Same(c) /\ faults' >= faults
    <2>1. pc[s] = "dispatch" /\ task[s] = "publish"
      BY <1>6 DEF DispatchLocally
    <2>2. QED BY <1>6, <2>1 DEF DispatchLocally, Begin
  <1>7. ASSUME NEW s \in Slots, Take(s) PROVE Same(c) /\ faults' >= faults
    BY <1>7 DEF Spends
  <1>8. ASSUME NEW s \in Slots, Seen(s) PROVE Same(c) /\ faults' >= faults
    BY <1>8 DEF Seen
  <1>9. ASSUME NEW s \in Slots, Handle(s) PROVE Same(c) /\ faults' >= faults
    BY <1>9 DEF Spends
  <1>10. ASSUME NEW s \in Slots, Mark(s) PROVE Same(c) /\ faults' >= faults
    BY <1>10 DEF Mark
  <1>11. ASSUME NEW s \in Slots, MarkPublished(s) PROVE Same(c) /\ faults' >= faults
    BY <1>11 DEF MarkPublished
  <1>12. ASSUME NEW s \in Slots, Finish(s) PROVE Same(c) /\ faults' >= faults
    <2>1. c \in checkpoints
      BY <1>12 DEF Finish
    <2>2. QED BY <1>12, <2>1 DEF Finish, Vacate
  <1>13. ASSUME NEW s \in Slots, MarkFailed(s) PROVE Same(c) /\ faults' >= faults
    BY <1>13 DEF MarkFailed
  <1>14. ASSUME NEW s \in Slots, ThrowToCaller(s) PROVE Same(c) /\ faults' >= faults
    BY <1>14 DEF Spends
  <1>15. ASSUME NEW s \in Slots, Throw(s) PROVE Same(c) /\ faults' >= faults
    BY <1>15 DEF Spends
  <1>16. ASSUME NEW s \in Slots, AddFails(s) PROVE Same(c) /\ faults' >= faults
    BY <1>16 DEF Spends
  <1>17. ASSUME NEW s \in Slots, Fails(s) PROVE Same(c) /\ faults' >= faults
    BY <1>17 DEF Spends
  <1>18. ASSUME NEW s \in Slots, Crash(s) PROVE Same(c) /\ faults' >= faults
    BY <1>18 DEF Spends
  <1>19. ASSUME NEW s \in Slots, Stall(s) PROVE Same(c) /\ faults' >= faults
    BY <1>19 DEF Spends
  <1>20. CASE PublishAgain
    BY <1>20 DEF Spends
  <1>21. CASE CircuitOpens
    BY <1>21 DEF CircuitOpens
  <1>22. CASE CircuitCloses
    BY <1>22 DEF CircuitCloses
  <1>23. CASE Forget
    BY <1>23 DEF Forget
  <1>24. CASE UNCHANGED vars
    BY <1>24 DEF vars
  <1>25. QED
    BY <1>1, <1>2, <1>3, <1>4, <1>5, <1>6, <1>7, <1>8, <1>9, <1>10, <1>11, <1>12, <1>13,
       <1>14, <1>15, <1>16, <1>17, <1>18, <1>19, <1>20, <1>21, <1>22, <1>23, <1>24 DEF Next,
       Publish, Run

LEMMA CountsType ==
  ASSUME RestType, RestType'
  PROVE  /\ faults \in Nat /\ faults' \in Nat
         /\ (errors' = errors + 1 /\ UNCHANGED <<lost, outages,
             reruns>>) => faults' = faults + 1
         /\ (lost' = lost + 1 /\ UNCHANGED <<errors, outages, reruns>>) => faults' = faults + 1
         /\ (outages' = outages + 1 /\ UNCHANGED <<errors, lost,
             reruns>>) => faults' = faults + 1
         /\ (reruns' = reruns + 1 /\ UNCHANGED <<errors, lost,
             outages>>) => faults' = faults + 1
         /\ UNCHANGED counts => faults' = faults
  <1>1. errors \in Nat /\ lost \in Nat /\ outages \in Nat /\ reruns \in Nat
    BY DEF RestType
  <1>2. errors' \in Nat /\ lost' \in Nat /\ outages' \in Nat /\ reruns' \in Nat
    BY DEF RestType
  <1>3. faults = errors + lost + outages + reruns
    BY DEF faults
  <1>4. faults' = errors' + lost' + outages' + reruns'
    BY DEF faults
  <1>5. faults \in Nat /\ faults' \in Nat
    <2>1. \A a, b, c, d \in Nat : a + b + c + d \in Nat
      OBVIOUS
    <2>2. errors + lost + outages + reruns \in Nat
      BY <1>1, <2>1
    <2>3. errors' + lost' + outages' + reruns' \in Nat
      BY <1>2, <2>1
    <2>4. QED BY <1>3, <1>4, <2>2, <2>3
  <1>6. ASSUME errors' = errors + 1, UNCHANGED <<lost, outages,
               reruns>> PROVE faults' = faults + 1
    BY <1>1, <1>3, <1>4, <1>6
  <1>7. ASSUME lost' = lost + 1, UNCHANGED <<errors, outages,
               reruns>> PROVE faults' = faults + 1
    BY <1>1, <1>3, <1>4, <1>7
  <1>8. ASSUME outages' = outages + 1, UNCHANGED <<errors, lost,
               reruns>> PROVE faults' = faults + 1
    BY <1>1, <1>3, <1>4, <1>8
  <1>9. ASSUME reruns' = reruns + 1, UNCHANGED <<errors, lost,
               outages>> PROVE faults' = faults + 1
    BY <1>1, <1>3, <1>4, <1>9
  <1>10. UNCHANGED counts => faults' = faults
    BY <1>1, <1>3, <1>4 DEF counts
  <1>11. QED BY <1>5, <1>6, <1>7, <1>8, <1>9, <1>10

LEMMA CountsFewer ==
  ASSUME NEW S, IsFiniteSet(S), NEW T, T \subseteq S
  PROVE  /\ IsFiniteSet(T) /\ Cardinality(S) \in Nat /\ Cardinality(T) \in Nat
         /\ Cardinality(T) <= Cardinality(S)
  BY FS_Subset, FS_CardinalityType

LEMMA CountsOneMore ==
  ASSUME NEW S, IsFiniteSet(S), NEW b, NEW T, T \subseteq S \cup {b}
  PROVE  /\ IsFiniteSet(T) /\ Cardinality(S) \in Nat /\ Cardinality(T) \in Nat
         /\ Cardinality(T) <= Cardinality(S) + 1
  <1>1. /\ IsFiniteSet(S \cup {b}) /\ Cardinality(S) \in Nat
        /\ Cardinality(S \cup {b}) <= Cardinality(S) + 1
    BY FS_AddElement, FS_CardinalityType
  <1>2. IsFiniteSet(T) /\ Cardinality(T) \in Nat /\ Cardinality(S \cup {b}) \in Nat
        /\ Cardinality(T) <= Cardinality(S \cup {b})
    BY <1>1, CountsFewer
  <1>3. QED BY <1>1, <1>2

\* The new element b is paid for with a, if it was not there before.
LEMMA CountsTraded ==
  ASSUME NEW S, IsFiniteSet(S), NEW T, NEW a, NEW b,
         T \ {b} \subseteq S \ {a}, b \in T => a \in S \/ b \in S
  PROVE  /\ IsFiniteSet(T) /\ Cardinality(S) \in Nat /\ Cardinality(T) \in Nat
         /\ Cardinality(T) <= Cardinality(S)
  <1>1. CASE b \notin T \/ b \in S
    BY <1>1, CountsFewer
  <1>2. CASE a \in S
    <2>1. /\ IsFiniteSet(S \ {a}) /\ Cardinality(S) \in Nat
          /\ Cardinality(S \ {a}) = Cardinality(S) - 1
      BY <1>2, FS_RemoveElement, FS_CardinalityType
    <2>2. T \subseteq (S \ {a}) \cup {b}
      OBVIOUS
    <2>3. /\ IsFiniteSet(T) /\ Cardinality(T) \in Nat
          /\ Cardinality(T) <= Cardinality(S \ {a}) + 1
      BY <2>1, <2>2, CountsOneMore
    <2>4. QED BY <2>1, <2>3
  <1>3. QED BY <1>1, <1>2

\* Two new elements, one of them paid for with a.
LEMMA CountsTradedOneMore ==
  ASSUME NEW S, IsFiniteSet(S), NEW T, NEW a \in S, NEW b, NEW d,
         (T \ {d}) \ {b} \subseteq S \ {a}
  PROVE  /\ IsFiniteSet(T) /\ Cardinality(S) \in Nat /\ Cardinality(T) \in Nat
         /\ Cardinality(T) <= Cardinality(S) + 1
  <1> DEFINE U == T \ {d}
  <1>1. U \ {b} \subseteq S \ {a}
    OBVIOUS
  <1>2. T \subseteq U \cup {d}
    OBVIOUS
  <1> HIDE DEF U
  <1>3. /\ IsFiniteSet(U) /\ Cardinality(S) \in Nat /\ Cardinality(U) \in Nat
        /\ Cardinality(U) <= Cardinality(S)
    BY <1>1, CountsTraded
  <1>4. /\ IsFiniteSet(T) /\ Cardinality(T) \in Nat
        /\ Cardinality(T) <= Cardinality(U) + 1
    BY <1>2, <1>3, CountsOneMore
  <1>5. QED BY <1>3, <1>4

LEMMA FewerFits ==
  ASSUME NEW c \in Consumer, Fits(c), faults \in Nat, faults' \in Nat, faults' >= faults,
         Spent(c)' \subseteq Spent(c)
  PROVE  Fits(c)'
  BY CountsFewer DEF Fits

LEMMA TradedFits ==
  ASSUME NEW c \in Consumer, Fits(c), faults \in Nat, faults' \in Nat, faults' >= faults,
         NEW a, NEW b,
         Spent(c)' \ {b} \subseteq Spent(c) \ {a},
         b \in Spent(c)' => a \in Spent(c) \/ b \in Spent(c)
  PROVE  Fits(c)'
  <1>1. /\ IsFiniteSet(Spent(c)') /\ Cardinality(Spent(c)) \in Nat
        /\ Cardinality(Spent(c)') \in Nat /\ Cardinality(Spent(c)') <= Cardinality(Spent(c))
    BY CountsTraded DEF Fits
  <1>2. QED BY <1>1 DEF Fits

LEMMA OneMoreFits ==
  ASSUME NEW c \in Consumer, Fits(c), faults \in Nat, faults' = faults + 1, NEW b,
         Spent(c)' \subseteq Spent(c) \cup {b}
  PROVE  Fits(c)'
  <1>1. /\ IsFiniteSet(Spent(c)') /\ Cardinality(Spent(c)) \in Nat
        /\ Cardinality(Spent(c)') \in Nat /\ Cardinality(Spent(c)') <= Cardinality(Spent(c)) + 1
    BY CountsOneMore DEF Fits
  <1>2. QED BY <1>1 DEF Fits

LEMMA TradedOneMoreFits ==
  ASSUME NEW c \in Consumer, Fits(c), faults \in Nat, faults' = faults + 1,
         NEW a \in Spent(c), NEW b, NEW d, (Spent(c)' \ {d}) \ {b} \subseteq Spent(c) \ {a}
  PROVE  Fits(c)'
  <1>1. /\ IsFiniteSet(Spent(c)') /\ Cardinality(Spent(c)) \in Nat
        /\ Cardinality(Spent(c)') \in Nat /\ Cardinality(Spent(c)') <= Cardinality(Spent(c)) + 1
    BY CountsTradedOneMore DEF Fits
  <1>2. QED BY <1>1 DEF Fits

LEMMA SameFits ==
  ASSUME RestType, RestType', NEW c \in Consumer, Fits(c), Same(c), faults' >= faults
  PROVE  Fits(c)'
  <1>1. effects \in [Consumer -> Nat] /\ faults \in Nat /\ faults' \in Nat
    BY CountsType DEF RestType
  <1>2. Spent(c)' \subseteq Spent(c)
    BY <1>1 DEF Spent, Same
  <1>3. QED BY <1>1, <1>2, FewerFits

LEMMA SpendsFits ==
  ASSUME RestType, RestType', JobOf, SlotInv, NEW c \in Consumer, Fits(c), Spends
  PROVE  Fits(c)'
  <1>t. /\ task \in [Slots -> {None, "publish", "local", "job"}]
        /\ pc \in [Slots -> Await \cup {"idle", "finish", "throw"}]
        /\ at \in [Slots -> 1..(Consumers + 1)]
        /\ effects \in [Consumer -> Nat] /\ effects' \in [Consumer -> Nat]
        /\ job \in {"absent", "waiting", "active", "done", "failed"}
    BY DEF RestType
  <1>i. \A s \in Slots : SlotOf(s)
    BY DEF SlotInv
  <1>f. /\ faults \in Nat /\ faults' \in Nat
        /\ (errors' = errors + 1 /\ UNCHANGED <<lost, outages, reruns>>) => faults' = faults + 1
        /\ (lost' = lost + 1 /\ UNCHANGED <<errors, outages, reruns>>) => faults' = faults + 1
        /\ (reruns' = reruns + 1 /\ UNCHANGED <<errors, lost, outages>>) => faults' = faults + 1
        /\ UNCHANGED counts => faults' = faults
    BY CountsType
  <1> USE <1>t, <1>i, <1>f
        DEF SlotOf, Runs, Goto, Step, record, bull, caller, worker, MayHandle, MayPublish, MayRun
  <1>1. ASSUME NEW s \in Slots, Start(s) PROVE Fits(c)'
    <2>1. /\ effects' = effects /\ faults' = faults /\ ~MayPublish(c)' /\ (MayRun(c)' => MayRun(c))
          /\ \A r \in Slots : MayHandle(r, c)' => \/ r # s /\ MayHandle(r, c)
                                                  \/ r = s /\ MayPublish(c)
      BY <1>1 DEF Start
    <2>2. Spent(c)' \ {<<"slot", s>>} \subseteq Spent(c) \ {<<"due", 0>>}
      BY <2>1 DEF Spent, Token
    <2>3. <<"slot", s>> \in Spent(c)' => <<"due", 0>> \in Spent(c)
      BY <2>1 DEF Spent, Token
    <2>4. QED BY <2>1, <2>2, <2>3, TradedFits
  <1>2. ASSUME NEW s \in Slots, Enqueue(s) PROVE Fits(c)'
    <2>1. /\ effects' = effects /\ faults' = faults /\ (MayPublish(c)' => MayPublish(c))
          /\ MayRun(c)' => MayRun(c) \/ MayHandle(s, c)
          /\ \A r \in Slots : MayHandle(r, c)' => r # s /\ MayHandle(r, c)
      BY <1>2 DEF Enqueue, Add, Vacate
    <2>2. Spent(c)' \ {<<"job", 0>>} \subseteq Spent(c) \ {<<"slot", s>>}
      BY <2>1 DEF Spent, Token
    <2>3. <<"job", 0>> \in Spent(c)' => <<"slot", s>> \in Spent(c) \/ <<"job", 0>> \in Spent(c)
      BY <2>1 DEF Spent, Token
    <2>4. QED BY <2>1, <2>2, <2>3, TradedFits
  <1>3. ASSUME NEW s \in Slots, Take(s) PROVE Fits(c)'
    <2>1. /\ effects' = effects /\ faults' = faults /\ (MayPublish(c)' => MayPublish(c)) /\ ~MayRun(c)'
          /\ \A r \in Slots : MayHandle(r, c)' => \/ r # s /\ MayHandle(r, c)
                                                  \/ r = s /\ MayRun(c)
      BY <1>3 DEF Take, Begin
    <2>2. Spent(c)' \ {<<"slot", s>>} \subseteq Spent(c) \ {<<"job", 0>>}
      BY <2>1 DEF Spent, Token
    <2>3. <<"slot", s>> \in Spent(c)' => <<"job", 0>> \in Spent(c)
      BY <2>1 DEF Spent, Token
    <2>4. QED BY <2>1, <2>2, <2>3, TradedFits
  <1>4. ASSUME NEW s \in Slots, Handle(s) PROVE Fits(c)'
    <2>1. /\ faults' = faults /\ (MayPublish(c)' => MayPublish(c)) /\ (MayRun(c)' => MayRun(c))
      BY <1>4 DEF Handle
    <2>2. CASE at[s] # c
      <3>1. Same(c)
        BY <1>4, <2>2 DEF Handle, Same
      <3>2. QED BY <2>1, <3>1, SameFits
    <2>3. CASE at[s] = c
      <3>1. /\ effects'[c] = effects[c] + 1
            /\ \A r \in Slots : MayHandle(r, c)' => r # s /\ MayHandle(r, c)
            /\ \E r \in Slots : r = s /\ MayHandle(r, c)
        BY <1>4, <2>3 DEF Handle
      <3>2. Spent(c)' \ {<<"done", effects[c] + 1>>} \subseteq Spent(c) \ {<<"slot", s>>}
        BY <2>1, <3>1 DEF Spent, Token
      <3>3. <<"slot", s>> \in Spent(c)
        BY <3>1 DEF Spent, Token
      <3>4. QED BY <2>1, <3>2, <3>3, TradedFits
    <2>4. QED BY <2>2, <2>3
  <1>5. ASSUME NEW s \in Slots, ThrowToCaller(s) PROVE Fits(c)'
    <2>1. /\ effects' = effects /\ faults' = faults /\ (MayRun(c)' => MayRun(c))
          /\ MayPublish(c)' => MayPublish(c) \/ MayHandle(s, c)
          /\ \A r \in Slots : MayHandle(r, c)' => r # s /\ MayHandle(r, c)
      BY <1>5 DEF ThrowToCaller, Vacate, Told
    <2>2. Spent(c)' \ {<<"due", 0>>} \subseteq Spent(c) \ {<<"slot", s>>}
      BY <2>1 DEF Spent, Token
    <2>3. <<"due", 0>> \in Spent(c)' => <<"slot", s>> \in Spent(c) \/ <<"due", 0>> \in Spent(c)
      BY <2>1 DEF Spent, Token
    <2>4. QED BY <2>1, <2>2, <2>3, TradedFits
  <1>6. ASSUME NEW s \in Slots, Throw(s) PROVE Fits(c)'
    <2>1. /\ effects' = effects /\ faults' >= faults /\ (MayPublish(c)' => MayPublish(c))
      <3>1. UNCHANGED <<lost, outages, reruns>> /\ (errors' = errors \/ errors' = errors + 1)
        BY <1>6 DEF Throw
      <3>2. faults' >= faults
        BY <3>1 DEF counts
      <3>3. QED BY <1>6, <3>2 DEF Throw
    <2>2. /\ MayRun(c)' => MayRun(c) \/ MayHandle(s, c)
          /\ \A r \in Slots : MayHandle(r, c)' => r # s /\ MayHandle(r, c)
      BY <1>6 DEF Throw, Vacate
    <2>3. Spent(c)' \ {<<"job", 0>>} \subseteq Spent(c) \ {<<"slot", s>>}
      BY <2>1, <2>2 DEF Spent, Token
    <2>4. <<"job", 0>> \in Spent(c)' => <<"slot", s>> \in Spent(c) \/ <<"job", 0>> \in Spent(c)
      BY <2>2 DEF Spent, Token
    <2>5. QED BY <2>1, <2>3, <2>4, TradedFits
  <1>7. ASSUME NEW s \in Slots, AddFails(s) PROVE Fits(c)'
    <2>1. /\ effects' = effects /\ (MayPublish(c)' => MayPublish(c))
          /\ \A r \in Slots : MayHandle(r, c)' => MayHandle(r, c)
      BY <1>7 DEF AddFails
    <2>2. CASE UNCHANGED <<job, errors>>
      <3>1. Same(c)
        BY <1>7, <2>1, <2>2 DEF AddFails, Same
      <3>2. faults' = faults
        BY <1>7, <2>2 DEF AddFails, counts
      <3>3. QED BY <3>1, <3>2, SameFits
    <2>3. CASE errors' = errors + 1
      <3>1. faults' = faults + 1
        BY <1>7, <2>3 DEF AddFails
      <3>2. Spent(c)' \subseteq Spent(c) \cup {<<"job", 0>>}
        BY <2>1 DEF Spent, Token
      <3>3. QED BY <3>1, <3>2, OneMoreFits
    <2>4. QED BY <1>7, <2>2, <2>3 DEF AddFails
  <1>8. ASSUME NEW s \in Slots, Fails(s) PROVE Fits(c)'
    <2>1. faults' = faults + 1 /\ (MayRun(c)' => MayRun(c))
      BY <1>8 DEF Fails
    <2>2. \A r \in Slots : MayHandle(r, c)' => r = s \/ MayHandle(r, c)
      BY <1>8 DEF Fails
    <2>3. CASE effects'[c] = effects[c] /\ task[s] # "local"
      <3>1. MayPublish(c)' => MayPublish(c)
        BY <1>8, <2>3 DEF Fails
      <3>2. Spent(c)' \subseteq Spent(c) \cup {<<"slot", s>>}
        BY <2>1, <2>2, <2>3, <3>1 DEF Spent, Token
      <3>3. QED BY <2>1, <3>2, OneMoreFits
    <2>4. CASE effects'[c] = effects[c] /\ task[s] = "local"
      <3>1. \A r \in Slots : MayHandle(r, c)' => MayHandle(r, c)
        BY <1>8, <2>4 DEF Fails
      <3>2. Spent(c)' \subseteq Spent(c) \cup {<<"due", 0>>}
        BY <2>1, <2>4, <3>1 DEF Spent, Token
      <3>3. QED BY <2>1, <3>2, OneMoreFits
    <2>5. CASE effects'[c] # effects[c]
      <3>1. /\ effects'[c] = effects[c] + 1 /\ pc[s] = "handle" /\ at[s] = c
            /\ checkpoints' = checkpoints
        BY <1>8, <2>5 DEF Fails
      <3>2. CASE task[s] # "local"
        <4>1. /\ \A r \in Slots : MayHandle(r, c)' => MayHandle(r, c)
              /\ MayPublish(c)' => MayPublish(c)
          BY <1>8, <3>1, <3>2 DEF Fails
        <4>2. Spent(c)' \subseteq Spent(c) \cup {<<"done", effects[c] + 1>>}
          BY <2>1, <3>1, <4>1 DEF Spent, Token
        <4>3. QED BY <2>1, <4>2, OneMoreFits
      <3>3. CASE task[s] = "local"
        <4>1. /\ \A r \in Slots : MayHandle(r, c)' => r # s /\ MayHandle(r, c)
              /\ \E r \in Slots : r = s /\ MayHandle(r, c)
          <5>1. holder # s
            BY <3>3
          <5>2. QED BY <1>8, <3>1, <3>3, <5>1 DEF Fails
        <4>2. (Spent(c)' \ {<<"due", 0>>}) \ {<<"done",
            effects[c] + 1>>} \subseteq Spent(c) \ {<<"slot", s>>}
          BY <2>1, <3>1, <4>1 DEF Spent, Token
        <4>3. <<"slot", s>> \in Spent(c)
          BY <4>1 DEF Spent, Token
        <4>4. QED BY <2>1, <4>2, <4>3, TradedOneMoreFits
      <3>4. QED BY <3>2, <3>3
    <2>6. QED BY <2>3, <2>4, <2>5
  <1>9. ASSUME NEW s \in Slots, Crash(s) PROVE Fits(c)'
    <2>1. /\ effects' = effects /\ faults' = faults + 1 /\ checkpoints' = checkpoints
          /\ \A r \in Slots : MayHandle(r, c)' => MayHandle(r, c)
      BY <1>9 DEF Crash, Vacate, LoseLock
    <2>2. CASE holder = s
      <3>1. MayPublish(c)' => MayPublish(c)
        BY <1>9, <2>2 DEF Crash
      <3>2. Spent(c)' \subseteq Spent(c) \cup {<<"job", 0>>}
        BY <2>1, <3>1 DEF Spent, Token
      <3>3. QED BY <2>1, <3>2, OneMoreFits
    <2>3. CASE holder # s
      <3>1. MayRun(c)' => MayRun(c)
        BY <1>9, <2>3 DEF Crash
      <3>2. Spent(c)' \subseteq Spent(c) \cup {<<"due", 0>>}
        BY <2>1, <3>1 DEF Spent, Token
      <3>3. QED BY <2>1, <3>2, OneMoreFits
    <2>4. QED BY <2>2, <2>3
  <1>10. ASSUME NEW s \in Slots, Stall(s) PROVE Fits(c)'
    <2>1. /\ effects' = effects /\ faults' = faults + 1 /\ (MayPublish(c)' => MayPublish(c))
          /\ \A r \in Slots : MayHandle(r, c)' => MayHandle(r, c)
      BY <1>10 DEF Stall, LoseLock
    <2>2. Spent(c)' \subseteq Spent(c) \cup {<<"job", 0>>}
      BY <2>1 DEF Spent, Token
    <2>3. QED BY <2>1, <2>2, OneMoreFits
  <1>11. CASE PublishAgain
    <2>1. /\ effects' = effects /\ faults' = faults + 1 /\ (MayRun(c)' => MayRun(c))
          /\ \A r \in Slots : MayHandle(r, c)' => MayHandle(r, c)
      BY <1>11 DEF PublishAgain
    <2>2. Spent(c)' \subseteq Spent(c) \cup {<<"due", 0>>}
      BY <2>1 DEF Spent, Token
    <2>3. QED BY <2>1, <2>2, OneMoreFits
  <1>12. QED
    BY <1>1, <1>2, <1>3, <1>4, <1>5, <1>6, <1>7, <1>8, <1>9, <1>10, <1>11 DEF Spends

LEMMA FaultsGrow ==
  ASSUME RestType, RestType', [Next]_vars PROVE faults' >= faults
  <1>f. /\ faults \in Nat /\ faults' \in Nat
        /\ (errors' = errors + 1 /\ UNCHANGED <<lost, outages, reruns>>) => faults' = faults + 1
        /\ (lost' = lost + 1 /\ UNCHANGED <<errors, outages, reruns>>) => faults' = faults + 1
        /\ (outages' = outages + 1 /\ UNCHANGED <<errors, lost,
            reruns>>) => faults' = faults + 1
        /\ (reruns' = reruns + 1 /\ UNCHANGED <<errors, lost, outages>>) => faults' = faults + 1
        /\ UNCHANGED <<errors, lost, outages, reruns>> => faults' = faults
    BY CountsType DEF counts
  <1> USE <1>f DEF counts
  <1>1. ASSUME NEW s \in Slots, Start(s) PROVE faults' >= faults
    BY <1>1 DEF Start
  <1>2. ASSUME NEW s \in Slots, Find(s) PROVE faults' >= faults
    BY <1>2 DEF Find
  <1>3. ASSUME NEW s \in Slots, Create(s) PROVE faults' >= faults
    BY <1>3 DEF Create
  <1>4. ASSUME NEW s \in Slots, Refind(s) PROVE faults' >= faults
    BY <1>4 DEF Refind
  <1>5. ASSUME NEW s \in Slots, Enqueue(s) PROVE faults' >= faults
    BY <1>5 DEF Enqueue, Add, Vacate
  <1>6. ASSUME NEW s \in Slots, DispatchLocally(s) PROVE faults' >= faults
    BY <1>6 DEF DispatchLocally, Begin
  <1>7. ASSUME NEW s \in Slots, Take(s) PROVE faults' >= faults
    BY <1>7 DEF Take, Begin
  <1>8. ASSUME NEW s \in Slots, Seen(s) PROVE faults' >= faults
    BY <1>8 DEF Seen
  <1>9. ASSUME NEW s \in Slots, Handle(s) PROVE faults' >= faults
    BY <1>9 DEF Handle
  <1>10. ASSUME NEW s \in Slots, Mark(s) PROVE faults' >= faults
    BY <1>10 DEF Mark
  <1>11. ASSUME NEW s \in Slots, MarkPublished(s) PROVE faults' >= faults
    BY <1>11 DEF MarkPublished
  <1>12. ASSUME NEW s \in Slots, Finish(s) PROVE faults' >= faults
    BY <1>12 DEF Finish, Vacate
  <1>13. ASSUME NEW s \in Slots, MarkFailed(s) PROVE faults' >= faults
    BY <1>13 DEF MarkFailed
  <1>14. ASSUME NEW s \in Slots, ThrowToCaller(s) PROVE faults' >= faults
    BY <1>14 DEF ThrowToCaller, Vacate, Told
  <1>15. ASSUME NEW s \in Slots, Throw(s) PROVE faults' >= faults
    BY <1>15 DEF Throw, Vacate
  <1>16. ASSUME NEW s \in Slots, AddFails(s) PROVE faults' >= faults
    BY <1>16 DEF AddFails, Add
  <1>17. ASSUME NEW s \in Slots, Fails(s) PROVE faults' >= faults
    BY <1>17 DEF Fails, Told
  <1>18. ASSUME NEW s \in Slots, Crash(s) PROVE faults' >= faults
    BY <1>18 DEF Crash, Vacate, Told, LoseLock
  <1>19. ASSUME NEW s \in Slots, Stall(s) PROVE faults' >= faults
    BY <1>19 DEF Stall, LoseLock
  <1>20. CASE PublishAgain
    BY <1>20 DEF PublishAgain
  <1>21. CASE CircuitOpens
    BY <1>21 DEF CircuitOpens
  <1>22. CASE CircuitCloses
    BY <1>22 DEF CircuitCloses
  <1>23. CASE Forget
    BY <1>23 DEF Forget
  <1>24. CASE UNCHANGED vars
    <2>1. UNCHANGED <<errors, lost, outages, reruns>>
      BY <1>24, Zenon DEF vars, counts
    <2>2. QED BY <2>1
  <1>25. QED
    BY <1>1, <1>2, <1>3, <1>4, <1>5, <1>6, <1>7, <1>8, <1>9, <1>10, <1>11, <1>12, <1>13,
       <1>14, <1>15, <1>16, <1>17, <1>18, <1>19, <1>20, <1>21, <1>22, <1>23, <1>24 DEF Next,
       Publish, Run

-----------------------------------------------------------------------------
(* What all consumers repeat together *)

\* As long as no two runs overlapped there is one, and it does not work for a
\* consumer that has its checkpoint.
Alone ==
  /\ \A s, r \in Slots : s # r => ~(Runs(s) /\ Runs(r))
  /\ \A s \in Slots : pc[s] = "handle" => at[s] \notin checkpoints

AloneInv == ~parallel => Alone

\* Consumer c has done its work and will do it again.
Interrupted(c) ==
  /\ c \notin checkpoints /\ effects[c] >= 1
  /\ \A s \in Slots : ~(pc[s] = "mark" /\ at[s] = c)

Repetition ==
  {t \in Consumer \X Nat : \/ 2 <= t[2] /\ t[2] <= effects[t[1]]
                           \/ t[2] = 1 /\ Interrupted(t[1])}

RepeatInv == ~parallel => IsFiniteSet(Repetition) /\ Cardinality(Repetition) <= faults

LEMMA OnePair == \A n \in Nat : 1 * n = n
  OBVIOUS

LEMMA ParallelStays == FlagType /\ [Next]_vars /\ ~parallel' => ~parallel
  <1> SUFFICES ASSUME FlagType, [Next]_vars, parallel PROVE parallel'
    BY Zenon DEF FlagType
  <1>1. ASSUME NEW s \in Slots, Start(s) PROVE parallel'
    BY <1>1, Zenon DEF Start, past
  <1>2. ASSUME NEW s \in Slots, Find(s) PROVE parallel'
    BY <1>2, Zenon DEF Find, past
  <1>3. ASSUME NEW s \in Slots, Create(s) PROVE parallel'
    BY <1>3, Zenon DEF Create, past
  <1>4. ASSUME NEW s \in Slots, Refind(s) PROVE parallel'
    BY <1>4, Zenon DEF Refind, past
  <1>5. ASSUME NEW s \in Slots, Enqueue(s) PROVE parallel'
    BY <1>5, Zenon DEF Enqueue, Add, Vacate, past
  <1>6. ASSUME NEW s \in Slots, DispatchLocally(s) PROVE parallel'
    BY <1>6, Zenon DEF DispatchLocally, Begin, past
  <1>7. ASSUME NEW s \in Slots, Take(s) PROVE parallel'
    BY <1>7, Zenon DEF Take, Begin, past
  <1>8. ASSUME NEW s \in Slots, Seen(s) PROVE parallel'
    BY <1>8, Zenon DEF Seen, past
  <1>9. ASSUME NEW s \in Slots, Handle(s) PROVE parallel'
    BY <1>9, Zenon DEF Handle, past
  <1>10. ASSUME NEW s \in Slots, Mark(s) PROVE parallel'
    BY <1>10, Zenon DEF Mark, past
  <1>11. ASSUME NEW s \in Slots, MarkPublished(s) PROVE parallel'
    BY <1>11, Zenon DEF MarkPublished, past
  <1>12. ASSUME NEW s \in Slots, Finish(s) PROVE parallel'
    BY <1>12, Zenon DEF Finish, Vacate, past
  <1>13. ASSUME NEW s \in Slots, MarkFailed(s) PROVE parallel'
    BY <1>13, Zenon DEF MarkFailed, past
  <1>14. ASSUME NEW s \in Slots, ThrowToCaller(s) PROVE parallel'
    BY <1>14, Zenon DEF ThrowToCaller, Vacate, Told, past
  <1>15. ASSUME NEW s \in Slots, Throw(s) PROVE parallel'
    BY <1>15, Zenon DEF Throw, Vacate, past
  <1>16. ASSUME NEW s \in Slots, AddFails(s) PROVE parallel'
    BY <1>16, Zenon DEF AddFails, Add, past
  <1>17. ASSUME NEW s \in Slots, Fails(s) PROVE parallel'
    BY <1>17, Zenon DEF Fails, Told, past
  <1>18. ASSUME NEW s \in Slots, Crash(s) PROVE parallel'
    BY <1>18, Zenon DEF Crash, Vacate, Told, LoseLock, past
  <1>19. ASSUME NEW s \in Slots, Stall(s) PROVE parallel'
    BY <1>19, Zenon DEF Stall, LoseLock, past
  <1>20. CASE PublishAgain
    BY <1>20, Zenon DEF PublishAgain, past
  <1>21. CASE CircuitOpens
    BY <1>21, Zenon DEF CircuitOpens, past
  <1>22. CASE CircuitCloses
    BY <1>22, Zenon DEF CircuitCloses, past
  <1>23. CASE Forget
    BY <1>23, Zenon DEF Forget, past
  <1>24. CASE UNCHANGED vars
    BY <1>24 DEF vars, past
  <1>25. QED
    BY <1>1, <1>2, <1>3, <1>4, <1>5, <1>6, <1>7, <1>8, <1>9, <1>10, <1>11, <1>12, <1>13,
       <1>14, <1>15, <1>16, <1>17, <1>18, <1>19, <1>20, <1>21, <1>22, <1>23, <1>24 DEF Next,
       Publish, Run

LEMMA NextAlone ==
  ASSUME RestType, SlotInv, AloneInv, ~parallel, ~parallel', [Next]_vars PROVE AloneInv'
  <1> SUFFICES Alone'
    BY DEF AloneInv
  <1>t. /\ task \in [Slots -> {None, "publish", "local", "job"}]
        /\ pc \in [Slots -> Await \cup {"idle", "finish", "throw"}]
        /\ at \in [Slots -> 1..(Consumers + 1)]
        /\ effects \in [Consumer -> Nat] /\ checkpoints \subseteq Consumer
        /\ holder \in Slots \cup {None}
        /\ job \in {"absent", "waiting", "active", "done", "failed"}
    BY DEF RestType
  <1>i. \A s \in Slots : SlotOf(s)
    BY DEF SlotInv
  <1>a. /\ \A s, r \in Slots : s # r => ~(Runs(s) /\ Runs(r))
        /\ \A s \in Slots : pc[s] = "handle" => at[s] \notin checkpoints
    BY DEF AloneInv, Alone
  <1>p. ~parallel /\ ~parallel'
    OBVIOUS
  <1> USE <1>t, <1>i, <1>a, <1>p DEF Alone, SlotOf, Runs, Goto, Step, record, bull, caller, worker
  <1>1. ASSUME NEW s \in Slots, Start(s) PROVE Alone'
    BY <1>1 DEF Start
  <1>2. ASSUME NEW s \in Slots, Find(s) PROVE Alone'
    BY <1>2 DEF Find
  <1>3. ASSUME NEW s \in Slots, Create(s) PROVE Alone'
    BY <1>3 DEF Create
  <1>4. ASSUME NEW s \in Slots, Refind(s) PROVE Alone'
    BY <1>4 DEF Refind
  <1>5. ASSUME NEW s \in Slots, Enqueue(s) PROVE Alone'
    BY <1>5 DEF Enqueue, Add, Vacate
  <1>6. ASSUME NEW s \in Slots, DispatchLocally(s) PROVE Alone'
    <2>1. \A r \in Slots \ {s} : ~Runs(r)
      BY <1>6, Zenon DEF DispatchLocally, Begin
    <2>2. QED BY <1>6, <2>1 DEF DispatchLocally, Begin
  <1>7. ASSUME NEW s \in Slots, Take(s) PROVE Alone'
    <2>1. \A r \in Slots \ {s} : ~Runs(r)
      BY <1>7, Zenon DEF Take, Begin
    <2>2. QED BY <1>7, <2>1 DEF Take, Begin
  <1>8. ASSUME NEW s \in Slots, Seen(s) PROVE Alone'
    <2>1. CASE at[s] \in checkpoints
      BY <1>8, <2>1 DEF Seen
    <2>2. CASE at[s] \notin checkpoints
      BY <1>8, <2>2 DEF Seen
    <2>3. QED BY <2>1, <2>2
  <1>9. ASSUME NEW s \in Slots, Handle(s) PROVE Alone'
    BY <1>9 DEF Handle
  <1>10. ASSUME NEW s \in Slots, Mark(s) PROVE Alone'
    <2>1. \A r \in Slots : pc'[r] = "handle" => r # s /\ Runs(r)
      BY <1>10 DEF Mark
    <2>2. QED BY <1>10, <2>1 DEF Mark
  <1>11. ASSUME NEW s \in Slots, MarkPublished(s) PROVE Alone'
    BY <1>11 DEF MarkPublished
  <1>12. ASSUME NEW s \in Slots, Finish(s) PROVE Alone'
    BY <1>12 DEF Finish, Vacate
  <1>13. ASSUME NEW s \in Slots, MarkFailed(s) PROVE Alone'
    BY <1>13 DEF MarkFailed
  <1>14. ASSUME NEW s \in Slots, ThrowToCaller(s) PROVE Alone'
    BY <1>14 DEF ThrowToCaller, Vacate, Told
  <1>15. ASSUME NEW s \in Slots, Throw(s) PROVE Alone'
    BY <1>15 DEF Throw, Vacate
  <1>16. ASSUME NEW s \in Slots, AddFails(s) PROVE Alone'
    BY <1>16 DEF AddFails, Add
  <1>17. ASSUME NEW s \in Slots, Fails(s) PROVE Alone'
    BY <1>17 DEF Fails, Told
  <1>18. ASSUME NEW s \in Slots, Crash(s) PROVE Alone'
    BY <1>18 DEF Crash, Vacate, Told, LoseLock
  <1>19. ASSUME NEW s \in Slots, Stall(s) PROVE Alone'
    BY <1>19 DEF Stall, LoseLock
  <1>20. CASE PublishAgain
    BY <1>20 DEF PublishAgain
  <1>21. CASE CircuitOpens
    BY <1>21 DEF CircuitOpens
  <1>22. CASE CircuitCloses
    BY <1>22 DEF CircuitCloses
  <1>23. CASE Forget
    BY <1>23 DEF Forget
  <1>24. CASE UNCHANGED vars
    BY <1>24 DEF vars
  <1>25. QED
    BY <1>1, <1>2, <1>3, <1>4, <1>5, <1>6, <1>7, <1>8, <1>9, <1>10, <1>11, <1>12, <1>13,
       <1>14, <1>15, <1>16, <1>17, <1>18, <1>19, <1>20, <1>21, <1>22, <1>23, <1>24 DEF Next,
       Publish, Run

Repeating(s) == Handle(s) \/ Fails(s) \/ Crash(s)

Quiet == effects' = effects /\ \A c \in Consumer : Interrupted(c)' => Interrupted(c)

LEMMA QuietRepeatsNothing ==
  ASSUME RestType, RestType', JobOf, SlotInv, [Next]_vars, \A s \in Slots : ~Repeating(s)
  PROVE  Quiet
  <1>t. /\ task \in [Slots -> {None, "publish", "local", "job"}]
        /\ pc \in [Slots -> Await \cup {"idle", "finish", "throw"}]
        /\ at \in [Slots -> 1..(Consumers + 1)]
        /\ effects \in [Consumer -> Nat] /\ checkpoints \subseteq Consumer
        /\ holder \in Slots \cup {None}
        /\ job \in {"absent", "waiting", "active", "done", "failed"}
    BY DEF RestType
  <1>i. \A s \in Slots : SlotOf(s)
    BY DEF SlotInv
  <1> USE <1>t, <1>i
        DEF Quiet, SlotOf, Runs, Interrupted, Goto, Step, record, bull, caller, worker
  <1>1. ASSUME NEW s \in Slots, Start(s) PROVE Quiet
    BY <1>1 DEF Start
  <1>2. ASSUME NEW s \in Slots, Find(s) PROVE Quiet
    BY <1>2 DEF Find
  <1>3. ASSUME NEW s \in Slots, Create(s) PROVE Quiet
    BY <1>3 DEF Create
  <1>4. ASSUME NEW s \in Slots, Refind(s) PROVE Quiet
    BY <1>4 DEF Refind
  <1>5. ASSUME NEW s \in Slots, Enqueue(s) PROVE Quiet
    BY <1>5 DEF Enqueue, Add, Vacate
  <1>6. ASSUME NEW s \in Slots, DispatchLocally(s) PROVE Quiet
    BY <1>6 DEF DispatchLocally, Begin
  <1>7. ASSUME NEW s \in Slots, Take(s) PROVE Quiet
    BY <1>7 DEF Take, Begin
  <1>8. ASSUME NEW s \in Slots, Seen(s) PROVE Quiet
    BY <1>8 DEF Seen
  <1>9. ASSUME NEW s \in Slots, Handle(s) PROVE Quiet
    BY <1>9 DEF Repeating
  <1>10. ASSUME NEW s \in Slots, Mark(s) PROVE Quiet
    <2>1. at[s] \in Consumer
      BY <1>10 DEF Mark, Consumer
    <2>2. QED BY <1>10, <2>1 DEF Mark
  <1>11. ASSUME NEW s \in Slots, MarkPublished(s) PROVE Quiet
    BY <1>11 DEF MarkPublished
  <1>12. ASSUME NEW s \in Slots, Finish(s) PROVE Quiet
    BY <1>12 DEF Finish, Vacate
  <1>13. ASSUME NEW s \in Slots, MarkFailed(s) PROVE Quiet
    BY <1>13 DEF MarkFailed
  <1>14. ASSUME NEW s \in Slots, ThrowToCaller(s) PROVE Quiet
    BY <1>14 DEF ThrowToCaller, Vacate, Told
  <1>15. ASSUME NEW s \in Slots, Throw(s) PROVE Quiet
    BY <1>15 DEF Throw, Vacate
  <1>16. ASSUME NEW s \in Slots, AddFails(s) PROVE Quiet
    BY <1>16 DEF AddFails, Add
  <1>17. ASSUME NEW s \in Slots, Fails(s) PROVE Quiet
    BY <1>17 DEF Repeating
  <1>18. ASSUME NEW s \in Slots, Crash(s) PROVE Quiet
    BY <1>18 DEF Repeating
  <1>19. ASSUME NEW s \in Slots, Stall(s) PROVE Quiet
    BY <1>19 DEF Stall, LoseLock
  <1>20. CASE PublishAgain
    BY <1>20 DEF PublishAgain
  <1>21. CASE CircuitOpens
    BY <1>21 DEF CircuitOpens
  <1>22. CASE CircuitCloses
    BY <1>22 DEF CircuitCloses
  <1>23. CASE Forget
    BY <1>23 DEF Forget
  <1>24. CASE UNCHANGED vars
    BY <1>24 DEF vars
  <1>25. QED
    BY <1>1, <1>2, <1>3, <1>4, <1>5, <1>6, <1>7, <1>8, <1>9, <1>10, <1>11, <1>12, <1>13,
       <1>14, <1>15, <1>16, <1>17, <1>18, <1>19, <1>20, <1>21, <1>22, <1>23, <1>24 DEF Next,
       Publish, Run

LEMMA NextRepeat ==
  ASSUME FlagType, RestType, RestType', JobOf, SlotInv, AloneInv, RepeatInv, [Next]_vars
  PROVE  RepeatInv'
  <1> SUFFICES ASSUME ~parallel' PROVE IsFiniteSet(Repetition') /\ Cardinality(Repetition') <= faults'
    BY Zenon DEF RepeatInv
  <1>p. ~parallel
    BY ParallelStays
  <1>r. IsFiniteSet(Repetition) /\ Cardinality(Repetition) <= faults
    BY <1>p, Zenon DEF RepeatInv
  <1>t. /\ task \in [Slots -> {None, "publish", "local", "job"}]
        /\ pc \in [Slots -> Await \cup {"idle", "finish", "throw"}]
        /\ at \in [Slots -> 1..(Consumers + 1)]
        /\ effects \in [Consumer -> Nat] /\ effects' \in [Consumer -> Nat]
    BY DEF RestType
  <1>i. \A s \in Slots : SlotOf(s)
    BY DEF SlotInv
  <1>a. /\ \A s, r \in Slots : s # r => ~(Runs(s) /\ Runs(r))
        /\ \A s \in Slots : pc[s] = "handle" => at[s] \notin checkpoints
    BY <1>p, Zenon DEF AloneInv, Alone
  <1>f. /\ faults \in Nat /\ faults' \in Nat
        /\ (errors' = errors + 1 /\ UNCHANGED <<lost, outages, reruns>>) => faults' = faults + 1
        /\ (lost' = lost + 1 /\ UNCHANGED <<errors, outages, reruns>>) => faults' = faults + 1
        /\ UNCHANGED counts => faults' = faults
    BY CountsType
  <1>1. ASSUME NEW s \in Slots, Handle(s)
        PROVE  IsFiniteSet(Repetition') /\ Cardinality(Repetition') <= faults'
    <2> DEFINE c == at[s]
               e == effects[c]
    <2>1. /\ c \in Consumer /\ e \in Nat /\ pc[s] = "handle" /\ checkpoints' = checkpoints
          /\ effects' = [effects EXCEPT ![c] = e + 1] /\ faults' = faults
      BY <1>1, <1>t, <1>i, <1>f DEF Handle, SlotOf, Step, Consumer
    <2>2. /\ pc' = [pc EXCEPT ![s] = "mark"] /\ at' = at
      BY <1>1 DEF Handle, Step, Goto
    <2>3. \A d \in Consumer : Interrupted(d)' => d # c /\ Interrupted(d)
      BY <1>t, <2>1, <2>2 DEF Interrupted
    <2>4. \A d \in Consumer : d = c /\ e >= 1 => Interrupted(d)
      BY <1>t, <1>i, <1>a, <2>1 DEF Interrupted, SlotOf
    <2>a. \A d \in Consumer : effects'[d] = IF d = c THEN e + 1 ELSE effects[d]
      BY <1>t, <2>1
    <2>b. effects[c] = e
      OBVIOUS
    <2> HIDE DEF c, e
    <2>c. \A d \in Consumer,
        n \in Nat : n <= effects'[d] /\ ~(n <= effects[d]) => d = c /\ n = e + 1
      BY <1>t, <2>1, <2>a, <2>b
    <2>d. \A d \in Consumer, n \in Nat : n <= effects[d] /\ d # c => n <= effects'[d]
      BY <1>t, <2>1, <2>a
    <2>5. Repetition' \ {<<c, e + 1>>} \subseteq Repetition \ {<<c, 1>>}
      <3> SUFFICES ASSUME NEW d \in Consumer, NEW n \in Nat, <<d, n>> \in Repetition', <<d,
          n>> # <<c, e + 1>>
                   PROVE  <<d, n>> \in Repetition /\ <<d, n>> # <<c, 1>>
        BY DEF Repetition
      <3>1. CASE 2 <= n /\ n <= effects'[d]
        BY <2>c, <3>1 DEF Repetition
      <3>2. CASE n = 1 /\ Interrupted(d)'
        BY <2>3, <3>2 DEF Repetition
      <3>3. QED BY <3>1, <3>2 DEF Repetition
    <2>6. <<c, e + 1>> \in Repetition' => <<c, 1>> \in Repetition
      <3> SUFFICES ASSUME NEW d \in Consumer, NEW n \in Nat, d = c, n = e + 1,
                          <<d, n>> \in Repetition'
                   PROVE  <<d, 1>> \in Repetition
        BY <2>1
      <3>1. 2 <= n
        BY <2>3 DEF Repetition
      <3>2. Interrupted(d)
        BY <2>1, <2>4, <3>1
      <3>3. QED BY <3>2 DEF Repetition
    <2>7. /\ IsFiniteSet(Repetition') /\ Cardinality(Repetition) \in Nat
          /\ Cardinality(Repetition') \in Nat /\ Cardinality(Repetition') <= Cardinality(Repetition)
      BY <1>r, <2>5, <2>6, CountsTraded
    <2>8. QED BY <1>r, <1>f, <2>1, <2>7
  <1>2. ASSUME faults' = faults + 1, NEW b, Repetition' \subseteq Repetition \cup {b}
        PROVE  IsFiniteSet(Repetition') /\ Cardinality(Repetition') <= faults'
    <2>1. /\ IsFiniteSet(Repetition') /\ Cardinality(Repetition) \in Nat
          /\ Cardinality(Repetition') \in Nat /\ Cardinality(Repetition') <= Cardinality(Repetition) + 1
      BY <1>r, <1>2, CountsOneMore
    <2>2. QED BY <1>r, <1>f, <1>2, <2>1
  <1>3. ASSUME NEW s \in Slots, Fails(s)
        PROVE  IsFiniteSet(Repetition') /\ Cardinality(Repetition') <= faults'
    <2> DEFINE c == at[s]
               e == effects[c]
    <2>1. /\ faults' = faults + 1 /\ checkpoints' = checkpoints /\ at' = at
          /\ \A r \in Slots : r # s => pc'[r] = pc[r]
      <3>1. faults' = faults + 1 /\ at' = at
        BY <1>3, <1>f DEF Fails
      <3>2. checkpoints' = checkpoints
        BY <1>3, Zenon DEF Fails, record
      <3>3. \A r \in Slots : r # s => pc'[r] = pc[r]
        BY <1>3, <1>t DEF Fails, Goto
      <3>4. QED BY <3>1, <3>2, <3>3
    <2>2. CASE effects' = effects
      <3>1. \A d \in Consumer : Interrupted(d)' => d = c \/ Interrupted(d)
        BY <1>t, <2>1, <2>2 DEF Interrupted
      <3> HIDE DEF c
      <3>2. Repetition' \subseteq Repetition \cup {<<c, 1>>}
        BY <1>t, <2>2, <3>1 DEF Repetition
      <3>3. QED BY <1>2, <2>1, <3>2
    <2>3. CASE effects' # effects
      <3>1. pc[s] = "handle" /\ effects' = [effects EXCEPT ![c] = e + 1]
        BY <1>3, <2>3 DEF Fails, record
      <3>2. c \in Consumer /\ e \in Nat
        BY <1>t, <1>i, <3>1 DEF SlotOf, Consumer
      <3>3. \A d \in Consumer : Interrupted(d)' => Interrupted(d) \/ (d = c /\ e = 0)
        BY <1>t, <1>i, <1>a, <2>1, <3>1, <3>2 DEF Interrupted, SlotOf
      <3>a. \A d \in Consumer : effects'[d] = IF d = c THEN e + 1 ELSE effects[d]
        BY <1>t, <3>1
      <3>b. effects[c] = e
        OBVIOUS
      <3> HIDE DEF c, e
      <3>c. \A d \in Consumer, n \in Nat :
              n <= effects'[d] /\ ~(n <= effects[d]) => d = c /\ n = e + 1
        BY <1>t, <3>2, <3>a, <3>b
      <3>4. Repetition' \subseteq Repetition \cup {<<c, e + 1>>}
        <4> SUFFICES ASSUME NEW d \in Consumer, NEW n \in Nat, <<d, n>> \in Repetition'
                     PROVE  <<d, n>> \in Repetition \cup {<<c, e + 1>>}
          BY DEF Repetition
        <4>1. CASE 2 <= n /\ n <= effects'[d]
          BY <3>c, <4>1 DEF Repetition
        <4>2. CASE n = 1 /\ Interrupted(d)'
          BY <3>2, <3>3, <4>2 DEF Repetition
        <4>3. QED BY <4>1, <4>2 DEF Repetition
      <3>5. QED BY <1>2, <2>1, <3>4
    <2>4. QED BY <2>2, <2>3
  <1>4. ASSUME NEW s \in Slots, Crash(s)
        PROVE  IsFiniteSet(Repetition') /\ Cardinality(Repetition') <= faults'
    <2>1. /\ faults' = faults + 1 /\ checkpoints' = checkpoints /\ effects' = effects
          /\ \A r \in Slots : r # s => pc'[r] = pc[r] /\ at'[r] = at[r]
      BY <1>4, <1>t, <1>f DEF Crash, Vacate, Goto, record
    <2>2. \A d \in Consumer : Interrupted(d)' => d = at[s] \/ Interrupted(d)
      BY <1>t, <2>1 DEF Interrupted
    <2>3. Repetition' \subseteq Repetition \cup {<<at[s], 1>>}
      BY <1>t, <2>1, <2>2 DEF Repetition
    <2>4. QED BY <1>2, <2>1, <2>3
  <1>5. CASE \A s \in Slots : ~Repeating(s)
    <2>1. /\ effects' = effects
          /\ \A c \in Consumer : Interrupted(c)' => Interrupted(c)
      BY <1>5, QuietRepeatsNothing DEF Quiet
    <2>2. Repetition' \subseteq Repetition
      BY <1>t, <2>1 DEF Repetition
    <2>3. faults' >= faults
      BY FaultsGrow
    <2>4. /\ IsFiniteSet(Repetition') /\ Cardinality(Repetition) \in Nat
          /\ Cardinality(Repetition') \in Nat /\ Cardinality(Repetition') <= Cardinality(Repetition)
      BY <1>r, <2>2, CountsFewer
    <2>5. QED BY <1>r, <1>f, <2>3, <2>4
  <1>6. QED BY <1>1, <1>3, <1>4, <1>5 DEF Repeating

-----------------------------------------------------------------------------
(* The theorems *)

IInv ==
  /\ FlagType /\ RestType /\ JobOf /\ SlotInv /\ EffectInv
  /\ \A c \in Consumer : Fits(c)
  /\ AloneInv /\ RepeatInv

LEMMA InitInv == Init => IInv
  <1> SUFFICES ASSUME Init PROVE IInv
    OBVIOUS
  <1>1. FlagType
    BY Zenon DEF Init, FlagType
  <1>2. RestType
    BY DEF Init, RestType, Await
  <1>3. JobOf /\ SlotInv /\ EffectInv /\ AloneInv
    BY DEF Init, JobOf, SlotInv, SlotOf, EffectInv, AloneInv, Alone, Runs, Consumer
  <1>4. faults = 0
    BY DEF Init, faults
  <1>5. ASSUME NEW c \in Consumer PROVE Fits(c)
    <2>1. Spent(c) \subseteq {<<"due", 0>>}
      BY <1>5, OutboxAssumption DEF Init, Spent, Token, MayHandle, MayPublish, MayRun, Runs
    <2>2. IsFiniteSet({<<"due", 0>>}) /\ Cardinality({<<"due", 0>>}) = 1
      BY FS_Singleton
    <2>3. QED BY <1>4, <2>1, <2>2, CountsFewer DEF Fits
  <1>6. RepeatInv
    <2>1. Repetition = {}
      BY DEF Init, Repetition, Interrupted
    <2>2. QED BY <1>4, <2>1, FS_EmptySet DEF RepeatInv
  <1>7. QED BY <1>1, <1>2, <1>3, <1>5, <1>6 DEF IInv

LEMMA NextInv == IInv /\ [Next]_vars => IInv'
  <1> SUFFICES ASSUME IInv, [Next]_vars PROVE IInv'
    OBVIOUS
  <1>1. /\ FlagType /\ RestType /\ JobOf /\ SlotInv /\ EffectInv /\ AloneInv /\ RepeatInv
        /\ \A c \in Consumer : Fits(c)
    BY Zenon DEF IInv
  <1>2. FlagType' /\ RestType' /\ JobOf' /\ SlotInv' /\ EffectInv'
    BY <1>1, NextFlags, NextRest, NextJobs, NextSlots, NextEffects
  <1>3. ASSUME NEW c \in Consumer PROVE Fits(c)'
    <2>1. CASE Spends
      BY <1>1, <1>2, <2>1, SpendsFits
    <2>2. CASE ~Spends
      BY <1>1, <1>2, <2>2, QuietSame, SameFits
    <2>3. QED BY <2>1, <2>2
  <1>4. AloneInv'
    <2>1. CASE parallel'
      BY <2>1, Zenon DEF AloneInv
    <2>2. CASE ~parallel'
      BY <1>1, <2>2, ParallelStays, NextAlone
    <2>3. QED BY <2>1, <2>2
  <1>5. RepeatInv'
    BY <1>1, <1>2, NextRepeat
  <1>6. QED BY <1>2, <1>3, <1>4, <1>5, Zenon DEF IInv

LEMMA InvSuffices == IInv => TypeOK /\ DeliveredPlusFaults
  <1> SUFFICES ASSUME IInv PROVE TypeOK /\ DeliveredPlusFaults
    OBVIOUS
  <1>1. FlagType /\ RestType /\ EffectInv /\ RepeatInv /\ (\A c \in Consumer : Fits(c))
    BY Zenon DEF IInv
  <1>2. TypeOK
    BY <1>1 DEF FlagType, RestType, TypeOK
  <1>3. effects \in [Consumer -> Nat] /\ faults \in Nat
    <2>1. \A a, b, c, d \in Nat : a + b + c + d \in Nat
      OBVIOUS
    <2>2. errors \in Nat /\ lost \in Nat /\ outages \in Nat /\ reruns \in Nat
      BY <1>1 DEF RestType
    <2>3. QED BY <1>1, <2>1, <2>2 DEF RestType, faults
  <1>4. ASSUME NEW c \in Consumer PROVE effects[c] <= 1 + faults
    <2> DEFINE Done == {"done"} \X (1..effects[c])
    <2>1. Done \subseteq Spent(c)
      BY <1>3 DEF Spent, Token
    <2>2. IsFiniteSet({"done"}) /\ Cardinality({"done"}) = 1
      BY FS_Singleton
    <2>3. IsFiniteSet(1..effects[c]) /\ Cardinality(1..effects[c]) = effects[c]
      BY <1>3, FS_Interval
    <2>d. Cardinality(Done) = 1 * effects[c]
      BY <2>2, <2>3, FS_Product
    <2>4. Cardinality(Done) = effects[c]
      BY <1>3, <2>d, OnePair
    <2>5. IsFiniteSet(Spent(c)) /\ Cardinality(Spent(c)) <= 1 + faults
      BY <1>1 DEF Fits
    <2>6. Cardinality(Spent(c)) \in Nat /\ Cardinality(Done) <= Cardinality(Spent(c))
      BY <2>1, <2>5, CountsFewer
    <2>7. QED BY <1>3, <2>4, <2>5, <2>6
  <1>5. ASSUME ~parallel PROVE Repeats <= faults
    <2>1. IsFiniteSet(Repetition) /\ Cardinality(Repetition) <= faults
      BY <1>1, <1>5, Zenon DEF RepeatInv
    <2>2. Repeated \subseteq Repetition
      BY <1>3 DEF Repeated, Repetition
    <2>3. /\ Cardinality(Repeated) \in Nat /\ Cardinality(Repetition) \in Nat
          /\ Cardinality(Repeated) <= Cardinality(Repetition)
      BY <2>1, <2>2, CountsFewer
    <2>4. QED BY <1>3, <2>1, <2>3 DEF Repeats
  <1>6. row.published => \A c \in Consumer : effects[c] >= 1
    BY <1>1 DEF EffectInv
  <1>7. QED BY <1>2, <1>4, <1>5, <1>6 DEF DeliveredPlusFaults

THEOREM OutboxTypeCorrect == Spec => []TypeOK
  BY InitInv, NextInv, InvSuffices, PTL DEF Spec

THEOREM OutboxDeliveredPlusFaults == Spec => []DeliveredPlusFaults
  BY InitInv, NextInv, InvSuffices, PTL DEF Spec


=============================================================================
