-------------------------- MODULE CRMRefreshProofs --------------------------
(***************************************************************************)
(* Proofs about CRMRefresh, for any number of versions, attempts, failures *)
(* and crashes.                                                            *)
(***************************************************************************)
EXTENDS CRMRefresh, TLAPS

-----------------------------------------------------------------------------
(* The inductive invariants *)

\* A job past its read of a dirty state works on a real version, and on one
\* that was processed once it is past processRequest.
WorkOf(j) ==
  /\ pc[j] \in {"addRetry", "mark", "process", "complete", "write"} => target[j] \in Version
  /\ pc[j] \in {"complete", "write"} => runs[target[j]] > 0

WorkInv == (\A j \in Job : WorkOf(j)) /\ CompletedWasProcessed

\* Only an active job is in its processor, and a job that is not finished has
\* attempts left.
JobOf(j) ==
  /\ pc[j] # "idle" => job[j] = "active"
  /\ job[j] \notin {"done", "failed"} => made[j] < Attempts

JobInv == \A j \in Job : JobOf(j)

Inside == {"read", "mark", "process", "complete", "write", "exit"}

\* While no lease is lost, the job inside the loop is the owner of the lock,
\* so what it read of completedVersion still holds when it writes.
LockInv ==
  slips = 0 =>
    /\ \A c \in handles : c = owner
    /\ \A j \in Job : /\ pc[j] \in Inside => token(j) \in handles
                      /\ pc[j] = "write" => completed < target[j]

IInv == TypeOK /\ WorkInv /\ JobInv /\ LockInv

USE CRMAssumption

-----------------------------------------------------------------------------
(* Type correctness *)

LEMMA InitInv == Init => IInv
  <1> SUFFICES ASSUME Init PROVE IInv
    OBVIOUS
  <1>1. TypeOK
    BY DEF Init, TypeOK, PC, Version, RunsCap, Lock!Init, Lock!TypeOK
  <1>2. WorkInv
    BY DEF Init, WorkInv, WorkOf, CompletedWasProcessed
  <1>3. LockInv
    BY DEF Init, LockInv, Inside, Lock!Init
  <1>4. JobInv
    BY DEF Init, JobInv, JobOf
  <1>5. QED BY <1>1, <1>2, <1>3, <1>4 DEF IInv

\* Every step keeps the variables in their types.
LEMMA NextType == TypeOK /\ WorkInv /\ JobInv /\ [Next]_vars => TypeOK'
  <1> SUFFICES ASSUME TypeOK, WorkInv, JobInv, [Next]_vars PROVE TypeOK'
    OBVIOUS
  <1> USE DEF TypeOK, Lock!TypeOK, PC, Token, Slips, OnTime
  <1>1. CASE Request
    BY <1>1 DEF Request, queueVars, lockVars, faultVars, Version
  <1>2. ASSUME NEW v \in Version, ScheduleWake(v) \/ ScheduleWakeFails(v) PROVE TypeOK'
    BY <1>2 DEF ScheduleWake, ScheduleWakeFails, AddJob, state, queueVars, lockVars, faultVars
  <1>3. CASE CleanupReads \/ CleanupWrites
    BY <1>3 DEF CleanupReads, CleanupWrites, state, queueVars, lockVars, faultVars
  <1>4. CASE LockExpires
    BY <1>4 DEF LockExpires, Lock!Expire, state, faultVars
  <1>5. ASSUME NEW j \in Job, Processor(j) PROVE TypeOK'
    <2> USE DEF Step, Leave, state, queueVars, lockVars, faultVars
    <2>t. token(j) \in Token
      BY DEF token
    <2>1. CASE StartJob(j)
      BY <2>1 DEF StartJob
    <2>2. CASE GetLock(j)
      BY <2>2, <2>t DEF GetLock, Lock!Acquire
    <2>3. CASE NoLock(j)
      <3>1. CASE OnTime /\ UNCHANGED <<due, lockVars>>
        BY <2>3, <3>1 DEF NoLock
      <3>2. CASE Slips /\ Lock!Grant(token(j)) /\ due' = [i \in Job |-> TRUE]
        BY <2>3, <2>t, <3>2 DEF NoLock, Lock!Grant
      <3>3. QED BY <2>3, <3>1, <3>2 DEF NoLock
    <2>4. CASE DeniedDone(j) \/ DeniedDirty(j)
      BY <2>4 DEF DeniedDone, DeniedDirty
    <2>5. CASE RetryReads(j)
      BY <2>5 DEF RetryReads
    <2>6. CASE AddRetry(j)
      <3>1. <<"retry", target[j]>> \in Job
        BY <2>6 DEF AddRetry, WorkInv, WorkOf, Job
      <3>2. /\ job' \in [Job -> {"absent", "waiting", "delayed", "active", "done", "failed"}]
            /\ target' \in [Job -> 0..MaxVersion] /\ pc' \in [Job -> PC]
        BY <2>6 DEF AddRetry, AddJob
      <3>3. due' \in [Job -> BOOLEAN]
        BY <2>6 DEF AddRetry
      <3>4. QED BY <2>6, <3>2, <3>3 DEF AddRetry
    <2>7. CASE ReadClean(j) \/ ReadDirty(j)
      BY <2>7 DEF ReadClean, ReadDirty
    <2>8. CASE MarkProcessing(j)
      BY <2>8 DEF MarkProcessing
    <2>9. CASE ProcessSucceeds(j)
      BY <2>9 DEF ProcessSucceeds, RunsCap, WorkInv, WorkOf
    <2>10. CASE ProcessFails(j)
      BY <2>10 DEF ProcessFails
    <2>11. CASE CompleteReads(j)
      BY <2>11 DEF CompleteReads
    <2>12. CASE CompleteWrites(j)
      BY <2>12 DEF CompleteWrites
    <2>13. CASE Exit(j)
      <3>1. due' \in [Job -> BOOLEAN]
        BY <2>13 DEF Exit, ReleaseLock
      <3>2. Lock!TypeOK'
        BY <2>13, <2>t DEF Exit, ReleaseLock, Lock!Release, Lock!Drop
      <3>3. /\ job' \in [Job -> {"absent", "waiting", "delayed", "active", "done", "failed"}]
            /\ target' \in [Job -> 0..MaxVersion] /\ pc' \in [Job -> PC]
        BY <2>13 DEF Exit
      <3>4. slips' \in 0..MaxSlips /\ UNCHANGED <<failures, crashes, pid>>
        BY <2>13 DEF Exit, ReleaseLock
      <3>5. QED BY <2>13, <3>1, <3>2, <3>3, <3>4 DEF Exit
    <2>14. CASE Throw(j)
      <3>1. due' \in [Job -> BOOLEAN]
        BY <2>14 DEF Throw, ReleaseLock
      <3>2. Lock!TypeOK'
        BY <2>14, <2>t DEF Throw, ReleaseLock, Lock!Release, Lock!Drop
      <3>3. made' \in [Job -> 0..Attempts]
        BY <2>14 DEF Throw, JobInv, JobOf
      <3>4. slips' \in 0..MaxSlips /\ UNCHANGED <<failures, crashes, pid>>
        BY <2>14 DEF Throw, ReleaseLock
      <3>5. QED BY <2>14, <3>1, <3>2, <3>3, <3>4 DEF Throw
    <2>15. QED
      BY <1>5, <2>1, <2>2, <2>3, <2>4, <2>5, <2>6, <2>7, <2>8, <2>9, <2>10, <2>11, <2>12,
         <2>13, <2>14 DEF Processor
  <1>6. ASSUME NEW j \in Job, RetryDue(j) \/ RefreshLock(j) \/ RedisError(j) PROVE TypeOK'
    <2> USE DEF state, queueVars, lockVars, faultVars
    <2>1. CASE RetryDue(j)
      BY <2>1 DEF RetryDue
    <2>2. CASE RefreshLock(j)
      BY <2>2 DEF RefreshLock
    <2>3. CASE RedisError(j)
      BY <2>3 DEF RedisError
    <2>4. QED BY <1>6, <2>1, <2>2, <2>3
  <1>7. ASSUME NEW j \in Job, Crash(j) PROVE TypeOK'
    BY <1>7 DEF Crash, Leave, Lock!Drop, state, faultVars
  <1>8. CASE UNCHANGED vars
    BY <1>8 DEF vars, state, queueVars, lockVars, faultVars
  <1>9. QED
    BY <1>1, <1>2, <1>3, <1>4, <1>5, <1>6, <1>7, <1>8 DEF Next

-----------------------------------------------------------------------------
(* The work of a job, and its attempts *)

\* Only the steps of job j disturb WorkOf(j), and processRequest alone adds to
\* runs; no other step of the loop reaches the versions it vouches for.
LEMMA NextWork == TypeOK /\ WorkInv /\ [Next]_vars => WorkInv'
  <1> SUFFICES ASSUME TypeOK, WorkInv, [Next]_vars PROVE WorkInv'
    OBVIOUS
  <1> USE DEF TypeOK, WorkInv, WorkOf, CompletedWasProcessed, Slips, OnTime
  <1>1. CASE Request
    BY <1>1 DEF Request, queueVars, lockVars, faultVars
  <1>2. ASSUME NEW v \in Version, ScheduleWake(v) \/ ScheduleWakeFails(v) PROVE WorkInv'
    BY <1>2 DEF ScheduleWake, ScheduleWakeFails, state, queueVars, lockVars, faultVars
  <1>3. CASE CleanupReads \/ CleanupWrites
    BY <1>3 DEF CleanupReads, CleanupWrites, state, queueVars, lockVars, faultVars
  <1>4. CASE LockExpires
    BY <1>4 DEF LockExpires, state, faultVars
  <1>5. ASSUME NEW j \in Job, Processor(j) PROVE WorkInv'
    <2> USE DEF Step, Leave, state, queueVars, lockVars, faultVars
    <2>1. CASE StartJob(j) \/ GetLock(j) \/ NoLock(j)
      BY <2>1 DEF StartJob, GetLock, NoLock
    <2>2. CASE DeniedDone(j) \/ DeniedDirty(j) \/ AddRetry(j)
      BY <2>2 DEF DeniedDone, DeniedDirty, AddRetry
    <2>3. CASE RetryReads(j)
      BY <2>3 DEF RetryReads, Version
    <2>4. CASE ReadClean(j)
      BY <2>4 DEF ReadClean
    <2>5. CASE ReadDirty(j)
      BY <2>5 DEF ReadDirty, Version
    <2>6. CASE MarkProcessing(j) \/ ProcessFails(j)
      BY <2>6 DEF MarkProcessing, ProcessFails
    <2>7. CASE ProcessSucceeds(j)
      <3>1. runs' \in [Version -> Nat] /\ \A v \in Version : runs[v] > 0 => runs'[v] > 0
        BY <2>7 DEF ProcessSucceeds, RunsCap
      <3>2. runs'[target[j]] > 0
        BY <2>7 DEF ProcessSucceeds, RunsCap
      <3>3. completed = 0 \/ completed \in Version
        BY DEF Version
      <3>4. QED BY <2>7, <3>1, <3>2, <3>3 DEF ProcessSucceeds
    <2>8. CASE CompleteReads(j)
      BY <2>8 DEF CompleteReads
    <2>9. CASE CompleteWrites(j)
      BY <2>9 DEF CompleteWrites
    <2>10. CASE Exit(j) \/ Throw(j)
      BY <2>10 DEF Exit, Throw
    <2>11. QED
      BY <1>5, <2>1, <2>2, <2>3, <2>4, <2>5, <2>6, <2>7, <2>8, <2>9, <2>10 DEF Processor
  <1>6. ASSUME NEW j \in Job, RetryDue(j) \/ RefreshLock(j) \/ RedisError(j) \/ Crash(j)
        PROVE WorkInv'
    BY <1>6
    DEF RetryDue, RefreshLock, RedisError, Crash, Leave, state, queueVars, lockVars, faultVars
  <1>7. CASE UNCHANGED vars
    BY <1>7 DEF vars, state, queueVars, lockVars, faultVars
  <1>8. QED BY <1>1, <1>2, <1>3, <1>4, <1>5, <1>6, <1>7 DEF Next

\* A job leaves its processor finished, or waiting with an attempt left.
LEMMA NextJob == TypeOK /\ WorkInv /\ JobInv /\ [Next]_vars => JobInv'
  <1> SUFFICES ASSUME TypeOK, WorkInv, JobInv, [Next]_vars PROVE JobInv'
    OBVIOUS
  <1> USE DEF TypeOK, JobInv, JobOf
  <1>1. CASE Request \/ CleanupReads \/ CleanupWrites \/ LockExpires \/ UNCHANGED vars
    BY <1>1 DEF Request, CleanupReads, CleanupWrites, LockExpires, vars, queueVars
  <1>2. ASSUME NEW v \in Version, ScheduleWake(v) \/ ScheduleWakeFails(v) PROVE JobInv'
    BY <1>2 DEF ScheduleWake, ScheduleWakeFails, AddJob, queueVars, Job
  <1>3. ASSUME NEW j \in Job, Processor(j) PROVE JobInv'
    <2> USE DEF Step, Leave, queueVars
    <2>1. CASE StartJob(j) \/ GetLock(j) \/ NoLock(j)
      BY <2>1 DEF StartJob, GetLock, NoLock
    <2>2. CASE DeniedDone(j) \/ DeniedDirty(j) \/ RetryReads(j)
      BY <2>2 DEF DeniedDone, DeniedDirty, RetryReads
    <2>3. CASE AddRetry(j)
      <3>1. <<"retry", target[j]>> \in Job
        BY <2>3 DEF AddRetry, WorkInv, WorkOf, Job
      <3>2. QED BY <2>3, <3>1 DEF AddRetry, AddJob
    <2>4. CASE \/ ReadClean(j) \/ ReadDirty(j) \/ MarkProcessing(j) \/ ProcessSucceeds(j)
               \/ ProcessFails(j) \/ CompleteReads(j) \/ CompleteWrites(j)
      BY <2>4
      DEF ReadClean, ReadDirty, MarkProcessing, ProcessSucceeds, ProcessFails, CompleteReads,
          CompleteWrites
    <2>5. CASE Exit(j)
      BY <2>5 DEF Exit
    <2>6. CASE Throw(j)
      BY <2>6 DEF Throw
    <2>7. QED BY <1>3, <2>1, <2>2, <2>3, <2>4, <2>5, <2>6 DEF Processor
  <1>4. ASSUME NEW j \in Job, RetryDue(j) \/ RefreshLock(j) \/ RedisError(j) \/ Crash(j)
        PROVE JobInv'
    BY <1>4 DEF RetryDue, RefreshLock, RedisError, Crash, Leave, queueVars
  <1>5. QED BY <1>1, <1>2, <1>3, <1>4 DEF Next

-----------------------------------------------------------------------------
(* The lock *)

\* Without lost leases at most one job is in the loop, so the read that
\* markCRMRefreshCompleted makes is still true when it writes.
LEMMA NextLock == IInv /\ [Next]_vars => LockInv'
  <1> SUFFICES ASSUME IInv, [Next]_vars, slips' = 0 PROVE LockInv'
    BY DEF LockInv
  <1> USE DEF IInv, TypeOK, LockInv, Inside
  <1>s. ~Slips
    BY DEF Slips
  <1> USE <1>s DEF OnTime
  <1>0. \A i, j \in Job : i # j => token(i) # token(j)
    BY DEF token
  <1>1. CASE Request \/ CleanupReads \/ CleanupWrites \/ UNCHANGED vars
    BY <1>1 DEF Request, CleanupReads, CleanupWrites, vars, state, lockVars, faultVars, token
  <1>2. ASSUME NEW v \in Version, ScheduleWake(v) \/ ScheduleWakeFails(v) PROVE LockInv'
    BY <1>2 DEF ScheduleWake, ScheduleWakeFails, state, lockVars, faultVars, token
  <1>3. CASE LockExpires
    BY <1>3 DEF LockExpires, Lock!Expire, state, faultVars, token
  <1>4. ASSUME NEW j \in Job, Processor(j) PROVE LockInv'
    <2> USE DEF Step, Leave, state, queueVars, lockVars, faultVars, token
    <2>1. CASE StartJob(j) \/ NoLock(j)
      BY <2>1 DEF StartJob, NoLock
    <2>2. CASE GetLock(j)
      <3>1. NoOwner \notin handles
        BY DEF Lock!TypeOK
      <3>2. handles = {}
        BY <2>2, <3>1 DEF GetLock, Lock!Acquire
      <3>3. QED BY <2>2, <3>2, <1>0 DEF GetLock, Lock!Acquire
    <2>3. CASE DeniedDone(j) \/ DeniedDirty(j) \/ RetryReads(j) \/ AddRetry(j)
      BY <2>3 DEF DeniedDone, DeniedDirty, RetryReads, AddRetry
    <2>4. CASE ReadClean(j) \/ ReadDirty(j) \/ MarkProcessing(j) \/ ProcessSucceeds(j)
      BY <2>4 DEF ReadClean, ReadDirty, MarkProcessing, ProcessSucceeds
    <2>5. CASE ProcessFails(j) \/ CompleteReads(j)
      BY <2>5 DEF ProcessFails, CompleteReads
    <2>6. CASE CompleteWrites(j)
      BY <2>6, <1>0 DEF CompleteWrites
    <2>7. CASE Exit(j)
      BY <2>7, <1>0 DEF Exit, ReleaseLock, Lock!Release
    <2>8. CASE Throw(j)
      BY <2>8, <1>0 DEF Throw, ReleaseLock, Lock!Release
    <2>9. QED
      BY <1>4, <2>1, <2>2, <2>3, <2>4, <2>5, <2>6, <2>7, <2>8 DEF Processor
  <1>5. ASSUME NEW j \in Job, RetryDue(j) \/ RefreshLock(j) \/ RedisError(j) PROVE LockInv'
    BY <1>5 DEF RetryDue, RefreshLock, RedisError, state, lockVars, faultVars, token
  <1>6. ASSUME NEW j \in Job, Crash(j) PROVE LockInv'
    BY <1>6, <1>0 DEF Crash, Leave, Lock!Drop, state, faultVars, token
  <1>7. QED BY <1>1, <1>2, <1>3, <1>4, <1>5, <1>6 DEF Next

-----------------------------------------------------------------------------
(* The theorems *)

\* The inductive invariant holds in every reachable state.
THEOREM CRMInvariant == Spec => []IInv
  <1>1. IInv /\ [Next]_vars => IInv'
    BY NextType, NextWork, NextJob, NextLock DEF IInv
  <1>2. QED BY InitInv, <1>1, PTL DEF Spec

\* The variables keep their types.
THEOREM CRMTypeCorrect == Spec => []TypeOK
  <1>1. IInv => TypeOK
    BY DEF IInv
  <1>2. QED BY CRMInvariant, <1>1, PTL

\* Whatever fails, completedVersion is a version that was processed.
THEOREM CRMCompletedWasProcessed == Spec => []CompletedWasProcessed
  <1>1. IInv => CompletedWasProcessed
    BY DEF IInv, WorkInv
  <1>2. QED BY CRMInvariant, <1>1, PTL

\* While workers keep their leases, completedVersion never goes back.
THEOREM CRMCompletedNeverRegresses == Spec => CompletedNeverRegresses
  <1>1. ASSUME IInv, [Next]_vars PROVE [slips = 0 => completed' >= completed]_vars
    <2> SUFFICES ASSUME slips = 0 PROVE completed' >= completed \/ UNCHANGED vars
      OBVIOUS
    <2> USE <1>1 DEF IInv, TypeOK
    <2>1. CASE UNCHANGED completed
      BY <2>1
    <2>2. ASSUME NEW j \in Job, CompleteWrites(j) PROVE completed' >= completed
      BY <2>2 DEF CompleteWrites, Step, LockInv
    <2>3. UNCHANGED completed \/ \E j \in Job : CompleteWrites(j)
      <3> USE DEF state, Request, CleanupReads, CleanupWrites, LockExpires, vars
      <3>1. CASE \E v \in Version : ScheduleWake(v) \/ ScheduleWakeFails(v)
        BY <3>1 DEF ScheduleWake, ScheduleWakeFails
      <3>2. ASSUME NEW j \in Job, Processor(j)
            PROVE UNCHANGED completed \/ CompleteWrites(j)
        BY <3>2
        DEF Processor, StartJob, GetLock, NoLock, DeniedDone, DeniedDirty, RetryReads, AddRetry,
            ReadClean, ReadDirty, MarkProcessing, ProcessSucceeds, ProcessFails, CompleteReads,
            Exit, Throw
      <3>3. ASSUME NEW j \in Job, RetryDue(j) \/ RefreshLock(j) \/ RedisError(j) \/ Crash(j)
            PROVE UNCHANGED completed
        BY <3>3 DEF RetryDue, RefreshLock, RedisError, Crash
      <3>4. QED BY <3>1, <3>2, <3>3 DEF Next
    <2>4. QED BY <2>1, <2>2, <2>3
  <1>2. QED BY CRMInvariant, <1>1, PTL DEF Spec, CompletedNeverRegresses

-----------------------------------------------------------------------------
(* Work is neither repeated nor lost *)

\* While no lease is lost, a job in the loop has a version to do that is not
\* recorded yet; a version is processed once more for each death, and as often
\* as there were deaths if it is neither recorded nor about to be.
Recording(j, v) == pc[j] \in {"complete", "write"} /\ target[j] = v

RunsInv ==
  slips = 0 =>
    /\ \A j \in Job : pc[j] \in {"mark", "process", "complete"} => completed < target[j]
    /\ \A v \in Version :
         /\ runs[v] <= 1 + crashes
         /\ v > completed /\ (\A j \in Job : ~Recording(j, v)) => runs[v] <= crashes

\* Somebody will see to a request, unless its wake job has failed: a wake job
\* that is done saw its version covered or left a retry job for it.
Retried(v) == \E w \in Version : w >= v /\ job[<<"retry", w>>] # "absent"

WakeOf(v) ==
  LET j == <<"wake", v>> IN
  /\ v <= requested <=> v \in callers \/ job[j] # "absent"
  /\ pc[j] = "addRetry" => target[j] >= v
  /\ pc[j] = "exit" => completed >= v
  /\ job[j] = "done" => completed >= v \/ Retried(v)

WakeInv ==
  slips = 0 =>
    /\ \A j \in Job : target[j] <= requested
    /\ \A v \in Version : (job[<<"retry", v>>] # "absent" => v <= requested) /\ WakeOf(v)

\* A step after which nothing slipped is not a slip.
LEMMA NoSlip ==
  ASSUME TypeOK, [Next]_vars, slips' = 0
  PROVE  slips = 0 /\ ~Slips
  <1> USE DEF TypeOK, Slips, OnTime
  <1>1. slips' = slips \/ slips' = slips + 1
    <2> USE DEF faultVars
    <2>1. CASE Request \/ CleanupReads \/ CleanupWrites \/ LockExpires \/ UNCHANGED vars
      BY <2>1 DEF Request, CleanupReads, CleanupWrites, LockExpires, vars
    <2>2. ASSUME NEW v \in Version, ScheduleWake(v) \/ ScheduleWakeFails(v)
          PROVE  slips' = slips \/ slips' = slips + 1
      BY <2>2 DEF ScheduleWake, ScheduleWakeFails
    <2>3. ASSUME NEW j \in Job, Processor(j) PROVE slips' = slips \/ slips' = slips + 1
      BY <2>3
      DEF Processor, StartJob, GetLock, NoLock, DeniedDone, DeniedDirty, RetryReads, AddRetry,
          ReadClean, ReadDirty, MarkProcessing, ProcessSucceeds, ProcessFails, CompleteReads,
          CompleteWrites, Exit, Throw, ReleaseLock
    <2>4. ASSUME NEW j \in Job, RetryDue(j) \/ RefreshLock(j) \/ RedisError(j) \/ Crash(j)
          PROVE  slips' = slips \/ slips' = slips + 1
      BY <2>4 DEF RetryDue, RefreshLock, RedisError, Crash
    <2>5. QED BY <2>1, <2>2, <2>3, <2>4 DEF Next
  <1>2. slips \in Nat
    OBVIOUS
  <1>3. QED BY <1>1, <1>2

\* While no lease is lost, one job is in the loop.
LEMMA OneInside ==
  ASSUME IInv, slips = 0, NEW i \in Job, NEW j \in Job, pc[i] \in Inside, pc[j] \in Inside
  PROVE  i = j
  <1>1. token(i) = token(j)
    BY DEF IInv, LockInv
  <1>2. QED BY <1>1 DEF token

\* A step that leaves the versions alone and the jobs about to record one.
LEMMA RunsKept ==
  ASSUME RunsInv, slips = 0, UNCHANGED <<completed, runs, crashes, target>>,
         \A j \in Job : /\ pc'[j] \in {"complete", "write"} <=> pc[j] \in {"complete", "write"}
                        /\ pc'[j] \in {"mark", "process", "complete"}
                             => pc[j] \in {"mark", "process", "complete"}
  PROVE  RunsInv'
  BY DEF RunsInv, Recording

LEMMA NextRuns == IInv /\ RunsInv /\ [Next]_vars => RunsInv'
  <1> SUFFICES ASSUME IInv, RunsInv, [Next]_vars, slips' = 0 PROVE RunsInv'
    BY DEF RunsInv
  <1>t. TypeOK
    BY DEF IInv
  <1>s. slips = 0 /\ ~Slips
    BY NoSlip, <1>t
  <1> USE <1>s, <1>t DEF TypeOK, OnTime
  <1>1. CASE Request \/ CleanupReads \/ CleanupWrites \/ LockExpires \/ UNCHANGED vars
    BY <1>1, RunsKept
    DEF Request, CleanupReads, CleanupWrites, LockExpires, vars, state, queueVars, lockVars,
        faultVars
  <1>2. ASSUME NEW v \in Version, ScheduleWake(v) \/ ScheduleWakeFails(v) PROVE RunsInv'
    BY <1>2, RunsKept DEF ScheduleWake, ScheduleWakeFails, state, queueVars, lockVars, faultVars
  <1>3. ASSUME NEW j \in Job, Processor(j) PROVE RunsInv'
    <2> USE DEF Step, Leave, state, queueVars, lockVars, faultVars
    <2>1. CASE StartJob(j) \/ GetLock(j) \/ NoLock(j)
      BY <2>1, RunsKept DEF StartJob, GetLock, NoLock
    <2>2. CASE DeniedDirty(j) \/ ReadClean(j) \/ MarkProcessing(j) \/ ProcessFails(j)
      BY <2>2, RunsKept DEF DeniedDirty, ReadClean, MarkProcessing, ProcessFails
    <2>3. CASE DeniedDone(j) \/ RetryReads(j) \/ AddRetry(j) \/ ReadDirty(j) \/ Exit(j) \/ Throw(j)
      <3>1. /\ UNCHANGED <<completed, runs, crashes>>
            /\ pc[j] \notin {"mark", "process", "complete", "write"}
            /\ pc'[j] \in {"mark", "process", "complete", "write"} =>
                 pc'[j] = "mark" /\ completed < target'[j]
            /\ \A i \in Job \ {j} : pc'[i] = pc[i] /\ target'[i] = target[i]
        BY <2>3 DEF DeniedDone, RetryReads, AddRetry, ReadDirty, Exit, Throw, ReleaseLock
      <3>2. \A i \in Job, v \in Version : Recording(i, v)' <=> Recording(i, v)
        BY <3>1 DEF Recording
      <3>3. \A i \in Job : pc'[i] \in {"mark", "process", "complete"} => completed' < target'[i]
        BY <3>1 DEF RunsInv
      <3>4. QED BY <3>1, <3>2, <3>3 DEF RunsInv
    <2>4. CASE ProcessSucceeds(j)
      <3>1. /\ target[j] \in Version /\ completed < target[j]
            /\ \A i \in Job : ~Recording(i, target[j])
        BY <2>4, OneInside DEF ProcessSucceeds, IInv, WorkInv, WorkOf, RunsInv, Recording, Inside
      <3>2. runs[target[j]] <= crashes
        BY <3>1 DEF RunsInv
      <3>3. runs'[target[j]] <= 1 + crashes
        BY <2>4, <3>1, <3>2 DEF ProcessSucceeds, RunsCap
      <3>4. \A v \in Version \ {target[j]} : runs'[v] = runs[v]
        BY <2>4 DEF ProcessSucceeds
      <3>5. /\ UNCHANGED <<completed, crashes, target>> /\ pc'[j] = "complete"
            /\ \A i \in Job \ {j} : pc'[i] = pc[i]
        BY <2>4 DEF ProcessSucceeds
      <3>6. \A i \in Job, v \in Version : Recording(i, v) => Recording(i, v)'
        BY <2>4, <3>5 DEF ProcessSucceeds, Recording
      <3>7. Recording(j, target[j])'
        BY <3>5 DEF Recording
      <3>8. \A i \in Job : pc'[i] \in {"mark", "process", "complete"} => completed' < target'[i]
        BY <3>1, <3>5 DEF RunsInv
      <3>9. \A v \in Version : runs'[v] <= 1 + crashes'
        BY <3>3, <3>4, <3>5 DEF RunsInv
      <3>10. ASSUME NEW v \in Version, v > completed', \A i \in Job : ~Recording(i, v)'
             PROVE  runs'[v] <= crashes'
        BY <3>4, <3>5, <3>6, <3>7, <3>10 DEF RunsInv
      <3>11. QED BY <3>8, <3>9, <3>10 DEF RunsInv
    <2>5. CASE CompleteReads(j)
      <3>1. ~(completed >= target[j])
        BY <2>5 DEF CompleteReads, RunsInv
      <3>2. QED BY <2>5, <3>1, RunsKept DEF CompleteReads
    <2>6. CASE CompleteWrites(j)
      <3>1. completed < target[j] /\ completed' = target[j] /\ target[j] \in Version
        BY <2>6 DEF CompleteWrites, IInv, LockInv, WorkInv, WorkOf
      <3>2. /\ UNCHANGED <<runs, crashes, target>> /\ pc'[j] = "read"
            /\ \A i \in Job \ {j} : pc'[i] = pc[i]
        BY <2>6 DEF CompleteWrites
      <3>3. \A i \in Job : pc'[i] \notin {"mark", "process", "complete"}
        BY <2>6, <3>2, OneInside DEF CompleteWrites, Inside
      <3>4. ASSUME NEW v \in Version, v > completed', \A i \in Job : ~Recording(i, v)'
            PROVE  v > completed /\ \A i \in Job : ~Recording(i, v)
        <4>1. v \in Nat /\ v > target[j] /\ v > completed
          BY <3>1, <3>4 DEF Version
        <4>2. ~Recording(j, v)
          BY <3>1, <4>1 DEF Recording, Version
        <4>3. \A i \in Job \ {j} : ~Recording(i, v)
          BY <3>2, <3>4 DEF Recording
        <4>4. QED BY <4>1, <4>2, <4>3
      <3>5. QED BY <3>2, <3>3, <3>4 DEF RunsInv
    <2>7. QED
      BY <1>3, <2>1, <2>2, <2>3, <2>4, <2>5, <2>6 DEF Processor
  <1>4. ASSUME NEW j \in Job, RetryDue(j) \/ RefreshLock(j) \/ RedisError(j) PROVE RunsInv'
    BY <1>4, RunsKept DEF RetryDue, RefreshLock, RedisError, state, queueVars, lockVars, faultVars
  <1>5. ASSUME NEW j \in Job, Crash(j) PROVE RunsInv'
    <2>1. /\ UNCHANGED <<completed, runs>> /\ crashes' = crashes + 1
          /\ pc'[j] = "idle"
          /\ \A i \in Job \ {j} : pc'[i] = pc[i] /\ target'[i] = target[i]
      BY <1>5 DEF Crash, Leave, state
    <2>2. \A i \in Job : pc'[i] \in {"mark", "process", "complete"} => completed' < target'[i]
      BY <2>1 DEF RunsInv
    <2>3. QED BY <2>1, <2>2 DEF RunsInv
  <1>6. QED BY <1>1, <1>2, <1>3, <1>4, <1>5 DEF Next

\* A step of one job that adds and finishes none and reads no version.
LEMMA WakeKept ==
  ASSUME TypeOK, WakeInv, slips = 0, UNCHANGED <<requested, callers>>,
         completed' >= completed, completed' \in Nat,
         \A i \in Job : /\ job[i] = "absent" <=> job'[i] = "absent"
                        /\ job'[i] = "done" => job[i] = "done"
                        /\ target'[i] <= requested,
         \A i \in Job : pc'[i] \in {"addRetry", "exit"} => pc'[i] = pc[i] /\ target'[i] = target[i]
  PROVE  WakeInv'
  <1> USE DEF TypeOK
  <1>1. ASSUME NEW v \in Version PROVE WakeOf(v)'
    <2>1. <<"wake", v>> \in Job /\ \A w \in Version : <<"retry", w>> \in Job
      BY DEF Job
    <2>w. WakeOf(v)
      BY DEF WakeInv
    <2>2. WakeOf(v) /\ v \in Nat
      BY <2>w DEF Version
    <2>3. Retried(v) => Retried(v)'
      BY <2>1 DEF Retried
    <2>4. completed >= v => completed' >= v
      BY <2>2
    <2>5. QED BY <2>1, <2>2, <2>3, <2>4 DEF WakeOf
  <1>2. \A v \in Version : job'[<<"retry", v>>] # "absent" => v <= requested'
    BY DEF WakeInv, Job
  <1>3. QED BY <1>1, <1>2 DEF WakeInv

LEMMA NextWake == IInv /\ WakeInv /\ [Next]_vars => WakeInv'
  <1> SUFFICES ASSUME IInv, WakeInv, [Next]_vars, slips' = 0 PROVE WakeInv'
    BY DEF WakeInv
  <1>t. TypeOK
    BY DEF IInv
  <1>s. slips = 0 /\ ~Slips
    BY NoSlip, <1>t
  <1>j. \A v \in Version : <<"wake", v>> \in Job /\ <<"retry", v>> \in Job
    BY DEF Job
  <1> USE <1>s, <1>t, <1>j DEF TypeOK, OnTime
  <1>w. \A v \in Version : WakeOf(v)
    BY DEF WakeInv
  <1>1. CASE Request
    <2>1. /\ requested' = requested + 1 /\ callers' = callers \cup {requested + 1}
          /\ UNCHANGED <<completed, job, pc, target>>
      BY <1>1 DEF Request, queueVars
    <2>2. ASSUME NEW v \in Version PROVE WakeOf(v)'
      BY <1>w, <2>1 DEF WakeOf, Retried, Version
    <2>3. QED BY <2>1, <2>2 DEF WakeInv, Version
  <1>2. CASE CleanupReads \/ CleanupWrites \/ LockExpires \/ UNCHANGED vars
    BY <1>2
    DEF CleanupReads, CleanupWrites, LockExpires, vars, state, queueVars, lockVars, WakeInv,
        WakeOf, Retried
  <1>3. ASSUME NEW w \in Version, ScheduleWake(w) \/ ScheduleWakeFails(w) PROVE WakeInv'
    <2>1. /\ UNCHANGED <<requested, completed, pc, target>>
          /\ w \in callers /\ callers' = callers \ {w}
          /\ job' = AddJob(job, <<"wake", w>>, "waiting")
      BY <1>3 DEF ScheduleWake, ScheduleWakeFails, state
    <2>2. \A v \in Version : job'[<<"retry", v>>] = job[<<"retry", v>>]
      BY <2>1 DEF AddJob
    <2>3. \A v \in Version : v # w => job'[<<"wake", v>>] = job[<<"wake", v>>]
      BY <2>1 DEF AddJob
    <2>4. /\ job'[<<"wake", w>>] # "absent"
          /\ job'[<<"wake", w>>] = "done" => job[<<"wake", w>>] = "done"
      BY <2>1 DEF AddJob
    <2>5. ASSUME NEW v \in Version PROVE WakeOf(v)'
      BY <1>w, <2>1, <2>2, <2>3, <2>4 DEF WakeOf, Retried
    <2>6. QED BY <2>1, <2>2, <2>5 DEF WakeInv
  <1>4. ASSUME NEW j \in Job, Processor(j) PROVE WakeInv'
    <2> USE DEF Step, Leave, state, queueVars, lockVars, faultVars
    <2>a. pc[j] # "idle" => job[j] = "active"
      BY DEF IInv, JobInv, JobOf
    <2>1. CASE StartJob(j) \/ GetLock(j) \/ NoLock(j)
      <3>1. /\ UNCHANGED <<requested, callers, completed, target>>
            /\ \A i \in Job : /\ job[i] = "absent" <=> job'[i] = "absent"
                              /\ job'[i] = "done" => job[i] = "done"
            /\ \A i \in Job : pc'[i] \in {"addRetry", "exit"} => pc'[i] = pc[i]
        BY <2>1 DEF StartJob, GetLock, NoLock
      <3>2. QED BY <3>1, WakeKept DEF WakeInv
    <2>2. CASE DeniedDone(j)
      <3>1. /\ UNCHANGED <<requested, completed, callers>> /\ requested <= completed
            /\ job[j] = "active" /\ job'[j] = "done" /\ pc'[j] = "idle"
            /\ \A i \in Job \ {j} : job'[i] = job[i] /\ pc'[i] = pc[i] /\ target'[i] = target[i]
        BY <2>2, <2>a DEF DeniedDone
      <3>2. ASSUME NEW v \in Version PROVE WakeOf(v)'
        <4>1. WakeOf(v) /\ v \in Nat /\ (v <= requested => completed >= v)
          BY <1>w, <3>1 DEF Version
        <4>2. Retried(v) => Retried(v)'
          BY <3>1 DEF Retried
        <4>3. QED BY <3>1, <4>1, <4>2 DEF WakeOf
      <3>3. QED BY <2>2, <2>a, <3>2 DEF DeniedDone, WakeInv
    <2>3. CASE DeniedDirty(j) \/ ReadDirty(j) \/ MarkProcessing(j) \/ ProcessSucceeds(j)
               \/ ProcessFails(j) \/ CompleteReads(j)
      <3>1. /\ UNCHANGED <<requested, callers, completed, job>>
            /\ \A i \in Job : target'[i] = target[i] \/ target'[i] = requested
            /\ \A i \in Job : pc'[i] \in {"addRetry", "exit"} =>
                               pc'[i] = pc[i] /\ target'[i] = target[i]
        BY <2>3
        DEF DeniedDirty, ReadDirty, MarkProcessing, ProcessSucceeds, ProcessFails, CompleteReads
      <3>2. \A i \in Job : target'[i] <= requested
        BY <3>1 DEF WakeInv
      <3>3. QED BY <3>1, <3>2, WakeKept
    <2>4. CASE RetryReads(j)
      <3>1. \A v \in Version : WakeOf(v)'
        BY <2>4, <1>w, <2>a DEF RetryReads, WakeOf, Retried, Version
      <3>2. QED BY <2>4, <3>1 DEF RetryReads, WakeInv
    <2>5. CASE ReadClean(j)
      <3>1. \A v \in Version : WakeOf(v)'
        <4>1. /\ UNCHANGED <<requested, completed, callers, job, target>>
              /\ requested <= completed /\ job[j] = "active"
              /\ \A i \in Job \ {j} : pc'[i] = pc[i]
          BY <2>5, <2>a DEF ReadClean
        <4>2. pc'[j] = "exit"
          BY <2>5 DEF ReadClean
        <4>3. ASSUME NEW v \in Version PROVE WakeOf(v)'
          <5>1. WakeOf(v) /\ v \in Nat /\ (v <= requested => completed >= v)
            BY <1>w, <4>1 DEF Version
          <5>2. QED BY <4>1, <4>2, <5>1 DEF WakeOf, Retried
        <4>4. QED BY <4>3
      <3>2. QED BY <2>5, <3>1 DEF ReadClean, WakeInv
    <2>6. CASE AddRetry(j)
      <3>1. /\ target[j] \in Version /\ target[j] <= requested /\ pc[j] = "addRetry"
            /\ UNCHANGED <<requested, completed, callers>>
            /\ pc'[j] = "idle" /\ target'[j] = 0
            /\ \A i \in Job \ {j} : pc'[i] = pc[i] /\ target'[i] = target[i]
        BY <2>6 DEF AddRetry, IInv, WorkInv, WorkOf, WakeInv
      <3>2. /\ job'[j] = "done" /\ job'[<<"retry", target[j]>>] # "absent"
            /\ \A i \in Job : i # j /\ i # <<"retry", target[j]>> => job'[i] = job[i]
        BY <2>6, <3>1, <2>a DEF AddRetry, AddJob
      <3>3. \A i \in Job : job[i] # "absent" => job'[i] # "absent"
        BY <3>2
      <3>4. \A v \in Version : Retried(v) => Retried(v)'
        BY <3>3 DEF Retried
      <3>5. ASSUME NEW v \in Version, j = <<"wake", v>> PROVE WakeOf(v)'
        <4>1. Retried(v)'
          BY <1>w, <3>1, <3>2, <3>5 DEF WakeOf, Retried
        <4>2. QED BY <1>w, <2>a, <3>1, <3>2, <3>5, <4>1 DEF WakeOf
      <3>6. ASSUME NEW v \in Version, j # <<"wake", v>> PROVE WakeOf(v)'
        BY <1>w, <3>1, <3>2, <3>4, <3>6 DEF WakeOf
      <3>7. \A i \in Job : target'[i] <= requested'
        BY <3>1 DEF WakeInv
      <3>8. \A v \in Version : job'[<<"retry", v>>] # "absent" => v <= requested'
        BY <2>a, <3>1, <3>2 DEF WakeInv
      <3>9. QED BY <3>5, <3>6, <3>7, <3>8 DEF WakeInv
    <2>7. CASE CompleteWrites(j)
      <3>1. completed' >= completed /\ completed' \in Nat
        BY <2>7 DEF CompleteWrites, IInv, LockInv
      <3>2. /\ UNCHANGED <<requested, callers, job, target>>
            /\ \A i \in Job : pc'[i] \in {"addRetry", "exit"} => pc'[i] = pc[i]
        BY <2>7 DEF CompleteWrites
      <3>3. QED BY <3>1, <3>2, WakeKept DEF WakeInv
    <2>8. CASE Exit(j)
      <3>1. \A v \in Version : WakeOf(v)'
        BY <2>8, <1>w, <2>a DEF Exit, WakeOf, Retried
      <3>2. QED BY <2>8, <2>a, <3>1 DEF Exit, WakeInv
    <2>9. CASE Throw(j)
      <3>1. \A v \in Version : WakeOf(v)'
        BY <2>9, <1>w, <2>a DEF Throw, WakeOf, Retried
      <3>2. QED BY <2>9, <2>a, <3>1 DEF Throw, WakeInv
    <2>10. QED
      BY <1>4, <2>1, <2>2, <2>3, <2>4, <2>5, <2>6, <2>7, <2>8, <2>9 DEF Processor
  <1>5. ASSUME NEW j \in Job, RetryDue(j) \/ RefreshLock(j) \/ RedisError(j) PROVE WakeInv'
    <2>1. /\ UNCHANGED <<requested, callers, completed, target>>
          /\ \A i \in Job : /\ job[i] = "absent" <=> job'[i] = "absent"
                            /\ job'[i] = "done" => job[i] = "done"
          /\ \A i \in Job : pc'[i] \in {"addRetry", "exit"} => pc'[i] = pc[i]
      BY <1>5 DEF RetryDue, RefreshLock, RedisError, state, queueVars
    <2>2. QED BY <2>1, WakeKept DEF WakeInv
  <1>6. ASSUME NEW j \in Job, Crash(j) PROVE WakeInv'
    <2>1. \A v \in Version : WakeOf(v)'
      BY <1>6, <1>w DEF Crash, Leave, state, WakeOf, Retried
    <2>2. QED BY <1>6, <2>1 DEF Crash, Leave, state, WakeInv
  <1>7. QED BY <1>1, <1>2, <1>3, <1>4, <1>5, <1>6 DEF Next

\* While workers keep their leases and Redis answers, a version is processed
\* again only after a death, and a request is left behind only by a job that
\* has failed or a retry job that was spent, for any number of each.
THEOREM CRMWorkIsNotRepeatedOrLost == Spec => []WorkIsNotRepeatedOrLost
  <1>1. Init => RunsInv /\ WakeInv
    BY DEF Init, RunsInv, WakeInv, WakeOf, Version, Job
  <1>2. IInv /\ RunsInv => ProcessedOncePerCrash
    BY DEF RunsInv, ProcessedOncePerCrash
  <1>3. IInv /\ WakeInv => QuietDirtyOnlyAfterSpentRetry
    <2> SUFFICES ASSUME IInv, WakeInv, slips = 0, requested > completed, callers = {},
                        \A j \in Job : job[j] \in {"absent", "done"}
                 PROVE  job[<<"retry", requested>>] = "done"
      BY DEF QuietDirtyOnlyAfterSpentRetry
    <2> USE DEF IInv, TypeOK
    <2>0. requested \in Version
      BY DEF Version
    <2>1. requested \in Version /\ <<"wake", requested>> \in Job /\ WakeOf(requested)
      BY <2>0 DEF Job, WakeInv
    <2>2. job[<<"wake", requested>>] = "done"
      BY <2>1 DEF WakeOf
    <2>3. PICK w \in Version : w >= requested /\ job[<<"retry", w>>] # "absent"
      BY <2>1, <2>2 DEF WakeOf, Retried
    <2>4. w = requested
      BY <2>3 DEF WakeInv, Version
    <2>5. QED BY <2>3, <2>4 DEF Job
  <1>4. QED
    BY <1>1, <1>2, <1>3, NextRuns, NextWake, CRMInvariant, PTL DEF Spec, WorkIsNotRepeatedOrLost
=============================================================================
