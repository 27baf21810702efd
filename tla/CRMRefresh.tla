----------------------------- MODULE CRMRefresh -----------------------------
(***************************************************************************)
(* services/crm/refreshQueue.service.ts: the dirty-version loop that       *)
(* refreshes one lead's CRM profile.                                       *)
(*                                                                         *)
(* A request increments requestedVersion and enqueues a wake job.  A job   *)
(* that gets the lead's lock processes the newest request until completed  *)
(* catches up with requested; a job that does not get the lock enqueues a  *)
(* delayed retry job.  BullMQ (external) runs each job at least once,      *)
(* ignores an add whose job id it already knows, and runs a job again when *)
(* it throws or when its process died.                                     *)
(***************************************************************************)
EXTENDS Integers, FiniteSets

CONSTANTS
  MaxVersion,   \* bound on the requests made
  Attempts,     \* attempts of a job (defaultJobOptions: 5)
  MaxFailures,  \* bound on processors that throw
  MaxCrashes,   \* bound on processes that die while they run a job
  Concurrency,  \* jobs the workers of all processes run at the same time
  MaxSlips,     \* bound on lost leases, Redis errors and callers that die
  NoOwner       \* the lock's key does not exist

Version == 1..MaxVersion
Job     == {"wake", "retry"} \X Version     \* job ids: kind and version
Token   == Job \X (0..MaxCrashes)           \* lock tokens: job id and pid

ASSUME CRMAssumption ==
  /\ MaxVersion \in Nat \ {0} /\ Attempts \in Nat \ {0} /\ Concurrency \in Nat \ {0}
  /\ MaxFailures \in Nat /\ MaxCrashes \in Nat /\ MaxSlips \in Nat
  /\ NoOwner \notin Token

VARIABLES
  requested, processing, completed,  \* the lead's hash in Redis
  callers,   \* versions whose wake job enqueueCRMRefreshRequest has yet to add
  cleaner,   \* completedVersion a cleanup is about to write, or -1
  job,       \* state of each job in BullMQ
  due,       \* FALSE while the lease a retry job has seen may still be running
  made,      \* failed attempts of each job
  stalled,   \* jobs that BullMQ already ran again because their process died
  pc,        \* where the processor of each active job is
  target,    \* the version it works on
  pid,       \* the process incarnation that runs each job
  owner, handles, lost,  \* the lead's lock, see Lease
  failures, crashes,     \* throws and deaths so far
  slips,     \* what else went wrong: a live worker's lease, a Redis call, a caller
  runs       \* successful processRequest calls for each version, up to RunsCap

state     == <<requested, processing, completed>>
queueVars == <<job, due, made, stalled>>
lockVars  == <<owner, handles, lost>>
faultVars == <<failures, crashes, slips, pid>>
vars == <<state, callers, cleaner, queueVars, pc, target, lockVars, faultVars, runs>>

Lock == INSTANCE Lease WITH Client <- Token, None <- NoOwner

token(j) == <<j, pid[j]>>
RunsCap  == MaxCrashes + 2

PC == {"idle", "lock", "denied", "retry", "addRetry", "read", "mark",
       "process", "complete", "write", "exit", "throw"}

TypeOK ==
  /\ requested \in 0..MaxVersion
  /\ processing \in 0..MaxVersion
  /\ completed \in 0..MaxVersion
  /\ callers \subseteq Version
  /\ cleaner \in -1..MaxVersion
  /\ job \in [Job -> {"absent", "waiting", "delayed", "active", "done", "failed"}]
  /\ due \in [Job -> BOOLEAN]
  /\ made \in [Job -> 0..Attempts]
  /\ stalled \subseteq Job
  /\ pc \in [Job -> PC]
  /\ target \in [Job -> 0..MaxVersion]
  /\ pid \in [Job -> 0..MaxCrashes]
  /\ Lock!TypeOK
  /\ failures \in 0..MaxFailures /\ crashes \in 0..MaxCrashes /\ slips \in 0..MaxSlips
  /\ runs \in [Version -> 0..RunsCap]

Init ==
  /\ requested = 0 /\ processing = 0 /\ completed = 0
  /\ callers = {}
  /\ cleaner = -1
  /\ job = [j \in Job |-> "absent"]
  /\ due = [j \in Job |-> TRUE]
  /\ made = [j \in Job |-> 0]
  /\ stalled = {}
  /\ pc = [j \in Job |-> "idle"]
  /\ target = [j \in Job |-> 0]
  /\ pid = [j \in Job |-> 0]
  /\ Lock!Init
  /\ failures = 0 /\ crashes = 0 /\ slips = 0
  /\ runs = [v \in Version |-> 0]

Step(j, from, to) == pc[j] = from /\ pc' = [pc EXCEPT ![j] = to]

\* queue.add: a job id BullMQ already knows, even of a finished job, is ignored.
AddJob(jobs, j, newState) ==
  IF jobs[j] = "absent" THEN [jobs EXCEPT ![j] = newState] ELSE jobs

\* A step in which a lease is lost or outlives its worker's last read, a call to
\* Redis fails or a caller dies; and one in which nothing of that happens.
Slips  == slips < MaxSlips /\ slips' = slips + 1 /\ UNCHANGED <<failures, crashes, pid>>
OnTime == UNCHANGED faultVars

\* The job leaves its processor in the given state; its locals are gone.
Leave(j, jobs) ==
  /\ pc' = [pc EXCEPT ![j] = "idle"]
  /\ target' = [target EXCEPT ![j] = 0]
  /\ job' = jobs

-----------------------------------------------------------------------------
(* enqueueCRMRefreshRequest, and cleanupStaleCRMRefreshState in any reader *)

\* SCHEDULE_REFRESH_SCRIPT: the version and its payload change together.
Request ==
  /\ requested < MaxVersion
  /\ requested' = requested + 1
  /\ callers' = callers \cup {requested + 1}
  /\ UNCHANGED <<processing, completed, cleaner, queueVars, pc, target, lockVars,
                 faultVars, runs>>

ScheduleWake(v) ==
  /\ v \in callers
  /\ callers' = callers \ {v}
  /\ job' = AddJob(job, <<"wake", v>>, "waiting")
  /\ UNCHANGED <<state, cleaner, due, made, stalled, pc, target, lockVars, faultVars, runs>>

\* The caller dies, or the queue is not writable, after the version changed.
ScheduleWakeFails(v) ==
  /\ Slips
  /\ v \in callers
  /\ callers' = callers \ {v}
  /\ UNCHANGED <<state, cleaner, queueVars, pc, target, lockVars, runs>>

\* Every read of the state first resets a processingVersion nobody works on;
\* the lock is checked before, and not together with, the write.
CleanupReads ==
  /\ cleaner = -1
  /\ processing > completed /\ owner = NoOwner
  /\ cleaner' = completed
  /\ UNCHANGED <<state, callers, queueVars, pc, target, lockVars, faultVars, runs>>

CleanupWrites ==
  /\ cleaner # -1
  /\ processing' = cleaner
  /\ cleaner' = -1
  /\ UNCHANGED <<requested, completed, callers, queueVars, pc, target, lockVars,
                 faultVars, runs>>

-----------------------------------------------------------------------------
(* The worker's processor: the lock *)

StartJob(j) ==
  /\ job[j] = "waiting"
  /\ Cardinality({i \in Job : job[i] = "active"}) < Concurrency
  /\ job' = [job EXCEPT ![j] = "active"]
  /\ Step(j, "idle", "lock")
  /\ UNCHANGED <<state, callers, cleaner, due, made, stalled, target, lockVars, faultVars, runs>>

\* acquireDistributedLock without waiting: one attempt.
GetLock(j) ==
  /\ Step(j, "lock", "read")
  /\ Lock!Acquire(token(j))
  /\ due' = [i \in Job |-> TRUE]
  /\ UNCHANGED <<state, callers, cleaner, job, made, stalled, target, faultVars, runs>>

\* Mutant: a job that is not given the lock works all the same.
NoLockProceeds(j) ==
  /\ Step(j, "lock", "read")
  /\ owner \notin {NoOwner, token(j)}
  /\ UNCHANGED <<state, callers, cleaner, queueVars, target, lockVars, faultVars, runs>>

NoLock(j) ==
  /\ Step(j, "lock", "denied")
  /\ \/ /\ owner \notin {NoOwner, token(j)}
        /\ OnTime
        /\ UNCHANGED <<due, lockVars>>
     \/ /\ Slips                         \* granted, but the answer timed out
        /\ Lock!Grant(token(j))
        /\ due' = [i \in Job |-> TRUE]
  /\ UNCHANGED <<state, callers, cleaner, job, made, stalled, target, runs>>

\* The refresh timer.  A worker is expected to get from its last read of the
\* state to its release within one refresh interval.
RefreshLock(j) ==
  /\ token(j) \in handles /\ owner = token(j)
  /\ IF pc[j] \in {"exit", "throw"} THEN Slips ELSE OnTime
  /\ due' = [i \in Job |-> TRUE]
  /\ UNCHANGED <<state, callers, cleaner, job, made, stalled, pc, target, lockVars, runs>>

LockExpires ==
  /\ Lock!Expire
  /\ IF owner \in handles THEN Slips ELSE OnTime
  /\ due' = [i \in Job |-> TRUE]
  /\ UNCHANGED <<state, callers, cleaner, job, made, stalled, pc, target, runs>>

-----------------------------------------------------------------------------
(* The worker's processor: no lock, scheduleCRMRefreshRetry *)

\* Nothing to do any more: the job completes and BullMQ keeps its id.
DeniedDone(j) ==
  /\ pc[j] \in {"denied", "retry"}
  /\ requested <= completed
  /\ Leave(j, [job EXCEPT ![j] = "done"])
  /\ UNCHANGED <<state, callers, cleaner, due, made, stalled, lockVars, faultVars, runs>>

DeniedDirty(j) ==
  /\ requested > completed
  /\ Step(j, "denied", "retry")
  /\ UNCHANGED <<state, callers, cleaner, queueVars, target, lockVars, faultVars, runs>>

\* scheduleCRMRefreshRetry reads the state and the remaining TTL of the lock.
RetryReads(j) ==
  /\ requested > completed
  /\ Step(j, "retry", "addRetry")
  /\ target' = [target EXCEPT ![j] = requested]
  /\ due' = [due EXCEPT ![j] = owner = NoOwner]
  /\ UNCHANGED <<state, callers, cleaner, job, made, stalled, lockVars, faultVars, runs>>

\* Mutant: the job that was denied the lock leaves the work to its holder.
AddRetryNever(j) ==
  /\ pc[j] = "addRetry"
  /\ Leave(j, [job EXCEPT ![j] = "done"])
  /\ UNCHANGED <<state, callers, cleaner, due, made, stalled, lockVars, faultVars, runs>>

\* The retry job is added, unless its id is known, and this job completes.
AddRetry(j) ==
  LET r == <<"retry", target[j]>> IN
  /\ pc[j] = "addRetry"
  /\ Leave(j, [AddJob(job, r, "delayed") EXCEPT ![j] = "done"])
  /\ due' = [due EXCEPT ![r] = IF job[r] = "absent" THEN due[j] ELSE @]
  /\ UNCHANGED <<state, callers, cleaner, made, stalled, lockVars, faultVars, runs>>

\* Its delay is longer than the lease it saw.
RetryDue(r) ==
  /\ job[r] = "delayed" /\ due[r]
  /\ job' = [job EXCEPT ![r] = "waiting"]
  /\ UNCHANGED <<state, callers, cleaner, due, made, stalled, pc, target, lockVars, faultVars, runs>>

-----------------------------------------------------------------------------
(* The worker's processor: runDirtyRefreshLoop *)

ReadClean(j) ==
  /\ requested <= completed
  /\ Step(j, "read", "exit")
  /\ UNCHANGED <<state, callers, cleaner, queueVars, target, lockVars, faultVars, runs>>

ReadDirty(j) ==
  /\ requested > completed
  /\ Step(j, "read", "mark")
  /\ target' = [target EXCEPT ![j] = requested]
  /\ UNCHANGED <<state, callers, cleaner, queueVars, lockVars, faultVars, runs>>

\* Mutant: the next version is marked.
MarkProcessingNext(j) ==
  /\ Step(j, "mark", "process")
  /\ processing' = target[j] + 1
  /\ UNCHANGED <<requested, completed, callers, cleaner, queueVars, target, lockVars,
                 faultVars, runs>>

MarkProcessing(j) ==
  /\ Step(j, "mark", "process")
  /\ processing' = target[j]
  /\ UNCHANGED <<requested, completed, callers, cleaner, queueVars, target, lockVars,
                 faultVars, runs>>

ProcessSucceeds(j) ==
  /\ Step(j, "process", "complete")
  /\ runs' = [runs EXCEPT ![target[j]] = IF @ < RunsCap THEN @ + 1 ELSE @]
  /\ UNCHANGED <<state, callers, cleaner, queueVars, target, lockVars, faultVars>>

\* Mutant: the error is recorded but not thrown.
ProcessFailsQuietly(j) ==
  /\ failures < MaxFailures
  /\ failures' = failures + 1
  /\ Step(j, "process", "complete")
  /\ processing' = target[j]
  /\ UNCHANGED <<requested, completed, callers, cleaner, queueVars, target, lockVars,
                 crashes, slips, pid, runs>>

\* markFailed, then the error is thrown.
ProcessFails(j) ==
  /\ failures < MaxFailures
  /\ failures' = failures + 1
  /\ Step(j, "process", "throw")
  /\ processing' = target[j]
  /\ UNCHANGED <<requested, completed, callers, cleaner, queueVars, target, lockVars,
                 crashes, slips, pid, runs>>

\* markCRMRefreshCompleted reads the state and writes it in a second call.
CompleteReads(j) ==
  /\ Step(j, "complete", IF completed >= target[j] THEN "read" ELSE "write")
  /\ UNCHANGED <<state, callers, cleaner, queueVars, target, lockVars, faultVars, runs>>

\* Mutant: only processingVersion is written.
CompleteWritesHalf(j) ==
  /\ Step(j, "write", "read")
  /\ processing' = target[j]
  /\ UNCHANGED <<requested, completed, callers, cleaner, queueVars, target, lockVars,
                 faultVars, runs>>

CompleteWrites(j) ==
  /\ Step(j, "write", "read")
  /\ completed' = target[j]
  /\ processing' = target[j]
  /\ UNCHANGED <<requested, callers, cleaner, queueVars, target, lockVars, faultVars, runs>>

-----------------------------------------------------------------------------
(* The end of an attempt *)

\* The finally block; a transient error of the release is swallowed.
ReleaseLock(j) ==
  \/ Lock!Release(token(j)) /\ OnTime /\ due' = [i \in Job |-> due[i] \/ owner = token(j)]
  \/ Lock!Drop(token(j)) /\ Slips /\ UNCHANGED due

Exit(j) ==
  /\ pc[j] = "exit"
  /\ ReleaseLock(j)
  /\ Leave(j, [job EXCEPT ![j] = "done"])
  /\ UNCHANGED <<state, callers, cleaner, made, stalled, runs>>

\* The processor throws: BullMQ runs the job again while it has attempts left.
Throw(j) ==
  /\ pc[j] = "throw"
  /\ IF token(j) \in handles THEN ReleaseLock(j) ELSE OnTime /\ UNCHANGED <<due, lockVars>>
  /\ made' = [made EXCEPT ![j] = @ + 1]
  /\ Leave(j, [job EXCEPT ![j] = IF made[j] + 1 < Attempts THEN "waiting" ELSE "failed"])
  /\ UNCHANGED <<state, callers, cleaner, stalled, runs>>

\* Any of the processor's Redis calls may throw.
RedisError(j) ==
  /\ Slips
  /\ pc[j] \notin {"idle", "process", "exit", "throw"}
  /\ pc' = [pc EXCEPT ![j] = "throw"]
  /\ UNCHANGED <<state, callers, cleaner, queueVars, target, lockVars, runs>>

\* The process dies.  BullMQ finds the job stalled and runs it again, but only
\* once, in a process whose pid differs or, in another container, is the same.
Crash(j) ==
  /\ crashes < MaxCrashes
  /\ job[j] = "active"
  /\ crashes' = crashes + 1
  /\ Leave(j, [job EXCEPT ![j] = IF j \in stalled THEN "failed" ELSE "waiting"])
  /\ stalled' = stalled \cup {j}
  /\ \E p \in {pid[j], crashes + 1} : pid' = [pid EXCEPT ![j] = p]
  /\ IF token(j) \in handles THEN Lock!Drop(token(j)) ELSE UNCHANGED <<owner, handles, lost>>
  /\ UNCHANGED <<state, callers, cleaner, due, made, failures, slips, runs>>

-----------------------------------------------------------------------------
Processor(j) ==
  \/ StartJob(j) \/ GetLock(j) \/ NoLock(j)
  \/ DeniedDone(j) \/ DeniedDirty(j) \/ RetryReads(j) \/ AddRetry(j)
  \/ ReadClean(j) \/ ReadDirty(j) \/ MarkProcessing(j)
  \/ ProcessSucceeds(j) \/ ProcessFails(j) \/ CompleteReads(j) \/ CompleteWrites(j)
  \/ Exit(j) \/ Throw(j)

Next ==
  \/ Request
  \/ \E v \in Version : ScheduleWake(v) \/ ScheduleWakeFails(v)
  \/ CleanupReads \/ CleanupWrites
  \/ \E j \in Job : \/ Processor(j)
                    \/ RetryDue(j) \/ RefreshLock(j) \/ RedisError(j) \/ Crash(j)
  \/ LockExpires

Spec == Init /\ [][Next]_vars

\* Callers finish what they began, BullMQ hands out its jobs, processors run and
\* leases run out.  Nobody is obliged to request, fail or die.
Fairness ==
  /\ \A v \in Version : WF_vars(ScheduleWake(v))
  /\ \A j \in Job : WF_vars(Processor(j)) /\ WF_vars(RetryDue(j))
  /\ WF_vars(LockExpires)

FairSpec == Spec /\ Fairness

-----------------------------------------------------------------------------
(* Properties *)

\* completedVersion is a version whose own payload was processed with success:
\* no failure, crash, expired lease or second worker lets the loop skip it.
CompletedWasProcessed == completed = 0 \/ runs[completed] > 0

\* completedVersion never moves backwards while workers keep their leases:
\* markCRMRefreshCompleted checks before, and not together with, its write, and
\* only the lock keeps two of them apart.  (A worker that lost its lease does
\* move it backwards.)
CompletedNeverRegresses == [][slips = 0 => completed' >= completed]_vars

\* While workers keep their leases, a version is processed again only after a
\* worker died between processing it and recording it.
ProcessedOncePerCrash ==
  slips = 0 => \A v \in Version : runs[v] <= 1 + crashes

\* Unless a worker dies or loses its lease or Redis, every request is eventually covered by a completed
\* refresh, although its wake job may find the lock taken and the holder may
\* just have stopped looking.
EveryRequestCompletes ==
  \A v \in Version : requested >= v ~> completed >= v \/ crashes + slips > 0

\* While workers keep their leases and Redis answers: when nothing is left to
\* run although a request is not covered, either a job has used up its attempts,
\* or the request's retry job has been spent: the lock was taken when it fired,
\* and BullMQ ignored its id the second time.
QuietDirtyOnlyAfterSpentRetry ==
  /\ slips = 0 /\ requested > completed /\ callers = {}
  /\ \A j \in Job : job[j] \in {"absent", "done", "failed"}
  => \/ \E j \in Job : job[j] = "failed"
     \/ job[<<"retry", requested>>] = "done"

\* Both: the lock and the retry jobs neither repeat work nor lose it.
WorkIsNotRepeatedOrLost == ProcessedOncePerCrash /\ QuietDirtyOnlyAfterSpentRetry
=============================================================================
