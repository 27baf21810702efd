------------------------ MODULE ReplyDeliveryProofs ------------------------
(***************************************************************************)
(* Proofs about ReplyDelivery, for any number of jobs, attempts, tries,    *)
(* reschedules, control changes and faults.                                *)
(***************************************************************************)
EXTENDS ReplyDelivery, FiniteSetTheorems, TLAPS

USE ReplyAssumption

-----------------------------------------------------------------------------
(* Ranks and writes *)

LEMMA StatesAre ==
  DeliveryState = {"RESERVED", "PROVIDER_ACCEPTED", "PROVIDER_MESSAGE_ID_PERSISTED",
                   "CONFIRMED", "FAILED", "DELIVERED"}
  BY DEF DeliveryState, Rank

LEMMA WritesAre ==
  Write = {"reserve", "accept", "persistId", "confirm", "fail", "track", "terminal"}
  BY DEF Write, Incoming

LEMMA IncomingIsState ==
  ASSUME NEW w \in Write
  PROVE  /\ Incoming[w] \in DeliveryState
         /\ AfterWrite[w] \in PC
  BY WritesAre, StatesAre DEF Incoming, AfterWrite, PC, Inside

LEMMA ResolveIsState ==
  ASSUME NEW s \in DeliveryState \cup {NoTouch}, NEW t \in DeliveryState
  PROVE  Resolve(s, t) \in DeliveryState
  BY DEF Resolve

\* An upsert that asks for the provider boundary or more leaves the touch there.
LEMMA ResolveReaches ==
  ASSUME NEW s \in DeliveryState \cup {NoTouch}, NEW t \in DeliveryState,
         AtLeast(t, "PROVIDER_ACCEPTED")
  PROVE  AtLeast(Resolve(s, t), "PROVIDER_ACCEPTED")
  BY StatesAre DEF Resolve, AtLeast, Rank, NoTouch

\* An upsert never lowers the state it has read.
LEMMA ResolveKeeps ==
  ASSUME NEW s \in DeliveryState, NEW t \in DeliveryState
  PROVE  Rank[Resolve(s, t)] >= Rank[s] /\ Rank[Resolve(s, t)] >= Rank[t]
  BY StatesAre DEF Resolve, Rank, NoTouch

\* All writes but that of RESERVED reach the boundary.
LEMMA IncomingReaches ==
  ASSUME NEW w \in Write, w # "reserve"
  PROVE  AtLeast(Incoming[w], "PROVIDER_ACCEPTED")
  BY WritesAre DEF Incoming, AtLeast, Rank, NoTouch

-----------------------------------------------------------------------------
(* Type correctness *)

\* The processor runs on behalf of an active job.
Working(j) ==
  /\ pc[j] \notin {"idle", "terminal"}
  /\ pc[j] \in {"read", "write"} => next[j] # "terminal"

JobOf(j) ==
  /\ Working(j) => job[j] = "active"
  /\ job[j] \notin {"completed", "failed"} => made[j] < Attempts
  /\ pc[j] \in {"gate", "post"} => tries[j] < Tries

JobInv == \A j \in Job : JobOf(j)

LEMMA InitType == Init => TypeOK /\ JobInv
  <1> SUFFICES ASSUME Init PROVE TypeOK /\ JobInv
    OBVIOUS
  <1>b. blind \in BOOLEAN
    BY Zenon DEF Init
  <1>1. TypeOK
    BY <1>b, WritesAre DEF Init, TypeOK, PC, Inside, Job, NoJob
  <1>2. JobInv
    BY DEF Init, JobInv, JobOf, Working
  <1>3. QED BY <1>1, <1>2

LEMMA NextType == TypeOK /\ JobInv /\ [Next]_vars => TypeOK'
  <1> SUFFICES ASSUME TypeOK, JobInv, [Next]_vars PROVE TypeOK'
    OBVIOUS
  <1> USE DEF TypeOK, PC, Inside, leadVars, traces, sendVars, queueVars, procVars, faultVars,
              Step, Fault, BlindFault
  <1>1. CASE Control
    <2>1. CASE Takeover
      BY <2>1 DEF Takeover
    <2>2. CASE Handback
      <3>1. version' \in 0..MaxVersion
        BY <2>2 DEF Handback
      <3>2. suppressed' \in BOOLEAN
        BY <2>2, Zenon DEF Handback
      <3>3. QED BY <2>2, <3>1, <3>2 DEF Handback
    <2>5. CASE ManualSend
      BY <2>5 DEF ManualSend
    <2>6. CASE SuppressionEnds
      BY <2>6 DEF SuppressionEnds
    <2>3. CASE ConsentChanges
      <3>1. consent' \in BOOLEAN
        BY <2>3 DEF ConsentChanges
      <3>2. late' \in Nat
        BY <2>3 DEF ConsentChanges
      <3>3. QED BY <2>3, <3>1, <3>2 DEF ConsentChanges
    <2>4. QED BY <1>1, <2>1, <2>2, <2>3, <2>5, <2>6 DEF Control
  <1>2. ASSUME NEW j \in Job, Receipt(j) PROVE TypeOK'
    <2>1. Resolve(touch[j].state, "DELIVERED") \in DeliveryState
      BY ResolveIsState, StatesAre
    <2>2. QED BY <1>2, <2>1 DEF Receipt
  <1>3. ASSUME NEW j \in Job, Start(j) PROVE TypeOK'
    BY <1>3 DEF Start
  <1>4. ASSUME NEW j \in Job, Errors(j) PROVE TypeOK'
    BY <1>4 DEF Errors
  <1>5. ASSUME NEW j \in Job, Crash(j) PROVE TypeOK'
    <2>1. job' \in [Job -> {"absent", "waiting", "active", "completed", "failed"}]
      BY <1>5 DEF Crash
    <2>2. stalled' \subseteq Job
      BY <1>5 DEF Crash
    <2>3. pc' \in [Job -> PC] /\ faults' \in 0..MaxFaults
      BY <1>5 DEF Crash
    <2>4. QED BY <1>5, <2>1, <2>2, <2>3 DEF Crash
  <1>6. CASE LockExpires
    BY <1>6 DEF LockExpires
  <1>7. ASSUME NEW j \in Job, Attempt(j) PROVE TypeOK'
    <2>1. CASE StartAllowed(j)
      BY <2>1 DEF StartAllowed
    <2>7. CASE StartDenied(j)
      BY <2>7 DEF StartDenied, Completes
    <2>8. CASE StartBlind(j)
      BY <2>8 DEF StartBlind, Completes
    <2>2. CASE GetLock(j) \/ Unlock(j)
      BY <2>2 DEF GetLock, Unlock
    <2>3. ASSUME NEW b \in BOOLEAN, Fails(j, b), Working(j), UNCHANGED faultVars,
                 UNCHANGED holder
          PROVE  TypeOK'
      <3>5. made[j] < Attempts
        BY <2>3 DEF JobInv, JobOf
      <3>6. made' = [made EXCEPT ![j] = @ + 1]
        BY <2>3 DEF Fails
      <3>1. made' \in [Job -> 0..Attempts]
        BY <3>5, <3>6
      <3>2. job' \in [Job -> {"absent", "waiting", "active", "completed", "failed"}]
        BY <2>3 DEF Fails
      <3>3. pc' \in [Job -> PC]
        BY <2>3 DEF Fails
      <3>4. QED BY <2>3, <3>1, <3>2, <3>3 DEF Fails
    <2>4. CASE Busy(j)
      BY <2>3, <2>4 DEF Busy, Working
    <2>5. CASE Leave(j)
      <3>1. CASE pc[j] = "return" /\ Completes(j)
        BY <2>5, <3>1 DEF Leave, Completes
      <3>2. CASE pc[j] = "throw" /\ Fails(j, FALSE)
        BY <2>3, <2>5, <3>2 DEF Leave, Working
      <3>3. CASE pc[j] = "limited" /\ Fails(j, TRUE)
        BY <2>3, <2>5, <3>3 DEF Leave, Working
      <3>4. QED BY <2>5, <3>1, <3>2, <3>3 DEF Leave
    <2>6. QED BY <1>7, <2>1, <2>2, <2>4, <2>5, <2>7, <2>8 DEF Attempt
  <1>8. ASSUME NEW j \in Job, Route(j) PROVE TypeOK'
    <2>1. CASE RouteSent(j) \/ RouteReplies(j) \/ RouteNoReply(j)
      BY <2>1 DEF RouteSent, RouteReplies, RouteNoReply
    <2>2. CASE RouteLimited(j)
      BY <2>2 DEF RouteLimited, Reschedule
    <2>3. QED BY <1>8, <2>1, <2>2 DEF Route
  <1>9. ASSUME NEW j \in Job, Deliver(j) PROVE TypeOK'
    <2>1. CASE DeliverDenied(j) \/ DeliverFresh(j)
      BY <2>1 DEF DeliverDenied, DeliverFresh
    <2>6. CASE DeliverBlind(j)
      <3>1. blind' \in BOOLEAN
        BY <2>6, Zenon DEF DeliverBlind
      <3>2. QED BY <2>6, <3>1 DEF DeliverBlind
    <2>2. CASE DeliverResumes(j)
      BY <2>2 DEF DeliverResumes
    <2>3. CASE RateAllows(j) \/ RateGivesUp(j) \/ UsageExhausted(j)
      BY <2>3, WritesAre DEF RateAllows, RateGivesUp, UsageExhausted
    <2>4. CASE RateLimits(j)
      BY <2>4 DEF RateLimits, Reschedule
    <2>5. QED BY <1>9, <2>1, <2>2, <2>3, <2>4, <2>6 DEF Deliver
  <1>10. ASSUME NEW j \in Job, Upsert(j) PROVE TypeOK'
    <2>1. CASE UpsertReads(j) \/ UpsertConflicts(j)
      BY <2>1 DEF UpsertReads, UpsertConflicts
    <2>2. CASE UpsertWrites(j)
      <3>1. Resolve(seen[j], Incoming[next[j]]) \in DeliveryState
        BY ResolveIsState, IncomingIsState
      <3>2. touch' \in [Job -> [state : DeliveryState \cup {NoTouch}, id : Nat]]
        BY <2>2, <3>1 DEF UpsertWrites
      <3>3. next' \in [Job -> Write] /\ pc' \in [Job -> PC]
        BY <2>2, IncomingIsState, WritesAre DEF UpsertWrites
      <3>4. QED BY <2>2, <3>2, <3>3 DEF UpsertWrites
    <2>3. QED BY <1>10, <2>1, <2>2 DEF Upsert
  <1>11. ASSUME NEW j \in Job, Send(j) PROVE TypeOK'
    <2>1. CASE GatePasses(j)
      BY <2>1 DEF GatePasses
    <2>2. ASSUME NEW b \in BOOLEAN, pc[j] \in {"gate", "post"}, TryFails(j, b)
          PROVE  /\ tries' \in [Job -> 0..Tries] /\ pc' \in [Job -> PC]
                 /\ next' \in [Job -> Write]
      BY <2>2, WritesAre DEF TryFails, JobInv, JobOf
    <2>3. CASE GateBlocks(j) \/ GateBlind(j) \/ PostRefused(j)
      <3>1. /\ tries' \in [Job -> 0..Tries] /\ pc' \in [Job -> PC]
            /\ next' \in [Job -> Write]
        BY <2>2, <2>3 DEF GateBlocks, GateBlind, PostRefused
      <3>2. faults' \in 0..MaxFaults
        BY <2>3 DEF GateBlocks, GateBlind, PostRefused, TryFails
      <3>3. QED BY <2>3, <3>1, <3>2 DEF GateBlocks, GateBlind, PostRefused, TryFails
    <2>4. CASE PostUnanswered(j) \/ PostWithoutId(j)
      <3>1. /\ tries' \in [Job -> 0..Tries] /\ pc' \in [Job -> PC]
            /\ next' \in [Job -> Write]
        BY <2>2, <2>4 DEF PostUnanswered, PostWithoutId
      <3>2. faults' \in 0..MaxFaults
        BY <2>4 DEF PostUnanswered, PostWithoutId, TryFails
      <3>3. Accepted(j)
        BY <2>4, Zenon DEF PostUnanswered, PostWithoutId
      <3>4. sends' \in [Job -> Nat] /\ late' \in Nat
        BY <3>3 DEF Accepted
      <3>5. QED BY <2>4, <3>1, <3>2, <3>4 DEF PostUnanswered, PostWithoutId, TryFails
    <2>5. CASE PostAccepted(j)
      BY <2>5, WritesAre DEF PostAccepted, Accepted
    <2>6. QED BY <1>11, <2>1, <2>3, <2>4, <2>5 DEF Send
  <1>12. ASSUME NEW j \in Job, Finalize(j) PROVE TypeOK'
    <2>1. CASE Checkpoint(j)
      BY <2>1 DEF Checkpoint
    <2>6. CASE MarkSent(j)
      BY <2>6 DEF MarkSent
    <2>2. CASE PersistReuses(j)
      BY <2>2, WritesAre DEF PersistReuses
    <2>3. CASE PersistCreates(j)
      BY <2>3 DEF PersistCreates
    <2>4. CASE MarkSaved(j)
      BY <2>4, WritesAre DEF MarkSaved
    <2>5. QED BY <1>12, <2>1, <2>2, <2>3, <2>4, <2>6 DEF Finalize
  <1>13. ASSUME NEW j \in Job, Terminal(j) PROVE TypeOK'
    BY <1>13, WritesAre DEF Terminal, TerminalSkips, TerminalMarks
  <1>14. CASE UNCHANGED vars
    BY <1>14 DEF vars
  <1>15. QED
    BY <1>1, <1>2, <1>3, <1>4, <1>5, <1>6, <1>7, <1>8, <1>9, <1>10, <1>11, <1>12, <1>13, <1>14
    DEF Next, Processor

-----------------------------------------------------------------------------
(* The inductive invariants *)

\* The worker has not been past the send in this run of the job.
BeforeSend(j) ==
  \/ pc[j] \in {"rate", "gate", "post"}
  \/ pc[j] \in {"read", "write"} /\ next[j] = "reserve"

Past(j) == AtLeast(touch[j].state, "PROVIDER_ACCEPTED")

\* Where the worker is before its send, the touch is before the boundary: what
\* DeliverFresh has seen stays so, as neither a receipt nor anybody else moves
\* a touch that has no message id.
TouchOf(j) ==
  /\ touch[j].id # 0 => Past(j)
  /\ BeforeSend(j) => ~Past(j)
  /\ pc[j] = "write" /\ next[j] = "reserve" => ~AtLeast(seen[j], "PROVIDER_ACCEPTED")

TouchInv == ~blind => \A j \in Job : TouchOf(j)

\* Up to its checkpoint the worker works on a reply that is not confirmed.
Unconfirmed(j) ==
  \/ pc[j] \in {"rate", "gate", "post", "checkpoint"}
  \/ /\ pc[j] \in {"read", "write"}
     /\ next[j] \in {"reserve", "accept", "persistId", "confirm", "fail"}

\* A control token that has let the job in is stale once the lead is
\* suppressed, for a takeover moves the version; and the row is there where
\* the worker relies on it.
RecordOf(j) ==
  /\ expected[j] <= version
  /\ job[j] = "absent" => pc[j] = "idle" /\ ~reply[j].confirmed
  /\ reply[j].confirmed \/ (Working(j) /\ pc[j] # "start")
       => (suppressed => expected[j] # version)
  /\ Unconfirmed(j) => ~reply[j].confirmed
  /\ reply[j].saved \/ reply[j].sent => rows[j] > 0
  /\ pc[j] \in {"save", "markSent"} => rows[j] > 0
  /\ pc[j] \in {"read", "write"} /\ next[j] = "track" => rows[j] > 0
  /\ pc[j] = "return" \/ job[j] = "completed"
       => (reply[j].confirmed /\ expected[j] = version => reply[j].sent)

RecordInv == ~blind => \A j \in Job : RecordOf(j)

\* The lead's lock keeps all other jobs out.
Holding(j) ==
  \/ pc[j] \in {"route", "deliver", "rate", "gate", "post", "checkpoint", "persist",
                "save", "markSent"}
  \/ pc[j] \in {"read", "write"} /\ next[j] # "terminal"

LockInv == \A j \in Job : Holding(j) => holder = j

\* Once a message was late, no other is on its way until the gate opens again.
LateInv ==
  /\ late <= 1
  /\ ~GateOpen /\ late = 1 => \A j \in Job : pc[j] # "post"

IInv == TypeOK /\ JobInv /\ TouchInv /\ RecordInv /\ LockInv /\ LateInv

-----------------------------------------------------------------------------
(* The jobs *)

LEMMA NextJobs == TypeOK /\ JobInv /\ [Next]_vars => JobInv'
  <1> SUFFICES ASSUME TypeOK, JobInv, [Next]_vars, NEW i \in Job PROVE JobOf(i)'
    BY DEF JobInv
  <1>t. /\ pc \in [Job -> PC] /\ next \in [Job -> Write] /\ tries \in [Job -> 0..Tries]
        /\ job \in [Job -> {"absent", "waiting", "active", "completed", "failed"}]
        /\ made \in [Job -> 0..Attempts]
    BY DEF TypeOK
  <1>j. /\ JobOf(i)
        /\ \A j \in Job : JobOf(j)
    BY DEF JobInv
  <1> USE <1>t, <1>j DEF JobOf, Working, Step, leadVars, traces, sendVars, queueVars, procVars
  <1>1. CASE Control
    <2>1. CASE Takeover
      BY <2>1 DEF Takeover
    <2>2. CASE Handback
      BY <2>2 DEF Handback
    <2>3. CASE ManualSend
      BY <2>3 DEF ManualSend
    <2>4. CASE SuppressionEnds
      BY <2>4 DEF SuppressionEnds
    <2>5. CASE ConsentChanges
      BY <2>5 DEF ConsentChanges
    <2>6. QED BY <1>1, <2>1, <2>2, <2>3, <2>4, <2>5 DEF Control
  <1>2. ASSUME NEW j \in Job, Attempt(j) PROVE JobOf(i)'
    <2>1. CASE StartAllowed(j)
      BY <2>1 DEF StartAllowed
    <2>2. CASE StartDenied(j)
      BY <2>2 DEF StartDenied, Completes
    <2>3. CASE StartBlind(j)
      BY <2>3 DEF StartBlind, Completes
    <2>4. CASE GetLock(j)
      BY <2>4 DEF GetLock
    <2>5. CASE Busy(j)
      BY <2>5 DEF Busy, Fails
    <2>6. CASE Unlock(j)
      BY <2>6 DEF Unlock
    <2>7. CASE Leave(j)
      BY <2>7 DEF Leave, Completes, Fails
    <2>8. QED BY <1>2, <2>1, <2>2, <2>3, <2>4, <2>5, <2>6, <2>7 DEF Attempt
  <1>3. ASSUME NEW j \in Job, Route(j) PROVE JobOf(i)'
    <2>1. CASE RouteSent(j)
      BY <2>1 DEF RouteSent
    <2>2. CASE RouteReplies(j)
      BY <2>2 DEF RouteReplies
    <2>3. CASE RouteNoReply(j)
      BY <2>3 DEF RouteNoReply
    <2>4. CASE RouteLimited(j)
      BY <2>4 DEF RouteLimited, Reschedule
    <2>5. QED BY <1>3, <2>1, <2>2, <2>3, <2>4 DEF Route
  <1>4. ASSUME NEW j \in Job, Deliver(j) PROVE JobOf(i)'
    <2>1. CASE DeliverDenied(j)
      BY <2>1 DEF DeliverDenied
    <2>2. CASE DeliverFresh(j)
      BY <2>2 DEF DeliverFresh
    <2>3. CASE DeliverBlind(j)
      BY <2>3 DEF DeliverBlind
    <2>4. CASE DeliverResumes(j)
      BY <2>4 DEF DeliverResumes
    <2>5. CASE RateAllows(j)
      BY <2>5 DEF RateAllows
    <2>6. CASE RateLimits(j)
      BY <2>6 DEF RateLimits, Reschedule
    <2>7. CASE RateGivesUp(j)
      BY <2>7 DEF RateGivesUp
    <2>8. CASE UsageExhausted(j)
      BY <2>8 DEF UsageExhausted
    <2>9. QED BY <1>4, <2>1, <2>2, <2>3, <2>4, <2>5, <2>6, <2>7, <2>8 DEF Deliver
  <1>5. ASSUME NEW j \in Job, Upsert(j) PROVE JobOf(i)'
    <2>1. CASE UpsertReads(j)
      BY <2>1 DEF UpsertReads
    <2>2. CASE UpsertConflicts(j)
      BY <2>2 DEF UpsertConflicts, Conflict, WithId
    <2>3. CASE UpsertWrites(j)
      BY <2>3, WritesAre DEF UpsertWrites, AfterWrite
    <2>4. QED BY <1>5, <2>1, <2>2, <2>3 DEF Upsert
  <1>6. ASSUME NEW j \in Job, Send(j) PROVE JobOf(i)'
    <2>1. CASE GatePasses(j)
      BY <2>1 DEF GatePasses
    <2>2. CASE GateBlocks(j)
      BY <2>2 DEF GateBlocks, TryFails
    <2>3. CASE GateBlind(j)
      BY <2>3 DEF GateBlind, TryFails
    <2>4. CASE PostRefused(j)
      BY <2>4 DEF PostRefused, TryFails
    <2>5. CASE PostUnanswered(j)
      BY <2>5 DEF PostUnanswered, TryFails
    <2>6. CASE PostWithoutId(j)
      BY <2>6 DEF PostWithoutId, TryFails
    <2>7. CASE PostAccepted(j)
      BY <2>7 DEF PostAccepted
    <2>8. QED BY <1>6, <2>1, <2>2, <2>3, <2>4, <2>5, <2>6, <2>7 DEF Send
  <1>7. ASSUME NEW j \in Job, Finalize(j) PROVE JobOf(i)'
    <2>1. CASE Checkpoint(j)
      BY <2>1 DEF Checkpoint
    <2>2. CASE PersistReuses(j)
      BY <2>2 DEF PersistReuses
    <2>3. CASE PersistCreates(j)
      BY <2>3 DEF PersistCreates
    <2>4. CASE MarkSaved(j)
      BY <2>4 DEF MarkSaved
    <2>5. CASE MarkSent(j)
      BY <2>5 DEF MarkSent
    <2>6. QED BY <1>7, <2>1, <2>2, <2>3, <2>4, <2>5 DEF Finalize
  <1>8. ASSUME NEW j \in Job, Terminal(j) PROVE JobOf(i)'
    <2>1. CASE TerminalSkips(j)
      BY <2>1 DEF TerminalSkips
    <2>2. CASE TerminalMarks(j)
      BY <2>2 DEF TerminalMarks
    <2>3. QED BY <1>8, <2>1, <2>2 DEF Terminal
  <1>9. ASSUME NEW j \in Job, Receipt(j) PROVE JobOf(i)'
    BY <1>9 DEF Receipt
  <1>10. ASSUME NEW j \in Job, Start(j) PROVE JobOf(i)'
    BY <1>10 DEF Start
  <1>11. ASSUME NEW j \in Job, Errors(j) PROVE JobOf(i)'
    BY <1>11 DEF Errors
  <1>12. ASSUME NEW j \in Job, Crash(j) PROVE JobOf(i)'
    BY <1>12 DEF Crash
  <1>13. CASE LockExpires
    BY <1>13 DEF LockExpires
  <1>14. CASE UNCHANGED vars
    BY <1>14 DEF vars
  <1>15. QED
    BY <1>1, <1>2, <1>3, <1>4, <1>5, <1>6, <1>7, <1>8, <1>9, <1>10, <1>11, <1>12, <1>13,
    <1>14 DEF Next, Processor

-----------------------------------------------------------------------------
(* The touch and the send *)

\* An error that was taken for "nothing" is never forgotten.
LEMMA BlindStays == TypeOK /\ blind /\ [Next]_vars => blind'
  <1> SUFFICES ASSUME TypeOK, blind, [Next]_vars PROVE blind'
    OBVIOUS
  <1> USE DEF faultVars, Fault, BlindFault
  <1>1. CASE Control \/ LockExpires \/ UNCHANGED vars
    BY <1>1
    DEF Control, Takeover, Handback, ManualSend, SuppressionEnds, ConsentChanges, LockExpires,
        vars
  <1>2. ASSUME NEW j \in Job, Receipt(j) \/ Start(j) \/ Errors(j) \/ Crash(j) PROVE blind'
    BY <1>2 DEF Receipt, Start, Errors, Crash
  <1>3. ASSUME NEW j \in Job, Attempt(j) PROVE blind'
    BY <1>3 DEF Attempt, StartAllowed, StartDenied, StartBlind, GetLock, Busy, Unlock, Leave
  <1>4. ASSUME NEW j \in Job, Route(j) \/ Deliver(j) PROVE blind'
    BY <1>4
    DEF Route, RouteSent, RouteReplies, RouteNoReply, RouteLimited, Deliver, DeliverDenied,
        DeliverFresh, DeliverBlind, DeliverResumes, RateAllows, RateLimits, RateGivesUp,
        UsageExhausted
  <1>5. ASSUME NEW j \in Job, Upsert(j) \/ Send(j) PROVE blind'
    BY <1>5
    DEF Upsert, UpsertReads, UpsertConflicts, UpsertWrites, Send, GatePasses, GateBlocks,
        GateBlind, PostRefused, PostUnanswered, PostWithoutId, PostAccepted
  <1>6. ASSUME NEW j \in Job, Finalize(j) \/ Terminal(j) PROVE blind'
    BY <1>6
    DEF Finalize, Checkpoint, PersistReuses, PersistCreates, MarkSaved, MarkSent, Terminal,
        TerminalSkips, TerminalMarks
  <1>7. QED BY <1>1, <1>2, <1>3, <1>4, <1>5, <1>6 DEF Next, Processor

\* Without errors taken for "nothing", no step takes a touch past the boundary
\* while its worker is before the send.
LEMMA NextTouch == TypeOK /\ TouchInv /\ [Next]_vars => TouchInv'
  <1> SUFFICES ASSUME TypeOK, ~blind', \A j \in Job : TouchOf(j), [Next]_vars,
                      NEW i \in Job
               PROVE  TouchOf(i)'
    BY BlindStays, Zenon DEF TouchInv
  <1>t. /\ pc \in [Job -> PC] /\ next \in [Job -> Write] /\ tries \in [Job -> 0..Tries]
        /\ touch \in [Job -> [state : DeliveryState \cup {NoTouch}, id : Nat]]
        /\ seen \in [Job -> DeliveryState \cup {NoTouch}]
    BY DEF TypeOK
  <1>i. TouchOf(i)
    OBVIOUS
  <1> USE <1>t, <1>i
        DEF TouchOf, BeforeSend, Past, Step, leadVars, traces, sendVars, queueVars, procVars
  <1>1. CASE Control
    <2>1. CASE Takeover
      BY <2>1 DEF Takeover
    <2>2. CASE Handback
      BY <2>2 DEF Handback
    <2>3. CASE ManualSend
      BY <2>3 DEF ManualSend
    <2>4. CASE SuppressionEnds
      BY <2>4 DEF SuppressionEnds
    <2>5. CASE ConsentChanges
      BY <2>5 DEF ConsentChanges
    <2>6. QED BY <1>1, <2>1, <2>2, <2>3, <2>4, <2>5 DEF Control
  <1>2. ASSUME NEW j \in Job, Attempt(j) PROVE TouchOf(i)'
    <2>1. CASE StartAllowed(j)
      BY <2>1 DEF StartAllowed
    <2>2. CASE StartDenied(j)
      BY <2>2 DEF StartDenied, Completes
    <2>3. CASE StartBlind(j)
      BY <2>3 DEF StartBlind, BlindFault
    <2>4. CASE GetLock(j)
      BY <2>4 DEF GetLock
    <2>5. CASE Busy(j)
      BY <2>5 DEF Busy, Fails
    <2>6. CASE Unlock(j)
      BY <2>6 DEF Unlock
    <2>7. CASE Leave(j)
      BY <2>7 DEF Leave, Completes, Fails
    <2>8. QED BY <1>2, <2>1, <2>2, <2>3, <2>4, <2>5, <2>6, <2>7 DEF Attempt
  <1>3. ASSUME NEW j \in Job, Route(j) PROVE TouchOf(i)'
    <2>1. CASE RouteSent(j)
      BY <2>1 DEF RouteSent
    <2>2. CASE RouteReplies(j)
      BY <2>2 DEF RouteReplies
    <2>3. CASE RouteNoReply(j)
      BY <2>3 DEF RouteNoReply
    <2>4. CASE RouteLimited(j)
      BY <2>4 DEF RouteLimited, Reschedule
    <2>5. QED BY <1>3, <2>1, <2>2, <2>3, <2>4 DEF Route
  <1>4. ASSUME NEW j \in Job, Deliver(j) PROVE TouchOf(i)'
    <2>1. CASE DeliverDenied(j)
      BY <2>1 DEF DeliverDenied
    <2>2. CASE DeliverFresh(j)
      BY <2>2 DEF DeliverFresh
    <2>3. CASE DeliverBlind(j)
      BY <2>3 DEF DeliverBlind, BlindFault
    <2>4. CASE DeliverResumes(j)
      BY <2>4 DEF DeliverResumes
    <2>5. CASE RateAllows(j)
      BY <2>5 DEF RateAllows
    <2>6. CASE RateLimits(j)
      BY <2>6 DEF RateLimits, Reschedule
    <2>7. CASE RateGivesUp(j)
      BY <2>7 DEF RateGivesUp
    <2>8. CASE UsageExhausted(j)
      BY <2>8 DEF UsageExhausted
    <2>9. QED BY <1>4, <2>1, <2>2, <2>3, <2>4, <2>5, <2>6, <2>7, <2>8 DEF Deliver
  <1>5. ASSUME NEW j \in Job, Upsert(j) PROVE TouchOf(i)'
    <2>1. CASE UpsertReads(j)
      BY <2>1 DEF UpsertReads
    <2>2. CASE UpsertConflicts(j)
      BY <2>2 DEF UpsertConflicts
    <2>3. CASE UpsertWrites(j)
      <3> DEFINE s == Resolve(seen[j], Incoming[next[j]])
      <3>1. next[j] # "reserve" => AtLeast(s, "PROVIDER_ACCEPTED")
        BY ResolveReaches, IncomingReaches, IncomingIsState
      <3>2. next[j] = "reserve" /\ ~AtLeast(seen[j], "PROVIDER_ACCEPTED")
              => ~AtLeast(s, "PROVIDER_ACCEPTED")
        BY StatesAre DEF Resolve, Incoming, AtLeast, Rank, NoTouch
      <3>3. CASE i # j
        BY <2>3, <3>3 DEF UpsertWrites
      <3>4. CASE i = j
        <4>1. touch'[i].state = s /\ (next[j] \notin WithId => touch'[i].id = touch[i].id)
          BY <2>3, <3>4 DEF UpsertWrites
        <4>2. BeforeSend(i)' => next[j] = "reserve" /\ pc[j] = "write"
          BY <2>3, <3>4, WritesAre DEF UpsertWrites, AfterWrite
        <4>3. ~(pc[i] = "write")'
          BY <2>3, <3>4, WritesAre DEF UpsertWrites, AfterWrite
        <4>4. next[j] = "reserve" /\ pc[j] = "write" => touch[i].id = 0 /\ "reserve" \notin WithId
          BY <3>4 DEF WithId
        <4>5. pc[j] = "write"
          BY <2>3 DEF UpsertWrites
        <4>6. QED BY <3>1, <3>2, <3>4, <4>1, <4>2, <4>3, <4>4, <4>5
      <3>5. QED BY <3>3, <3>4
    <2>4. QED BY <1>5, <2>1, <2>2, <2>3 DEF Upsert
  <1>6. ASSUME NEW j \in Job, Send(j) PROVE TouchOf(i)'
    <2>1. CASE GatePasses(j)
      BY <2>1 DEF GatePasses
    <2>2. CASE GateBlocks(j)
      BY <2>2 DEF GateBlocks, TryFails
    <2>3. CASE GateBlind(j)
      BY <2>3 DEF GateBlind, BlindFault
    <2>4. CASE PostRefused(j)
      BY <2>4 DEF PostRefused, TryFails
    <2>5. CASE PostUnanswered(j)
      BY <2>5 DEF PostUnanswered, TryFails
    <2>6. CASE PostWithoutId(j)
      BY <2>6 DEF PostWithoutId, TryFails
    <2>7. CASE PostAccepted(j)
      BY <2>7 DEF PostAccepted
    <2>8. QED BY <1>6, <2>1, <2>2, <2>3, <2>4, <2>5, <2>6, <2>7 DEF Send
  <1>7. ASSUME NEW j \in Job, Finalize(j) PROVE TouchOf(i)'
    <2>1. CASE Checkpoint(j)
      BY <2>1 DEF Checkpoint
    <2>2. CASE PersistReuses(j)
      BY <2>2 DEF PersistReuses
    <2>3. CASE PersistCreates(j)
      BY <2>3 DEF PersistCreates
    <2>4. CASE MarkSaved(j)
      BY <2>4 DEF MarkSaved
    <2>5. CASE MarkSent(j)
      BY <2>5 DEF MarkSent
    <2>6. QED BY <1>7, <2>1, <2>2, <2>3, <2>4, <2>5 DEF Finalize
  <1>8. ASSUME NEW j \in Job, Terminal(j) PROVE TouchOf(i)'
    <2>1. CASE TerminalSkips(j)
      BY <2>1 DEF TerminalSkips
    <2>2. CASE TerminalMarks(j)
      BY <2>2 DEF TerminalMarks
    <2>3. QED BY <1>8, <2>1, <2>2 DEF Terminal
  <1>9. ASSUME NEW j \in Job, Receipt(j) PROVE TouchOf(i)'
    <2>1. AtLeast(Resolve(touch[j].state, "DELIVERED"), "PROVIDER_ACCEPTED")
      BY ResolveReaches, StatesAre DEF AtLeast, Rank, NoTouch
    <2>2. QED BY <1>9, <2>1 DEF Receipt
  <1>10. ASSUME NEW j \in Job, Start(j) PROVE TouchOf(i)'
    BY <1>10 DEF Start
  <1>11. ASSUME NEW j \in Job, Errors(j) PROVE TouchOf(i)'
    BY <1>11 DEF Errors
  <1>12. ASSUME NEW j \in Job, Crash(j) PROVE TouchOf(i)'
    BY <1>12 DEF Crash
  <1>13. CASE LockExpires
    BY <1>13 DEF LockExpires
  <1>14. CASE UNCHANGED vars
    BY <1>14 DEF vars
  <1>15. QED
    BY <1>1, <1>2, <1>3, <1>4, <1>5, <1>6, <1>7, <1>8, <1>9, <1>10, <1>11, <1>12, <1>13,
    <1>14 DEF Next, Processor

-----------------------------------------------------------------------------
(* The bookkeeping behind the send *)

\* Without errors taken for "nothing", a confirmed reply is not lost sight of
\* before it is recorded.
LEMMA NextRecord == TypeOK /\ JobInv /\ RecordInv /\ [Next]_vars => RecordInv'
  <1> SUFFICES ASSUME TypeOK, JobInv, ~blind', \A j \in Job : RecordOf(j),
                      [Next]_vars, NEW i \in Job
               PROVE  RecordOf(i)'
    BY BlindStays, Zenon DEF RecordInv
  <1>t. /\ pc \in [Job -> PC] /\ next \in [Job -> Write]
        /\ reply \in [Job -> [confirmed : BOOLEAN, saved : BOOLEAN, sent : BOOLEAN]]
        /\ rows \in [Job -> Nat] /\ version \in Nat /\ expected \in [Job -> Nat]
        /\ job \in [Job -> {"absent", "waiting", "active", "completed", "failed"}]
    BY DEF TypeOK
  <1>i. RecordOf(i) /\ JobOf(i)
    BY DEF JobInv
  <1> USE <1>t, <1>i
        DEF RecordOf, JobOf, Unconfirmed, Working, ControlAllows, Step, leadVars, traces,
            sendVars, queueVars, procVars
  <1>1. CASE Control
    <2>1. CASE Takeover
      BY <2>1 DEF Takeover
    <2>2. CASE Handback
      BY <2>2 DEF Handback
    <2>3. CASE ManualSend
      BY <2>3 DEF ManualSend
    <2>4. CASE SuppressionEnds
      BY <2>4 DEF SuppressionEnds
    <2>5. CASE ConsentChanges
      BY <2>5 DEF ConsentChanges
    <2>6. QED BY <1>1, <2>1, <2>2, <2>3, <2>4, <2>5 DEF Control
  <1>2. ASSUME NEW j \in Job, Attempt(j) PROVE RecordOf(i)'
    <2>1. CASE StartAllowed(j)
      BY <2>1 DEF StartAllowed
    <2>2. CASE StartDenied(j)
      BY <2>2 DEF StartDenied, Completes
    <2>3. CASE StartBlind(j)
      BY <2>3 DEF StartBlind, BlindFault
    <2>4. CASE GetLock(j)
      BY <2>4 DEF GetLock
    <2>5. CASE Busy(j)
      BY <2>5 DEF Busy, Fails
    <2>6. CASE Unlock(j)
      BY <2>6 DEF Unlock
    <2>7. CASE Leave(j)
      BY <2>7 DEF Leave, Completes, Fails
    <2>8. QED BY <1>2, <2>1, <2>2, <2>3, <2>4, <2>5, <2>6, <2>7 DEF Attempt
  <1>3. ASSUME NEW j \in Job, Route(j) PROVE RecordOf(i)'
    <2>1. CASE RouteSent(j)
      BY <2>1 DEF RouteSent
    <2>2. CASE RouteReplies(j)
      BY <2>2 DEF RouteReplies
    <2>3. CASE RouteNoReply(j)
      BY <2>3 DEF RouteNoReply
    <2>4. CASE RouteLimited(j)
      BY <2>4 DEF RouteLimited, Reschedule
    <2>5. QED BY <1>3, <2>1, <2>2, <2>3, <2>4 DEF Route
  <1>4. ASSUME NEW j \in Job, Deliver(j) PROVE RecordOf(i)'
    <2>1. CASE DeliverDenied(j)
      BY <2>1 DEF DeliverDenied
    <2>2. CASE DeliverFresh(j)
      BY <2>2 DEF DeliverFresh
    <2>3. CASE DeliverBlind(j)
      BY <2>3 DEF DeliverBlind, BlindFault
    <2>4. CASE DeliverResumes(j)
      BY <2>4 DEF DeliverResumes
    <2>5. CASE RateAllows(j)
      BY <2>5 DEF RateAllows
    <2>6. CASE RateLimits(j)
      BY <2>6 DEF RateLimits, Reschedule
    <2>7. CASE RateGivesUp(j)
      BY <2>7 DEF RateGivesUp
    <2>8. CASE UsageExhausted(j)
      BY <2>8 DEF UsageExhausted
    <2>9. QED BY <1>4, <2>1, <2>2, <2>3, <2>4, <2>5, <2>6, <2>7, <2>8 DEF Deliver
  <1>5. ASSUME NEW j \in Job, Upsert(j) PROVE RecordOf(i)'
    <2>1. CASE UpsertReads(j)
      BY <2>1 DEF UpsertReads
    <2>2. CASE UpsertConflicts(j)
      BY <2>2 DEF UpsertConflicts, Conflict, WithId
    <2>3. CASE UpsertWrites(j)
      BY <2>3, WritesAre DEF UpsertWrites, AfterWrite
    <2>4. QED BY <1>5, <2>1, <2>2, <2>3 DEF Upsert
  <1>6. ASSUME NEW j \in Job, Send(j) PROVE RecordOf(i)'
    <2>1. CASE GatePasses(j)
      BY <2>1 DEF GatePasses
    <2>2. CASE GateBlocks(j)
      BY <2>2 DEF GateBlocks, TryFails
    <2>3. CASE GateBlind(j)
      BY <2>3 DEF GateBlind, BlindFault
    <2>4. CASE PostRefused(j)
      BY <2>4 DEF PostRefused, TryFails
    <2>5. CASE PostUnanswered(j)
      BY <2>5 DEF PostUnanswered, TryFails
    <2>6. CASE PostWithoutId(j)
      BY <2>6 DEF PostWithoutId, TryFails
    <2>7. CASE PostAccepted(j)
      BY <2>7 DEF PostAccepted
    <2>8. QED BY <1>6, <2>1, <2>2, <2>3, <2>4, <2>5, <2>6, <2>7 DEF Send
  <1>7. ASSUME NEW j \in Job, Finalize(j) PROVE RecordOf(i)'
    <2>1. CASE Checkpoint(j)
      BY <2>1 DEF Checkpoint
    <2>2. CASE PersistReuses(j)
      BY <2>2 DEF PersistReuses
    <2>3. CASE PersistCreates(j)
      BY <2>3 DEF PersistCreates
    <2>4. CASE MarkSaved(j)
      BY <2>4 DEF MarkSaved
    <2>5. CASE MarkSent(j)
      BY <2>5 DEF MarkSent
    <2>6. QED BY <1>7, <2>1, <2>2, <2>3, <2>4, <2>5 DEF Finalize
  <1>8. ASSUME NEW j \in Job, Terminal(j) PROVE RecordOf(i)'
    <2>1. CASE TerminalSkips(j)
      BY <2>1 DEF TerminalSkips
    <2>2. CASE TerminalMarks(j)
      BY <2>2 DEF TerminalMarks
    <2>3. QED BY <1>8, <2>1, <2>2 DEF Terminal
  <1>9. ASSUME NEW j \in Job, Receipt(j) PROVE RecordOf(i)'
    BY <1>9 DEF Receipt
  <1>10. ASSUME NEW j \in Job, Start(j) PROVE RecordOf(i)'
    BY <1>10 DEF Start
  <1>11. ASSUME NEW j \in Job, Errors(j) PROVE RecordOf(i)'
    BY <1>11 DEF Errors
  <1>12. ASSUME NEW j \in Job, Crash(j) PROVE RecordOf(i)'
    BY <1>12 DEF Crash
  <1>13. CASE LockExpires
    BY <1>13 DEF LockExpires
  <1>14. CASE UNCHANGED vars
    BY <1>14 DEF vars
  <1>15. QED
    BY <1>1, <1>2, <1>3, <1>4, <1>5, <1>6, <1>7, <1>8, <1>9, <1>10, <1>11, <1>12, <1>13,
    <1>14 DEF Next, Processor

-----------------------------------------------------------------------------
(* The lead's lock *)

\* While a job is between the lock and its release, the lock is its own.
LEMMA NextLock == TypeOK /\ LockInv /\ [Next]_vars => LockInv'
  <1> SUFFICES ASSUME TypeOK, \A j \in Job : Holding(j) => holder = j, [Next]_vars,
                      NEW i \in Job, Holding(i)'
               PROVE  holder' = i
    BY DEF LockInv
  <1>t. pc \in [Job -> PC] /\ next \in [Job -> Write]
    BY DEF TypeOK
  <1>n. NoJob \notin Job
    BY DEF NoJob, Job
  <1>i. Holding(i) => holder = i
    OBVIOUS
  <1> USE <1>t, <1>n, <1>i DEF Holding, Step, leadVars, traces, sendVars, queueVars, procVars
  <1>1. CASE Control
    <2>1. CASE Takeover
      BY <2>1 DEF Takeover
    <2>2. CASE Handback
      BY <2>2 DEF Handback
    <2>3. CASE ManualSend
      BY <2>3 DEF ManualSend
    <2>4. CASE SuppressionEnds
      BY <2>4 DEF SuppressionEnds
    <2>5. CASE ConsentChanges
      BY <2>5 DEF ConsentChanges
    <2>6. QED BY <1>1, <2>1, <2>2, <2>3, <2>4, <2>5 DEF Control
  <1>2. ASSUME NEW j \in Job, Attempt(j) PROVE holder' = i
    <2>1. CASE StartAllowed(j)
      BY <2>1 DEF StartAllowed
    <2>2. CASE StartDenied(j)
      BY <2>2 DEF StartDenied, Completes
    <2>3. CASE StartBlind(j)
      BY <2>3 DEF StartBlind, Completes
    <2>4. CASE GetLock(j)
      BY <2>4 DEF GetLock
    <2>5. CASE Busy(j)
      BY <2>5 DEF Busy, Fails
    <2>6. CASE Unlock(j)
      BY <2>6 DEF Unlock
    <2>7. CASE Leave(j)
      BY <2>7 DEF Leave, Completes, Fails
    <2>8. QED BY <1>2, <2>1, <2>2, <2>3, <2>4, <2>5, <2>6, <2>7 DEF Attempt
  <1>3. ASSUME NEW j \in Job, Route(j) PROVE holder' = i
    <2>1. CASE RouteSent(j)
      BY <2>1 DEF RouteSent
    <2>2. CASE RouteReplies(j)
      BY <2>2 DEF RouteReplies
    <2>3. CASE RouteNoReply(j)
      BY <2>3 DEF RouteNoReply
    <2>4. CASE RouteLimited(j)
      BY <2>4 DEF RouteLimited, Reschedule
    <2>5. QED BY <1>3, <2>1, <2>2, <2>3, <2>4 DEF Route
  <1>4. ASSUME NEW j \in Job, Deliver(j) PROVE holder' = i
    <2>1. CASE DeliverDenied(j)
      BY <2>1 DEF DeliverDenied
    <2>2. CASE DeliverFresh(j)
      BY <2>2 DEF DeliverFresh
    <2>3. CASE DeliverBlind(j)
      BY <2>3 DEF DeliverBlind
    <2>4. CASE DeliverResumes(j)
      BY <2>4 DEF DeliverResumes
    <2>5. CASE RateAllows(j)
      BY <2>5 DEF RateAllows
    <2>6. CASE RateLimits(j)
      BY <2>6 DEF RateLimits, Reschedule
    <2>7. CASE RateGivesUp(j)
      BY <2>7 DEF RateGivesUp
    <2>8. CASE UsageExhausted(j)
      BY <2>8 DEF UsageExhausted
    <2>9. QED BY <1>4, <2>1, <2>2, <2>3, <2>4, <2>5, <2>6, <2>7, <2>8 DEF Deliver
  <1>5. ASSUME NEW j \in Job, Upsert(j) PROVE holder' = i
    <2>1. CASE UpsertReads(j)
      BY <2>1 DEF UpsertReads
    <2>2. CASE UpsertConflicts(j)
      BY <2>2 DEF UpsertConflicts
    <2>3. CASE UpsertWrites(j)
      BY <2>3, WritesAre DEF UpsertWrites, AfterWrite
    <2>4. QED BY <1>5, <2>1, <2>2, <2>3 DEF Upsert
  <1>6. ASSUME NEW j \in Job, Send(j) PROVE holder' = i
    <2>1. CASE GatePasses(j)
      BY <2>1 DEF GatePasses
    <2>2. CASE GateBlocks(j)
      BY <2>2 DEF GateBlocks, TryFails
    <2>3. CASE GateBlind(j)
      BY <2>3 DEF GateBlind, TryFails
    <2>4. CASE PostRefused(j)
      BY <2>4 DEF PostRefused, TryFails
    <2>5. CASE PostUnanswered(j)
      BY <2>5 DEF PostUnanswered, TryFails
    <2>6. CASE PostWithoutId(j)
      BY <2>6 DEF PostWithoutId, TryFails
    <2>7. CASE PostAccepted(j)
      BY <2>7 DEF PostAccepted
    <2>8. QED BY <1>6, <2>1, <2>2, <2>3, <2>4, <2>5, <2>6, <2>7 DEF Send
  <1>7. ASSUME NEW j \in Job, Finalize(j) PROVE holder' = i
    <2>1. CASE Checkpoint(j)
      BY <2>1 DEF Checkpoint
    <2>2. CASE PersistReuses(j)
      BY <2>2 DEF PersistReuses
    <2>3. CASE PersistCreates(j)
      BY <2>3 DEF PersistCreates
    <2>4. CASE MarkSaved(j)
      BY <2>4 DEF MarkSaved
    <2>5. CASE MarkSent(j)
      BY <2>5 DEF MarkSent
    <2>6. QED BY <1>7, <2>1, <2>2, <2>3, <2>4, <2>5 DEF Finalize
  <1>8. ASSUME NEW j \in Job, Terminal(j) PROVE holder' = i
    <2>1. CASE TerminalSkips(j)
      BY <2>1 DEF TerminalSkips
    <2>2. CASE TerminalMarks(j)
      BY <2>2 DEF TerminalMarks
    <2>3. QED BY <1>8, <2>1, <2>2 DEF Terminal
  <1>9. ASSUME NEW j \in Job, Receipt(j) PROVE holder' = i
    BY <1>9 DEF Receipt
  <1>10. ASSUME NEW j \in Job, Start(j) PROVE holder' = i
    BY <1>10 DEF Start
  <1>11. ASSUME NEW j \in Job, Errors(j) PROVE holder' = i
    BY <1>11 DEF Errors
  <1>12. ASSUME NEW j \in Job, Crash(j) PROVE holder' = i
    BY <1>12 DEF Crash
  <1>13. CASE LockExpires
    BY <1>13 DEF LockExpires, Inside
  <1>14. CASE UNCHANGED vars
    BY <1>14 DEF vars
  <1>15. QED
    BY <1>1, <1>2, <1>3, <1>4, <1>5, <1>6, <1>7, <1>8, <1>9, <1>10, <1>11, <1>12, <1>13,
    <1>14 DEF Next, Processor

\* Only the job that has the lock can be on its way to the provider.
LEMMA OnePost ==
  ASSUME LockInv, NEW i \in Job, NEW j \in Job, pc[i] = "post", pc[j] = "post"
  PROVE  i = j
  BY DEF LockInv, Holding

-----------------------------------------------------------------------------
(* Late messages *)

\* The gate closes while at most one message is on its way, and no other
\* follows before it opens again.
LEMMA NextLate == TypeOK /\ LockInv /\ LateInv /\ [Next]_vars => LateInv'
  <1> SUFFICES ASSUME TypeOK, LockInv, LateInv, [Next]_vars PROVE LateInv'
    OBVIOUS
  <1>t. pc \in [Job -> PC] /\ next \in [Job -> Write] /\ late \in Nat
    BY DEF TypeOK
  <1> USE <1>t DEF LateInv, GateOpen, Step, leadVars, traces, sendVars, queueVars, procVars
  <1>s. ASSUME NEW j \in Job, pc[j] = "post", Accepted(j), UNCHANGED leadVars,
               NEW s \in PC, s # "post", pc' = [pc EXCEPT ![j] = s]
        PROVE  LateInv'
    <2>1. \A i \in Job : pc'[i] # "post"
      BY <1>s, OnePost
    <2>2. late' = IF GateOpen THEN late ELSE late + 1
      BY <1>s, Zenon DEF Accepted
    <2>3. late' <= 1
      BY <1>s, <2>2
    <2>4. QED BY <2>1, <2>3
  <1>1. CASE Control
    <2>1. CASE Takeover
      BY <2>1 DEF Takeover
    <2>2. CASE Handback
      BY <2>2 DEF Handback
    <2>3. CASE ManualSend
      BY <2>3 DEF ManualSend
    <2>4. CASE SuppressionEnds
      BY <2>4 DEF SuppressionEnds
    <2>5. CASE ConsentChanges
      BY <2>5 DEF ConsentChanges
    <2>6. QED BY <1>1, <2>1, <2>2, <2>3, <2>4, <2>5 DEF Control
  <1>2. ASSUME NEW j \in Job, Attempt(j) PROVE LateInv'
    <2>1. CASE StartAllowed(j)
      BY <2>1 DEF StartAllowed
    <2>2. CASE StartDenied(j)
      BY <2>2 DEF StartDenied, Completes
    <2>3. CASE StartBlind(j)
      BY <2>3 DEF StartBlind, Completes
    <2>4. CASE GetLock(j)
      BY <2>4 DEF GetLock
    <2>5. CASE Busy(j)
      BY <2>5 DEF Busy, Fails
    <2>6. CASE Unlock(j)
      BY <2>6 DEF Unlock
    <2>7. CASE Leave(j)
      BY <2>7 DEF Leave, Completes, Fails
    <2>8. QED BY <1>2, <2>1, <2>2, <2>3, <2>4, <2>5, <2>6, <2>7 DEF Attempt
  <1>3. ASSUME NEW j \in Job, Route(j) PROVE LateInv'
    <2>1. CASE RouteSent(j)
      BY <2>1 DEF RouteSent
    <2>2. CASE RouteReplies(j)
      BY <2>2 DEF RouteReplies
    <2>3. CASE RouteNoReply(j)
      BY <2>3 DEF RouteNoReply
    <2>4. CASE RouteLimited(j)
      BY <2>4 DEF RouteLimited, Reschedule
    <2>5. QED BY <1>3, <2>1, <2>2, <2>3, <2>4 DEF Route
  <1>4. ASSUME NEW j \in Job, Deliver(j) PROVE LateInv'
    <2>1. CASE DeliverDenied(j)
      BY <2>1 DEF DeliverDenied
    <2>2. CASE DeliverFresh(j)
      BY <2>2 DEF DeliverFresh
    <2>3. CASE DeliverBlind(j)
      BY <2>3 DEF DeliverBlind
    <2>4. CASE DeliverResumes(j)
      BY <2>4 DEF DeliverResumes
    <2>5. CASE RateAllows(j)
      BY <2>5 DEF RateAllows
    <2>6. CASE RateLimits(j)
      BY <2>6 DEF RateLimits, Reschedule
    <2>7. CASE RateGivesUp(j)
      BY <2>7 DEF RateGivesUp
    <2>8. CASE UsageExhausted(j)
      BY <2>8 DEF UsageExhausted
    <2>9. QED BY <1>4, <2>1, <2>2, <2>3, <2>4, <2>5, <2>6, <2>7, <2>8 DEF Deliver
  <1>5. ASSUME NEW j \in Job, Upsert(j) PROVE LateInv'
    <2>1. CASE UpsertReads(j)
      BY <2>1 DEF UpsertReads
    <2>2. CASE UpsertConflicts(j)
      BY <2>2 DEF UpsertConflicts
    <2>3. CASE UpsertWrites(j)
      BY <2>3, WritesAre DEF UpsertWrites, AfterWrite
    <2>4. QED BY <1>5, <2>1, <2>2, <2>3 DEF Upsert
  <1>6. ASSUME NEW j \in Job, Send(j) PROVE LateInv'
    <2>1. CASE GatePasses(j)
      BY <2>1 DEF GatePasses
    <2>2. CASE GateBlocks(j)
      BY <2>2 DEF GateBlocks, TryFails
    <2>3. CASE GateBlind(j)
      BY <2>3 DEF GateBlind, TryFails
    <2>4. CASE PostRefused(j)
      BY <2>4 DEF PostRefused, TryFails
    <2>5. CASE PostUnanswered(j)
      <3>1. pc[j] = "post" /\ Accepted(j) /\ UNCHANGED leadVars
        BY <2>5, Zenon DEF PostUnanswered, TryFails
      <3>2. PICK s \in PC : s # "post" /\ pc' = [pc EXCEPT ![j] = s]
        BY <2>5 DEF PostUnanswered, TryFails, PC, Inside
      <3>3. QED BY <1>s, <3>1, <3>2
    <2>6. CASE PostWithoutId(j)
      <3>1. pc[j] = "post" /\ Accepted(j) /\ UNCHANGED leadVars
        BY <2>6, Zenon DEF PostWithoutId, TryFails
      <3>2. PICK s \in PC : s # "post" /\ pc' = [pc EXCEPT ![j] = s]
        BY <2>6 DEF PostWithoutId, TryFails, PC, Inside
      <3>3. QED BY <1>s, <3>1, <3>2
    <2>7. CASE PostAccepted(j)
      <3>1. pc[j] = "post" /\ Accepted(j) /\ UNCHANGED leadVars
        BY <2>7, Zenon DEF PostAccepted
      <3>2. PICK s \in PC : s # "post" /\ pc' = [pc EXCEPT ![j] = s]
        BY <2>7 DEF PostAccepted, PC, Inside
      <3>3. QED BY <1>s, <3>1, <3>2
    <2>8. QED BY <1>6, <2>1, <2>2, <2>3, <2>4, <2>5, <2>6, <2>7 DEF Send
  <1>7. ASSUME NEW j \in Job, Finalize(j) PROVE LateInv'
    <2>1. CASE Checkpoint(j)
      BY <2>1 DEF Checkpoint
    <2>2. CASE PersistReuses(j)
      BY <2>2 DEF PersistReuses
    <2>3. CASE PersistCreates(j)
      BY <2>3 DEF PersistCreates
    <2>4. CASE MarkSaved(j)
      BY <2>4 DEF MarkSaved
    <2>5. CASE MarkSent(j)
      BY <2>5 DEF MarkSent
    <2>6. QED BY <1>7, <2>1, <2>2, <2>3, <2>4, <2>5 DEF Finalize
  <1>8. ASSUME NEW j \in Job, Terminal(j) PROVE LateInv'
    <2>1. CASE TerminalSkips(j)
      BY <2>1 DEF TerminalSkips
    <2>2. CASE TerminalMarks(j)
      BY <2>2 DEF TerminalMarks
    <2>3. QED BY <1>8, <2>1, <2>2 DEF Terminal
  <1>9. ASSUME NEW j \in Job, Receipt(j) PROVE LateInv'
    BY <1>9 DEF Receipt
  <1>10. ASSUME NEW j \in Job, Start(j) PROVE LateInv'
    BY <1>10 DEF Start
  <1>11. ASSUME NEW j \in Job, Errors(j) PROVE LateInv'
    BY <1>11 DEF Errors
  <1>12. ASSUME NEW j \in Job, Crash(j) PROVE LateInv'
    BY <1>12 DEF Crash
  <1>13. CASE LockExpires
    BY <1>13 DEF LockExpires
  <1>14. CASE UNCHANGED vars
    BY <1>14 DEF vars
  <1>15. QED
    BY <1>1, <1>2, <1>3, <1>4, <1>5, <1>6, <1>7, <1>8, <1>9, <1>10, <1>11, <1>12, <1>13,
    <1>14 DEF Next, Processor

-----------------------------------------------------------------------------
(* Theorems *)

LEMMA InitInv == Init => IInv
  <1> SUFFICES ASSUME Init PROVE IInv
    OBVIOUS
  <1>1. TypeOK /\ JobInv
    BY InitType
  <1>2. TouchInv
    BY DEF Init, TouchInv, TouchOf, BeforeSend, Past, AtLeast
  <1>3. RecordInv
    BY DEF Init, RecordInv, RecordOf, Working, Unconfirmed
  <1>4. LockInv
    BY DEF Init, LockInv, Holding
  <1>5. LateInv
    BY DEF Init, LateInv
  <1>6. QED BY <1>1, <1>2, <1>3, <1>4, <1>5 DEF IInv

\* The strengthened invariant: what each job's worker may rely on at each point
\* of processAIMessage.
THEOREM ReplyInvariant == Spec => []IInv
  <1>1. IInv /\ [Next]_vars => IInv'
    BY NextType, NextJobs, NextTouch, NextRecord, NextLock, NextLate DEF IInv
  <1>2. QED BY InitInv, <1>1, PTL DEF Spec

\* The states of the traces, the lock, the queue and the processors of
\* ai.partition.worker.ts keep their types: in particular no job is made to
\* fail more often than it has attempts, and no attempt exceeds its tries.
THEOREM ReplyTypeCorrect == Spec => []TypeOK
  <1>1. IInv => TypeOK
    BY DEF IInv
  <1>2. QED BY ReplyInvariant, <1>1, PTL

\* However many jobs, retries, crashes, lost answers and receipts there are, no
\* attempt sends the message of a job whose touch is at the provider boundary,
\* unless a read failed before and its error was swallowed: processAndSendReply
\* takes the error of the touch's read for "no touch".
THEOREM ReplyNoResendAfterBoundary == Spec => NoResendAfterBoundary
  <1> DEFINE Keeps == \A j \in Job :
                        ~blind /\ sends'[j] # sends[j]
                          => ~AtLeast(touch[j].state, "PROVIDER_ACCEPTED")
  <1>1. ASSUME IInv, [Next]_vars, NEW i \in Job, sends'[i] # sends[i]
        PROVE  pc[i] = "post"
    <2> USE DEF leadVars, traces, sendVars, queueVars, procVars
    <2>1. sends \in [Job -> Nat]
      BY <1>1 DEF IInv, TypeOK
    <2>2. CASE Control \/ LockExpires \/ UNCHANGED vars
      BY <1>1, <2>2
      DEF Control, Takeover, Handback, ManualSend, SuppressionEnds, ConsentChanges, LockExpires,
          vars
    <2>3. ASSUME NEW j \in Job, Receipt(j) \/ Start(j) \/ Errors(j) \/ Crash(j)
          PROVE  FALSE
      BY <1>1, <2>3 DEF Receipt, Start, Errors, Crash
    <2>4. ASSUME NEW j \in Job, Attempt(j) PROVE FALSE
      BY <1>1, <2>4
      DEF Attempt, StartAllowed, StartDenied, StartBlind, GetLock, Busy, Unlock, Leave, Completes,
          Fails
    <2>5. ASSUME NEW j \in Job, Route(j) \/ Deliver(j) PROVE FALSE
      BY <1>1, <2>5
      DEF Route, RouteSent, RouteReplies, RouteNoReply, RouteLimited, Deliver, DeliverDenied,
          DeliverFresh, DeliverBlind, DeliverResumes, RateAllows, RateLimits, RateGivesUp,
          UsageExhausted
    <2>6. ASSUME NEW j \in Job, Upsert(j) \/ Finalize(j) \/ Terminal(j) PROVE FALSE
      BY <1>1, <2>6
      DEF Upsert, UpsertReads, UpsertConflicts, UpsertWrites, Finalize, Checkpoint, PersistReuses,
          PersistCreates, MarkSaved, MarkSent, Terminal, TerminalSkips, TerminalMarks
    <2>7. ASSUME NEW j \in Job, Send(j) PROVE pc[i] = "post"
      <3>1. CASE GatePasses(j) \/ GateBlocks(j) \/ GateBlind(j) \/ PostRefused(j)
        BY <1>1, <3>1 DEF GatePasses, GateBlocks, GateBlind, PostRefused
      <3>2. CASE PostUnanswered(j) \/ PostWithoutId(j) \/ PostAccepted(j)
        <4>1. pc[j] = "post" /\ Accepted(j)
          BY <3>2, Zenon DEF PostUnanswered, PostWithoutId, PostAccepted, Step
        <4>2. i = j
          BY <1>1, <2>1, <4>1 DEF Accepted
        <4>3. QED BY <4>1, <4>2
      <3>3. QED BY <2>7, <3>1, <3>2 DEF Send
    <2>8. QED BY <1>1, <2>2, <2>3, <2>4, <2>5, <2>6, <2>7 DEF Next, Processor
  <1>2. IInv /\ [Next]_vars => [Keeps]_vars
    <2> SUFFICES ASSUME IInv, [Next]_vars, NEW i \in Job, ~blind, sends'[i] # sends[i]
                 PROVE  ~AtLeast(touch[i].state, "PROVIDER_ACCEPTED")
      OBVIOUS
    <2>1. pc[i] = "post"
      BY <1>1
    <2>2. QED BY <2>1 DEF IInv, TouchInv, TouchOf, BeforeSend, Past
  <1>3. QED BY ReplyInvariant, <1>2, PTL DEF Spec, NoResendAfterBoundary

\* A completed job whose reply was confirmed has its row and its mark, unless
\* the lead's control token moved, whatever died or failed, as long as no error
\* of a read was taken for "nothing".
THEOREM ReplyConfirmedIsRecorded == Spec => []ConfirmedIsRecorded
  <1>1. IInv => ConfirmedIsRecorded
    BY DEF IInv, RecordInv, RecordOf, ConfirmedIsRecorded
  <1>2. QED BY ReplyInvariant, <1>1, PTL

\* After a takeover or the withdrawal of the consent at most one message still
\* leaves, however many jobs the lead has: the lead's lock lets one job at a
\* time past the execution gate.
THEOREM ReplyAtMostOneLateMessage == Spec => []AtMostOneLateMessage
  <1>1. IInv => AtMostOneLateMessage
    BY DEF IInv, LateInv, AtMostOneLateMessage
  <1>2. QED BY ReplyInvariant, <1>1, PTL

-----------------------------------------------------------------------------
(* The touch that says FAILED *)

\* Only a job that has failed has a touch that says FAILED and an id: whoever
\* has the id has not read FAILED, and whoever writes FAILED after an attempt
\* has no id.
FailOf(j) ==
  /\ touch[j].state = "FAILED" /\ touch[j].id # 0 => job[j] = "failed"
  /\ pc[j] = "terminal" \/ (pc[j] \in {"read", "write"} /\ next[j] = "terminal")
       => job[j] = "failed"
  /\ pc[j] \in {"read", "write"} =>
       /\ next[j] \in {"accept", "persistId", "confirm"} => touch[j].state # "FAILED"
       /\ next[j] = "fail" => touch[j].id = 0
  /\ pc[j] = "write" =>
       /\ next[j] \in {"accept", "persistId", "confirm"} => seen[j] # "FAILED"
       /\ next[j] = "track" /\ seen[j] = "FAILED" => touch[j].id = 0

FailInv == ~blind => \A j \in Job : FailOf(j)

LEMMA NextFail == IInv /\ FailInv /\ [Next]_vars => FailInv'
  <1> SUFFICES ASSUME IInv, ~blind', ~blind, \A j \in Job : FailOf(j), [Next]_vars, NEW i \in Job
               PROVE  FailOf(i)'
    BY BlindStays, Zenon DEF FailInv, IInv
  <1>t. /\ pc \in [Job -> PC] /\ next \in [Job -> Write] /\ tries \in [Job -> 0..Tries]
        /\ touch \in [Job -> [state : DeliveryState \cup {NoTouch}, id : Nat]]
        /\ seen \in [Job -> DeliveryState \cup {NoTouch}]
        /\ job \in [Job -> {"absent", "waiting", "active", "completed", "failed"}]
    BY DEF IInv, TypeOK
  <1>i. FailOf(i) /\ (Working(i) => job[i] = "active")
    BY DEF IInv, JobInv, JobOf
  <1>u. /\ BeforeSend(i) => touch[i].id = 0 /\ touch[i].state # "FAILED"
        /\ pc[i] = "write" /\ next[i] = "reserve" => seen[i] # "FAILED"
    BY StatesAre DEF IInv, TouchInv, TouchOf, Past, AtLeast, Rank, NoTouch
  <1> USE <1>t, <1>i, <1>u
        DEF FailOf, BeforeSend, Working, Step, leadVars, traces, sendVars, queueVars, procVars
  <1>1. CASE Control
    <2>1. CASE Takeover
      BY <2>1 DEF Takeover
    <2>2. CASE Handback
      BY <2>2 DEF Handback
    <2>3. CASE ManualSend
      BY <2>3 DEF ManualSend
    <2>4. CASE SuppressionEnds
      BY <2>4 DEF SuppressionEnds
    <2>5. CASE ConsentChanges
      BY <2>5 DEF ConsentChanges
    <2>6. QED BY <1>1, <2>1, <2>2, <2>3, <2>4, <2>5 DEF Control
  <1>2. ASSUME NEW j \in Job, Attempt(j) PROVE FailOf(i)'
    <2>1. CASE StartAllowed(j)
      BY <2>1 DEF StartAllowed
    <2>2. CASE StartDenied(j)
      BY <2>2 DEF StartDenied, Completes
    <2>3. CASE StartBlind(j)
      BY <2>3 DEF StartBlind, BlindFault
    <2>4. CASE GetLock(j)
      BY <2>4 DEF GetLock
    <2>5. CASE Busy(j)
      BY <2>5 DEF Busy, Fails
    <2>6. CASE Unlock(j)
      BY <2>6 DEF Unlock
    <2>7. CASE Leave(j)
      BY <2>7 DEF Leave, Completes, Fails
    <2>8. QED BY <1>2, <2>1, <2>2, <2>3, <2>4, <2>5, <2>6, <2>7 DEF Attempt
  <1>3. ASSUME NEW j \in Job, Route(j) PROVE FailOf(i)'
    <2>1. CASE RouteSent(j)
      BY <2>1 DEF RouteSent
    <2>2. CASE RouteReplies(j)
      BY <2>2 DEF RouteReplies
    <2>3. CASE RouteNoReply(j)
      BY <2>3 DEF RouteNoReply
    <2>4. CASE RouteLimited(j)
      BY <2>4 DEF RouteLimited, Reschedule
    <2>5. QED BY <1>3, <2>1, <2>2, <2>3, <2>4 DEF Route
  <1>4. ASSUME NEW j \in Job, Deliver(j) PROVE FailOf(i)'
    <2>1. CASE DeliverDenied(j)
      BY <2>1 DEF DeliverDenied
    <2>2. CASE DeliverFresh(j)
      BY <2>2 DEF DeliverFresh
    <2>3. CASE DeliverBlind(j)
      BY <2>3 DEF DeliverBlind, BlindFault
    <2>4. CASE DeliverResumes(j)
      BY <2>4 DEF DeliverResumes
    <2>5. CASE RateAllows(j)
      BY <2>5 DEF RateAllows
    <2>6. CASE RateLimits(j)
      BY <2>6 DEF RateLimits, Reschedule
    <2>7. CASE RateGivesUp(j)
      BY <2>7 DEF RateGivesUp
    <2>8. CASE UsageExhausted(j)
      BY <2>8 DEF UsageExhausted
    <2>9. QED BY <1>4, <2>1, <2>2, <2>3, <2>4, <2>5, <2>6, <2>7, <2>8 DEF Deliver
  <1>5. ASSUME NEW j \in Job, Upsert(j) PROVE FailOf(i)'
    <2>1. CASE UpsertReads(j)
      BY <2>1 DEF UpsertReads
    <2>2. CASE UpsertConflicts(j)
      BY <2>2 DEF UpsertConflicts
    <2>3. CASE UpsertWrites(j)
      <3> DEFINE s == Resolve(seen[j], Incoming[next[j]])
      <3>1. s = "FAILED" => seen[j] = "FAILED" \/ next[j] \in {"fail", "terminal"}
        BY WritesAre DEF Resolve, Incoming
      <3>2. CASE i # j
        BY <2>3, <3>2 DEF UpsertWrites
      <3>3. CASE i = j
        <4>1. touch'[i].state = s /\ (next[j] \notin WithId => touch'[i].id = touch[i].id)
          BY <2>3, <3>3 DEF UpsertWrites
        <4>2. /\ pc[i] = "write" /\ pc'[i] # "write" /\ pc'[i] # "terminal"
              /\ pc'[i] = "read" => next[i] \in {"accept", "persistId"}
          BY <2>3, <3>3, WritesAre DEF UpsertWrites, AfterWrite
        <4>3. pc'[i] = "read" => next'[i] \in {"persistId", "confirm"}
          BY <2>3, <3>3, <4>2 DEF UpsertWrites
        <4>4. job'[i] = job[i]
          BY <2>3 DEF UpsertWrites
        <4>5. next[i] \in Write
          OBVIOUS
        <4>6. touch'[i].state = "FAILED" /\ touch'[i].id # 0 => job[i] = "failed"
          <5>1. CASE next[i] \in {"accept", "persistId", "confirm"}
            BY <3>1, <3>3, <4>1, <4>2, <5>1
          <5>2. CASE next[i] = "reserve"
            BY <3>1, <3>3, <4>1, <4>2, <5>2
          <5>3. CASE next[i] \in {"fail", "track"}
            BY <3>1, <3>3, <4>1, <4>2, <5>3 DEF WithId
          <5>4. CASE next[i] = "terminal"
            BY <4>2, <5>4
          <5>5. QED BY <4>5, <5>1, <5>2, <5>3, <5>4, WritesAre
        <4>7. pc'[i] = "read" => touch'[i].state # "FAILED"
          BY <3>1, <3>3, <4>1, <4>2
        <4>8. QED BY <4>2, <4>3, <4>4, <4>6, <4>7
      <3>4. QED BY <3>2, <3>3
    <2>4. QED BY <1>5, <2>1, <2>2, <2>3 DEF Upsert
  <1>6. ASSUME NEW j \in Job, Send(j) PROVE FailOf(i)'
    <2>1. CASE GatePasses(j)
      BY <2>1 DEF GatePasses
    <2>2. CASE GateBlocks(j)
      BY <2>2 DEF GateBlocks, TryFails
    <2>3. CASE GateBlind(j)
      BY <2>3 DEF GateBlind, BlindFault
    <2>4. CASE PostRefused(j)
      BY <2>4 DEF PostRefused, TryFails
    <2>5. CASE PostUnanswered(j)
      BY <2>5 DEF PostUnanswered, TryFails
    <2>6. CASE PostWithoutId(j)
      BY <2>6 DEF PostWithoutId, TryFails
    <2>7. CASE PostAccepted(j)
      BY <2>7 DEF PostAccepted
    <2>8. QED BY <1>6, <2>1, <2>2, <2>3, <2>4, <2>5, <2>6, <2>7 DEF Send
  <1>7. ASSUME NEW j \in Job, Finalize(j) PROVE FailOf(i)'
    <2>1. CASE Checkpoint(j)
      BY <2>1 DEF Checkpoint
    <2>2. CASE PersistReuses(j)
      BY <2>2 DEF PersistReuses
    <2>3. CASE PersistCreates(j)
      BY <2>3 DEF PersistCreates
    <2>4. CASE MarkSaved(j)
      BY <2>4 DEF MarkSaved
    <2>5. CASE MarkSent(j)
      BY <2>5 DEF MarkSent
    <2>6. QED BY <1>7, <2>1, <2>2, <2>3, <2>4, <2>5 DEF Finalize
  <1>8. ASSUME NEW j \in Job, Terminal(j) PROVE FailOf(i)'
    <2>1. CASE TerminalSkips(j)
      BY <2>1 DEF TerminalSkips
    <2>2. CASE TerminalMarks(j)
      BY <2>2 DEF TerminalMarks
    <2>3. QED BY <1>8, <2>1, <2>2 DEF Terminal
  <1>9. ASSUME NEW j \in Job, Receipt(j) PROVE FailOf(i)'
    <2>1. Resolve(touch[j].state, "DELIVERED") = "DELIVERED"
      BY StatesAre DEF Resolve, Rank, NoTouch
    <2>2. QED BY <1>9, <2>1 DEF Receipt
  <1>10. ASSUME NEW j \in Job, Start(j) PROVE FailOf(i)'
    BY <1>10 DEF Start
  <1>11. ASSUME NEW j \in Job, Errors(j) PROVE FailOf(i)'
    BY <1>11 DEF Errors
  <1>12. ASSUME NEW j \in Job, Crash(j) PROVE FailOf(i)'
    BY <1>12 DEF Crash
  <1>13. CASE LockExpires
    BY <1>13 DEF LockExpires
  <1>14. CASE UNCHANGED vars
    BY <1>14 DEF vars
  <1>15. QED
    BY <1>1, <1>2, <1>3, <1>4, <1>5, <1>6, <1>7, <1>8, <1>9, <1>10, <1>11, <1>12, <1>13,
    <1>14 DEF Next, Processor

\* A job that ended without error and whose touch says FAILED never got the
\* provider's message id, whatever died or failed, as long as no error of a read
\* was taken for "nothing".
THEOREM ReplyFailedWasNotAnswered == Spec => []FailedWasNotAnswered
  <1>1. Init => FailInv
    BY DEF Init, FailInv, FailOf, NoTouch
  <1>2. FailInv => FailedWasNotAnswered
    BY DEF FailInv, FailOf, FailedWasNotAnswered
  <1>3. QED BY <1>1, <1>2, NextFail, ReplyInvariant, PTL DEF Spec

-----------------------------------------------------------------------------
(* How often the reply leaves, and its row is created *)

\* A touch with a message id is past the boundary, also where a read error was
\* taken for "nothing": whoever writes it over has read it.
IdOf(j) ==
  /\ touch[j].id # 0 => Past(j)
  /\ pc[j] = "write" /\ next[j] = "reserve" /\ touch[j].id # 0
       => AtLeast(seen[j], "PROVIDER_ACCEPTED")

\* How far the reply's state in Redis may be where the worker is.
PhaseOf(j) ==
  /\ Unconfirmed(j) => ~reply[j].confirmed
  /\ reply[j].saved \/ pc[j] \in {"persist", "save"} => reply[j].confirmed
  /\ pc[j] = "terminal" \/ (pc[j] \in {"read", "write"} /\ next[j] = "terminal")
       => job[j] = "failed"

PhaseInv == \A j \in Job : IdOf(j) /\ PhaseOf(j)

\* The job may still send a message without another fault.
MaySend(j) ==
  /\ job[j] \in {"waiting", "active"}
  /\ \/ BeforeSend(j)
     \/ /\ pc[j] \in {"idle", "start", "lock", "route", "deliver", "throw", "limited"}
        /\ ~reply[j].confirmed

\* The worker sends although the touch has a message id: its upsert will throw,
\* and the job may then send once more.
MayConflict(j) ==
  /\ touch[j].id # 0
  /\ \/ BeforeSend(j)
     \/ pc[j] \in {"read", "write"} /\ next[j] \in WithId /\ touch[j].id # id[j]

\* The job may still create a row without another fault.
MayCreate(j) ==
  /\ job[j] \in {"waiting", "active"} /\ ~reply[j].saved
  /\ pc[j] \notin {"save", "return"}

\* What was spent of the one reply and of the faults: the messages sent, and those
\* still to come; the rows created, and those still to come.
Sent == {t \in Job \X Int :
           \/ 1 <= t[2] /\ t[2] <= sends[t[1]]
           \/ t[2] = 0 /\ MaySend(t[1])
           \/ t[2] = -1 /\ MayConflict(t[1])}
Created == {t \in Job \X Int :
              \/ 1 <= t[2] /\ t[2] <= rows[t[1]]
              \/ t[2] = 0 /\ MayCreate(t[1])}

BudgetInv ==
  /\ IsFiniteSet(Sent) /\ Cardinality(Sent) <= 1 + faults
  /\ IsFiniteSet(Created) /\ Cardinality(Created) <= 1 + faults

\* The steps that spend something.
Noisy(j) ==
  \/ UpsertConflicts(j) \/ RouteLimited(j) \/ RateLimits(j) \/ DeliverBlind(j)
  \/ PostUnanswered(j) \/ PostWithoutId(j) \/ PostAccepted(j) \/ PersistCreates(j)
  \/ Errors(j) \/ Crash(j)

\* A step that leaves what job j has spent, or gives some of it up.
KeptSends(j) ==
  /\ sends'[j] = sends[j]
  /\ MaySend(j)' => MaySend(j)
  /\ MayConflict(j)' => MayConflict(j)
KeptRows(j) ==
  /\ rows'[j] = rows[j]
  /\ MayCreate(j)' => MayCreate(j)
Kept(j) == KeptSends(j) /\ KeptRows(j)

LEMMA ResolveStays ==
  ASSUME NEW s \in DeliveryState, NEW t \in DeliveryState,
         AtLeast(s, "PROVIDER_ACCEPTED")
  PROVE  AtLeast(Resolve(s, t), "PROVIDER_ACCEPTED")
  BY StatesAre DEF Resolve, AtLeast, Rank, NoTouch

LEMMA NextPhase == TypeOK /\ JobInv /\ PhaseInv /\ [Next]_vars => PhaseInv'
  <1> SUFFICES ASSUME TypeOK, JobInv, PhaseInv, [Next]_vars, NEW i \in Job
               PROVE  IdOf(i)' /\ PhaseOf(i)'
    BY Zenon DEF PhaseInv
  <1>t. /\ pc \in [Job -> PC] /\ next \in [Job -> Write]
        /\ touch \in [Job -> [state : DeliveryState \cup {NoTouch}, id : Nat]]
        /\ reply \in [Job -> [confirmed : BOOLEAN, saved : BOOLEAN, sent : BOOLEAN]]
        /\ seen \in [Job -> DeliveryState \cup {NoTouch}]
        /\ job \in [Job -> {"absent", "waiting", "active", "completed", "failed"}]
    BY DEF TypeOK
  <1>i. /\ \A j \in Job : IdOf(j) /\ PhaseOf(j)
        /\ \A j \in Job : Working(j) => job[j] = "active"
    BY DEF PhaseInv, JobInv, JobOf
  <1> USE <1>t, <1>i
        DEF IdOf, PhaseOf, Past, Unconfirmed, Working, Step, leadVars, traces, sendVars,
            queueVars, procVars
  <1>1. CASE Control
    <2>1. CASE Takeover
      BY <2>1 DEF Takeover
    <2>2. CASE Handback
      BY <2>2 DEF Handback
    <2>3. CASE ManualSend
      BY <2>3 DEF ManualSend
    <2>4. CASE SuppressionEnds
      BY <2>4 DEF SuppressionEnds
    <2>5. CASE ConsentChanges
      BY <2>5 DEF ConsentChanges
    <2>6. QED BY <1>1, <2>1, <2>2, <2>3, <2>4, <2>5 DEF Control
  <1>2. ASSUME NEW j \in Job, Attempt(j) PROVE IdOf(i)' /\ PhaseOf(i)'
    <2>1. CASE StartAllowed(j)
      BY <2>1 DEF StartAllowed
    <2>2. CASE StartDenied(j)
      BY <2>2 DEF StartDenied, Completes
    <2>3. CASE StartBlind(j)
      BY <2>3 DEF StartBlind, Completes
    <2>4. CASE GetLock(j)
      BY <2>4 DEF GetLock
    <2>5. CASE Busy(j)
      BY <2>5 DEF Busy, Fails
    <2>6. CASE Unlock(j)
      BY <2>6 DEF Unlock
    <2>7. CASE Leave(j)
      BY <2>7 DEF Leave, Completes, Fails
    <2>8. QED BY <1>2, <2>1, <2>2, <2>3, <2>4, <2>5, <2>6, <2>7 DEF Attempt
  <1>3. ASSUME NEW j \in Job, Route(j) PROVE IdOf(i)' /\ PhaseOf(i)'
    <2>1. CASE RouteSent(j)
      BY <2>1 DEF RouteSent
    <2>2. CASE RouteReplies(j)
      BY <2>2 DEF RouteReplies
    <2>3. CASE RouteNoReply(j)
      BY <2>3 DEF RouteNoReply
    <2>4. CASE RouteLimited(j)
      BY <2>4 DEF RouteLimited, Reschedule
    <2>5. QED BY <1>3, <2>1, <2>2, <2>3, <2>4 DEF Route
  <1>4. ASSUME NEW j \in Job, Deliver(j) PROVE IdOf(i)' /\ PhaseOf(i)'
    <2>1. CASE DeliverDenied(j)
      BY <2>1 DEF DeliverDenied
    <2>2. CASE DeliverFresh(j)
      BY <2>2 DEF DeliverFresh
    <2>3. CASE DeliverBlind(j)
      BY <2>3 DEF DeliverBlind
    <2>4. CASE DeliverResumes(j)
      BY <2>4 DEF DeliverResumes
    <2>5. CASE RateAllows(j)
      BY <2>5 DEF RateAllows
    <2>6. CASE RateLimits(j)
      BY <2>6 DEF RateLimits, Reschedule
    <2>7. CASE RateGivesUp(j)
      BY <2>7 DEF RateGivesUp
    <2>8. CASE UsageExhausted(j)
      BY <2>8 DEF UsageExhausted
    <2>9. QED BY <1>4, <2>1, <2>2, <2>3, <2>4, <2>5, <2>6, <2>7, <2>8 DEF Deliver
  <1>5. ASSUME NEW j \in Job, Upsert(j) PROVE IdOf(i)' /\ PhaseOf(i)'
    <2>1. CASE UpsertReads(j)
      BY <2>1 DEF UpsertReads
    <2>2. CASE UpsertConflicts(j)
      BY <2>2 DEF UpsertConflicts, Conflict, WithId
    <2>3. CASE UpsertWrites(j)
      <3>1. touch'[j].state = Resolve(seen[j], Incoming[next[j]])
        BY <2>3 DEF UpsertWrites
      <3>2. touch'[j].id # 0 => AtLeast(touch'[j].state, "PROVIDER_ACCEPTED")
        <4>1. CASE next[j] = "reserve"
          <5>1. touch'[j].id = touch[j].id
            BY <2>3, <4>1 DEF UpsertWrites, WithId
          <5>2. touch[j].id # 0 => seen[j] \in DeliveryState /\ AtLeast(seen[j], "PROVIDER_ACCEPTED")
            BY <2>3, <4>1, StatesAre DEF UpsertWrites, AtLeast, Rank, NoTouch
          <5>3. Incoming[next[j]] \in DeliveryState
            BY IncomingIsState
          <5>4. QED BY <3>1, <5>1, <5>2, <5>3, ResolveStays
        <4>2. CASE next[j] # "reserve"
          <5>1. Incoming[next[j]] \in DeliveryState /\ AtLeast(Incoming[next[j]], "PROVIDER_ACCEPTED")
            BY <4>2, IncomingReaches, IncomingIsState
          <5>2. seen[j] \in DeliveryState \cup {NoTouch}
            OBVIOUS
          <5>3. QED BY <3>1, <5>1, <5>2, ResolveReaches
        <4>3. QED BY <4>1, <4>2
      <3>3. QED BY <2>3, <3>2, WritesAre DEF UpsertWrites, AfterWrite
    <2>4. QED BY <1>5, <2>1, <2>2, <2>3 DEF Upsert
  <1>6. ASSUME NEW j \in Job, Send(j) PROVE IdOf(i)' /\ PhaseOf(i)'
    <2>1. CASE GatePasses(j)
      BY <2>1 DEF GatePasses
    <2>2. CASE GateBlocks(j)
      BY <2>2 DEF GateBlocks, TryFails
    <2>3. CASE GateBlind(j)
      BY <2>3 DEF GateBlind, TryFails
    <2>4. CASE PostRefused(j)
      BY <2>4 DEF PostRefused, TryFails
    <2>5. CASE PostUnanswered(j)
      BY <2>5 DEF PostUnanswered, TryFails
    <2>6. CASE PostWithoutId(j)
      BY <2>6 DEF PostWithoutId, TryFails
    <2>7. CASE PostAccepted(j)
      BY <2>7 DEF PostAccepted
    <2>8. QED BY <1>6, <2>1, <2>2, <2>3, <2>4, <2>5, <2>6, <2>7 DEF Send
  <1>7. ASSUME NEW j \in Job, Finalize(j) PROVE IdOf(i)' /\ PhaseOf(i)'
    <2>1. CASE Checkpoint(j)
      BY <2>1 DEF Checkpoint
    <2>2. CASE PersistReuses(j)
      BY <2>2 DEF PersistReuses
    <2>3. CASE PersistCreates(j)
      BY <2>3 DEF PersistCreates
    <2>4. CASE MarkSaved(j)
      BY <2>4 DEF MarkSaved
    <2>5. CASE MarkSent(j)
      BY <2>5 DEF MarkSent
    <2>6. QED BY <1>7, <2>1, <2>2, <2>3, <2>4, <2>5 DEF Finalize
  <1>8. ASSUME NEW j \in Job, Terminal(j) PROVE IdOf(i)' /\ PhaseOf(i)'
    <2>1. CASE TerminalSkips(j)
      BY <2>1 DEF TerminalSkips
    <2>2. CASE TerminalMarks(j)
      BY <2>2 DEF TerminalMarks
    <2>3. QED BY <1>8, <2>1, <2>2 DEF Terminal
  <1>9. ASSUME NEW j \in Job, Receipt(j) PROVE IdOf(i)' /\ PhaseOf(i)'
    <2>1. AtLeast(Resolve(touch[j].state, "DELIVERED"), "PROVIDER_ACCEPTED")
      BY StatesAre DEF Resolve, AtLeast, Rank, NoTouch
    <2>2. QED BY <1>9, <2>1 DEF Receipt
  <1>10. ASSUME NEW j \in Job, Start(j) PROVE IdOf(i)' /\ PhaseOf(i)'
    BY <1>10 DEF Start
  <1>11. ASSUME NEW j \in Job, Errors(j) PROVE IdOf(i)' /\ PhaseOf(i)'
    BY <1>11 DEF Errors
  <1>12. ASSUME NEW j \in Job, Crash(j) PROVE IdOf(i)' /\ PhaseOf(i)'
    BY <1>12 DEF Crash
  <1>13. CASE LockExpires
    BY <1>13 DEF LockExpires
  <1>14. CASE UNCHANGED vars
    BY <1>14 DEF vars
  <1>15. QED
    BY <1>1, <1>2, <1>3, <1>4, <1>5, <1>6, <1>7, <1>8, <1>9, <1>10, <1>11, <1>12, <1>13,
    <1>14 DEF Next, Processor

LEMMA QuietKeeps ==
  ASSUME TypeOK, JobInv, PhaseInv, [Next]_vars, \A j \in Job : ~Noisy(j), NEW i \in Job
  PROVE  Kept(i) /\ faults' >= faults
  <1>t. /\ pc \in [Job -> PC] /\ next \in [Job -> Write]
        /\ touch \in [Job -> [state : DeliveryState \cup {NoTouch}, id : Nat]]
        /\ reply \in [Job -> [confirmed : BOOLEAN, saved : BOOLEAN, sent : BOOLEAN]]
        /\ job \in [Job -> {"absent", "waiting", "active", "completed", "failed"}]
        /\ faults \in Nat
    BY DEF TypeOK
  <1>i. /\ \A j \in Job : IdOf(j) /\ PhaseOf(j)
        /\ \A j \in Job : Working(j) => job[j] = "active"
    BY DEF PhaseInv, JobInv, JobOf
  <1> USE <1>t, <1>i
        DEF Kept, KeptSends, KeptRows, MaySend, MayConflict, MayCreate, BeforeSend, IdOf, PhaseOf,
            Past, Working, Step, Fault, BlindFault, leadVars, traces, sendVars, queueVars,
            procVars, faultVars
  <1>1. CASE Control
    <2>1. CASE Takeover
      BY <2>1 DEF Takeover
    <2>2. CASE Handback
      BY <2>2 DEF Handback
    <2>3. CASE ManualSend
      BY <2>3 DEF ManualSend
    <2>4. CASE SuppressionEnds
      BY <2>4 DEF SuppressionEnds
    <2>5. CASE ConsentChanges
      BY <2>5 DEF ConsentChanges
    <2>6. QED BY <1>1, <2>1, <2>2, <2>3, <2>4, <2>5 DEF Control
  <1>2. ASSUME NEW j \in Job, Attempt(j) PROVE Kept(i) /\ faults' >= faults
    <2>1. CASE StartAllowed(j)
      BY <2>1 DEF StartAllowed
    <2>2. CASE StartDenied(j)
      BY <2>2 DEF StartDenied, Completes
    <2>3. CASE StartBlind(j)
      BY <2>3 DEF StartBlind, Completes
    <2>4. CASE GetLock(j)
      BY <2>4 DEF GetLock
    <2>5. CASE Busy(j)
      BY <2>5 DEF Busy, Fails
    <2>6. CASE Unlock(j)
      BY <2>6 DEF Unlock
    <2>7. CASE Leave(j)
      BY <2>7 DEF Leave, Completes, Fails
    <2>8. QED BY <1>2, <2>1, <2>2, <2>3, <2>4, <2>5, <2>6, <2>7 DEF Attempt
  <1>3. ASSUME NEW j \in Job, Route(j) PROVE Kept(i) /\ faults' >= faults
    <2>1. CASE RouteSent(j)
      BY <2>1 DEF RouteSent
    <2>2. CASE RouteReplies(j)
      BY <2>2 DEF RouteReplies
    <2>3. CASE RouteNoReply(j)
      BY <2>3 DEF RouteNoReply
    <2>4. CASE RouteLimited(j)
      BY <2>4 DEF Noisy
    <2>5. QED BY <1>3, <2>1, <2>2, <2>3, <2>4 DEF Route
  <1>4. ASSUME NEW j \in Job, Deliver(j) PROVE Kept(i) /\ faults' >= faults
    <2>1. CASE DeliverDenied(j)
      BY <2>1 DEF DeliverDenied
    <2>2. CASE DeliverFresh(j)
      BY <2>2 DEF DeliverFresh
    <2>3. CASE DeliverBlind(j)
      BY <2>3 DEF Noisy
    <2>4. CASE DeliverResumes(j)
      BY <2>4 DEF DeliverResumes
    <2>5. CASE RateAllows(j)
      BY <2>5 DEF RateAllows
    <2>6. CASE RateLimits(j)
      BY <2>6 DEF Noisy
    <2>7. CASE RateGivesUp(j)
      BY <2>7 DEF RateGivesUp
    <2>8. CASE UsageExhausted(j)
      BY <2>8 DEF UsageExhausted
    <2>9. QED BY <1>4, <2>1, <2>2, <2>3, <2>4, <2>5, <2>6, <2>7, <2>8 DEF Deliver
  <1>5. ASSUME NEW j \in Job, Upsert(j) PROVE Kept(i) /\ faults' >= faults
    <2>1. CASE UpsertReads(j)
      BY <2>1 DEF UpsertReads
    <2>2. CASE UpsertConflicts(j)
      BY <2>2 DEF Noisy
    <2>3. CASE UpsertWrites(j)
      <3>1. next[j] \in Write /\ job[j] \in {"absent", "waiting", "active", "completed", "failed"}
        OBVIOUS
      <3>2. CASE next[j] = "terminal"
        BY <2>3, <3>2 DEF UpsertWrites, AfterWrite, WithId
      <3>3. CASE next[j] \in {"accept", "persistId"}
        BY <2>3, <3>3 DEF UpsertWrites, AfterWrite, WithId
      <3>4. CASE next[j] \in {"reserve", "confirm", "fail", "track"}
        BY <2>3, <3>4 DEF UpsertWrites, AfterWrite, WithId
      <3>5. QED BY <3>1, <3>2, <3>3, <3>4, WritesAre
    <2>4. QED BY <1>5, <2>1, <2>2, <2>3 DEF Upsert
  <1>6. ASSUME NEW j \in Job, Send(j) PROVE Kept(i) /\ faults' >= faults
    <2>1. CASE GatePasses(j)
      BY <2>1 DEF GatePasses
    <2>2. CASE GateBlocks(j)
      BY <2>2 DEF GateBlocks, TryFails
    <2>3. CASE GateBlind(j)
      BY <2>3 DEF GateBlind, TryFails
    <2>4. CASE PostRefused(j)
      BY <2>4 DEF PostRefused, TryFails
    <2>5. CASE PostUnanswered(j)
      BY <2>5 DEF Noisy
    <2>6. CASE PostWithoutId(j)
      BY <2>6 DEF Noisy
    <2>7. CASE PostAccepted(j)
      BY <2>7 DEF Noisy
    <2>8. QED BY <1>6, <2>1, <2>2, <2>3, <2>4, <2>5, <2>6, <2>7 DEF Send
  <1>7. ASSUME NEW j \in Job, Finalize(j) PROVE Kept(i) /\ faults' >= faults
    <2>1. CASE Checkpoint(j)
      BY <2>1 DEF Checkpoint
    <2>2. CASE PersistReuses(j)
      BY <2>2 DEF PersistReuses, WithId
    <2>3. CASE PersistCreates(j)
      BY <2>3 DEF Noisy
    <2>4. CASE MarkSaved(j)
      BY <2>4 DEF MarkSaved, WithId
    <2>5. CASE MarkSent(j)
      BY <2>5 DEF MarkSent
    <2>6. QED BY <1>7, <2>1, <2>2, <2>3, <2>4, <2>5 DEF Finalize
  <1>8. ASSUME NEW j \in Job, Terminal(j) PROVE Kept(i) /\ faults' >= faults
    <2>1. CASE TerminalSkips(j)
      BY <2>1 DEF TerminalSkips
    <2>2. CASE TerminalMarks(j)
      BY <2>2 DEF TerminalMarks, WithId
    <2>3. QED BY <1>8, <2>1, <2>2 DEF Terminal
  <1>9. ASSUME NEW j \in Job, Receipt(j) PROVE Kept(i) /\ faults' >= faults
    BY <1>9 DEF Receipt
  <1>10. ASSUME NEW j \in Job, Start(j) PROVE Kept(i) /\ faults' >= faults
    BY <1>10 DEF Start
  <1>11. ASSUME NEW j \in Job, Errors(j) PROVE Kept(i) /\ faults' >= faults
    BY <1>11 DEF Noisy
  <1>12. ASSUME NEW j \in Job, Crash(j) PROVE Kept(i) /\ faults' >= faults
    BY <1>12 DEF Noisy
  <1>13. CASE LockExpires
    BY <1>13 DEF LockExpires
  <1>14. CASE UNCHANGED vars
    BY <1>14 DEF vars
  <1>15. QED
    BY <1>1, <1>2, <1>3, <1>4, <1>5, <1>6, <1>7, <1>8, <1>9, <1>10, <1>11, <1>12, <1>13,
    <1>14 DEF Next, Processor

LEMMA CountsFewer ==
  ASSUME NEW S, IsFiniteSet(S), NEW T, T \subseteq S
  PROVE  /\ IsFiniteSet(T) /\ Cardinality(S) \in Nat /\ Cardinality(T) \in Nat
         /\ Cardinality(T) <= Cardinality(S)
  BY FS_Subset, FS_CardinalityType

LEMMA CountsOneMore ==
  ASSUME NEW S, IsFiniteSet(S), NEW b, NEW T, T \subseteq S \cup {b}
  PROVE  /\ IsFiniteSet(T) /\ Cardinality(S) \in Nat /\ Cardinality(T) \in Nat
         /\ Cardinality(T) <= Cardinality(S) + 1
  <1>1. /\ IsFiniteSet(S \cup {b}) /\ Cardinality(S) \in Nat
        /\ Cardinality(S \cup {b}) <= Cardinality(S) + 1
    BY FS_AddElement, FS_CardinalityType
  <1>2. IsFiniteSet(T) /\ Cardinality(T) \in Nat /\ Cardinality(S \cup {b}) \in Nat
        /\ Cardinality(T) <= Cardinality(S \cup {b})
    BY <1>1, CountsFewer
  <1>3. QED BY <1>1, <1>2

LEMMA CountsSwapped ==
  ASSUME NEW S, IsFiniteSet(S), NEW a \in S, NEW b, NEW T, T \subseteq (S \ {a}) \cup {b}
  PROVE  /\ IsFiniteSet(T) /\ Cardinality(S) \in Nat /\ Cardinality(T) \in Nat
         /\ Cardinality(T) <= Cardinality(S)
  <1>1. /\ IsFiniteSet(S \ {a}) /\ Cardinality(S) \in Nat
        /\ Cardinality(S \ {a}) = Cardinality(S) - 1
    BY FS_RemoveElement, FS_CardinalityType
  <1>2. /\ IsFiniteSet(T) /\ Cardinality(T) \in Nat
        /\ Cardinality(T) <= Cardinality(S \ {a}) + 1
    BY <1>1, CountsOneMore
  <1>3. QED BY <1>1, <1>2

\* A step without a fault spends what it gives up, or nothing; a fault adds one.
Affords(S, T) ==
  \/ /\ faults' \in Nat /\ faults' >= faults
     /\ \/ T \subseteq S
        \/ \E a \in S, b \in Job \X Int : T \subseteq (S \ {a}) \cup {b}
  \/ faults' = faults + 1 /\ \E b \in Job \X Int : T \subseteq S \cup {b}

LEMMA AffordsCounts ==
  ASSUME TypeOK, NEW S, NEW T, IsFiniteSet(S), Cardinality(S) <= 1 + faults, Affords(S, T)
  PROVE  IsFiniteSet(T) /\ Cardinality(T) <= 1 + faults'
  <1>1. faults \in Nat
    BY DEF TypeOK
  <1>2. CASE faults' \in Nat /\ faults' >= faults /\ T \subseteq S
    BY <1>1, <1>2, CountsFewer
  <1>3. ASSUME faults' \in Nat, faults' >= faults,
               NEW a \in S, NEW b, T \subseteq (S \ {a}) \cup {b}
        PROVE  IsFiniteSet(T) /\ Cardinality(T) <= 1 + faults'
    BY <1>1, <1>3, CountsSwapped
  <1>4. ASSUME faults' = faults + 1, NEW b, T \subseteq S \cup {b}
        PROVE  IsFiniteSet(T) /\ Cardinality(T) <= 1 + faults'
    <2>1. /\ IsFiniteSet(T) /\ Cardinality(S) \in Nat /\ Cardinality(T) \in Nat
          /\ Cardinality(T) <= Cardinality(S) + 1
      BY <1>4, CountsOneMore
    <2>2. QED BY <1>1, <1>4, <2>1
  <1>5. QED BY <1>2, <1>3, <1>4 DEF Affords

LEMMA KeptAffords ==
  ASSUME TypeOK, TypeOK'
  PROVE  /\ (\A j \in Job : KeptSends(j)) => Sent' \subseteq Sent
         /\ (\A j \in Job : KeptRows(j)) => Created' \subseteq Created
  <1>1. sends' \in [Job -> Nat] /\ sends \in [Job -> Nat] /\ rows \in [Job -> Nat]
    BY DEF TypeOK
  <1>2. ASSUME \A j \in Job : KeptSends(j) PROVE Sent' \subseteq Sent
    BY <1>1, <1>2 DEF Sent, KeptSends
  <1>3. ASSUME \A j \in Job : KeptRows(j) PROVE Created' \subseteq Created
    BY <1>1, <1>3 DEF Created, KeptRows
  <1>4. QED BY <1>2, <1>3

LEMMA SwapAffords ==
  ASSUME TypeOK, NEW S, NEW T, NEW a \in S, NEW b \in Job \X Int, faults' = faults,
         T \subseteq (S \ {a}) \cup {b}
  PROVE  Affords(S, T)
  BY DEF Affords, TypeOK

\* Another job is given the reply to send.
LEMMA RescheduleAffords ==
  ASSUME TypeOK, TypeOK', JobInv, PhaseInv, NEW j \in Job, RouteLimited(j) \/ RateLimits(j)
  PROVE  Affords(Sent, Sent') /\ Affords(Created, Created')
  <1>t. /\ pc \in [Job -> PC] /\ job \in [Job -> {"absent", "waiting", "active", "completed", "failed"}]
        /\ sends \in [Job -> Nat] /\ rows \in [Job -> Nat] /\ faults \in Nat
    BY DEF TypeOK
  <1>i. /\ PhaseOf(j) /\ (Working(j) => job[j] = "active")
    BY DEF PhaseInv, JobInv, JobOf
  <1>1. /\ pc[j] = "rate" \/ (pc[j] = "route" /\ ~reply[j].confirmed)
        /\ Reschedule(j)
        /\ UNCHANGED <<leadVars, traces, sendVars, holder, procVars, faultVars>>
    BY DEF RouteLimited, RateLimits
  <1>2. PICK k \in Job : job[k] = "absent" /\ job' = [job EXCEPT ![k] = "waiting"]
    BY <1>1 DEF Reschedule
  <1>3. /\ job[j] = "active" /\ j # k
        /\ MaySend(j) /\ MayCreate(j)
        /\ pc' = [pc EXCEPT ![j] = "return"]
    BY <1>t, <1>i, <1>1, <1>2
    DEF Reschedule, Working, MaySend, MayCreate, BeforeSend, PhaseOf, Unconfirmed
  <1>4. ~MaySend(j)' /\ ~MayCreate(j)'
    BY <1>t, <1>3 DEF MaySend, MayCreate, BeforeSend
  <1>5. \A i \in Job \ {j, k} : (MaySend(i)' => MaySend(i)) /\ (MayCreate(i)' => MayCreate(i))
    BY <1>t, <1>1, <1>2, <1>3 DEF MaySend, MayCreate, BeforeSend, traces, procVars
  <1>6. \A i \in Job : MayConflict(i)' => MayConflict(i)
    BY <1>t, <1>1, <1>3 DEF MayConflict, BeforeSend, traces, procVars
  <1>7. sends' = sends /\ rows' = rows /\ faults' = faults
    BY <1>1 DEF traces, sendVars, faultVars
  <1>8. <<j, 0>> \in Sent /\ Sent' \subseteq (Sent \ {<<j, 0>>}) \cup {<<k, 0>>}
    BY <1>t, <1>3, <1>4, <1>5, <1>6, <1>7 DEF Sent
  <1>9. <<j, 0>> \in Created /\ Created' \subseteq (Created \ {<<j, 0>>}) \cup {<<k, 0>>}
    BY <1>t, <1>3, <1>4, <1>5, <1>7 DEF Created
  <1>10. <<k, 0>> \in Job \X Int
    OBVIOUS
  <1>11. QED BY <1>t, <1>7, <1>8, <1>9, <1>10 DEF Affords


LEMMA NoisyAffords ==
  ASSUME TypeOK, TypeOK', JobInv, PhaseInv, NEW j \in Job, Noisy(j)
  PROVE  Affords(Sent, Sent') /\ Affords(Created, Created')
  <1>t. /\ pc \in [Job -> PC] /\ next \in [Job -> Write]
        /\ touch \in [Job -> [state : DeliveryState \cup {NoTouch}, id : Nat]]
        /\ reply \in [Job -> [confirmed : BOOLEAN, saved : BOOLEAN, sent : BOOLEAN]]
        /\ job \in [Job -> {"absent", "waiting", "active", "completed", "failed"}]
        /\ sends \in [Job -> Nat] /\ rows \in [Job -> Nat] /\ id \in [Job -> Nat]
        /\ faults \in Nat /\ faults' \in Nat
        /\ sends' \in [Job -> Nat] /\ rows' \in [Job -> Nat]
    BY DEF TypeOK
  <1>i. /\ PhaseOf(j) /\ (Working(j) => job[j] = "active")
    BY DEF PhaseInv, JobInv, JobOf
  <1> USE <1>t, <1>i
  <1>k. /\ (\A i \in Job : KeptSends(i)) => Sent' \subseteq Sent
        /\ (\A i \in Job : KeptRows(i)) => Created' \subseteq Created
    BY KeptAffords
  <1>1. CASE RouteLimited(j) \/ RateLimits(j)
    BY <1>1, RescheduleAffords
  <1>2. CASE PostAccepted(j)
    <2>1. /\ MaySend(j) /\ ~MaySend(j)' /\ (MayConflict(j)' => MayConflict(j))
          /\ sends' = [sends EXCEPT ![j] = @ + 1]
      BY <1>2
      DEF PostAccepted, Accepted, Step, MaySend, MayConflict, BeforeSend, Working, traces,
          queueVars
    <2>2. \A i \in Job \ {j} : KeptSends(i)
      BY <1>2, <2>1
      DEF PostAccepted, Step, KeptSends, MaySend, MayConflict, BeforeSend, traces, queueVars
    <2>3. \A i \in Job : KeptRows(i)
      BY <1>2 DEF PostAccepted, Step, KeptRows, MayCreate, traces, queueVars
    <2>4. /\ <<j, 0>> \in Sent
          /\ Sent' \subseteq (Sent \ {<<j, 0>>}) \cup {<<j, sends[j] + 1>>}
      BY <2>1, <2>2 DEF Sent, KeptSends
    <2>5. faults' = faults /\ <<j, sends[j] + 1>> \in Job \X Int
      BY <1>2 DEF PostAccepted, faultVars
    <2>6. Affords(Sent, Sent')
      BY <2>4, <2>5, SwapAffords
    <2>7. QED BY <1>k, <2>3, <2>5, <2>6 DEF Affords
  <1>3. CASE PostUnanswered(j) \/ PostWithoutId(j)
    <2>0. PICK b \in BOOLEAN : /\ pc[j] = "post" /\ TryFails(j, b) /\ Accepted(j) /\ id' = id
                               /\ faults' = faults + 1
      BY <1>3 DEF PostUnanswered, PostWithoutId, Fault
    <2>1. /\ MaySend(j) /\ (MayConflict(j)' => MayConflict(j))
          /\ sends' = [sends EXCEPT ![j] = @ + 1]
      BY <2>0
      DEF TryFails, Accepted, MaySend, MayConflict, BeforeSend, Working, WithId, traces, queueVars
    <2>2. \A i \in Job \ {j} : KeptSends(i)
      BY <2>0, <2>1 DEF TryFails, KeptSends, MaySend, MayConflict, BeforeSend, traces, queueVars
    <2>3. \A i \in Job : KeptRows(i)
      BY <2>0 DEF TryFails, KeptRows, MayCreate, traces, queueVars
    <2>4. \A i \in Job : (MaySend(i)' => MaySend(i)) /\ (MayConflict(i)' => MayConflict(i))
      BY <2>0 DEF TryFails, MaySend, MayConflict, BeforeSend, Working, WithId, traces, queueVars
    <2>5. Sent' \subseteq Sent \cup {<<j, sends[j] + 1>>}
      <3>1. \A i \in Job, n \in Int : n <= sends'[i] /\ ~(n <= sends[i]) => i = j /\ n = sends[j] + 1
        BY <2>1, <2>2 DEF KeptSends
      <3>2. QED BY <2>4, <3>1 DEF Sent
    <2>6. <<j, sends[j] + 1>> \in Job \X Int
      OBVIOUS
    <2>7. QED BY <1>k, <2>0, <2>3, <2>5, <2>6 DEF Affords
  <1>4. CASE DeliverBlind(j)
    <2>1. sends' = sends /\ faults' = faults + 1 /\ (MaySend(j)' => MaySend(j))
      BY <1>4
      DEF DeliverBlind, BlindFault, Step, MaySend, BeforeSend, Working, traces, sendVars,
          queueVars
    <2>2. \A i \in Job \ {j} : KeptSends(i)
      BY <1>4
      DEF DeliverBlind, Step, KeptSends, MaySend, MayConflict, BeforeSend, traces, sendVars,
          queueVars, procVars
    <2>3. \A i \in Job : KeptRows(i)
      BY <1>4 DEF DeliverBlind, Step, KeptRows, MayCreate, traces, queueVars
    <2>4. Sent' \subseteq Sent \cup {<<j, -1>>}
      BY <2>1, <2>2 DEF Sent, KeptSends
    <2>5. <<j, -1>> \in Job \X Int
      OBVIOUS
    <2>6. QED BY <1>k, <2>1, <2>3, <2>4, <2>5 DEF Affords
  <1>5. CASE Errors(j) \/ Crash(j)
    <2>1. /\ sends' = sends /\ rows' = rows /\ faults' = faults + 1
          /\ MayConflict(j)' => MayConflict(j)
      BY <1>5 DEF Errors, Crash, Fault, MayConflict, BeforeSend, traces, sendVars, procVars
    <2>2. \A i \in Job \ {j} : KeptSends(i) /\ KeptRows(i)
      BY <1>5
      DEF Errors, Crash, KeptSends, KeptRows, MaySend, MayConflict, MayCreate, BeforeSend, traces,
          sendVars, queueVars, procVars
    <2>3. Sent' \subseteq Sent \cup {<<j, 0>>} /\ Created' \subseteq Created \cup {<<j, 0>>}
      BY <2>1, <2>2 DEF Sent, Created, KeptSends, KeptRows
    <2>4. <<j, 0>> \in Job \X Int
      OBVIOUS
    <2>5. QED BY <2>1, <2>3, <2>4 DEF Affords
  <1>6. CASE UpsertConflicts(j)
    <2>1. /\ sends' = sends /\ faults' = faults
          /\ MayConflict(j) /\ ~MayConflict(j)'
      BY <1>6 DEF UpsertConflicts, Conflict, Step, MayConflict, BeforeSend, sendVars, faultVars
    <2>2. \A i \in Job \ {j} : KeptSends(i)
      BY <1>6
      DEF UpsertConflicts, Step, KeptSends, MaySend, MayConflict, BeforeSend, traces, sendVars,
          queueVars, procVars
    <2>3. \A i \in Job : KeptRows(i)
      BY <1>6 DEF UpsertConflicts, Step, KeptRows, MayCreate, traces, queueVars
    <2>4. <<j, -1>> \in Sent /\ Sent' \subseteq (Sent \ {<<j, -1>>}) \cup {<<j, 0>>}
      BY <2>1, <2>2 DEF Sent, KeptSends
    <2>5. <<j, 0>> \in Job \X Int
      OBVIOUS
    <2>6. Affords(Sent, Sent')
      BY <2>1, <2>4, <2>5, SwapAffords
    <2>7. QED BY <1>k, <2>1, <2>3, <2>6 DEF Affords
  <1>7. CASE PersistCreates(j)
    <2>1. /\ rows' = [rows EXCEPT ![j] = @ + 1] /\ faults' = faults
          /\ MayCreate(j) /\ ~MayCreate(j)'
      BY <1>7 DEF PersistCreates, Step, MayCreate, Working, faultVars
    <2>2. \A i \in Job \ {j} : KeptRows(i)
      BY <1>7, <2>1 DEF PersistCreates, Step, KeptRows, MayCreate, queueVars
    <2>3. \A i \in Job : KeptSends(i)
      BY <1>7
      DEF PersistCreates, Step, KeptSends, MaySend, MayConflict, BeforeSend, sendVars, queueVars,
          procVars
    <2>4. /\ <<j, 0>> \in Created
          /\ Created' \subseteq (Created \ {<<j, 0>>}) \cup {<<j, rows[j] + 1>>}
      BY <2>1, <2>2 DEF Created, KeptRows
    <2>5. <<j, rows[j] + 1>> \in Job \X Int
      OBVIOUS
    <2>6. Affords(Created, Created')
      BY <2>1, <2>4, <2>5, SwapAffords
    <2>7. QED BY <1>k, <2>1, <2>3, <2>6 DEF Affords
  <1>8. QED BY <1>1, <1>2, <1>3, <1>4, <1>5, <1>6, <1>7 DEF Noisy

LEMMA NextBudget ==
  TypeOK /\ TypeOK' /\ JobInv /\ PhaseInv /\ BudgetInv /\ [Next]_vars => BudgetInv'
  <1> SUFFICES ASSUME TypeOK, TypeOK', JobInv, PhaseInv, BudgetInv, [Next]_vars
               PROVE  BudgetInv'
    OBVIOUS
  <1>1. Affords(Sent, Sent') /\ Affords(Created, Created')
    <2>1. CASE \E j \in Job : Noisy(j)
      BY <2>1, NoisyAffords
    <2>2. CASE \A j \in Job : ~Noisy(j)
      <3>1. \A j \in Job : KeptSends(j) /\ KeptRows(j)
        BY <2>2, QuietKeeps DEF Kept
      <3>2. faults' \in Nat /\ faults' >= faults
        <4>1. 1 \in Job
          BY DEF Job
        <4>2. QED BY <2>2, <4>1, QuietKeeps DEF TypeOK
      <3>3. QED BY <3>1, <3>2, KeptAffords DEF Affords
    <2>3. QED BY <2>1, <2>2
  <1>2. QED BY <1>1, AffordsCounts DEF BudgetInv

LEMMA InitBudget == Init => PhaseInv /\ BudgetInv
  <1> SUFFICES ASSUME Init PROVE PhaseInv /\ BudgetInv
    OBVIOUS
  <1>1. PhaseInv
    BY DEF Init, PhaseInv, IdOf, PhaseOf, Unconfirmed
  <1>2. Sent \subseteq {<<1, 0>>}
    BY DEF Init, Sent, MaySend, MayConflict
  <1>3. Created \subseteq {<<1, 0>>}
    BY DEF Init, Created, MayCreate
  <1>4. \A S : S \subseteq {<<1, 0>>} => IsFiniteSet(S) /\ Cardinality(S) <= 1
    <2> SUFFICES ASSUME NEW S, S \subseteq {<<1, 0>>}
                 PROVE  IsFiniteSet(S) /\ Cardinality(S) <= 1
      OBVIOUS
    <2>1. IsFiniteSet({<<1, 0>>}) /\ Cardinality({<<1, 0>>}) = 1
      BY FS_Singleton
    <2>2. QED BY <2>1, CountsFewer
  <1>5. faults = 0
    BY DEF Init
  <1>6. QED BY <1>1, <1>2, <1>3, <1>4, <1>5 DEF BudgetInv

LEMMA BudgetSuffices == TypeOK /\ BudgetInv => RepeatsNeedFaults
  <1> SUFFICES ASSUME TypeOK, BudgetInv PROVE RepeatsNeedFaults
    OBVIOUS
  <1>1. /\ sends \in [Job -> Nat] /\ rows \in [Job -> Nat] /\ faults \in Nat
    BY DEF TypeOK
  <1>2. Copies(sends) \subseteq Sent /\ Copies(rows) \subseteq Created
    BY <1>1 DEF Copies, Sent, Created
  <1>3. Total(sends) <= 1 + faults
    <2>1. Cardinality(Copies(sends)) \in Nat /\ Cardinality(Sent) \in Nat
          /\ Cardinality(Copies(sends)) <= Cardinality(Sent)
      BY <1>2, CountsFewer DEF BudgetInv
    <2>2. QED BY <1>1, <2>1 DEF BudgetInv, Total
  <1>4. Total(rows) <= 1 + faults
    <2>1. Cardinality(Copies(rows)) \in Nat /\ Cardinality(Created) \in Nat
          /\ Cardinality(Copies(rows)) <= Cardinality(Created)
      BY <1>2, CountsFewer DEF BudgetInv
    <2>2. QED BY <1>1, <2>1 DEF BudgetInv, Total
  <1>5. QED BY <1>3, <1>4 DEF RepeatsNeedFaults

\* The lead gets the reply once and once more for each fault at most, whatever
\* order retries, reschedules, conflicts and deaths come in; so does its row.
THEOREM ReplyRepeatsNeedFaults == Spec => []RepeatsNeedFaults
  <1>1. Spec => [](PhaseInv /\ BudgetInv)
    <2>1. QED BY InitBudget, NextBudget, NextPhase, ReplyInvariant, PTL DEF Spec, IInv
  <1>2. QED BY <1>1, BudgetSuffices, ReplyInvariant, PTL DEF IInv

=============================================================================
