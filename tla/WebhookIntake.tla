---------------------------- MODULE WebhookIntake ----------------------------
(***************************************************************************)
(* routes/instagram.webhook.ts and whatsapp.webhook.ts: the provider       *)
(* delivers one message event, again if it likes, in concurrent requests.  *)
(*                                                                         *)
(* A request passes the replay guard (webhookSecurity.service.ts), then    *)
(* the duplicate test (webhookDedup.service.ts: a marker in Redis, a row   *)
(* in the database), then adds the ingest job, and only then is answered   *)
(* 200.  When the add fails it takes its traces back and answers 503.      *)
(* What the job does is InboundPipeline, which starts with it queued.  The *)
(* two have no name in common, so that a module may extend both.           *)
(***************************************************************************)
EXTENDS Integers, FiniteSets

CONSTANTS
  Requests,        \* the deliveries the provider makes of the event
  MaxIntakeFaults  \* bound on errors and crashes, together

ASSUME IntakeAssumption == MaxIntakeFaults \in Nat

VARIABLES
  stamped,    \* the payload has a timestamp: without one there is no replay guard
  fresh,      \* the timestamp is less than MAX_WEBHOOK_AGE_MS old
  replayKey,  \* webhook:replay:<signature and timestamp>
  marker,     \* the idempotency key of the event in Redis, for two minutes
  ledger,     \* the WebhookEvent row
  request,    \* where each delivery is, or how it was answered
  undoing,    \* traces a rollback has yet to remove
  queued,     \* BullMQ has the ingest job: its id is made from the event's
  refusals,   \* adds of the ingest job that failed
  failures    \* errors and crashes so far

traces == <<replayKey, marker, ledger>>
tally  == <<refusals, failures>>
intakeVars == <<stamped, fresh, traces, request, undoing, queued, tally>>

InFlight == {"guard", "mark", "check", "save", "enqueue", "rollback", "unguard"}
Answer   == {"ok", "denied", "unavailable", "error", "lost"}

IntakeTypeOK ==
  /\ stamped \in BOOLEAN /\ fresh \in BOOLEAN
  /\ replayKey \in BOOLEAN /\ marker \in BOOLEAN /\ ledger \in BOOLEAN
  /\ request \in [Requests -> {"none"} \cup InFlight \cup Answer]
  /\ undoing \in [Requests -> SUBSET {"marker", "ledger"}]
  /\ queued \in BOOLEAN
  /\ refusals \in 0..MaxIntakeFaults /\ failures \in 0..MaxIntakeFaults

IntakeInit ==
  /\ stamped \in BOOLEAN /\ fresh = TRUE
  /\ replayKey = FALSE /\ marker = FALSE /\ ledger = FALSE
  /\ request = [r \in Requests |-> "none"]
  /\ undoing = [r \in Requests |-> {}]
  /\ queued = FALSE
  /\ refusals = 0 /\ failures = 0

Move(r, from, to) == request[r] = from /\ request' = [request EXCEPT ![r] = to]

\* One more call that failed, or process that died.
Fault == failures < MaxIntakeFaults /\ failures' = failures + 1

Deliver(r) ==
  /\ Move(r, "none", "guard")
  /\ UNCHANGED <<stamped, fresh, traces, undoing, queued, tally>>

\* guardWebhookReplay: SET NX.  A delivery that is stale, or has been seen, is
\* answered 403.
Guard(r) ==
  /\ IF stamped
     THEN LET barred == ~fresh \/ replayKey IN
          /\ Move(r, "guard", IF barred THEN "denied" ELSE "mark")
          /\ replayKey' = (replayKey \/ fresh)
     ELSE Move(r, "guard", "mark") /\ UNCHANGED replayKey
  /\ UNCHANGED <<stamped, fresh, marker, ledger, undoing, queued, tally>>

\* Redis answers with an error, with or without having set the key: 500.
GuardFails(r) ==
  /\ stamped /\ fresh
  /\ Move(r, "guard", "error")
  /\ replayKey' \in {replayKey, TRUE}
  /\ Fault /\ UNCHANGED <<stamped, fresh, marker, ledger, undoing, queued, refusals>>

\* acquireRedisLock.
Mark(r) ==
  /\ Move(r, "mark", IF marker THEN "ok" ELSE "check")
  /\ marker' = TRUE
  /\ UNCHANGED <<stamped, fresh, replayKey, ledger, undoing, queued, tally>>

\* checkDatabaseDuplicate.
Check(r) ==
  /\ Move(r, "check", IF ledger THEN "ok" ELSE "save")
  /\ UNCHANGED <<stamped, fresh, traces, undoing, queued, tally>>

\* saveWebhookEvent: the row of another request is a duplicate.
Save(r) ==
  /\ Move(r, "save", IF ledger THEN "ok" ELSE "enqueue")
  /\ ledger' = TRUE
  /\ UNCHANGED <<stamped, fresh, replayKey, marker, undoing, queued, tally>>

\* An error of the marker, of the read (or 150 ms without an answer) and of the
\* write all let the event through; what was to be written may have been.
DedupFailsOpen(r) ==
  /\ \/ Move(r, "mark", "check")   /\ marker' \in {marker, TRUE} /\ UNCHANGED ledger
     \/ Move(r, "check", "save")   /\ UNCHANGED <<marker, ledger>>
     \/ Move(r, "save", "enqueue") /\ ledger' \in {ledger, TRUE} /\ UNCHANGED marker
  /\ Fault /\ UNCHANGED <<stamped, fresh, replayKey, undoing, queued, refusals>>

Enqueue(r) ==
  /\ Move(r, "enqueue", "ok")
  /\ queued' = TRUE
  /\ UNCHANGED <<stamped, fresh, traces, undoing, tally>>

\* Mutant: the rollback forgets the row.
EnqueueFailsKeepsRow(r) ==
  /\ Move(r, "enqueue", "rollback")
  /\ undoing' = [undoing EXCEPT ![r] = {"marker"}]
  /\ refusals' = refusals + 1
  /\ queued' \in {queued, TRUE}
  /\ Fault /\ UNCHANGED <<stamped, fresh, traces>>

\* The add throws, although Redis may have made the job.
EnqueueFails(r) ==
  /\ Move(r, "enqueue", "rollback")
  /\ undoing' = [undoing EXCEPT ![r] = {"marker", "ledger"}]
  /\ refusals' = refusals + 1
  /\ queued' \in {queued, TRUE}
  /\ Fault /\ UNCHANGED <<stamped, fresh, traces>>

\* rollbackWebhookEvent deletes both traces at once, in either order.
Undo(r, trace) ==
  /\ request[r] = "rollback" /\ trace \in undoing[r]
  /\ undoing' = [undoing EXCEPT ![r] = @ \ {trace}]
  /\ UNCHANGED <<stamped, fresh, replayKey, request, queued, refusals>>

UndoMarker(r) ==
  /\ Undo(r, "marker") /\ marker' = FALSE
  /\ UNCHANGED <<ledger, failures>>

UndoLedger(r) ==
  /\ Undo(r, "ledger") /\ ledger' = FALSE
  /\ UNCHANGED <<marker, failures>>

\* allSettled: a deletion that fails is passed over.
UndoFails(r) ==
  /\ \E trace \in {"marker", "ledger"} : Undo(r, trace)
  /\ Fault /\ UNCHANGED <<marker, ledger>>

\* Mutant: the replay key is kept.
RolledBackStaysGuarded(r) ==
  /\ undoing[r] = {}
  /\ Move(r, "rollback", "unavailable")
  /\ UNCHANGED <<stamped, fresh, traces, undoing, queued, tally>>

\* Mutant: an error of the rollback leaves the handler, and nobody is answered.
RolledBackRethrows(r) ==
  /\ Move(r, "rollback", "rethrown")
  /\ UNCHANGED <<stamped, fresh, traces, undoing, queued, tally>>

RolledBack(r) ==
  /\ undoing[r] = {}
  /\ Move(r, "rollback", IF stamped THEN "unguard" ELSE "unavailable")
  /\ UNCHANGED <<stamped, fresh, traces, undoing, queued, tally>>

\* deleteReplayKey, so that the provider may deliver the same request again.
Unguard(r) ==
  /\ Move(r, "unguard", "unavailable")
  /\ replayKey' = FALSE
  /\ UNCHANGED <<stamped, fresh, marker, ledger, undoing, queued, tally>>

UnguardFails(r) ==
  /\ Move(r, "unguard", "unavailable")
  /\ Fault /\ UNCHANGED <<stamped, fresh, traces, undoing, queued, refusals>>

\* The process dies in the middle of a request.
Dies(r) ==
  /\ request[r] \in InFlight
  /\ request' = [request EXCEPT ![r] = "lost"]
  /\ undoing' = [undoing EXCEPT ![r] = {}]
  /\ Fault /\ UNCHANGED <<stamped, fresh, traces, queued, refusals>>

\* The key lives as long as the timestamp is fresh, or longer.
GoesStale ==
  /\ fresh /\ fresh' = FALSE
  /\ UNCHANGED <<stamped, traces, request, undoing, queued, tally>>

MarkerExpires ==
  /\ marker /\ marker' = FALSE
  /\ UNCHANGED <<stamped, fresh, replayKey, ledger, request, undoing, queued, tally>>

Serve(r) ==
  \/ Guard(r) \/ Mark(r) \/ Check(r) \/ Save(r) \/ Enqueue(r)
  \/ UndoMarker(r) \/ UndoLedger(r) \/ RolledBack(r) \/ Unguard(r)

RequestFails(r) ==
  \/ GuardFails(r) \/ DedupFailsOpen(r) \/ EnqueueFails(r) \/ UndoFails(r) \/ UnguardFails(r)
  \/ Dies(r)

IntakeNext ==
  \/ \E r \in Requests : Deliver(r) \/ Serve(r) \/ RequestFails(r)
  \/ GoesStale \/ MarkerExpires

IntakeSpec == IntakeInit /\ [][IntakeNext]_intakeVars

-----------------------------------------------------------------------------
(* Properties *)

Served == \A r \in Requests : request[r] \notin InFlight

Acknowledged == \E r \in Requests : request[r] = "ok"

\* A 200 is a promise: the provider will not deliver again.  With no request in
\* flight it has been kept unless two things failed, or one where the payload
\* has no timestamp and so a second request can pass the first one.
AcknowledgedIsQueued ==
  Served /\ Acknowledged /\ ~queued => failures >= IF stamped THEN 2 ELSE 1

\* A refused add, however often, does not bar the event: while nobody has been
\* told that it is in good hands, the rollback has taken back the key, the
\* marker and the row, unless something else failed too.
RefusalBarsNothing ==
  Served /\ ~Acknowledged /\ ~queued /\ ((stamped /\ replayKey) \/ marker \/ ledger)
    => failures > refusals
=============================================================================
