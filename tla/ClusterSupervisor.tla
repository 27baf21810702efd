------------------------- MODULE ClusterSupervisor -------------------------
(***************************************************************************)
(* workers/cluster.worker.ts: the primary process that forks the worker    *)
(* processes, restarts those that exit with an exponential backoff, opens  *)
(* a circuit breaker when too many of them exit early, and shuts down.     *)
(*                                                                         *)
(* Time is discrete.  A timer never fires before it is due and may fire    *)
(* any time later; ages are counted up to the last value that any test in  *)
(* the code can tell from a greater one.                                   *)
(***************************************************************************)
EXTENDS Naturals, FiniteSets

CONSTANTS
  Workers,    \* getWorkerCount()
  MaxForks,   \* bound on the workers ever forked
  Cap,        \* CLUSTER_WORKER_RESTART_CAP
  Window,     \* CLUSTER_WORKER_COOLDOWN_WINDOW_MS
  Healthy,    \* CLUSTER_WORKER_HEALTHY_UPTIME_MS
  BaseDelay,  \* CLUSTER_WORKER_RESPAWN_BASE_DELAY_MS
  MaxDelay,   \* CLUSTER_WORKER_RESPAWN_MAX_DELAY_MS
  Grace       \* CLUSTER_WORKER_SHUTDOWN_GRACE_MS

ASSUME ClusterAssumption ==
  /\ Workers \in Nat \ {0} /\ MaxForks \in Nat /\ Workers <= MaxForks
  /\ Cap \in Nat \ {0} /\ Window \in Nat \ {0} /\ Healthy \in Nat \ {0}
  /\ BaseDelay \in Nat /\ MaxDelay \in Nat /\ Grace \in Nat

Worker  == 1..MaxForks
Horizon == IF Healthy > Window THEN Healthy ELSE Window + 1

VARIABLES
  primary,      \* the primary process: up, exited (process.exit) or killed
  shuttingDown, \* shuttingDownPrimary
  exitCode,     \* shutdownExitCode
  breakerOpen,
  grace,        \* what is left of the force timer
  handled,      \* signals whose once-handler has run
  epoch,        \* failureEpoch
  recent,       \* recentFailureTimestamps, as the workers that failed
  early,        \* early exits since the last healthy one (history)
  state,        \* of each worker: see State
  age,          \* ticks since its fork, and since its exit event after that
  observed,     \* observedFailureEpoch
  armed,        \* workers whose healthyResetTimer is set
  left          \* what is left of the restart timer of an exited worker

control == <<primary, shuttingDown, exitCode, grace>>
breaker == <<breakerOpen, epoch, recent, early>>
workers == <<state, age, observed, armed, left>>
vars == <<control, handled, breaker, workers>>

\* exited: the process is gone, its exit event has not been handled and so
\* isDead() is false; pending: it was, and a restart timer runs; gone: without.
State == {"unborn", "running", "exited", "pending", "gone", "killed"}

TypeOK ==
  /\ primary \in {"up", "exited", "killed"}
  /\ shuttingDown \in BOOLEAN /\ breakerOpen \in BOOLEAN
  /\ exitCode \in {0, 1} /\ grace \in 0..Grace
  /\ handled \subseteq {"SIGINT", "SIGTERM"}
  /\ epoch \in Nat
  /\ recent \subseteq Worker /\ early \subseteq Worker /\ armed \subseteq Worker
  /\ state \in [Worker -> State]
  /\ age \in [Worker -> 0..Horizon]
  /\ observed \in [Worker -> Nat]
  /\ left \in [Worker -> Nat]

\* startWorkerCluster
Init ==
  /\ primary = "up" /\ shuttingDown = FALSE /\ exitCode = 0 /\ grace = 0
  /\ breakerOpen = FALSE /\ epoch = 0 /\ recent = {} /\ early = {}
  /\ handled = {}
  /\ state = [w \in Worker |-> IF w <= Workers THEN "running" ELSE "unborn"]
  /\ age = [w \in Worker |-> 0]
  /\ observed = [w \in Worker |-> 0]
  /\ armed = 1..Workers
  /\ left = [w \in Worker |-> 0]

In(st, states) == {w \in Worker : st[w] \in states}

\* getLiveWorkers
Live(st) == In(st, {"running", "exited"})

-----------------------------------------------------------------------------
(* Shutdown; st is the workers' state at the call *)

\* Mutant: the last call decides.
ShutdownAgain(code, st) ==
  /\ shuttingDown' = TRUE /\ exitCode' = code
  /\ state' = [w \in Worker |-> IF st[w] = "pending" THEN "gone" ELSE st[w]]
  /\ primary' = IF Live(st) = {} THEN "exited" ELSE "up"
  /\ grace' = Grace

\* beginPrimaryShutdown: clear the restarts, ask the live workers to stop
\* (they may or may not), exit at once if there are none.
BeginShutdown(code, st) ==
  \/ /\ shuttingDown
     /\ state' = st
     /\ UNCHANGED control
  \/ /\ ~shuttingDown
     /\ shuttingDown' = TRUE /\ exitCode' = code
     /\ state' = [w \in Worker |-> IF st[w] = "pending" THEN "gone" ELSE st[w]]
     /\ primary' = IF Live(st) = {} THEN "exited" ELSE "up"
     /\ grace' = Grace

Signal(s) ==
  /\ primary = "up" /\ s \notin handled
  /\ handled' = handled \cup {s}
  /\ BeginShutdown(0, state)
  /\ UNCHANGED <<breaker, age, observed, armed, left>>

\* process.once: the second signal of a kind meets no handler.
SecondSignal(s) ==
  /\ primary = "up" /\ s \in handled
  /\ primary' = "killed"
  /\ UNCHANGED <<shuttingDown, exitCode, grace, handled, breaker, workers>>

\* Mutant: the exit code is that of a killed process.
ForceWithCode ==
  /\ primary = "up" /\ shuttingDown /\ grace = 0
  /\ primary' = "exited" /\ exitCode' = 137
  /\ state' = [w \in Worker |-> IF w \in Live(state) THEN "killed" ELSE state[w]]
  /\ UNCHANGED <<shuttingDown, grace, handled, breaker, age, observed, armed, left>>

\* The force timer: SIGKILL, then exit.
ForceShutdown ==
  /\ primary = "up" /\ shuttingDown /\ grace = 0
  /\ primary' = "exited"
  /\ state' = [w \in Worker |-> IF w \in Live(state) THEN "killed" ELSE state[w]]
  /\ UNCHANGED <<shuttingDown, exitCode, grace, handled, breaker, age, observed, armed, left>>

\* All the primary's timers are unref'd: without workers its event loop may run
\* empty, unless something else holds it.
LoopDrains ==
  /\ primary = "up" /\ Live(state) = {}
  /\ primary' = "exited"
  /\ UNCHANGED <<shuttingDown, exitCode, grace, handled, breaker, workers>>

-----------------------------------------------------------------------------
(* Workers exit *)

\* A worker process ends, by itself or because it was asked to.  (The bound on
\* forks leaves one for every restart.)
Exits(w) ==
  /\ primary = "up" /\ state[w] = "running"
  /\ shuttingDown \/ Cardinality(In(state, {"exited", "pending"}))
                       < Cardinality(In(state, {"unborn"}))
  /\ state' = [state EXCEPT ![w] = "exited"]
  /\ UNCHANGED <<control, handled, breaker, age, observed, armed, left>>

\* clearWorkerState, at the beginning of the exit handler.
ExitEvent(w) ==
  /\ primary = "up" /\ state[w] = "exited"
  /\ armed' = armed \ {w}
  /\ age' = [age EXCEPT ![w] = 0]
  /\ UNCHANGED <<handled, observed>>

\* maybeExitPrimary
ExitInShutdown(w) ==
  /\ shuttingDown /\ ExitEvent(w)
  /\ state' = [state EXCEPT ![w] = "gone"]
  /\ primary' = IF Live(state') = {} THEN "exited" ELSE primary
  /\ UNCHANGED <<shuttingDown, exitCode, grace, breaker, left>>

\* Mutant: a worker that has done its time is not replaced.
HealthyExitRetires(w) ==
  /\ ~shuttingDown /\ age[w] >= Healthy /\ ExitEvent(w)
  /\ recent' = {} /\ early' = {}
  /\ state' = [state EXCEPT ![w] = "gone"]
  /\ UNCHANGED <<control, breakerOpen, epoch, left>>

HealthyExit(w) ==
  /\ ~shuttingDown /\ age[w] >= Healthy /\ ExitEvent(w)
  /\ recent' = {} /\ early' = {}
  /\ state' = [state EXCEPT ![w] = "pending"]
  /\ left' = [left EXCEPT ![w] = BaseDelay]
  /\ UNCHANGED <<control, breakerOpen, epoch>>

\* calculateBackoffDelay
Delay(failureCount) ==
  LET delay == BaseDelay * 2^(failureCount - 1)
  IN  IF delay \in 0..MaxDelay THEN delay ELSE MaxDelay

\* pruneRecentFailures, then the failure of w is pushed.
Counted(w) == {v \in recent : age[v] <= Window} \cup {w}

EarlyExit(w) ==
  /\ ~shuttingDown /\ age[w] < Healthy /\ ExitEvent(w)
  /\ epoch' = epoch + 1
  /\ recent' = Counted(w) /\ early' = early \cup {w}
  /\ \/ /\ Cardinality(Counted(w)) < Cap
        /\ state' = [state EXCEPT ![w] = "pending"]
        /\ left' = [left EXCEPT ![w] = Delay(Cardinality(Counted(w)))]
        /\ UNCHANGED <<control, breakerOpen>>
     \/ /\ Cardinality(Counted(w)) >= Cap       \* openCircuitBreaker
        /\ breakerOpen' = TRUE
        /\ BeginShutdown(1, [state EXCEPT ![w] = "gone"])
        /\ UNCHANGED left

-----------------------------------------------------------------------------
(* Timers *)

\* Mutant: restarts wait for one another.
RestartOneByOne(w) ==
  /\ primary = "up" /\ state[w] = "pending" /\ left[w] = 0
  /\ ~breakerOpen /\ ~shuttingDown
  /\ In(state, {"pending"}) = {w}
  /\ \E v \in Worker :
       /\ state[v] = "unborn" /\ \A u \in Worker : u < v => state[u] # "unborn"
       /\ state' = [state EXCEPT ![w] = "gone", ![v] = "running"]
       /\ age' = [age EXCEPT ![v] = 0]
       /\ observed' = [observed EXCEPT ![v] = epoch]
       /\ armed' = armed \cup {v}
  /\ UNCHANGED <<control, handled, breaker, left>>

\* The timer of scheduleWorkerRestart, and forkClusterWorker.
RestartDue(w) ==
  /\ primary = "up" /\ state[w] = "pending" /\ left[w] = 0
  /\ ~breakerOpen /\ ~shuttingDown
  /\ \E v \in Worker :
       /\ state[v] = "unborn" /\ \A u \in Worker : u < v => state[u] # "unborn"
       /\ state' = [state EXCEPT ![w] = "gone", ![v] = "running"]
       /\ age' = [age EXCEPT ![v] = 0]
       /\ observed' = [observed EXCEPT ![v] = epoch]
       /\ armed' = armed \cup {v}
  /\ UNCHANGED <<control, handled, breaker, left>>

\* Mutant: the failures after the worker's fork are forgotten too.
HealthyDueAlways(w) ==
  /\ primary = "up" /\ w \in armed /\ age[w] >= Healthy
  /\ armed' = armed \ {w}
  /\ recent' = IF breakerOpen \/ shuttingDown THEN recent ELSE {}
  /\ UNCHANGED <<control, handled, breakerOpen, epoch, early, state, age, observed, left>>

\* The timer of registerHealthyReset.
HealthyDue(w) ==
  /\ primary = "up" /\ w \in armed /\ age[w] >= Healthy
  /\ armed' = armed \ {w}
  /\ recent' = IF breakerOpen \/ shuttingDown \/ epoch # observed[w] THEN recent ELSE {}
  /\ UNCHANGED <<control, handled, breakerOpen, epoch, early, state, age, observed, left>>

Tick ==
  /\ primary = "up"
  /\ age' = [w \in Worker |->
       IF state[w] # "unborn" /\ age[w] < Horizon THEN age[w] + 1 ELSE age[w]]
  /\ left' = [w \in Worker |-> IF left[w] > 0 THEN left[w] - 1 ELSE 0]
  /\ grace' = IF grace > 0 THEN grace - 1 ELSE 0
  /\ UNCHANGED <<primary, shuttingDown, exitCode, handled, breaker, state, observed, armed>>

-----------------------------------------------------------------------------
Handler(w) == ExitInShutdown(w) \/ HealthyExit(w) \/ EarlyExit(w)
Timer(w)   == RestartDue(w) \/ HealthyDue(w)

Next ==
  \/ \E s \in {"SIGINT", "SIGTERM"} : Signal(s) \/ SecondSignal(s)
  \/ ForceShutdown \/ LoopDrains \/ Tick
  \/ \E w \in Worker : Exits(w) \/ Handler(w) \/ Timer(w)

Spec == Init /\ [][Next]_vars

\* Time passes and the primary's event loop runs; no worker need ever exit.
FairSpec ==
  /\ Spec
  /\ WF_vars(Tick) /\ WF_vars(ForceShutdown)
  /\ \A w \in Worker : WF_vars(Handler(w)) /\ WF_vars(RestartDue(w))

-----------------------------------------------------------------------------
(* Properties *)

\* No crash loop goes unseen: unless the cluster is being shut down, fewer than
\* Cap workers exited early within the cooldown window since a worker last
\* exited after a healthy uptime.  The reset by a healthy worker's timer
\* forgets only failures which the window has already let go of.
BreakerMissesNothing ==
  ~shuttingDown => Cardinality({w \in early : age[w] <= Window}) < Cap

\* The cluster keeps its size: whatever exits, in whichever order the events
\* and timers come, each of the Workers places is taken by a process or has
\* exactly one restart on its way, until the shutdown.
CapacityKept ==
  ~shuttingDown => Cardinality(In(state, {"running", "exited", "pending"})) = Workers

\* The primary does not exit by itself while a worker runs that it has neither
\* waited for nor killed.
NobodyIsAbandoned == primary = "exited" => Live(state) = {}

\* The exit code tells the process manager whether the breaker opened, also
\* when signals arrive before, during or after.
ExitCodeTellsBreaker == primary = "exited" => (exitCode = 1 <=> breakerOpen)

\* Both: what the process manager sees of an exit is what happened.
ExitIsTruthful == NobodyIsAbandoned /\ ExitCodeTellsBreaker

\* A shutdown ends, although workers may ignore SIGTERM.
ShutdownEnds == shuttingDown ~> primary # "up"

\* Each scheduled restart happens or is given up in a shutdown, unless the
\* primary ends first.
RestartsHappen ==
  \A w \in Worker : state[w] = "pending" ~> state[w] # "pending" \/ primary # "up"

\* Both: the grace period's timer and the restarts' timers have their effect.
TimersAct == ShutdownEnds /\ RestartsHappen

=============================================================================
