---------------------- MODULE ClusterSupervisorProofs ----------------------
(***************************************************************************)
(* Proofs about ClusterSupervisor, for any number of workers and forks and *)
(* any cap, window and delays.                                             *)
(***************************************************************************)
EXTENDS ClusterSupervisor, FiniteSetTheorems, TLAPS

USE ClusterAssumption

LEMMA DelayType ==
  ASSUME NEW n
  PROVE  Delay(n) \in Nat
  <1> DEFINE delay == BaseDelay * 2^(n - 1)
  <1> HIDE DEF delay
  <1>1. (IF delay \in 0..MaxDelay THEN delay ELSE MaxDelay) \in Nat
    OBVIOUS
  <1>2. QED BY <1>1 DEF Delay, delay

LEMMA HorizonType == Horizon \in Nat /\ Horizon > Window /\ Horizon >= Healthy
  BY DEF Horizon

\* Every set of workers is finite.
LEMMA FiniteWorkers ==
  ASSUME NEW S, S \subseteq Worker
  PROVE  IsFiniteSet(S) /\ Cardinality(S) \in Nat
  <1>1. IsFiniteSet(Worker)
    BY FS_Interval DEF Worker
  <1>2. IsFiniteSet(S)
    BY <1>1, FS_Subset
  <1>3. QED BY <1>2, FS_CardinalityType

\* A subset has no more elements.
LEMMA FewerWorkers ==
  ASSUME NEW S, S \subseteq Worker, NEW T, T \subseteq S
  PROVE  Cardinality(T) <= Cardinality(S)
  BY FiniteWorkers, FS_Subset

-----------------------------------------------------------------------------
(* Type correctness *)

LEMMA InitType == Init => TypeOK
  <1> SUFFICES ASSUME Init PROVE TypeOK
    OBVIOUS
  <1> USE DEF Init
  <1>1. primary \in {"up", "exited", "killed"} /\ exitCode \in {0, 1}
    OBVIOUS
  <1>7. grace \in 0..Grace /\ epoch \in Nat
    OBVIOUS
  <1>8. shuttingDown \in BOOLEAN /\ breakerOpen \in BOOLEAN
    BY Zenon
  <1>2. handled \subseteq {"SIGINT", "SIGTERM"}
    BY Zenon
  <1>3. recent \subseteq Worker /\ early \subseteq Worker /\ armed \subseteq Worker
    BY DEF Worker
  <1>4. state \in [Worker -> State]
    BY DEF State
  <1>5. /\ age \in [Worker -> 0..Horizon] /\ observed \in [Worker -> Nat]
        /\ left \in [Worker -> Nat]
    BY HorizonType
  <1>6. QED BY <1>1, <1>2, <1>3, <1>4, <1>5, <1>7, <1>8 DEF TypeOK

LEMMA ShutdownType ==
  ASSUME TypeOK, NEW c \in {0, 1}, NEW st \in [Worker -> State], BeginShutdown(c, st)
  PROVE  /\ primary' \in {"up", "exited", "killed"}
         /\ shuttingDown' \in BOOLEAN /\ exitCode' \in {0, 1} /\ grace' \in 0..Grace
         /\ state' \in [Worker -> State]
  <1>1. CASE shuttingDown /\ state' = st /\ UNCHANGED control
    BY <1>1, Zenon DEF TypeOK, control
  <1>2. CASE /\ ~shuttingDown /\ shuttingDown' = TRUE /\ exitCode' = c /\ grace' = Grace
             /\ state' = [w \in Worker |-> IF st[w] = "pending" THEN "gone" ELSE st[w]]
             /\ primary' = IF Live(st) = {} THEN "exited" ELSE "up"
    <2>1. state' \in [Worker -> State]
      BY <1>2 DEF State
    <2>2. primary' \in {"up", "exited", "killed"}
      BY <1>2, Zenon
    <2>3. QED BY <1>2, <2>1, <2>2
  <1>3. QED BY <1>1, <1>2, Zenon DEF BeginShutdown

LEMMA NextType == TypeOK /\ [Next]_vars => TypeOK'
  <1> SUFFICES ASSUME TypeOK, [Next]_vars PROVE TypeOK'
    OBVIOUS
  <1> USE HorizonType DEF TypeOK, State, control, breaker, workers
  <1>1. ASSUME NEW s \in {"SIGINT", "SIGTERM"}, Signal(s) PROVE TypeOK'
    <2>1. BeginShutdown(0, state) /\ state \in [Worker -> State]
      BY <1>1 DEF Signal
    <2>2. QED BY <1>1, <2>1, ShutdownType DEF Signal
  <1>2. ASSUME NEW s \in {"SIGINT", "SIGTERM"}, SecondSignal(s) PROVE TypeOK'
    BY <1>2 DEF SecondSignal
  <1>3. CASE ForceShutdown
    BY <1>3 DEF ForceShutdown
  <1>4. CASE LoopDrains
    BY <1>4 DEF LoopDrains
  <1>5. CASE Tick
    BY <1>5 DEF Tick
  <1>6. ASSUME NEW w \in Worker, Exits(w) PROVE TypeOK'
    BY <1>6 DEF Exits
  <1>7. ASSUME NEW w \in Worker, Handler(w) PROVE TypeOK'
    <2>1. CASE ExitInShutdown(w)
      BY <2>1 DEF ExitInShutdown, ExitEvent
    <2>2. CASE HealthyExit(w)
      BY <2>2 DEF HealthyExit, ExitEvent
    <2>3. CASE EarlyExit(w)
      <3>1. /\ armed' \subseteq Worker /\ age' \in [Worker -> 0..Horizon]
            /\ recent' \subseteq Worker /\ early' \subseteq Worker /\ epoch' \in Nat
            /\ handled' = handled /\ observed' = observed
        BY <2>3 DEF EarlyExit, ExitEvent, Counted
      <3>2. CASE /\ state' = [state EXCEPT ![w] = "pending"]
                 /\ left' = [left EXCEPT ![w] = Delay(Cardinality(Counted(w)))]
                 /\ UNCHANGED <<control, breakerOpen>>
        <4>1. left' \in [Worker -> Nat]
          BY <3>2, DelayType
        <4>2. QED BY <3>1, <3>2, <4>1
      <3>3. CASE /\ breakerOpen' = TRUE /\ UNCHANGED left
                 /\ BeginShutdown(1, [state EXCEPT ![w] = "gone"])
        <4>1. [state EXCEPT ![w] = "gone"] \in [Worker -> State]
          OBVIOUS
        <4>2. QED BY <3>1, <3>3, <4>1, ShutdownType
      <3>4. QED BY <2>3, <3>2, <3>3 DEF EarlyExit
    <2>4. QED BY <1>7, <2>1, <2>2, <2>3 DEF Handler
  <1>8. ASSUME NEW w \in Worker, Timer(w) PROVE TypeOK'
    <2>1. CASE RestartDue(w)
      <3>1. PICK v \in Worker :
              /\ state' = [state EXCEPT ![w] = "gone", ![v] = "running"]
              /\ age' = [age EXCEPT ![v] = 0]
              /\ observed' = [observed EXCEPT ![v] = epoch]
              /\ armed' = armed \cup {v}
        BY <2>1, Zenon DEF RestartDue
      <3>2. QED BY <2>1, <3>1 DEF RestartDue
    <2>2. CASE HealthyDue(w)
      BY <2>2 DEF HealthyDue
    <2>3. QED BY <1>8, <2>1, <2>2 DEF Timer
  <1>9. CASE UNCHANGED vars
    BY <1>9 DEF vars
  <1>10. QED
    BY <1>1, <1>2, <1>3, <1>4, <1>5, <1>6, <1>7, <1>8, <1>9 DEF Next

\* The supervisor's state keeps its types.
THEOREM ClusterTypeCorrect == Spec => []TypeOK
  BY InitType, NextType, PTL DEF Spec

-----------------------------------------------------------------------------
(* The shutdown *)

\* The exit code is fixed by whoever shuts the cluster down, and only the
\* breaker's shutdown says 1.
ShutdownInv ==
  /\ exitCode = 1 <=> breakerOpen
  /\ breakerOpen => shuttingDown
  /\ NobodyIsAbandoned

LEMMA NextShutdown == TypeOK /\ ShutdownInv /\ [Next]_vars => ShutdownInv'
  <1> SUFFICES ASSUME TypeOK, ShutdownInv, [Next]_vars PROVE ShutdownInv'
    OBVIOUS
  <1> USE DEF ShutdownInv, NobodyIsAbandoned, Live, In, control, breaker, workers
  <1>1. ASSUME NEW s \in {"SIGINT", "SIGTERM"}, Signal(s) PROVE ShutdownInv'
    BY <1>1 DEF Signal, BeginShutdown
  <1>2. ASSUME NEW s \in {"SIGINT", "SIGTERM"}, SecondSignal(s) PROVE ShutdownInv'
    BY <1>2 DEF SecondSignal
  <1>3. CASE ForceShutdown
    BY <1>3 DEF ForceShutdown, TypeOK
  <1>4. CASE LoopDrains
    BY <1>4 DEF LoopDrains
  <1>5. CASE Tick
    BY <1>5 DEF Tick
  <1>6. ASSUME NEW w \in Worker, Exits(w) PROVE ShutdownInv'
    BY <1>6 DEF Exits
  <1>7. ASSUME NEW w \in Worker, ExitInShutdown(w) PROVE ShutdownInv'
    BY <1>7 DEF ExitInShutdown, ExitEvent
  <1>8. ASSUME NEW w \in Worker, HealthyExit(w) PROVE ShutdownInv'
    BY <1>8 DEF HealthyExit, ExitEvent
  <1>9. ASSUME NEW w \in Worker, EarlyExit(w) PROVE ShutdownInv'
    BY <1>9 DEF EarlyExit, ExitEvent, BeginShutdown, TypeOK
  <1>10. ASSUME NEW w \in Worker, RestartDue(w) PROVE ShutdownInv'
    BY <1>10 DEF RestartDue
  <1>11. ASSUME NEW w \in Worker, HealthyDue(w) PROVE ShutdownInv'
    BY <1>11 DEF HealthyDue
  <1>12. CASE UNCHANGED vars
    BY <1>12 DEF vars
  <1>13. QED
    BY <1>1, <1>2, <1>3, <1>4, <1>5, <1>6, <1>7, <1>8, <1>9, <1>10, <1>11, <1>12
    DEF Next, Handler, Timer

LEMMA ShutdownInvariant == Spec => [](TypeOK /\ ShutdownInv)
  <1>1. Init => ShutdownInv
    BY DEF Init, ShutdownInv, NobodyIsAbandoned
  <1>2. QED BY InitType, NextType, <1>1, NextShutdown, PTL DEF Spec

\* The primary exits by itself only without running workers, and with code 1
\* just when the breaker has opened, for any number of workers and however
\* signals, exits and the force timer interleave.
THEOREM ClusterExitIsTruthful == Spec => []ExitIsTruthful
  <1>1. ShutdownInv => ExitIsTruthful
    BY DEF ShutdownInv, ExitIsTruthful, ExitCodeTellsBreaker
  <1>2. QED BY ShutdownInvariant, <1>1, PTL

-----------------------------------------------------------------------------
(* The size of the cluster *)

Places(st) == In(st, {"running", "exited", "pending"})

LEMMA NextCapacity == TypeOK /\ CapacityKept /\ [Next]_vars => CapacityKept'
  <1> SUFFICES ASSUME TypeOK, CapacityKept, [Next]_vars, ~shuttingDown'
               PROVE  Cardinality(Places(state')) = Workers
    BY DEF CapacityKept, Places
  <1>0. ~shuttingDown /\ Cardinality(Places(state)) = Workers
    <2>1. ~shuttingDown
      BY DEF Next, Signal, SecondSignal, BeginShutdown, ForceShutdown, LoopDrains, Tick, Exits,
             Handler, ExitInShutdown, HealthyExit, EarlyExit, Timer, RestartDue, HealthyDue, vars,
             control
    <2>2. QED BY <2>1 DEF CapacityKept, Places
  <1>t. state \in [Worker -> State]
    BY DEF TypeOK
  <1>s. Places(state') = Places(state) => Cardinality(Places(state')) = Workers
    BY <1>0
  <1> USE <1>0, <1>t DEF Places, In, control, breaker, workers
  <1>1. ASSUME NEW s \in {"SIGINT", "SIGTERM"}, Signal(s) PROVE FALSE
    BY <1>1 DEF Signal, BeginShutdown
  <1>2. ASSUME NEW s \in {"SIGINT", "SIGTERM"}, SecondSignal(s)
        PROVE  Places(state') = Places(state)
    BY <1>2 DEF SecondSignal
  <1>3. CASE ForceShutdown
    BY <1>3 DEF ForceShutdown
  <1>4. CASE LoopDrains \/ Tick \/ UNCHANGED vars
    BY <1>4, <1>s DEF LoopDrains, Tick, vars
  <1>6. ASSUME NEW w \in Worker, Exits(w) PROVE Places(state') = Places(state)
    BY <1>6 DEF Exits
  <1>7. ASSUME NEW w \in Worker, Handler(w) PROVE Places(state') = Places(state)
    BY <1>7 DEF Handler, ExitInShutdown, HealthyExit, EarlyExit, ExitEvent, BeginShutdown
  <1>8. ASSUME NEW w \in Worker, RestartDue(w) PROVE Cardinality(Places(state')) = Workers
    <2>1. PICK v \in Worker : /\ state[v] = "unborn"
                              /\ state' = [state EXCEPT ![w] = "gone", ![v] = "running"]
      BY <1>8, Zenon DEF RestartDue
    <2>2. state[w] = "pending"
      BY <1>8 DEF RestartDue
    <2>3. Places(state') = (Places(state) \ {w}) \cup {v}
      BY <2>1, <2>2
    <2>4. w \in Places(state) /\ v \notin Places(state)
      BY <2>1, <2>2
    <2>5. IsFiniteSet(Places(state)) /\ Cardinality(Places(state)) \in Nat
      BY FiniteWorkers
    <2>6. /\ IsFiniteSet(Places(state) \ {w})
          /\ Cardinality(Places(state) \ {w}) = Workers - 1
      BY <2>4, <2>5, FS_RemoveElement
    <2>7. Cardinality((Places(state) \ {w}) \cup {v}) = Workers
      BY <2>4, <2>6, FS_AddElement
    <2>8. QED BY <2>3, <2>7
  <1>9. ASSUME NEW w \in Worker, HealthyDue(w) PROVE Places(state') = Places(state)
    BY <1>9 DEF HealthyDue
  <1>10. QED
    BY <1>s, <1>1, <1>2, <1>3, <1>4, <1>6, <1>7, <1>8, <1>9 DEF Next, Timer

\* Each place of the cluster is taken by a process or has one restart on its
\* way until a shutdown begins, for any number of workers and of crashes.
THEOREM ClusterCapacityKept == Spec => []CapacityKept
  <1>1. ASSUME Init PROVE CapacityKept
    <2>1. Places(state) = 1..Workers
      BY <1>1 DEF Init, Places, In, Worker
    <2>2. Cardinality(1..Workers) = Workers
      BY FS_Interval
    <2>3. QED BY <2>1, <2>2 DEF CapacityKept, Places
  <1>2. QED BY <1>1, InitType, NextType, NextCapacity, PTL DEF Spec

-----------------------------------------------------------------------------
(* The breaker's count *)

InWindow(S) == {w \in S : age[w] <= Window}

\* What the healthy timer of v may forget happened before v was forked, and so
\* more than a window ago once v is healthy.
CountInv ==
  /\ recent \subseteq early
  /\ \A w \in early : state[w] \in {"pending", "gone", "killed"}
  /\ \A v \in Worker : observed[v] <= epoch
  /\ \A v \in armed, w \in early : observed[v] = epoch => age[w] >= age[v]
  /\ ~shuttingDown => InWindow(early) \subseteq recent
  /\ ~shuttingDown => Cardinality(InWindow(recent)) < Cap

LEMMA NextCount ==
  ASSUME Healthy > Window, TypeOK, CountInv, [Next]_vars
  PROVE  CountInv'
  <1>t. /\ state \in [Worker -> State] /\ age \in [Worker -> 0..Horizon]
        /\ observed \in [Worker -> Nat] /\ epoch \in Nat
        /\ recent \in SUBSET Worker /\ early \in SUBSET Worker /\ armed \in SUBSET Worker
    BY DEF TypeOK
  <1>h. Horizon = Healthy /\ Horizon \in Nat
    BY DEF Horizon
  <1> USE <1>t, <1>h DEF CountInv, InWindow, control, breaker, workers
  <1>1. ASSUME NEW s \in {"SIGINT", "SIGTERM"}, Signal(s) PROVE CountInv'
    BY <1>1 DEF Signal, BeginShutdown
  <1>2. ASSUME NEW s \in {"SIGINT", "SIGTERM"}, SecondSignal(s) PROVE CountInv'
    BY <1>2 DEF SecondSignal
  <1>3. CASE ForceShutdown
    BY <1>3 DEF ForceShutdown
  <1>4. CASE LoopDrains
    BY <1>4 DEF LoopDrains
  <1>5. CASE Tick
    <2>1. \A w \in Worker : age'[w] >= age[w]
      BY <1>5 DEF Tick
    <2>2. \A v \in armed, w \in early : observed[v] = epoch => age'[w] >= age'[v]
      BY <1>5 DEF Tick
    <2>3. InWindow(early)' \subseteq InWindow(early) /\ InWindow(recent)' \subseteq InWindow(recent)
      BY <1>5, <2>1 DEF Tick
    <2>4. Cardinality(InWindow(recent)') <= Cardinality(InWindow(recent))
      BY <2>3, FewerWorkers
    <2>5. Cardinality(InWindow(recent)) \in Nat /\ Cardinality(InWindow(recent)') \in Nat
      BY <2>3, FiniteWorkers
    <2>6. QED BY <1>5, <2>2, <2>3, <2>4, <2>5 DEF Tick
  <1>6. ASSUME NEW w \in Worker, Exits(w) PROVE CountInv'
    BY <1>6 DEF Exits
  <1>7. ASSUME NEW w \in Worker, ExitInShutdown(w) PROVE CountInv'
    BY <1>7 DEF ExitInShutdown, ExitEvent
  <1>8. ASSUME NEW w \in Worker, HealthyExit(w) PROVE CountInv'
    <2>1. InWindow(recent)' = {} /\ InWindow(early)' = {}
      BY <1>8 DEF HealthyExit
    <2>2. Cardinality({}) < Cap
      BY FS_EmptySet
    <2>3. QED BY <1>8, <2>1, <2>2 DEF HealthyExit, ExitEvent
  <1>9. ASSUME NEW w \in Worker, EarlyExit(w) PROVE CountInv'
    <2>1. /\ recent' = Counted(w) /\ early' = early \cup {w} /\ epoch' = epoch + 1
          /\ observed' = observed /\ age' = [age EXCEPT ![w] = 0]
          /\ ~shuttingDown /\ w \notin early
      BY <1>9 DEF EarlyExit, ExitEvent
    <2>2. recent' \subseteq early' /\ InWindow(early)' \subseteq recent'
      BY <2>1 DEF Counted
    <2>3. \A v \in Worker : observed'[v] <= epoch' /\ observed'[v] # epoch'
      BY <2>1
    <2>4. CASE /\ Cardinality(Counted(w)) < Cap
               /\ state' = [state EXCEPT ![w] = "pending"] /\ UNCHANGED control
      <3>1. InWindow(recent)' \subseteq Counted(w) /\ Counted(w) \subseteq Worker
        BY <2>1 DEF Counted
      <3>2. /\ Cardinality(InWindow(recent)') <= Cardinality(Counted(w))
            /\ Cardinality(InWindow(recent)') \in Nat /\ Cardinality(Counted(w)) \in Nat
        BY <3>1, FewerWorkers, FiniteWorkers
      <3>3. Cardinality(InWindow(recent)') < Cap
        BY <2>4, <3>2
      <3>4. \A v \in early' : state'[v] \in {"pending", "gone", "killed"}
        BY <2>1, <2>4
      <3>5. armed' \subseteq Worker
        BY <1>9 DEF EarlyExit, ExitEvent
      <3>6. QED BY <2>2, <2>3, <3>3, <3>4, <3>5
    <2>5. CASE BeginShutdown(1, [state EXCEPT ![w] = "gone"])
      <3>1. shuttingDown' /\ state' = [v \in Worker |->
                IF [state EXCEPT ![w] = "gone"][v] = "pending" THEN "gone"
                ELSE [state EXCEPT ![w] = "gone"][v]]
        BY <2>1, <2>5 DEF BeginShutdown
      <3>2. \A v \in early' : state'[v] \in {"pending", "gone", "killed"}
        BY <2>1, <3>1
      <3>3. armed' \subseteq Worker
        BY <1>9 DEF EarlyExit, ExitEvent
      <3>4. QED BY <2>2, <2>3, <3>1, <3>2, <3>3
    <2>6. QED BY <1>9, <2>4, <2>5 DEF EarlyExit
  <1>10. ASSUME NEW w \in Worker, RestartDue(w) PROVE CountInv'
    <2>1. PICK v \in Worker :
            /\ state[v] = "unborn"
            /\ state' = [state EXCEPT ![w] = "gone", ![v] = "running"]
            /\ age' = [age EXCEPT ![v] = 0]
            /\ observed' = [observed EXCEPT ![v] = epoch]
            /\ armed' = armed \cup {v}
      BY <1>10, Zenon DEF RestartDue
    <2>2. UNCHANGED <<control, breaker>> /\ state[w] = "pending"
      BY <1>10 DEF RestartDue
    <2>3. v \notin early /\ v \notin recent /\ v # w
      BY <2>1, <2>2
    <2>4. InWindow(early)' = InWindow(early) /\ InWindow(recent)' = InWindow(recent)
      BY <2>1, <2>2, <2>3
    <2>5. \A u \in early : age'[u] = age[u] /\ state'[u] \in {"pending", "gone", "killed"}
      BY <2>1, <2>3
    <2>6. \A u \in Worker : observed'[u] <= epoch
      BY <2>1
    <2>7. \A u \in armed', x \in early : observed'[u] = epoch => age'[x] >= age'[u]
      BY <2>1, <2>3
    <2>8. QED BY <2>2, <2>4, <2>5, <2>6, <2>7
  <1>11. ASSUME NEW v \in Worker, HealthyDue(v) PROVE CountInv'
    <2>1. /\ v \in armed /\ age[v] >= Healthy /\ armed' = armed \ {v}
          /\ UNCHANGED <<control, epoch, early, state, age, observed>>
      BY <1>11 DEF HealthyDue
    <2>2. CASE recent' = recent
      BY <2>1, <2>2
    <2>3. CASE recent' = {} /\ epoch = observed[v]
      <3>1. InWindow(early) = {}
        BY <2>1, <2>3
      <3>2. InWindow(recent)' = {} /\ Cardinality({}) < Cap
        BY <2>3, FS_EmptySet
      <3>3. QED BY <2>1, <2>3, <3>1, <3>2
    <2>4. QED BY <1>11, <2>2, <2>3 DEF HealthyDue
  <1>12. CASE UNCHANGED vars
    BY <1>12 DEF vars
  <1>13. QED
    BY <1>1, <1>2, <1>3, <1>4, <1>5, <1>6, <1>7, <1>8, <1>9, <1>10, <1>11, <1>12
    DEF Next, Handler, Timer

\* If a worker counts as healthy only after more than a cooldown window, no
\* crash loop escapes the breaker, for any number of workers, cap and delays:
\* the healthy timers of surviving workers cannot forget a failure that is
\* still in the window.
THEOREM ClusterBreakerMissesNothing ==
  ASSUME Healthy > Window
  PROVE  Spec => []BreakerMissesNothing
  <1>1. ASSUME Init PROVE CountInv
    <2>1. InWindow(recent) = {} /\ InWindow(early) = {}
      BY <1>1 DEF Init, InWindow
    <2>2. Cardinality({}) < Cap
      BY FS_EmptySet
    <2>3. recent = {} /\ early = {} /\ \A v \in Worker : observed[v] <= epoch
      BY <1>1 DEF Init
    <2>4. QED BY <2>1, <2>2, <2>3 DEF CountInv
  <1>2. TypeOK /\ CountInv /\ [Next]_vars => CountInv'
    BY NextCount
  <1>3. TypeOK /\ CountInv => BreakerMissesNothing
    <2> SUFFICES ASSUME TypeOK, CountInv, ~shuttingDown
                 PROVE  Cardinality(InWindow(early)) < Cap
      BY DEF BreakerMissesNothing, InWindow
    <2>1. InWindow(early) \subseteq InWindow(recent) /\ InWindow(recent) \subseteq Worker
      BY DEF CountInv, InWindow, TypeOK
    <2>2. /\ Cardinality(InWindow(early)) <= Cardinality(InWindow(recent))
          /\ Cardinality(InWindow(early)) \in Nat /\ Cardinality(InWindow(recent)) \in Nat
      BY <2>1, FewerWorkers, FiniteWorkers
    <2>3. QED BY <2>2 DEF CountInv
  <1>4. QED BY <1>1, <1>2, <1>3, InitType, NextType, PTL DEF Spec

=============================================================================
