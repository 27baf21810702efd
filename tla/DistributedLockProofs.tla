----------------------- MODULE DistributedLockProofs -----------------------
(***************************************************************************)
(* Proofs about DistributedLock, for every set of clients and all values   *)
(* of the other constants.                                                 *)
(***************************************************************************)
EXTENDS DistributedLock, TLAPS

-----------------------------------------------------------------------------
(* The inductive invariant *)

\* Redis executes a client's commands in order, so when the client has been
\* answered "ok" none of its earlier acquire or release commands is left, and
\* while it holds the handle only its own extensions are on their way.
PipeOf(c) ==
  /\ phase[c] = "held" => \A i \in 1..Len(pipe[c]) : pipe[c][i] = "extend"
  /\ phase[c] = "waiting" /\ reply[c] # "none" => pipe[c] = << >>
  /\ phase[c] = "waiting" /\ reply[c] = "none" =>
       /\ pipe[c] # << >>
       /\ pipe[c][Len(pipe[c])] = "acquire"
       /\ \A i \in 1..(Len(pipe[c]) - 1) : pipe[c][i] # "acquire"
  /\ phase[c] \in {"idle", "backoff"} =>
       \A i \in 1..Len(pipe[c]) : pipe[c][i] # "acquire"

PipeInv == \A c \in Client : PipeOf(c)

\* A granted lease is lost exactly when the key is no longer the client's.
ClaimInv ==
  \A c \in Client :
    /\ Claims(c) => (value = c <=> c \notin lost)
    /\ phase[c] = "backoff" => c \notin lost
    /\ phase[c] = "waiting" /\ reply[c] # "ok" => c \notin lost

IInv == TypeOK /\ PipeInv /\ ClaimInv

-----------------------------------------------------------------------------
(* Type correctness *)

LEMMA InitType == Init => TypeOK
  <1> SUFFICES ASSUME Init PROVE TypeOK
    OBVIOUS
  <1>1. tardy \in BOOLEAN
    BY Zenon DEF Init
  <1>2. QED BY <1>1, LockAssumption DEF Init, TypeOK, Phase, Reply, Command

\* Every step of DistributedLock keeps its variables in their types.
LEMMA NextType == TypeOK /\ [Next]_vars => TypeOK'
  <1> SUFFICES ASSUME TypeOK, [Next]_vars PROVE TypeOK'
    OBVIOUS
  <1> USE LockAssumption DEF TypeOK, Phase, Reply, Command
  <1>1. ASSUME NEW c \in Client, Begin(c) PROVE TypeOK'
    BY <1>1 DEF Begin, Attempt, Send
  <1>2. ASSUME NEW c \in Client, CommandTimeout(c) PROVE TypeOK'
    <2>1. [i \in 1..Len(pipe[c]) |->
             IF pipe[c][i] = "acquire" THEN "abandoned" ELSE pipe[c][i]] \in Seq(Command)
      OBVIOUS
    <2>2. pipe' \in [Client -> Seq(Command)]
      BY <1>2, <2>1 DEF CommandTimeout
    <2>3. phase' \in [Client -> Phase] /\ reply' \in [Client -> Reply]
      BY <1>2 DEF CommandTimeout
    <2>4. lost' \subseteq Client
      BY <1>2 DEF CommandTimeout
    <2>5. QED BY <1>2, <2>2, <2>3, <2>4 DEF CommandTimeout
  <1>3. ASSUME NEW c \in Client, Release(c) PROVE TypeOK'
    BY <1>3 DEF Release, Send
  <1>4. ASSUME NEW c \in Client, Crash(c) PROVE TypeOK'
    <2>1. << >> \in Seq(Command)
      OBVIOUS
    <2>2. pipe' \in [Client -> Seq(Command)]
      BY <1>4, <2>1 DEF Crash
    <2>3. phase' \in [Client -> Phase]
      BY <1>4 DEF Crash
    <2>4. armed' \in [Client -> BOOLEAN]
      BY <1>4 DEF Crash
    <2>5. QED BY <1>4, <2>2, <2>3, <2>4 DEF Crash
  <1>5. ASSUME NEW c \in Client, Caller(c) PROVE TypeOK'
    <2>1. CASE Retry(c)
      BY <2>1 DEF Retry, Attempt, Send
    <2>2. CASE Denied(c)
      BY <2>2 DEF Denied, NotGranted
    <2>3. CASE Granted(c)
      BY <2>3 DEF Granted
    <2>4. CASE RefreshFires(c)
      BY <2>4 DEF RefreshFires, Send
    <2>5. CASE GiveUp(c)
      BY <2>5 DEF GiveUp
    <2>6. QED BY <1>5, <2>1, <2>2, <2>3, <2>4, <2>5 DEF Caller
  <1>6. ASSUME NEW c \in Client, Redis(c) PROVE TypeOK'
    <2>1. CASE ExecAcquire(c)
      BY <2>1 DEF ExecAcquire, AcquireScript, Executed, Pending
    <2>2. CASE ExecAbandoned(c)
      BY <2>2 DEF ExecAbandoned, AcquireScript, Executed, Pending
    <2>3. CASE ExecRelease(c)
      BY <2>3 DEF ExecRelease, ReleaseScript, Executed, Pending
    <2>4. CASE ExecExtend(c)
      BY <2>4 DEF ExecExtend, ExtendScript, Executed, Pending
    <2>5. QED BY <1>6, <2>1, <2>2, <2>3, <2>4 DEF Redis
  <1>7. ASSUME NEW c \in Client, CommandFails(c) PROVE TypeOK'
    BY <1>7 DEF CommandFails, Executed
  <1>8. CASE Tick
    BY <1>8 DEF Tick
  <1>9. CASE UNCHANGED vars
    BY <1>9 DEF vars
  <1>10. QED
    BY <1>1, <1>2, <1>3, <1>4, <1>5, <1>6, <1>7, <1>8, <1>9 DEF Next

\* The variables of DistributedLock keep their types, in every environment.
THEOREM LockTypeCorrect == Spec => []TypeOK
  BY InitType, NextType, PTL DEF Spec

-----------------------------------------------------------------------------
(* The pipe *)

LEMMA HeadTail ==
  ASSUME NEW s \in Seq(Command), s # << >>
  PROVE  /\ Len(s) \in Nat \ {0}
         /\ Head(s) = s[1]
         /\ Tail(s) \in Seq(Command)
         /\ Len(Tail(s)) = Len(s) - 1
         /\ \A i \in 1..Len(Tail(s)) : Tail(s)[i] = s[i + 1]
  OBVIOUS

LEMMA EmptyPipe == ASSUME NEW s \in Seq(Command) PROVE s = << >> <=> Len(s) = 0
  OBVIOUS

\* Redis has only extensions to execute for a client that was granted the key.
LEMMA ClaimPipe ==
  ASSUME TypeOK, PipeInv, NEW c \in Client, pipe[c] # << >>, Head(pipe[c]) # "extend"
  PROVE  ~Claims(c)
  BY HeadTail DEF TypeOK, PipeInv, PipeOf, Claims

\* Executing the first command of c's pipe leaves the other commands in place.
LEMMA ExecutedKeepsPipe ==
  ASSUME TypeOK, PipeInv, NEW c \in Client, pipe[c] # << >>, Executed(c),
         phase' = phase,
         \A d \in Client \ {c} : reply'[d] = reply[d],
         \/ reply'[c] = reply[c] /\ Head(pipe[c]) # "acquire"
         \/ reply'[c] # "none" /\ Head(pipe[c]) = "acquire"
  PROVE  PipeInv'
  <1> USE DEF TypeOK, Reply, Phase
  <1>1. /\ Len(pipe[c]) \in Nat \ {0}
        /\ pipe'[c] \in Seq(Command)
        /\ Head(pipe[c]) = pipe[c][1]
        /\ pipe'[c] = Tail(pipe[c])
        /\ Len(pipe'[c]) = Len(pipe[c]) - 1
        /\ \A i \in 1..Len(pipe'[c]) : pipe'[c][i] = pipe[c][i + 1]
    BY HeadTail DEF Executed
  <1>2. \A d \in Client \ {c} : pipe'[d] = pipe[d]
    BY DEF Executed
  <1>3. \A d \in Client \ {c} : PipeOf(d)'
    BY <1>2 DEF PipeInv, PipeOf
  <1>4. phase[c] = "held" => \A i \in 1..Len(pipe'[c]) : pipe'[c][i] = "extend"
    BY <1>1 DEF PipeInv, PipeOf
  <1>5. phase[c] \in {"idle", "backoff"} =>
          \A i \in 1..Len(pipe'[c]) : pipe'[c][i] # "acquire"
    BY <1>1 DEF PipeInv, PipeOf
  <1>6. CASE phase[c] = "waiting"
    <2>1. reply[c] = "none" /\ pipe[c][Len(pipe[c])] = "acquire"
          /\ \A i \in 1..(Len(pipe[c]) - 1) : pipe[c][i] # "acquire"
      BY <1>6 DEF PipeInv, PipeOf
    <2>2. CASE Head(pipe[c]) = "acquire"
      <3>1. Len(pipe[c]) = 1
        BY <2>1, <2>2, <1>1
      <3>2. pipe'[c] = << >>
        <4>1. Len(pipe'[c]) = 0
          BY <3>1, <1>1
        <4>2. pipe'[c] \in Seq(Command)
          BY <1>1
        <4> HIDE DEF TypeOK
        <4>3. QED BY <4>1, <4>2, EmptyPipe
      <3>3. PipeOf(c)'
        BY <1>6, <2>2, <3>2 DEF PipeOf
      <3>4. QED BY <1>3, <3>3 DEF PipeInv
    <2>3. CASE Head(pipe[c]) # "acquire"
      <3>1. Len(pipe[c]) # 1
        BY <2>1, <2>3, <1>1
      <3>2. pipe'[c] # << >> /\ pipe'[c][Len(pipe'[c])] = "acquire"
        <4>1. Len(pipe'[c]) # 0
          BY <3>1, <1>1
        <4>2. pipe'[c] # << >>
          BY <4>1, <1>1, EmptyPipe
        <4>3. pipe'[c][Len(pipe'[c])] = "acquire"
          BY <4>1, <2>1, <1>1
        <4>4. QED BY <4>2, <4>3
      <3>3. \A i \in 1..(Len(pipe'[c]) - 1) : pipe'[c][i] # "acquire"
        BY <2>1, <1>1
      <3>4. PipeOf(c)'
        BY <1>6, <2>1, <2>3, <3>2, <3>3 DEF PipeOf
      <3>5. QED BY <1>3, <3>4 DEF PipeInv
    <2>4. QED BY <2>2, <2>3
  <1>7. CASE phase[c] # "waiting"
    <2>1. PipeOf(c)'
      BY <1>4, <1>5, <1>7 DEF PipeOf
    <2>2. QED BY <1>3, <2>1 DEF PipeInv
  <1>8. QED BY <1>6, <1>7

\* A step of one client leaves the pipes of the others.
LEMMA OnePipe ==
  ASSUME PipeInv, NEW c \in Client, PipeOf(c)',
         \A d \in Client \ {c} :
           phase'[d] = phase[d] /\ reply'[d] = reply[d] /\ pipe'[d] = pipe[d]
  PROVE  PipeInv'
  <1>1. ASSUME NEW d \in Client \ {c} PROVE PipeOf(d)'
    BY <1>1 DEF PipeInv, PipeOf
  <1>2. QED BY <1>1 DEF PipeInv

LEMMA NextPipe == TypeOK /\ PipeInv /\ [Next]_vars => PipeInv'
  <1> SUFFICES ASSUME TypeOK, PipeInv, [Next]_vars PROVE PipeInv'
    OBVIOUS
  <1> USE DEF TypeOK, Phase, Reply, Command
  <1>1. ASSUME NEW c \in Client, Begin(c) PROVE PipeInv'
    <2>1. \A i \in 1..Len(pipe[c]) : pipe[c][i] # "acquire"
      BY <1>1 DEF PipeInv, PipeOf, Begin
    <2>2. /\ phase'[c] = "waiting" /\ reply'[c] = "none"
          /\ pipe'[c] = Append(pipe[c], "acquire")
      BY <1>1 DEF Begin, Attempt, Send
    <2>t. pipe[c] \in Seq(Command)
      BY Zenon
    <2>3. PipeOf(c)'
      <3>1. Len(pipe'[c]) = Len(pipe[c]) + 1 /\ pipe'[c][Len(pipe'[c])] = "acquire"
        BY <2>2, <2>t
      <3>2. pipe'[c] # << >>
        BY <3>1, <2>t
      <3>3. \A i \in 1..(Len(pipe'[c]) - 1) : pipe'[c][i] # "acquire"
        BY <2>1, <2>2, <2>t
      <3>4. QED BY <2>2, <3>1, <3>2, <3>3 DEF PipeOf
    <2>4. \A d \in Client \ {c} :
            phase'[d] = phase[d] /\ reply'[d] = reply[d] /\ pipe'[d] = pipe[d]
      BY <1>1 DEF Begin, Attempt, Send
    <2> HIDE DEF TypeOK, Phase, Reply, Command
    <2>5. QED BY <2>3, <2>4, OnePipe
  <1>2. ASSUME NEW c \in Client, CommandTimeout(c) PROVE PipeInv'
    <2>1. \A i \in 1..Len(pipe'[c]) : pipe'[c][i] # "acquire"
      BY <1>2 DEF CommandTimeout
    <2>2. QED BY <1>2, <2>1 DEF PipeInv, PipeOf, CommandTimeout
  <1>3. ASSUME NEW c \in Client, Release(c) PROVE PipeInv'
    BY <1>3 DEF PipeInv, PipeOf, Release, Send
  <1>4. ASSUME NEW c \in Client, Crash(c) PROVE PipeInv'
    <2>1. phase'[c] = "dead"
      BY <1>4 DEF Crash
    <2>2. \A d \in Client \ {c} :
            phase'[d] = phase[d] /\ reply'[d] = reply[d] /\ pipe'[d] = pipe[d]
      BY <1>4 DEF Crash
    <2>3. PipeOf(c)'
      BY <2>1 DEF PipeOf
    <2> HIDE DEF TypeOK, Phase, Reply, Command
    <2>4. QED BY <2>2, <2>3, OnePipe
  <1>5. ASSUME NEW c \in Client, Caller(c) PROVE PipeInv'
    <2>1. CASE Retry(c)
      BY <2>1 DEF PipeInv, PipeOf, Retry, Attempt, Send
    <2>2. CASE Denied(c)
      BY <2>2 DEF PipeInv, PipeOf, Denied, NotGranted
    <2>3. CASE Granted(c)
      BY <2>3 DEF PipeInv, PipeOf, Granted
    <2>4. CASE RefreshFires(c)
      BY <2>4 DEF PipeInv, PipeOf, RefreshFires, Send
    <2>5. CASE GiveUp(c)
      BY <2>5 DEF PipeInv, PipeOf, GiveUp
    <2>6. QED BY <1>5, <2>1, <2>2, <2>3, <2>4, <2>5 DEF Caller
  <1>6. ASSUME NEW c \in Client, Redis(c) PROVE PipeInv'
    <2>1. CASE ExecAcquire(c)
      BY <2>1, ExecutedKeepsPipe DEF ExecAcquire, Pending
    <2>2. CASE ExecAbandoned(c)
      BY <2>2, ExecutedKeepsPipe DEF ExecAbandoned, Pending
    <2>3. CASE ExecRelease(c)
      BY <2>3, ExecutedKeepsPipe DEF ExecRelease, Pending
    <2>4. CASE ExecExtend(c)
      BY <2>4, ExecutedKeepsPipe DEF ExecExtend, Pending
    <2>5. QED BY <1>6, <2>1, <2>2, <2>3, <2>4 DEF Redis
  <1>7. ASSUME NEW c \in Client, CommandFails(c) PROVE PipeInv'
    BY <1>7, ExecutedKeepsPipe DEF CommandFails
  <1>8. CASE Tick
    BY <1>8 DEF PipeInv, PipeOf, Tick
  <1>9. CASE UNCHANGED vars
    BY <1>9 DEF PipeInv, PipeOf, vars
  <1>10. QED
    BY <1>1, <1>2, <1>3, <1>4, <1>5, <1>6, <1>7, <1>8, <1>9 DEF Next

-----------------------------------------------------------------------------
(* The claim *)

LEMMA NextClaim == IInv /\ [Next]_vars => ClaimInv'
  <1> SUFFICES ASSUME IInv, [Next]_vars PROVE ClaimInv'
    OBVIOUS
  <1> USE LockAssumption DEF IInv, TypeOK, Phase, Reply, Command, Claims
  <1>1. ASSUME NEW c \in Client, Begin(c) PROVE ClaimInv'
    BY <1>1 DEF ClaimInv, Begin, Attempt
  <1>2. ASSUME NEW c \in Client, CommandTimeout(c) PROVE ClaimInv'
    BY <1>2 DEF ClaimInv, CommandTimeout
  <1>3. ASSUME NEW c \in Client, Release(c) PROVE ClaimInv'
    BY <1>3 DEF ClaimInv, Release
  <1>4. ASSUME NEW c \in Client, Crash(c) PROVE ClaimInv'
    BY <1>4 DEF ClaimInv, Crash
  <1>5. ASSUME NEW c \in Client, Caller(c) PROVE ClaimInv'
    <2>1. CASE Retry(c)
      BY <2>1 DEF ClaimInv, Retry, Attempt
    <2>2. CASE Denied(c)
      BY <2>2 DEF ClaimInv, Denied, NotGranted
    <2>3. CASE Granted(c)
      BY <2>3 DEF ClaimInv, Granted
    <2>4. CASE RefreshFires(c)
      BY <2>4 DEF ClaimInv, RefreshFires
    <2>5. CASE GiveUp(c)
      BY <2>5 DEF ClaimInv, GiveUp
    <2>6. QED BY <1>5, <2>1, <2>2, <2>3, <2>4, <2>5 DEF Caller
  <1>6. ASSUME NEW c \in Client, Redis(c) PROVE ClaimInv'
    <2>1. CASE ExecAcquire(c)
      <3>1. ~Claims(c)
        BY <2>1, ClaimPipe DEF ExecAcquire, Pending
      <3>2. CASE value \in {None, c}
        BY <2>1, <3>1, <3>2 DEF ClaimInv, ExecAcquire, AcquireScript
      <3>3. CASE value \notin {None, c}
        BY <2>1, <3>1, <3>3 DEF ClaimInv, ExecAcquire, AcquireScript
      <3>4. QED BY <3>2, <3>3
    <2>2. CASE ExecAbandoned(c)
      BY <2>2, ClaimPipe DEF ClaimInv, ExecAbandoned, AcquireScript, Pending, Claims
    <2>3. CASE ExecRelease(c)
      BY <2>3, ClaimPipe DEF ClaimInv, ExecRelease, ReleaseScript, Pending, Claims
    <2>4. CASE ExecExtend(c)
      BY <2>4 DEF ClaimInv, ExecExtend, ExtendScript
    <2>5. QED BY <1>6, <2>1, <2>2, <2>3, <2>4 DEF Redis
  <1>7. ASSUME NEW c \in Client, CommandFails(c) PROVE ClaimInv'
    <2>1. CASE Head(pipe[c]) = "acquire"
      <3>1. ~Claims(c)
        BY <1>7, <2>1, ClaimPipe DEF CommandFails
      <3>2. QED BY <1>7, <2>1, <3>1 DEF ClaimInv, CommandFails
    <2>2. CASE Head(pipe[c]) # "acquire"
      BY <1>7, <2>2 DEF ClaimInv, CommandFails
    <2>3. QED BY <2>1, <2>2
  <1>8. CASE Tick
    <2>1. CASE ttl = 1
      BY <1>8, <2>1 DEF ClaimInv, Tick
    <2>2. CASE ttl # 1
      BY <1>8, <2>2 DEF ClaimInv, Tick
    <2>3. QED BY <2>1, <2>2
  <1>9. CASE UNCHANGED vars
    BY <1>9 DEF ClaimInv, vars
  <1>10. QED
    BY <1>1, <1>2, <1>3, <1>4, <1>5, <1>6, <1>7, <1>8, <1>9 DEF Next

LEMMA InitInv == Init => IInv
  BY InitType DEF Init, IInv, PipeInv, PipeOf, ClaimInv, Claims

LEMMA NextInv == IInv /\ [Next]_vars => IInv'
  BY NextType, NextPipe, NextClaim DEF IInv

THEOREM LockInvariant == Spec => []IInv
  BY InitInv, NextInv, PTL DEF Spec

\* A handle whose lease has not run out owns the key, however late commands,
\* answers and timers are and whichever of them fail.
THEOREM LockUnexpiredHandleOwnsKey == Spec => []UnexpiredHandleOwnsKey
  <1>1. IInv => UnexpiredHandleOwnsKey
    BY DEF IInv, ClaimInv, Claims, UnexpiredHandleOwnsKey
  <1>2. QED BY LockInvariant, <1>1, PTL

-----------------------------------------------------------------------------
(* Nothing tardy *)

\* While nothing is tardy a handle is refreshed before its lease runs out: what is
\* left of the lease and the timer's age add up to the TTL, or an extension is on
\* its way; and a granted lease is full until the handle is built.
TimelyOf(c) ==
  /\ phase[c] = "held" =>
       /\ armed[c] /\ c \notin lost
       /\ pipe[c] = << >> => ttl + age[c] >= TTL
       /\ pipe[c] # << >> => ttl + RefreshEvery >= TTL /\ age[c] = 0
  /\ phase[c] = "waiting" /\ reply[c] = "ok" => ttl = TTL /\ c \notin lost

TimelyInv == ~tardy => \A c \in Client : TimelyOf(c)

Refreshed == 0 < RefreshEvery /\ RefreshEvery < TTL

LEMMA OneTimely ==
  ASSUME ~tardy => \A d \in Client : TimelyOf(d), NEW c \in Client, TimelyOf(c)', ~tardy,
         ttl' = ttl, lost' = lost \/ lost' = lost \ {c},
         \A d \in Client \ {c} :
           /\ phase'[d] = phase[d] /\ reply'[d] = reply[d] /\ pipe'[d] = pipe[d]
           /\ armed'[d] = armed[d] /\ age'[d] = age[d]
  PROVE  TimelyInv'
  <1>1. ASSUME NEW d \in Client \ {c} PROVE TimelyOf(d)'
    BY <1>1 DEF TimelyOf
  <1>2. QED BY <1>1 DEF TimelyInv

LEMMA NextTimely ==
  ASSUME Refreshed, IInv, TimelyInv, [Next]_vars
  PROVE  TimelyInv'
  <1> SUFFICES ASSUME ~tardy' PROVE TimelyInv'
    BY DEF TimelyInv
  <1>t. /\ ttl \in 0..TTL /\ TTL \in Nat \ {0} /\ RefreshEvery \in Nat
        /\ phase \in [Client -> Phase] /\ reply \in [Client -> Reply]
        /\ pipe \in [Client -> Seq(Command)] /\ armed \in [Client -> BOOLEAN]
        /\ age \in [Client -> 0..RefreshEvery] /\ lost \subseteq Client
        /\ value \in Client \cup {None} /\ None \notin Client
    BY LockAssumption, Zenon DEF IInv, TypeOK
  <1>0. ~tardy
    BY DEF Next, vars, Begin, CommandTimeout, Release, Crash, Caller, Redis, CommandFails, Retry,
           GiveUp, Denied, NotGranted, Granted, RefreshFires, Attempt, ExecAcquire, ExecAbandoned,
           ExecRelease, ExecExtend, Tick
  <1>i. \A c \in Client : TimelyOf(c)
    BY <1>0 DEF TimelyInv
  <1>v. \A c \in Client : Claims(c) => value = c
    BY <1>i DEF IInv, ClaimInv, Claims, TimelyOf
  <1>p. \A c \in Client : PipeOf(c)
    BY DEF IInv, PipeInv
  <1>1. ASSUME NEW c \in Client, Begin(c) \/ Retry(c) PROVE TimelyInv'
    <2>1. TimelyOf(c)'
      BY <1>1, <1>t DEF Begin, Retry, Attempt, TimelyOf
    <2>2. QED BY <1>1, <1>0, <1>i, <1>t, <2>1, OneTimely DEF Begin, Retry, Attempt, Send
  <1>2. ASSUME NEW c \in Client, CommandTimeout(c) \/ CommandFails(c) PROVE TimelyInv'
    BY <1>2 DEF CommandTimeout, CommandFails
  <1>3. ASSUME NEW c \in Client, Release(c) \/ GiveUp(c) \/ Denied(c) \/ Crash(c) PROVE TimelyInv'
    <2>1. TimelyOf(c)'
      BY <1>3, <1>t DEF Release, GiveUp, Denied, NotGranted, Crash, TimelyOf
    <2>2. QED
      BY <1>3, <1>0, <1>i, <1>t, <2>1, OneTimely
      DEF Release, GiveUp, Denied, NotGranted, Crash, Send
  <1>4. ASSUME NEW c \in Client, Granted(c) PROVE TimelyInv'
    <2>1. pipe[c] = << >> /\ ttl = TTL /\ c \notin lost
      BY <1>4, <1>i, <1>p DEF Granted, TimelyOf, PipeOf
    <2>2. TimelyOf(c)'
      <3>1. armed'[c] = (RefreshEvery > 0)
        BY <1>4, <1>t DEF Granted
      <3>2. armed'[c]
        BY <3>1 DEF Refreshed
      <3>3. phase'[c] = "held" /\ age'[c] = 0 /\ ttl' = TTL /\ lost' = lost /\ pipe'[c] = << >>
        BY <1>4, <2>1, <1>t DEF Granted
      <3>4. ttl' + age'[c] >= TTL
        BY <3>3, <1>t
      <3>5. QED BY <2>1, <3>2, <3>3, <3>4 DEF TimelyOf
    <2>3. QED BY <1>4, <1>0, <1>i, <1>t, <2>2, OneTimely DEF Granted
  <1>5. ASSUME NEW c \in Client, RefreshFires(c) PROVE TimelyInv'
    <2>1. pipe[c] = << >>
      BY <1>5, <1>i DEF RefreshFires, TimelyOf, Refreshed
    <2>2. ttl + RefreshEvery >= TTL /\ armed[c] /\ c \notin lost
      BY <1>5, <2>1, <1>i DEF RefreshFires, TimelyOf
    <2>3. pipe'[c] # << >> /\ age'[c] = 0
      BY <1>5, <2>1, <1>t DEF RefreshFires, Send
    <2>4. TimelyOf(c)'
      BY <1>5, <2>2, <2>3 DEF RefreshFires, TimelyOf
    <2>5. QED BY <1>5, <1>0, <1>i, <1>t, <2>4, OneTimely DEF RefreshFires, Send
  <1>6. ASSUME NEW c \in Client, ExecAcquire(c) \/ ExecAbandoned(c) PROVE TimelyInv'
    <2>1. ~Claims(c)
      BY <1>6, ClaimPipe DEF ExecAcquire, ExecAbandoned, Pending, IInv
    <2>2. CASE value \in {None, c}
      <3>1. ttl' = TTL /\ lost' = lost /\ phase' = phase
        BY <1>6, <2>2 DEF ExecAcquire, ExecAbandoned, AcquireScript
      <3>2. \A d \in Client \ {c} : ~Claims(d) /\ ~Claims(d)'
        BY <1>6, <2>2, <1>v, <1>t DEF ExecAcquire, ExecAbandoned, Claims
      <3>3. phase[c] # "held" /\ (phase[c] = "waiting" => c \notin lost)
        BY <2>1 DEF Claims, IInv, ClaimInv
      <3>4. QED BY <3>1, <3>2, <3>3 DEF TimelyInv, TimelyOf, Claims
    <2>3. CASE value \notin {None, c}
      <3>1. ttl' = ttl /\ (reply'[c] # "ok" \/ reply' = reply)
        <4>1. CASE ExecAcquire(c)
          BY <4>1, <2>3, <1>t DEF ExecAcquire, AcquireScript
        <4>2. CASE ExecAbandoned(c)
          BY <4>2, <2>3 DEF ExecAbandoned, AcquireScript
        <4>3. QED BY <1>6, <4>1, <4>2
      <3>2. TimelyOf(c)'
        BY <1>6, <2>1, <3>1 DEF ExecAcquire, ExecAbandoned, TimelyOf, Claims
      <3>3. QED
        BY <1>6, <1>0, <1>i, <1>t, <3>1, <3>2, OneTimely DEF ExecAcquire, ExecAbandoned, Executed
    <2>4. QED BY <2>2, <2>3
  <1>7. ASSUME NEW c \in Client, ExecRelease(c) PROVE TimelyInv'
    <2>1. ~Claims(c)
      BY <1>7, ClaimPipe DEF ExecRelease, Pending, IInv
    <2>2. TimelyOf(c)'
      BY <1>7, <2>1 DEF ExecRelease, TimelyOf, Claims
    <2>3. CASE value = c
      <3>1. \A d \in Client : ~Claims(d)
        BY <2>1, <2>3, <1>v
      <3>2. QED BY <1>7, <3>1 DEF ExecRelease, TimelyInv, TimelyOf, Claims
    <2>4. CASE value # c
      BY <1>7, <1>0, <1>i, <1>t, <2>2, <2>4, OneTimely DEF ExecRelease, ReleaseScript, Executed
    <2>5. QED BY <2>3, <2>4
  <1>8. ASSUME NEW c \in Client, ExecExtend(c) PROVE TimelyInv'
    <2>1. pipe[c] # << >> /\ \A d \in Client \ {c} : pipe'[d] = pipe[d] /\ armed'[d] = armed[d]
      BY <1>8, <1>t DEF ExecExtend, Pending, Executed
    <2>2. CASE value = c
      <3>1. ttl' = TTL /\ armed'[c] = armed[c]
        BY <1>8, <2>2, <1>t DEF ExecExtend, ExtendScript
      <3>2. TimelyOf(c)'
        <4>1. /\ phase' = phase /\ reply' = reply /\ age' = age /\ lost' = lost
              /\ TTL + age[c] >= TTL /\ TTL + RefreshEvery >= TTL
          BY <1>8, <1>t DEF ExecExtend
        <4>2. TimelyOf(c)
          BY <1>i
        <4>3. QED BY <2>1, <3>1, <4>1, <4>2 DEF TimelyOf
      <3>3. \A d \in Client \ {c} : ~Claims(d)
        BY <2>2, <1>v
      <3>4. QED BY <1>8, <3>2, <3>3 DEF ExecExtend, TimelyInv, TimelyOf, Claims
    <2>3. CASE value # c
      <3>1. ~Claims(c) /\ ttl' = ttl
        BY <1>8, <2>3, <1>v DEF ExecExtend, ExtendScript
      <3>2. TimelyOf(c)'
        BY <1>8, <3>1 DEF ExecExtend, TimelyOf, Claims
      <3>3. QED BY <1>8, <1>0, <1>i, <1>t, <2>1, <3>1, <3>2, OneTimely DEF ExecExtend
    <2>4. QED BY <2>2, <2>3
  <1>9. CASE Tick
    <2>1. NothingDue
      BY <1>9, <1>0 DEF Tick
    <2>2. ASSUME NEW c \in Client, phase[c] = "held"
          PROVE  /\ armed[c] /\ c \notin lost /\ pipe[c] = << >> /\ age[c] < RefreshEvery
                 /\ ttl + age[c] >= TTL /\ ttl > 1
      BY <2>1, <2>2, <1>i, <1>t DEF NothingDue, TimelyOf, Refreshed
    <2>3. ASSUME NEW c \in Client PROVE TimelyOf(c)'
      <3>1. CASE phase[c] = "held"
        <4>1. ttl' = ttl - 1 /\ lost' = lost /\ age'[c] = age[c] + 1
          BY <1>9, <3>1, <2>2, <1>t DEF Tick
        <4>2. phase' = phase /\ pipe' = pipe /\ armed' = armed /\ reply' = reply
          BY <1>9 DEF Tick
        <4>3. QED BY <3>1, <4>1, <4>2, <2>2, <1>t DEF TimelyOf
      <3>2. CASE phase[c] # "held"
        BY <1>9, <2>1, <3>2 DEF Tick, NothingDue, TimelyOf
      <3>3. QED BY <3>1, <3>2
    <2>4. QED BY <2>3 DEF TimelyInv
  <1>10. CASE UNCHANGED vars
    BY <1>10 DEF vars, TimelyInv, TimelyOf
  <1>11. QED
    BY <1>1, <1>2, <1>3, <1>4, <1>5, <1>6, <1>7, <1>8, <1>9, <1>10 DEF Next, Caller, Redis

\* As long as no command, answer or refresh was tardy the lease is a mutex, if the
\* handle is refreshed at all and sooner than its lease runs out.
THEOREM LockTimelyMutualExclusion ==
  ASSUME Refreshed
  PROVE  Spec => []TimelyMutualExclusion
  <1>1. Init => TimelyInv
    BY DEF Init, TimelyInv, TimelyOf
  <1>2. IInv /\ TimelyInv /\ [Next]_vars => TimelyInv'
    BY NextTimely
  <1>3. IInv /\ TimelyInv => TimelyMutualExclusion
    BY DEF IInv, ClaimInv, Claims, TimelyInv, TimelyOf, TimelyMutualExclusion
  <1>4. QED BY LockInvariant, <1>1, <1>2, <1>3, PTL DEF Spec

\* While nothing is tardy no acquire is abandoned, and the key of a client that
\* returned from release has its release on the way.
ReturnedOf(c) ==
  /\ \A i \in 1..Len(pipe[c]) : pipe[c][i] # "abandoned"
  /\ value = c /\ phase[c] \in {"idle", "backoff"} =>
       pipe[c] # << >> /\ pipe[c][Len(pipe[c])] = "release"
  /\ phase[c] = "waiting" /\ reply[c] = "nil" => value # c

ReturnedInv == ~tardy => \A c \in Client : ReturnedOf(c)

LEMMA OneReturned ==
  ASSUME \A d \in Client : ReturnedOf(d), NEW c \in Client, ReturnedOf(c)',
         \A d \in Client \ {c} :
           /\ phase'[d] = phase[d] /\ reply'[d] = reply[d] /\ pipe'[d] = pipe[d]
           /\ value' = d => value = d
  PROVE  ReturnedInv'
  <1>1. ASSUME NEW d \in Client \ {c} PROVE ReturnedOf(d)'
    BY <1>1 DEF ReturnedOf
  <1>2. QED BY <1>1 DEF ReturnedInv

LEMMA AppendKeeps ==
  ASSUME NEW s \in Seq(Command), NEW x \in Command
  PROVE  /\ Append(s, x) # << >> /\ Append(s, x)[Len(Append(s, x))] = x
         /\ x # "abandoned" /\ (\A i \in 1..Len(s) : s[i] # "abandoned") =>
              \A i \in 1..Len(Append(s, x)) : Append(s, x)[i] # "abandoned"
  OBVIOUS

LEMMA NextReturned ==
  ASSUME IInv, ReturnedInv, [Next]_vars
  PROVE  ReturnedInv'
  <1> SUFFICES ASSUME ~tardy' PROVE ReturnedInv'
    BY DEF ReturnedInv
  <1>t. /\ phase \in [Client -> Phase] /\ reply \in [Client -> Reply]
        /\ pipe \in [Client -> Seq(Command)]
        /\ value \in Client \cup {None} /\ None \notin Client
    BY LockAssumption, Zenon DEF IInv, TypeOK
  <1>0. ~tardy
    BY DEF Next, vars, Begin, CommandTimeout, Release, Crash, Caller, Redis, CommandFails, Retry,
           GiveUp, Denied, NotGranted, Granted, RefreshFires, Attempt, ExecAcquire, ExecAbandoned,
           ExecRelease, ExecExtend, Tick
  <1>i. \A c \in Client : ReturnedOf(c)
    BY <1>0 DEF ReturnedInv
  <1>p. \A c \in Client : PipeOf(c)
    BY DEF IInv, PipeInv
  <1>c. {"acquire", "extend", "release"} \subseteq Command
    BY DEF Command
  <1>1. ASSUME NEW c \in Client, Begin(c) \/ Retry(c) PROVE ReturnedInv'
    <2>1. pipe'[c] = Append(pipe[c], "acquire") /\ phase'[c] = "waiting" /\ reply'[c] = "none"
      BY <1>1, <1>t DEF Begin, Retry, Attempt, Send
    <2>2. ReturnedOf(c)'
      BY <2>1, <1>i, <1>t, <1>c, AppendKeeps DEF ReturnedOf
    <2>3. QED BY <1>1, <1>i, <1>t, <2>2, OneReturned DEF Begin, Retry, Attempt, Send
  <1>2. ASSUME NEW c \in Client, GiveUp(c) \/ Denied(c) \/ Granted(c) PROVE ReturnedInv'
    <2>1. ReturnedOf(c)'
      BY <1>2, <1>i, <1>t DEF GiveUp, Denied, NotGranted, Granted, ReturnedOf
    <2>2. QED BY <1>2, <1>i, <1>t, <2>1, OneReturned DEF GiveUp, Denied, NotGranted, Granted
  <1>3. ASSUME NEW c \in Client, RefreshFires(c) PROVE ReturnedInv'
    <2>1. pipe'[c] = Append(pipe[c], "extend") /\ phase'[c] = "held"
      BY <1>3, <1>t DEF RefreshFires, Send
    <2>2. ReturnedOf(c)'
      BY <2>1, <1>i, <1>t, <1>c, AppendKeeps DEF ReturnedOf
    <2>3. QED BY <1>3, <1>i, <1>t, <2>2, OneReturned DEF RefreshFires, Send
  <1>4. ASSUME NEW c \in Client, Release(c) PROVE ReturnedInv'
    <2>1. pipe'[c] = Append(pipe[c], "release") /\ phase'[c] = "idle"
      BY <1>4, <1>t DEF Release, Send
    <2>2. ReturnedOf(c)'
      BY <2>1, <1>i, <1>t, <1>c, AppendKeeps DEF ReturnedOf
    <2>3. QED BY <1>4, <1>i, <1>t, <2>2, OneReturned DEF Release, Send
  <1>5. ASSUME NEW c \in Client, Crash(c) PROVE ReturnedInv'
    <2>1. phase'[c] = "dead" /\ (pipe'[c] = pipe[c] \/ pipe'[c] = << >>)
      BY <1>5, <1>t DEF Crash
    <2>2. ReturnedOf(c)'
      BY <2>1, <1>i DEF ReturnedOf
    <2>3. QED BY <1>5, <1>i, <1>t, <2>2, OneReturned DEF Crash
  <1>6. ASSUME NEW c \in Client, ~CommandFails(c), Redis(c) PROVE ReturnedInv'
    <2>1. pipe[c] # << >> /\ pipe' = [pipe EXCEPT ![c] = Tail(@)] /\ phase' = phase
      BY <1>6 DEF Redis, ExecAcquire, ExecAbandoned, ExecRelease, ExecExtend, Pending, Executed
    <2>2. /\ Len(pipe[c]) \in Nat \ {0} /\ Head(pipe[c]) = pipe[c][1]
          /\ pipe'[c] \in Seq(Command) /\ Len(pipe'[c]) = Len(pipe[c]) - 1
          /\ \A i \in 1..Len(pipe'[c]) : pipe'[c][i] = pipe[c][i + 1]
      BY <2>1, <1>t, HeadTail
    <2>3. \A i \in 1..Len(pipe'[c]) : pipe'[c][i] # "abandoned"
      BY <2>2, <1>i DEF ReturnedOf
    <2>4. ~ExecAbandoned(c)
      BY <2>2, <1>i DEF ExecAbandoned, Pending, ReturnedOf
    <2>5. CASE ExecAcquire(c)
      <3>1. phase[c] \notin {"idle", "backoff"}
        BY <2>5, <2>2, <1>p DEF ExecAcquire, Pending, PipeOf
      <3>2. reply'[c] = "nil" => value' # c
        BY <2>5, <1>t DEF ExecAcquire, AcquireScript
      <3>3. ReturnedOf(c)'
        BY <2>1, <2>3, <3>1, <3>2 DEF ReturnedOf
      <3>4. \A d \in Client \ {c} : reply'[d] = reply[d] /\ (value' = d => value = d)
        BY <2>5, <1>t DEF ExecAcquire, AcquireScript
      <3>5. QED BY <1>i, <1>t, <2>1, <3>3, <3>4, OneReturned
    <2>6. CASE ExecRelease(c)
      <3>1. value' # c /\ reply' = reply /\ \A d \in Client : value' = d => value = d
        BY <2>6, <1>t DEF ExecRelease, ReleaseScript
      <3>2. ReturnedOf(c)'
        BY <2>3, <3>1 DEF ReturnedOf
      <3>3. QED BY <1>i, <1>t, <2>1, <3>1, <3>2, OneReturned
    <2>7. CASE ExecExtend(c)
      <3>1. value' = value /\ reply' = reply /\ Head(pipe[c]) = "extend"
        BY <2>7 DEF ExecExtend, ExtendScript, Pending
      <3>2. value = c /\ phase[c] \in {"idle", "backoff"} =>
              pipe'[c] # << >> /\ pipe'[c][Len(pipe'[c])] = "release"
        <4> SUFFICES ASSUME value = c, phase[c] \in {"idle", "backoff"}
                     PROVE  pipe'[c] # << >> /\ pipe'[c][Len(pipe'[c])] = "release"
          OBVIOUS
        <4>1. pipe[c][Len(pipe[c])] = "release"
          BY <1>i DEF ReturnedOf
        <4>2. Len(pipe[c]) # 1
          BY <4>1, <3>1, <2>2
        <4>3. Len(pipe'[c]) \in 1..Len(pipe'[c]) /\ Len(pipe'[c]) + 1 = Len(pipe[c])
          <5> DEFINE m == Len(pipe[c])
                     n == Len(pipe'[c])
          <5>1. m \in Nat \ {0} /\ m # 1 /\ n = m - 1
            BY <4>2, <2>2
          <5> HIDE DEF m, n
          <5>2. n \in 1..n /\ n + 1 = m
            BY <5>1
          <5>3. QED BY <5>2 DEF m, n
        <4>4. pipe'[c][Len(pipe'[c])] = "release"
          BY <4>1, <4>3, <2>2
        <4>5. pipe'[c] # << >>
          BY <4>3, <2>2, EmptyPipe
        <4>6. QED BY <4>4, <4>5
      <3>3. ReturnedOf(c)'
        BY <2>1, <2>3, <3>1, <3>2, <1>i DEF ReturnedOf
      <3>4. QED BY <1>i, <1>t, <2>1, <3>1, <3>3, OneReturned
    <2>8. QED BY <1>6, <2>4, <2>5, <2>6, <2>7 DEF Redis
  <1>7. ASSUME NEW c \in Client, CommandTimeout(c) \/ CommandFails(c) PROVE ReturnedInv'
    BY <1>7 DEF CommandTimeout, CommandFails
  <1>8. CASE Tick
    <2>1. /\ phase' = phase /\ reply' = reply /\ pipe' = pipe
          /\ value' = None \/ value' = value
      BY <1>8 DEF Tick
    <2>2. QED BY <2>1, <1>i, <1>t DEF ReturnedInv, ReturnedOf
  <1>9. CASE UNCHANGED vars
    BY <1>9 DEF vars, ReturnedInv, ReturnedOf
  <1>10. QED
    BY <1>1, <1>2, <1>3, <1>4, <1>5, <1>6, <1>7, <1>8, <1>9 DEF Next, Caller

\* As long as no command, answer or refresh was tardy a client that returned from
\* release, or was never granted the key, leaves no lease behind.
THEOREM LockReturnedLeavesNoLease == Spec => []ReturnedLeavesNoLease
  <1>1. Init => ReturnedInv
    <2>1. ASSUME Init, NEW c \in Client PROVE ReturnedOf(c)
      <3>1. pipe[c] = << >> /\ value # c /\ reply[c] # "nil"
        BY <2>1, LockAssumption DEF Init
      <3>2. Len(pipe[c]) = 0
        BY <3>1
      <3>3. QED BY <3>1, <3>2 DEF ReturnedOf
    <2>2. QED BY <2>1 DEF ReturnedInv
  <1>2. IInv /\ ReturnedInv /\ [Next]_vars => ReturnedInv'
    BY NextReturned
  <1>3. ReturnedInv => ReturnedLeavesNoLease
    BY DEF ReturnedInv, ReturnedOf, ReturnedLeavesNoLease
  <1>4. QED BY LockInvariant, <1>1, <1>2, <1>3, PTL DEF Spec

-----------------------------------------------------------------------------
(* Refinement *)

held == {c \in Client : phase[c] = "held"}
expired == {c \in lost : phase[c] = "held"}

LEMMA StepRefines == IInv /\ [Next]_vars => [Abstract!Next]_(Abstract!leaseVars)
  <1> SUFFICES ASSUME IInv, [Next]_vars PROVE [Abstract!Next]_(Abstract!leaseVars)
    OBVIOUS
  <1> USE LockAssumption DEF IInv, TypeOK, Phase, Reply, Command
  <1> DEFINE Stutter == value' = value /\ held' = held /\ expired' = expired
  <1>0. Stutter => UNCHANGED Abstract!leaseVars
    BY DEF Abstract!leaseVars, held, expired
  <1>1. ASSUME NEW c \in Client, Begin(c) PROVE Stutter
    BY <1>1 DEF Begin, Attempt, held, expired
  <1>2. ASSUME NEW c \in Client, CommandTimeout(c) PROVE Stutter
    BY <1>2 DEF CommandTimeout, held, expired
  <1>3. ASSUME NEW c \in Client, Release(c) PROVE Abstract!Drop(c)
    BY <1>3 DEF Release, Abstract!Drop
  <1>4. ASSUME NEW c \in Client, Crash(c) PROVE Stutter \/ Abstract!Drop(c)
    <2>1. CASE phase[c] = "held"
      BY <1>4, <2>1 DEF Crash, Abstract!Drop
    <2>2. CASE phase[c] # "held"
      BY <1>4, <2>2 DEF Crash, held, expired
    <2>3. QED BY <2>1, <2>2
  <1>5. ASSUME NEW c \in Client, Caller(c) PROVE Stutter \/ Abstract!Take(c)
    <2>1. CASE Retry(c)
      BY <2>1 DEF Retry, Attempt, held, expired
    <2>2. CASE Denied(c)
      BY <2>2 DEF Denied, NotGranted, held, expired
    <2>3. CASE Granted(c)
      BY <2>3 DEF Granted, Abstract!Take, ClaimInv, Claims
    <2>4. CASE RefreshFires(c)
      BY <2>4 DEF RefreshFires, held, expired
    <2>5. CASE GiveUp(c)
      BY <2>5 DEF GiveUp, held, expired
    <2>6. QED BY <1>5, <2>1, <2>2, <2>3, <2>4, <2>5 DEF Caller
  <1>6. ASSUME NEW c \in Client, Redis(c)
        PROVE Stutter \/ Abstract!Grant(c) \/ Abstract!Free(c)
    <2>1. CASE ExecAcquire(c)
      BY <2>1 DEF ExecAcquire, AcquireScript, Abstract!Grant, held, expired
    <2>2. CASE ExecAbandoned(c)
      BY <2>2 DEF ExecAbandoned, AcquireScript, Abstract!Grant, held, expired
    <2>3. CASE ExecRelease(c)
      BY <2>3, ClaimPipe
      DEF ExecRelease, ReleaseScript, Pending, Claims, Abstract!Free, held, expired
    <2>4. CASE ExecExtend(c)
      BY <2>4 DEF ExecExtend, ExtendScript, held, expired
    <2>5. QED BY <1>6, <2>1, <2>2, <2>3, <2>4 DEF Redis
  <1>7. ASSUME NEW c \in Client, CommandFails(c) PROVE Stutter
    BY <1>7 DEF CommandFails, held, expired
  <1>8. CASE Tick
    <2>1. CASE ttl = 1 /\ value # None
      BY <1>8, <2>1 DEF Tick, Claims, Abstract!Next, Abstract!Expire
    <2>2. CASE ~(ttl = 1 /\ value # None)
      BY <1>8, <2>2, <1>0 DEF Tick, held, expired
    <2>3. QED BY <2>1, <2>2
  <1>9. CASE UNCHANGED vars
    BY <1>9, <1>0 DEF vars, held, expired
  <1>10. QED
    BY <1>0, <1>1, <1>2, <1>3, <1>4, <1>5, <1>6, <1>7, <1>8, <1>9 DEF Next, Abstract!Next

\* Every behaviour of the Redis lock is one of the abstract lease.
THEOREM LockImplementsLease == Spec => ImplementsLease
  <1>1. Init => Abstract!Init
    BY DEF Init, Abstract!Init
  <1>2. QED
    BY <1>1, LockInvariant, StepRefines, PTL DEF Spec, ImplementsLease, Abstract!Spec
=============================================================================
