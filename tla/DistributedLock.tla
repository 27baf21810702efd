-------------------------- MODULE DistributedLock --------------------------
(***************************************************************************)
(* services/distributedLock.service.ts: a lease on one Redis key.          *)
(*                                                                         *)
(* A client sends three Lua scripts (acquire, extend, release) over one    *)
(* connection, so Redis executes its commands in the order sent, but any   *)
(* time later.  acquireDistributedLock gives up waiting for an answer      *)
(* after a command timeout although the command may still take effect.     *)
(* The refresh timer extends the lease until one extension fails; nobody   *)
(* tells the holder.                                                       *)
(*                                                                         *)
(* Time is discrete: TTL and RefreshEvery are in ticks.  Commands, answers *)
(* and timers may lag without bound, and Redis may fail; tardy records     *)
(* that it happened, and stays FALSE in a well-behaved environment.        *)
(***************************************************************************)
EXTENDS Naturals, Sequences

CONSTANTS
  Client,        \* contenders; the token of each is its own (UUID, job key)
  None,          \* no key
  TTL,           \* ttlMs
  RefreshEvery,  \* refreshIntervalMs; 0: the handle has no refresh timer
  MaxAttempts,   \* bound on the do-while loop, whose real bound is waitMs
  MaxPipe        \* bound on the commands of a client in flight

ASSUME LockAssumption ==
  /\ None \notin Client
  /\ TTL \in Nat \ {0}
  /\ RefreshEvery \in Nat
  /\ MaxAttempts \in Nat \ {0}
  /\ MaxPipe \in Nat \ {0}

VARIABLES
  value,     \* the token stored in Redis under the key, or None
  ttl,       \* its remaining time to live, 0 when there is no key
  phase,     \* where each client is in acquire ... release
  attempts,  \* attempts of the running acquireDistributedLock
  reply,     \* answer to the acquire command the client awaits
  pipe,      \* commands each client sent that Redis has not executed
  armed,     \* the client's refresh timer exists
  age,       \* ticks since the timer was armed or fired
  lost,      \* clients whose lease ran out after it was granted (history)
  tardy      \* time passed over something due, or Redis had an error (history)

vars == <<value, ttl, phase, attempts, reply, pipe, armed, age, lost, tardy>>

Phase   == {"idle", "waiting", "backoff", "held", "dead"}
\* An acquire whose answer nobody awaits any more is "abandoned".
Command == {"acquire", "abandoned", "extend", "release"}
Reply   == {"none", "ok", "nil"}

TypeOK ==
  /\ value \in Client \cup {None}
  /\ ttl \in 0..TTL
  /\ phase \in [Client -> Phase]
  /\ attempts \in [Client -> 0..MaxAttempts]
  /\ reply \in [Client -> Reply]
  /\ pipe \in [Client -> Seq(Command)]
  /\ armed \in [Client -> BOOLEAN]
  /\ age \in [Client -> 0..RefreshEvery]
  /\ lost \subseteq Client
  /\ tardy \in BOOLEAN

Init ==
  /\ value = None
  /\ ttl = 0
  /\ phase = [c \in Client |-> "idle"]
  /\ attempts = [c \in Client |-> 0]
  /\ reply = [c \in Client |-> "none"]
  /\ pipe = [c \in Client |-> << >>]
  /\ armed = [c \in Client |-> FALSE]
  /\ age = [c \in Client |-> 0]
  /\ lost = {}
  /\ tardy = FALSE

\* The client was answered that it owns the key, whether it saw it or not.
Claims(c) == phase[c] = "held" \/ (phase[c] = "waiting" /\ reply[c] = "ok")

Pending(c, cmd) == pipe[c] # << >> /\ Head(pipe[c]) = cmd

Send(c, cmd) ==
  /\ Len(pipe[c]) < MaxPipe
  /\ pipe' = [pipe EXCEPT ![c] = Append(@, cmd)]

Executed(c) == pipe' = [pipe EXCEPT ![c] = Tail(@)]

-----------------------------------------------------------------------------
(* acquireDistributedLock *)

\* One turn of the do-while loop: the acquire script is sent.
Attempt(c) ==
  /\ phase' = [phase EXCEPT ![c] = "waiting"]
  /\ reply' = [reply EXCEPT ![c] = "none"]
  /\ Send(c, "acquire")
  /\ UNCHANGED <<value, ttl, armed, age, tardy>>

Begin(c) ==
  /\ phase[c] = "idle"
  /\ attempts' = [attempts EXCEPT ![c] = 1]
  /\ lost' = lost \ {c}
  /\ Attempt(c)

Retry(c) ==
  /\ phase[c] = "backoff"
  /\ attempts[c] < MaxAttempts
  /\ attempts' = [attempts EXCEPT ![c] = @ + 1]
  /\ Attempt(c)
  /\ UNCHANGED lost

\* The deadline passed during the sleep: return null.
GiveUp(c) ==
  /\ phase[c] = "backoff"
  /\ phase' = [phase EXCEPT ![c] = "idle"]
  /\ UNCHANGED <<value, ttl, attempts, reply, pipe, armed, age, lost, tardy>>

\* No "OK": back off, or return null when the deadline has passed.
NotGranted(c) ==
  /\ \E next \in {"backoff", "idle"} : phase' = [phase EXCEPT ![c] = next]
  /\ reply' = [reply EXCEPT ![c] = "none"]
  /\ UNCHANGED <<value, ttl, attempts, armed, age, lost, tardy>>

Denied(c) ==
  /\ phase[c] = "waiting" /\ reply[c] = "nil"
  /\ NotGranted(c)
  /\ UNCHANGED pipe

\* commandTimeoutMs elapsed: the command stays on its way, and its grant may
\* already have happened.
CommandTimeout(c) ==
  /\ phase[c] = "waiting" /\ reply[c] # "nil"
  /\ tardy' = TRUE
  /\ lost' = lost \ {c}
  /\ pipe' = [pipe EXCEPT ![c] =
                [i \in 1..Len(@) |-> IF @[i] = "acquire" THEN "abandoned" ELSE @[i]]]
  /\ \E next \in {"backoff", "idle"} : phase' = [phase EXCEPT ![c] = next]
  /\ reply' = [reply EXCEPT ![c] = "none"]
  /\ UNCHANGED <<value, ttl, attempts, armed, age>>

\* Mutant: the handle is returned without starting its refresh timer.
GrantedNoTimer(c) ==
  /\ phase[c] = "waiting" /\ reply[c] = "ok"
  /\ phase' = [phase EXCEPT ![c] = "held"]
  /\ reply' = [reply EXCEPT ![c] = "none"]
  /\ UNCHANGED <<value, ttl, attempts, pipe, armed, age, lost, tardy>>

\* "OK": the handle is built and its refresh timer starts.
Granted(c) ==
  /\ phase[c] = "waiting" /\ reply[c] = "ok"
  /\ phase' = [phase EXCEPT ![c] = "held"]
  /\ reply' = [reply EXCEPT ![c] = "none"]
  /\ armed' = [armed EXCEPT ![c] = RefreshEvery > 0]
  /\ age' = [age EXCEPT ![c] = 0]
  /\ UNCHANGED <<value, ttl, attempts, pipe, lost, tardy>>

-----------------------------------------------------------------------------
(* The handle: extend and release *)

\* The interval timer fires and sends an extension without awaiting it.
RefreshFires(c) ==
  /\ phase[c] = "held" /\ armed[c] /\ age[c] = RefreshEvery
  /\ age' = [age EXCEPT ![c] = 0]
  /\ Send(c, "extend")
  /\ UNCHANGED <<value, ttl, phase, attempts, reply, armed, lost, tardy>>

\* Mutant: release only stops the timer and leaves the key to its TTL.
ReleaseTimerOnly(c) ==
  /\ phase[c] = "held"
  /\ phase' = [phase EXCEPT ![c] = "idle"]
  /\ armed' = [armed EXCEPT ![c] = FALSE]
  /\ UNCHANGED <<value, ttl, attempts, reply, pipe, age, lost, tardy>>

Release(c) ==
  /\ phase[c] = "held"
  /\ phase' = [phase EXCEPT ![c] = "idle"]
  /\ armed' = [armed EXCEPT ![c] = FALSE]
  /\ Send(c, "release")
  /\ UNCHANGED <<value, ttl, attempts, reply, age, lost, tardy>>

\* The process dies; what it has sent may or may not reach Redis.
Crash(c) ==
  /\ phase[c] # "dead"
  /\ phase' = [phase EXCEPT ![c] = "dead"]
  /\ armed' = [armed EXCEPT ![c] = FALSE]
  /\ \/ UNCHANGED pipe
     \/ pipe' = [pipe EXCEPT ![c] = << >>]
  /\ UNCHANGED <<value, ttl, attempts, reply, age, lost, tardy>>

-----------------------------------------------------------------------------
(* Redis executes the scripts *)

\* Mutants: SET without PX; SET without looking at the holder.
AcquireScriptNoExpiry(c) ==
  IF value \in {None, c}
  THEN value' = c /\ ttl' = 0
  ELSE UNCHANGED <<value, ttl>>

AcquireScriptBlind(c) == value' = c /\ ttl' = TTL

AcquireScript(c) ==
  IF value \in {None, c}
  THEN value' = c /\ ttl' = TTL
  ELSE UNCHANGED <<value, ttl>>

ExecAcquire(c) ==
  /\ Pending(c, "acquire")
  /\ AcquireScript(c)
  /\ reply' = [reply EXCEPT ![c] = IF value \in {None, c} THEN "ok" ELSE "nil"]
  /\ Executed(c)
  /\ UNCHANGED <<phase, attempts, armed, age, lost, tardy>>

ExecAbandoned(c) ==
  /\ Pending(c, "abandoned")
  /\ AcquireScript(c)
  /\ Executed(c)
  /\ UNCHANGED <<phase, attempts, reply, armed, age, lost, tardy>>

\* Mutant: DEL without comparing the token.
ReleaseScriptBlind(c) == value' = None /\ ttl' = 0

ReleaseScript(c) ==
  IF value = c
  THEN value' = None /\ ttl' = 0
  ELSE UNCHANGED <<value, ttl>>

ExecRelease(c) ==
  /\ Pending(c, "release")
  /\ ReleaseScript(c)
  /\ Executed(c)
  /\ UNCHANGED <<phase, attempts, reply, armed, age, lost, tardy>>

\* Mutant: the extension is added to what is left of the lease.
ExtendScriptAdds(c) ==
  /\ ttl' = IF value = c THEN ttl + TTL ELSE ttl
  /\ UNCHANGED value

ExtendScript(c) ==
  /\ ttl' = IF value = c THEN TTL ELSE ttl
  /\ UNCHANGED value

\* A failed extension stops the timer for good.
ExecExtend(c) ==
  /\ Pending(c, "extend")
  /\ ExtendScript(c)
  /\ armed' = [armed EXCEPT ![c] = @ /\ value = c]
  /\ Executed(c)
  /\ UNCHANGED <<phase, attempts, reply, age, lost, tardy>>

\* A transient Redis error: acquire counts as denied, extend as failed (which
\* stops the timer), release is swallowed.
CommandFails(c) ==
  /\ pipe[c] # << >>
  /\ tardy' = TRUE
  /\ reply' = [reply EXCEPT ![c] = IF Head(pipe[c]) = "acquire" THEN "nil" ELSE @]
  /\ armed' = [armed EXCEPT ![c] = @ /\ Head(pipe[c]) # "extend"]
  /\ Executed(c)
  /\ UNCHANGED <<value, ttl, phase, attempts, age, lost>>

-----------------------------------------------------------------------------
(* Time *)

\* Where nothing is tardy, nothing that is due is left for the next tick.
NothingDue ==
  \A c \in Client :
    /\ pipe[c] = << >>
    /\ armed[c] => age[c] < RefreshEvery
    /\ ~(phase[c] = "waiting" /\ reply[c] = "ok")

Tick ==
  /\ \/ ttl > 0
     \/ \E c \in Client : armed[c] /\ age[c] < RefreshEvery
  /\ tardy' = (tardy \/ ~NothingDue)
  /\ ttl' = IF ttl > 0 THEN ttl - 1 ELSE 0
  /\ value' = IF ttl = 1 THEN None ELSE value
  /\ lost' = IF ttl = 1 THEN lost \cup {c \in Client : Claims(c) /\ value = c} ELSE lost
  /\ age' = [c \in Client |-> IF armed[c] /\ age[c] < RefreshEvery THEN age[c] + 1 ELSE age[c]]
  /\ UNCHANGED <<phase, attempts, reply, pipe, armed>>

-----------------------------------------------------------------------------
Redis(c) ==
  ExecAcquire(c) \/ ExecAbandoned(c) \/ ExecRelease(c) \/ ExecExtend(c)

Caller(c) ==
  Retry(c) \/ GiveUp(c) \/ Denied(c) \/ Granted(c) \/ RefreshFires(c)

Next ==
  \/ \E c \in Client :
       \/ Begin(c) \/ CommandTimeout(c) \/ Release(c) \/ Crash(c)
       \/ Caller(c) \/ Redis(c) \/ CommandFails(c)
  \/ Tick

Spec == Init /\ [][Next]_vars

\* Time passes, Redis serves its connections and the clients' event loops run.
\* No caller is obliged to begin, to release or to crash.
Fairness ==
  /\ WF_vars(Tick)
  /\ \A c \in Client : WF_vars(Redis(c)) /\ WF_vars(Caller(c))

FairSpec == Spec /\ Fairness

-----------------------------------------------------------------------------
(* Properties *)

\* A handle whose lease has not run out owns the key: no late command of
\* another client, and no late command of its own, takes the key from it.
UnexpiredHandleOwnsKey ==
  \A c \in Client : phase[c] = "held" /\ c \notin lost => value = c

\* As long as no refresh, command or answer was tardy the lease is a mutex: two
\* callers are never inside withDistributedLock's run at once.
TimelyMutualExclusion ==
  ~tardy => \A c, d \in Client : phase[c] = "held" /\ phase[d] = "held" => c = d

\* As long as nothing was tardy a client that returned from release (or was
\* never granted the key) leaves no lease behind: the next contender need not
\* wait.
ReturnedLeavesNoLease ==
  ~tardy => \A c \in Client :
    phase[c] \in {"idle", "backoff"} /\ pipe[c] = << >> => value # c

\* The lease of a dead process goes away for good, by time alone: neither its
\* refresh timer nor a command still on its way keeps it alive.
DeadLeaseExpires ==
  \A c \in Client : phase[c] = "dead" ~> [](value # c)

\* acquireDistributedLock returns, with a handle or with null.
AcquireReturns ==
  \A c \in Client :
    phase[c] \in {"waiting", "backoff"} ~> phase[c] \notin {"waiting", "backoff"}

\* Both: neither a lease nor a caller is left hanging.
NothingHangs == DeadLeaseExpires /\ AcquireReturns

\* The Redis implementation keeps the promise stated in Lease.
Abstract ==
  INSTANCE Lease WITH
    owner   <- value,
    handles <- {c \in Client : phase[c] = "held"},
    lost    <- {c \in lost : phase[c] = "held"}

ImplementsLease == Abstract!Spec
=============================================================================
