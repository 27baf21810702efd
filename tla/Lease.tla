------------------------------- MODULE Lease -------------------------------
(***************************************************************************)
(* What services/distributedLock.service.ts promises its callers, without  *)
(* Redis, time or commands: a key with at most one owner, and the handles  *)
(* the callers keep.  A lease is not a mutex: it can run out while its     *)
(* handle is still in use, and nobody tells the handle.  Such handles are  *)
(* collected in "lost".                                                    *)
(***************************************************************************)

CONSTANTS
  Client,   \* contenders, one per distinct lock token
  None      \* the key does not exist; not a client

VARIABLES
  owner,    \* the token stored under the lock's key, or None
  handles,  \* clients that hold a handle they have not released
  lost      \* those of them whose lease ran out since they acquired it

leaseVars == <<owner, handles, lost>>

TypeOK ==
  /\ owner \in Client \cup {None}
  /\ handles \subseteq Client
  /\ lost \subseteq handles

Init ==
  /\ owner = None
  /\ handles = {}
  /\ lost = {}

\* The store gives the key to c, which may learn of it later or never.
Grant(c) ==
  /\ owner \in {None, c}
  /\ owner' = c
  /\ UNCHANGED <<handles, lost>>

\* c learns that it was granted the key.  The answer may be older than the
\* lease.
Take(c) ==
  /\ c \notin handles
  /\ handles' = handles \cup {c}
  /\ lost' = IF owner = c THEN lost ELSE lost \cup {c}
  /\ UNCHANGED owner

\* c stops using its handle: it released it, or its process died.
Drop(c) ==
  /\ c \in handles
  /\ handles' = handles \ {c}
  /\ lost' = lost \ {c}
  /\ UNCHANGED owner

\* The key of a client that no longer uses it is deleted.
Free(c) ==
  /\ owner = c
  /\ c \notin handles
  /\ owner' = None
  /\ UNCHANGED <<handles, lost>>

\* The key's time to live runs out.
Expire ==
  /\ owner # None
  /\ lost' = lost \cup (handles \cap {owner})
  /\ owner' = None
  /\ UNCHANGED handles

\* c is granted the key and learns it in time.
Acquire(c) ==
  /\ c \notin handles
  /\ owner \in {None, c}
  /\ owner' = c
  /\ handles' = handles \cup {c}
  /\ UNCHANGED lost

\* c releases its handle, which deletes the key unless it is no longer c's.
Release(c) ==
  /\ c \in handles
  /\ handles' = handles \ {c}
  /\ lost' = lost \ {c}
  /\ owner' = IF owner = c THEN None ELSE owner

Next ==
  \/ \E c \in Client : Grant(c) \/ Take(c) \/ Drop(c) \/ Free(c)
                       \/ Acquire(c) \/ Release(c)
  \/ Expire

Spec == Init /\ [][Next]_leaseVars

=============================================================================
