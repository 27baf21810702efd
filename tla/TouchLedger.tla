---------------------------- MODULE TouchLedger ----------------------------
(***************************************************************************)
(* services/revenueTouchLedger.service.ts: the delivery states of an       *)
(* outbound message, and how an upsert combines the stored state with the  *)
(* one it is given.                                                        *)
(***************************************************************************)
EXTENDS Integers

NoTouch == "none"   \* no row with this outbound key

Rank ==
  [RESERVED |-> 0, PROVIDER_ACCEPTED |-> 1, PROVIDER_MESSAGE_ID_PERSISTED |-> 2,
   CONFIRMED |-> 3, FAILED |-> 4, DELIVERED |-> 5]

DeliveryState == DOMAIN Rank

\* isRevenueTouchStateAtLeast, for a row that may not exist.
AtLeast(s, minimum) == s # NoTouch /\ Rank[s] >= Rank[minimum]

\* resolveDeliveryState.  The code's special cases for an equal state and for
\* DELIVERED, the highest rank, say what the ranks say.
Resolve(existing, incoming) ==
  IF existing = NoTouch \/ Rank[incoming] >= Rank[existing] THEN incoming ELSE existing

=============================================================================
