------------------------- MODULE AppointmentBooking -------------------------
(***************************************************************************)
(* services/appointmentEngine.service.ts, rescheduleEngine.service.ts,     *)
(* meetingState.service.ts: appointments, the slots they are booked in,    *)
(* and the sweep that expires holds.                                       *)
(*                                                                         *)
(* A call takes leased locks in Redis (see DistributedLock), reads, and    *)
(* writes in a MongoDB transaction, which is atomic: what it reads and     *)
(* relies on it also writes, and a write conflict aborts it.  The sweep    *)
(* and the transitions of a meeting take no lock.                          *)
(***************************************************************************)
EXTENDS Integers, Sequences, FiniteSets

CONSTANTS
  Appointment, Slot,
  Client,      \* processes that run a call each
  Capacity,    \* of each slot
  Meeting,     \* the states that meetings are moved to
  MaxFaults,   \* bound on deaths, failed transactions and leases that ran out
  NoKey, Free, Leaked

ASSUME BookingAssumption ==
  /\ Capacity \in Nat \ {0} /\ MaxFaults \in Nat
  /\ NoKey \notin Appointment \cup Slot
  /\ Free \notin Client /\ Leaked \notin Client /\ Free # Leaked
  /\ Appointment \cap Slot = {}
  /\ IsFiniteSet(Appointment)

\* The states of an appointment, as far as a slot is concerned: REQUESTED is also
\* PROPOSED; BOOKED is CONFIRMED, RESCHEDULED, REMINDER_SENT, CHECKED_IN or
\* LATE_JOIN; ENDED is CANCELLED or EXPIRED.  (Nobody writes IN_PROGRESS.)
Status ==
  {"REQUESTED", "HOLD", "BOOKED", "COMPLETED", "FOLLOWUP_BOOKED", "NO_SHOW", "ENDED"}

\* APPOINTMENT_ALLOWED_TRANSITIONS, where meetingState.transition is called; a
\* hold, a confirmation, a move and an end are written without it.
Allowed(s) ==
  {s} \cup CASE s = "BOOKED"    -> {"COMPLETED", "NO_SHOW"}
            [] s = "COMPLETED" -> {"FOLLOWUP_BOOKED"}
            [] OTHER           -> {}

Active   == {"HOLD", "BOOKED"}
Terminal == {"FOLLOWUP_BOOKED", "NO_SHOW", "ENDED"}

ASSUME MeetingAssumption ==
  Meeting \subseteq {"BOOKED", "COMPLETED", "FOLLOWUP_BOOKED", "NO_SHOW"}

VARIABLES
  status, slotOf,  \* the appointments' rows
  expiry,    \* holdExpiresAt: null, ahead or past
  reserved,  \* reservedCount of each slot
  open,      \* <<a, s>>: the reservation ledger has rows of a for s without releasedAt
  hold,      \* slots whose hold key exists in Redis
  lock,      \* who has each lock; Leaked: a caller that will not release it
  call,      \* what each client does: its call, arguments and locals
  listed,    \* appointments the sweep has yet to look at
  freed,     \* the slot it has just given back, whose hold it drops next
  faults,    \* deaths, errors and leases lost so far
  lapsed,    \* a lease ran out under a caller at work (history)
  overtaken  \* a call wrote a row that had ended or moved since its read (history)

rows      == <<status, slotOf, expiry>>
slots     == <<reserved, open>>
sweepVars == <<listed, freed>>
faultVars == <<faults, lapsed>>
vars == <<rows, slots, hold, lock, call, sweepVars, faultVars, overtaken>>

Key == Appointment \cup Slot    \* appointment:ledger:..., appointment:slot:...
Op  == {"none", "hold", "confirm", "cancel", "reschedule", "meet"}
PC  == {"idle", "locks", "redis", "read", "commit", "dropHold", "unlock"}

\* A call: where it is, the locks it has yet to take in order, its arguments,
\* and the slot it has read in the row and is to confirm or give back.
Call ==
  [op : Op, pc : PC, want : Seq(Key), appt : Appointment \cup {NoKey}, slot : Slot \cup {NoKey},
   next : Status, in : Slot \cup {NoKey}]

NoCall ==
  [op |-> "none", pc |-> "idle", want |-> <<>>, appt |-> NoKey, slot |-> NoKey,
   next |-> "REQUESTED", in |-> NoKey]

TypeOK ==
  /\ status \in [Appointment -> Status]
  /\ slotOf \in [Appointment -> Slot \cup {NoKey}]
  /\ expiry \in [Appointment -> {"null", "ahead", "past"}]
  /\ reserved \in [Slot -> 0..Capacity]
  /\ open \subseteq Appointment \X Slot
  /\ hold \subseteq Slot
  /\ lock \in [Key -> Client \cup {Free, Leaked}]
  /\ call \in [Client -> Call]
  /\ listed \subseteq Appointment
  /\ freed \in Slot \cup {NoKey}
  /\ faults \in 0..MaxFaults
  /\ lapsed \in BOOLEAN /\ overtaken \in BOOLEAN

\* The appointments have been requested, or slots proposed for them.
Init ==
  /\ status = [a \in Appointment |-> "REQUESTED"]
  /\ slotOf = [a \in Appointment |-> NoKey]
  /\ expiry = [a \in Appointment |-> "null"]
  /\ reserved = [s \in Slot |-> 0]
  /\ open = {}
  /\ hold = {}
  /\ lock = [k \in Key |-> Free]
  /\ call = [c \in Client |-> NoCall]
  /\ listed = {} /\ freed = NoKey
  /\ faults = 0 /\ lapsed = FALSE
  /\ overtaken = FALSE

Fault == faults < MaxFaults /\ faults' = faults + 1 /\ UNCHANGED lapsed

At(c, op, pc) == call[c].op = op /\ call[c].pc = pc
Goto(c, pc)   == call' = [call EXCEPT ![c].pc = pc]
Leave(c)      == call' = [call EXCEPT ![c] = [NoCall EXCEPT !.pc = "unlock"]]

\* A transaction that relies on the read of a row which has ended since.
Overtakes(stale) == overtaken' = (overtaken \/ stale)

\* reservedCount is decremented down to 0, and the appointment's ledger rows
\* for the slot are closed.
Decremented(s)   == [reserved EXCEPT ![s] = IF @ > 0 THEN @ - 1 ELSE 0]
Closed(a, s)     == open \ {<<a, s>>}

-----------------------------------------------------------------------------
(* Locks: leases of ten seconds without renewal, awaited for two seconds *)

Begins(c, frame) ==
  /\ call[c].pc = "idle"
  /\ call' = [call EXCEPT ![c] = frame]
  /\ UNCHANGED <<rows, slots, hold, lock, sweepVars, faultVars, overtaken>>

\* Where a call goes on that has all its locks.
AfterLocks ==
  [hold |-> "redis", confirm |-> "read", cancel |-> "read", reschedule |-> "commit"]

TakesLock(c) ==
  LET keys == call[c].want IN
  /\ call[c].pc = "locks" /\ lock[Head(keys)] = Free
  /\ lock' = [lock EXCEPT ![Head(keys)] = c]
  /\ call' = [call EXCEPT ![c].want = Tail(keys),
                          ![c].pc = IF Tail(keys) = <<>> THEN AfterLocks[call[c].op] ELSE @]
  /\ UNCHANGED <<rows, slots, hold, sweepVars, faultVars, overtaken>>

Released(c)   == [k \in Key |-> IF lock[k] = c THEN Free ELSE lock[k]]
LeftBehind(c) == [k \in Key |-> IF lock[k] = c THEN Leaked ELSE lock[k]]

\* Mutant: the lock is waited for without a limit.
LockWaits(c) ==
  /\ call[c].pc = "locks"
  /\ Fault
  /\ lock' = IF call[c].op = "reschedule" THEN Released(c) ELSE LeftBehind(c)
  /\ call' = [call EXCEPT ![c] = NoCall]
  /\ UNCHANGED <<rows, slots, hold, sweepVars, overtaken>>

\* lock_unavailable: a reschedule releases the locks it has; a hold takes its
\* locks before the try block, and leaves the slot's lock behind.
LockUnavailable(c) ==
  /\ call[c].pc = "locks"
  /\ \/ lock[Head(call[c].want)] # Free /\ UNCHANGED faultVars
     \/ Fault
  /\ lock' = IF call[c].op = "reschedule" THEN Released(c) ELSE LeftBehind(c)
  /\ call' = [call EXCEPT ![c] = NoCall]
  /\ UNCHANGED <<rows, slots, hold, sweepVars, overtaken>>

\* The finally block, after a return or a throw.
Unlocks(c) ==
  /\ call[c].pc = "unlock"
  /\ lock' = Released(c)
  /\ call' = [call EXCEPT ![c] = NoCall]
  /\ UNCHANGED <<rows, slots, hold, sweepVars, faultVars, overtaken>>

\* A read, a Redis command or the transaction fails.  What a hold has taken in
\* Redis stays there until it expires.
Throws(c) ==
  /\ call[c].pc \in {"redis", "read", "commit", "dropHold"}
  /\ Fault
  /\ Leave(c)
  /\ UNCHANGED <<rows, slots, hold, lock, sweepVars, overtaken>>

\* The process dies; or the release of its locks fails, which is ignored.
Dies(c) ==
  /\ call[c].pc # "idle"
  /\ Fault
  /\ lock' = LeftBehind(c)
  /\ call' = [call EXCEPT ![c] = NoCall]
  /\ UNCHANGED <<rows, slots, hold, sweepVars, overtaken>>

\* The lease of a lock nobody will release runs out.
LeaseEnds(k) ==
  /\ lock[k] = Leaked
  /\ lock' = [lock EXCEPT ![k] = Free]
  /\ UNCHANGED <<rows, slots, hold, call, sweepVars, faultVars, overtaken>>

\* Ten seconds pass while the caller is still at work.
LeaseLapses(k) ==
  /\ lock[k] \in Client
  /\ faults < MaxFaults /\ faults' = faults + 1 /\ lapsed' = TRUE
  /\ lock' = [lock EXCEPT ![k] = Free]
  /\ UNCHANGED <<rows, slots, hold, call, sweepVars, overtaken>>

-----------------------------------------------------------------------------
(* holdSlot *)

\* Mutant: only the slot is locked.
HoldBeginsSlotOnly(c, a, s) ==
  /\ status[a] \notin Terminal
  /\ Begins(c, [NoCall EXCEPT !.op = "hold", !.pc = "locks", !.want = <<s>>,
                              !.appt = a, !.slot = s])

HoldBegins(c, a, s) ==
  /\ status[a] \notin Terminal
  /\ Begins(c, [NoCall EXCEPT !.op = "hold", !.pc = "locks", !.want = <<s, a>>,
                              !.appt = a, !.slot = s])

\* acquireAppointmentSlotHold.
HoldTakesKey(c) ==
  LET s == call[c].slot IN
  /\ At(c, "hold", "redis") /\ s \notin hold
  /\ hold' = hold \cup {s}
  /\ Goto(c, "commit")
  /\ UNCHANGED <<rows, slots, lock, sweepVars, faultVars, overtaken>>

HoldUnavailable(c) ==
  /\ At(c, "hold", "redis") /\ call[c].slot \in hold
  /\ Leave(c)
  /\ UNCHANGED <<rows, slots, hold, lock, sweepVars, faultVars, overtaken>>

\* Mutant: capacity is not looked at.
HoldCommitsUnchecked(c) ==
  LET a == call[c].appt
      s == call[c].slot
  IN
  /\ At(c, "hold", "commit")
  /\ status[a] \notin Terminal
  /\ reserved' = [reserved EXCEPT ![s] = @ + 1]
  /\ open' = open \cup {<<a, s>>}
  /\ status' = [status EXCEPT ![a] = "HOLD"]
  /\ slotOf' = [slotOf EXCEPT ![a] = s]
  /\ expiry' = [expiry EXCEPT ![a] = "ahead"]
  /\ Leave(c)
  /\ UNCHANGED <<hold, lock, sweepVars, faultVars, overtaken>>

\* The row may hold or even have confirmed a slot already: that one's
\* reservation is not given back.
HoldCommits(c) ==
  LET a == call[c].appt
      s == call[c].slot
  IN
  /\ At(c, "hold", "commit")
  /\ reserved[s] < Capacity /\ status[a] \notin Terminal
  /\ reserved' = [reserved EXCEPT ![s] = @ + 1]
  /\ open' = open \cup {<<a, s>>}
  /\ status' = [status EXCEPT ![a] = "HOLD"]
  /\ slotOf' = [slotOf EXCEPT ![a] = s]
  /\ expiry' = [expiry EXCEPT ![a] = "ahead"]
  /\ Leave(c)
  /\ UNCHANGED <<hold, lock, sweepVars, faultVars, overtaken>>

HoldRefused(c) ==
  /\ At(c, "hold", "commit")
  /\ reserved[call[c].slot] >= Capacity \/ status[call[c].appt] \in Terminal
  /\ Leave(c)
  /\ UNCHANGED <<rows, slots, hold, lock, sweepVars, faultVars, overtaken>>

HoldKeyExpires(s) ==
  /\ s \in hold
  /\ hold' = hold \ {s}
  /\ UNCHANGED <<rows, slots, lock, call, sweepVars, faultVars, overtaken>>

\* Time passes holdExpiresAt.
HoldComesDue(a) ==
  /\ expiry[a] = "ahead"
  /\ expiry' = [expiry EXCEPT ![a] = "past"]
  /\ UNCHANGED <<status, slotOf, slots, hold, lock, call, sweepVars, faultVars, overtaken>>

-----------------------------------------------------------------------------
(* confirmSlot *)

ConfirmBegins(c, a) ==
  Begins(c, [NoCall EXCEPT !.op = "confirm", !.pc = "locks", !.want = <<a>>, !.appt = a])

ConfirmReads(c) ==
  LET a == call[c].appt IN
  /\ At(c, "confirm", "read") /\ status[a] = "HOLD"
  /\ call' = [call EXCEPT ![c].pc = "commit", ![c].in = slotOf[a]]
  /\ UNCHANGED <<rows, slots, hold, lock, sweepVars, faultVars, overtaken>>

\* It is confirmed already, or not held.
ConfirmDeclines(c) ==
  /\ At(c, "confirm", "read") /\ status[call[c].appt] # "HOLD"
  /\ Leave(c)
  /\ UNCHANGED <<rows, slots, hold, lock, sweepVars, faultVars, overtaken>>

\* The caller has a token, and the slot's hold key another.  A key that has
\* expired is no obstacle, and the token need not be given.
ConfirmMismatches(c) ==
  /\ At(c, "confirm", "commit") /\ call[c].in \in hold
  /\ Leave(c)
  /\ UNCHANGED <<rows, slots, hold, lock, sweepVars, faultVars, overtaken>>

\* The transaction reads the row once more, and does not look at its status.
ConfirmCommits(c) ==
  LET a == call[c].appt IN
  /\ At(c, "confirm", "commit")
  /\ status' = [status EXCEPT ![a] = "BOOKED"]
  /\ expiry' = [expiry EXCEPT ![a] = "null"]
  /\ Overtakes(status[a] = "ENDED")
  /\ Goto(c, "dropHold")
  /\ UNCHANGED <<slotOf, slots, hold, lock, sweepVars, faultVars>>

\* releaseAppointmentSlotHold, whose errors are swallowed: a confirmation drops
\* the hold it has read before, a cancellation whatever hold there is now.
\* (Tokens are not told apart: the key may expire at any time as well.)
DropsHold(c) ==
  /\ call[c].pc = "dropHold"
  /\ hold' = hold \/ hold' = hold \ {call[c].in}
  /\ Leave(c)
  /\ UNCHANGED <<rows, slots, lock, sweepVars, faultVars, overtaken>>

-----------------------------------------------------------------------------
(* cancelAppointment *)

CancelBegins(c, a) ==
  Begins(c, [NoCall EXCEPT !.op = "cancel", !.pc = "locks", !.want = <<a>>, !.appt = a])

CancelReads(c) ==
  LET a == call[c].appt IN
  /\ At(c, "cancel", "read") /\ status[a] \notin Terminal
  /\ call' = [call EXCEPT ![c].pc = "commit",
                          ![c].in = IF status[a] \in Active THEN slotOf[a] ELSE NoKey]
  /\ UNCHANGED <<rows, slots, hold, lock, sweepVars, faultVars, overtaken>>

CancelDeclines(c) ==
  /\ At(c, "cancel", "read") /\ status[call[c].appt] \in Terminal
  /\ Leave(c)
  /\ UNCHANGED <<rows, slots, hold, lock, sweepVars, faultVars, overtaken>>

\* The transaction gives back the slot of the row that was read before it.
CancelCommits(c) ==
  LET a == call[c].appt
      s == call[c].in
      frees == s # NoKey
  IN
  /\ At(c, "cancel", "commit")
  /\ reserved' = IF frees THEN Decremented(s) ELSE reserved
  /\ open' = IF frees THEN Closed(a, s) ELSE open
  /\ status' = [status EXCEPT ![a] = "ENDED"]
  /\ expiry' = [expiry EXCEPT ![a] = "null"]
  /\ Overtakes(frees /\ (status[a] = "ENDED" \/ slotOf[a] # s))
  /\ IF frees THEN Goto(c, "dropHold") ELSE Leave(c)
  /\ UNCHANGED <<slotOf, hold, lock, sweepVars, faultVars>>

-----------------------------------------------------------------------------
(* reschedule *)

\* The row is read before its lock is taken.  A move to the slot it already has
\* asks for that slot's lock twice.
RescheduleBegins(c, a, s) ==
  /\ status[a] \notin {"COMPLETED", "NO_SHOW", "ENDED"}
  /\ Begins(c, [NoCall EXCEPT !.op = "reschedule", !.pc = "locks",
                  !.want = IF slotOf[a] = NoKey THEN <<a, s>> ELSE <<a, slotOf[a], s>>,
                  !.appt = a, !.slot = s])

\* reservedCount of the new slot, once the old one has been given back.
RoomAfterMove(a) == IF slotOf[a] = NoKey THEN reserved ELSE Decremented(slotOf[a])

\* It gives back the slot the row has now, and does not look at its status.
RescheduleCommits(c) ==
  LET a == call[c].appt
      s == call[c].slot
      room == RoomAfterMove(a)
      rest == IF slotOf[a] = NoKey THEN open ELSE Closed(a, slotOf[a])
  IN
  /\ At(c, "reschedule", "commit")
  /\ room[s] < Capacity
  /\ reserved' = [room EXCEPT ![s] = @ + 1]
  /\ open' = rest \cup {<<a, s>>}
  /\ status' = [status EXCEPT ![a] = "BOOKED"]
  /\ slotOf' = [slotOf EXCEPT ![a] = s]
  /\ expiry' = [expiry EXCEPT ![a] = "null"]
  /\ Overtakes(status[a] = "ENDED")
  /\ Leave(c)
  /\ UNCHANGED <<hold, lock, sweepVars, faultVars>>

RescheduleRefused(c) ==
  /\ At(c, "reschedule", "commit")
  /\ RoomAfterMove(call[c].appt)[call[c].slot] >= Capacity
  /\ Leave(c)
  /\ UNCHANGED <<rows, slots, hold, lock, sweepVars, faultVars, overtaken>>

-----------------------------------------------------------------------------
(* meetingState.transition and checkAvailability *)

\* A read and an update of the row, without lock and without transaction.
MeetBegins(c, a, n) ==
  /\ n \in Meeting /\ n \in Allowed(status[a])
  /\ Begins(c, [NoCall EXCEPT !.op = "meet", !.pc = "commit", !.appt = a, !.next = n])

\* checkAvailability does the same, and writes the status it has read.
ProposeBegins(c, a) ==
  /\ status[a] \notin Terminal
  /\ Begins(c, [NoCall EXCEPT !.op = "meet", !.pc = "commit", !.appt = a, !.next = status[a]])

MeetCommits(c) ==
  LET a == call[c].appt IN
  /\ At(c, "meet", "commit")
  /\ status' = [status EXCEPT ![a] = call[c].next]
  /\ Overtakes(status[a] = "ENDED")
  /\ Leave(c)
  /\ UNCHANGED <<slotOf, expiry, slots, hold, lock, sweepVars, faultVars>>

-----------------------------------------------------------------------------
(* reconcileExpiredHolds, one appointment after the other *)

Overdue(a) == status[a] = "HOLD" /\ expiry[a] = "past"

SweepLists ==
  /\ listed = {} /\ freed = NoKey
  /\ listed' = {a \in Appointment : Overdue(a)}
  /\ listed' # {}
  /\ UNCHANGED <<rows, slots, hold, lock, call, freed, faultVars, overtaken>>

\* Mutant: the transaction relies on the list.
SweepExpiresUnchecked(a) ==
  /\ a \in listed /\ freed = NoKey /\ slotOf[a] # NoKey
  /\ listed' = listed \ {a}
  /\ reserved' = Decremented(slotOf[a])
  /\ open' = Closed(a, slotOf[a])
  /\ status' = [status EXCEPT ![a] = "ENDED"]
  /\ expiry' = [expiry EXCEPT ![a] = "null"]
  /\ freed' = slotOf[a]
  /\ UNCHANGED <<slotOf, hold, lock, call, faultVars, overtaken>>

\* The transaction looks at the status again, but not at holdExpiresAt.
SweepExpires(a) ==
  /\ a \in listed /\ freed = NoKey /\ status[a] = "HOLD"
  /\ listed' = listed \ {a}
  /\ reserved' = Decremented(slotOf[a])
  /\ open' = Closed(a, slotOf[a])
  /\ status' = [status EXCEPT ![a] = "ENDED"]
  /\ expiry' = [expiry EXCEPT ![a] = "null"]
  /\ freed' = slotOf[a]
  /\ UNCHANGED <<slotOf, hold, lock, call, faultVars, overtaken>>

SweepSkips(a) ==
  /\ a \in listed /\ freed = NoKey
  /\ \/ status[a] # "HOLD" /\ UNCHANGED faultVars
     \/ Fault    \* the transaction failed, and is left to the next sweep
  /\ listed' = listed \ {a}
  /\ UNCHANGED <<rows, slots, hold, lock, call, freed, overtaken>>

\* Whatever hold there is now; errors are swallowed.
SweepDropsHold ==
  /\ freed # NoKey
  /\ hold' = hold \/ hold' = hold \ {freed}
  /\ freed' = NoKey
  /\ UNCHANGED <<rows, slots, lock, call, listed, faultVars, overtaken>>

SweepDies ==
  /\ listed # {} \/ freed # NoKey
  /\ Fault
  /\ listed' = {} /\ freed' = NoKey
  /\ UNCHANGED <<rows, slots, hold, lock, call, overtaken>>

-----------------------------------------------------------------------------
(* The specification *)

Begin(c) ==
  \E a \in Appointment :
    \/ ConfirmBegins(c, a) \/ CancelBegins(c, a) \/ ProposeBegins(c, a)
    \/ \E s \in Slot : HoldBegins(c, a, s) \/ RescheduleBegins(c, a, s)
    \/ \E n \in Meeting : MeetBegins(c, a, n)

\* What a call does by itself.
Works(c) ==
  \/ TakesLock(c) \/ LockUnavailable(c) \/ Unlocks(c)
  \/ HoldTakesKey(c) \/ HoldUnavailable(c) \/ HoldCommits(c) \/ HoldRefused(c)
  \/ ConfirmReads(c) \/ ConfirmDeclines(c) \/ ConfirmMismatches(c)
  \/ ConfirmCommits(c) \/ DropsHold(c)
  \/ CancelReads(c) \/ CancelDeclines(c) \/ CancelCommits(c)
  \/ RescheduleCommits(c) \/ RescheduleRefused(c) \/ MeetCommits(c)

Sweeps ==
  \/ SweepLists \/ SweepDropsHold
  \/ \E a \in Appointment : SweepExpires(a) \/ SweepSkips(a)

Next ==
  \/ \E c \in Client : Begin(c) \/ Works(c) \/ Throws(c) \/ Dies(c)
  \/ Sweeps \/ SweepDies
  \/ \E k \in Key : LeaseEnds(k) \/ LeaseLapses(k)
  \/ \E s \in Slot : HoldKeyExpires(s)
  \/ \E a \in Appointment : HoldComesDue(a)

Spec == Init /\ [][Next]_vars

\* A live process goes on with its call, waits for a lock for two seconds and
\* for a transaction as long as MongoDB lets it; keys expire in Redis; the
\* sweep is a repeated job.  Nobody has to begin a call.
FairSpec ==
  /\ Spec
  /\ \A c \in Client : WF_vars(Works(c))
  /\ \A k \in Key : WF_vars(LeaseEnds(k))
  /\ WF_vars(Sweeps)

-----------------------------------------------------------------------------
(* Safety *)

Booked(s) == {a \in Appointment : slotOf[a] = s /\ status[a] = "BOOKED"}
Claims(s) == {a \in Appointment : slotOf[a] = s /\ status[a] # "ENDED"}

\* As long as no call has written a row that ended or moved after the call
\* read it, reservedCount covers every appointment of a slot, and each has an
\* open row in the reservation ledger, whatever died, failed or lost its lock,
\* and though sweep and meetings take none: so a slot is not overbooked.
BookedIsReserved ==
  ~overtaken =>
    \A s \in Slot :
      /\ Cardinality(Claims(s)) <= reserved[s]
      /\ \A a \in Claims(s) : <<a, s>> \in open

\* A confirmation or a cancellation that has its lock finds the appointment in
\* the slot it has read: no other call moves it, unless a lease ran out at work.
LockedSlotIsStable ==
  \A c \in Client :
    LET a == call[c].appt IN
    /\ ~lapsed
    /\ At(c, "confirm", "commit") \/ At(c, "cancel", "commit")
    => /\ lock[a] = c
       /\ call[c].in \in {slotOf[a], NoKey}

(* Liveness *)

\* No call waits for ever, though holdSlot takes the slot's lock before the
\* appointment's and reschedule the appointment's before the slots'.
CallsEnd == \A c \in Client : call[c].pc # "idle" ~> call[c].pc = "idle"

\* A lock that a failed or dead call left behind does not stay.
LocksAreFreed == \A k \in Key : lock[k] # Free ~> lock[k] = Free

\* A hold that is due is confirmed, cancelled, moved, renewed or expired.
DueHoldEnds ==
  \A a \in Appointment : Overdue(a) ~> ~Overdue(a)

\* All three: no call, no lock and no hold stays for ever.
NothingIsStuck == CallsEnd /\ LocksAreFreed /\ DueHoldEnds

(* What the tests of the repository say, and the code does not do *)

\* tests/appointment.phase5c.test.ts: "phase5c double booking race blocks
\* second confirmer deterministically".
NoDoubleBooking == \A s \in Slot : Cardinality(Booked(s)) <= Capacity

=============================================================================
