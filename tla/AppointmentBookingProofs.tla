----------------------- MODULE AppointmentBookingProofs -----------------------
(***************************************************************************)
(* Proofs about AppointmentBooking, for every finite set of appointments   *)
(* and all values of the other constants.                                  *)
(***************************************************************************)
EXTENDS AppointmentBooking, FiniteSetTheorems, TLAPS

-----------------------------------------------------------------------------
(* Frames *)

Locking == {"hold", "confirm", "cancel", "reschedule"}

\* What a call may rely on: it has its arguments, and while it waits for locks
\* there is one to wait for.
Frame ==
  {f \in Call :
    /\ f.op # "none" => f.appt \in Appointment
    /\ f.op \in {"hold", "reschedule"} => f.slot \in Slot
    /\ f.pc = "locks" => f.op \in Locking /\ f.want # <<>>}

\* TypeOK with the frames, without the two flags.
Typed ==
  /\ status \in [Appointment -> Status]
  /\ slotOf \in [Appointment -> Slot \cup {NoKey}]
  /\ expiry \in [Appointment -> {"null", "ahead", "past"}]
  /\ reserved \in [Slot -> 0..Capacity]
  /\ open \subseteq Appointment \X Slot
  /\ hold \subseteq Slot
  /\ lock \in [Key -> Client \cup {Free, Leaked}]
  /\ call \in [Client -> Frame]
  /\ listed \subseteq Appointment
  /\ freed \in Slot \cup {NoKey}
  /\ faults \in 0..MaxFaults

Flags == lapsed \in BOOLEAN /\ overtaken \in BOOLEAN

LEMMA NoCallIsFrame ==
  /\ NoCall \in Frame
  /\ [NoCall EXCEPT !.pc = "unlock"] \in Frame
  <1>1. << >> \in Seq(Key)
    OBVIOUS
  <1>2. NoCall \in Call
    BY <1>1 DEF NoCall, Call, Op, PC, Status
  <1>3. [NoCall EXCEPT !.pc = "unlock"] \in Call
    BY <1>1 DEF NoCall, Call, Op, PC, Status
  <1>4. QED BY <1>2, <1>3 DEF Frame, NoCall

LEMMA LeavesFrame ==
  ASSUME NEW c \in Client, call \in [Client -> Frame], Leave(c)
  PROVE  call' \in [Client -> Frame]
  BY NoCallIsFrame DEF Leave

LEMMA GoesFrame ==
  ASSUME NEW c \in Client, NEW p \in PC \ {"locks"}, call \in [Client -> Frame], Goto(c, p)
  PROVE  call' \in [Client -> Frame]
  <1>1. call[c] \in Frame
    OBVIOUS
  <1>2. [call[c] EXCEPT !.pc = p] \in Frame
    BY <1>1 DEF Frame, Call
  <1>3. call' = [call EXCEPT ![c] = [call[c] EXCEPT !.pc = p]]
    BY DEF Goto
  <1>4. QED BY <1>2, <1>3

LEMMA ReadsFrame ==
  ASSUME NEW c \in Client, NEW s \in Slot \cup {NoKey}, call \in [Client -> Frame],
         call' = [call EXCEPT ![c].pc = "commit", ![c].in = s]
  PROVE  call' \in [Client -> Frame]
  <1>1. call[c] \in Frame
    OBVIOUS
  <1>2. [call[c] EXCEPT !.pc = "commit", !.in = s] \in Frame
    BY <1>1 DEF Frame, Call, PC
  <1>3. call' = [call EXCEPT ![c] = [call[c] EXCEPT !.pc = "commit", !.in = s]]
    OBVIOUS
  <1>4. QED BY <1>2, <1>3

LEMMA TakesFrame ==
  ASSUME NEW c \in Client, call \in [Client -> Frame], TakesLock(c)
  PROVE  call' \in [Client -> Frame] /\ Head(call[c].want) \in Key
  <1> DEFINE keys == call[c].want
             p == IF Tail(keys) = <<>> THEN AfterLocks[call[c].op] ELSE call[c].pc
  <1>1. /\ call[c] \in Call /\ call[c].op \in Locking /\ keys \in Seq(Key) /\ keys # <<>>
        /\ call[c].pc = "locks" /\ call[c].appt \in Appointment
        /\ call[c].op \in {"hold", "reschedule"} => call[c].slot \in Slot
    BY DEF TakesLock, Frame, Call, Locking
  <1>2. Tail(keys) \in Seq(Key) /\ Head(keys) \in Key
    BY <1>1
  <1>3. p \in PC /\ (p = "locks" => Tail(keys) # <<>>)
    BY <1>1 DEF AfterLocks, Locking, PC
  <1>4. [call[c] EXCEPT !.want = Tail(keys), !.pc = p] \in Frame
    <2> HIDE DEF p, keys
    <2>1. [call[c] EXCEPT !.want = Tail(keys), !.pc = p] \in Call
      BY <1>1, <1>2, <1>3 DEF Call
    <2>2. QED BY <2>1, <1>1, <1>3 DEF Frame, Call
  <1>5. call' = [call EXCEPT ![c] = [call[c] EXCEPT !.want = Tail(keys), !.pc = p]]
    BY DEF TakesLock
  <1>6. call' \in [Client -> Frame]
    <2> HIDE DEF p, keys
    <2>1. QED BY <1>4, <1>5
  <1>7. QED BY <1>6, <1>2

LEMMA BeginsFrame ==
  ASSUME NEW c \in Client, NEW f \in Frame, call \in [Client -> Frame], Begins(c, f)
  PROVE  call' \in [Client -> Frame]
  BY DEF Begins

\* The frames that calls begin with.
LEMMA LockingFrame ==
  ASSUME NEW o \in Locking, NEW w \in Seq(Key), w # << >>, NEW a \in Appointment
  PROVE
    /\ \A s \in Slot :
         [NoCall EXCEPT !.op = o, !.pc = "locks", !.want = w, !.appt = a, !.slot = s] \in Frame
    /\ o \notin {"hold", "reschedule"} =>
         [NoCall EXCEPT !.op = o, !.pc = "locks", !.want = w, !.appt = a] \in Frame
  <1>1. o \in Op /\ "locks" \in PC /\ "REQUESTED" \in Status
    BY DEF Op, Locking, PC, Status
  <1>2. /\ \A s \in Slot :
             [NoCall EXCEPT !.op = o, !.pc = "locks", !.want = w, !.appt = a, !.slot = s] \in Call
        /\ [NoCall EXCEPT !.op = o, !.pc = "locks", !.want = w, !.appt = a] \in Call
    BY <1>1 DEF NoCall, Call
  <1>3. QED BY <1>2 DEF Frame, NoCall

LEMMA MeetingFrame ==
  ASSUME NEW a \in Appointment, NEW n \in Status
  PROVE  [NoCall EXCEPT !.op = "meet", !.pc = "commit", !.appt = a, !.next = n] \in Frame
  <1>1. << >> \in Seq(Key) /\ "meet" \in Op /\ "commit" \in PC
    BY DEF Op, PC
  <1>2. [NoCall EXCEPT !.op = "meet", !.pc = "commit", !.appt = a, !.next = n] \in Call
    BY <1>1 DEF NoCall, Call
  <1>3. QED BY <1>2 DEF Frame, NoCall

LEMMA FirstFrame ==
  ASSUME NEW c \in Client, Typed, Begin(c)
  PROVE  \E f \in Frame : Begins(c, f)
  <1>1. \A a \in Appointment, s \in Slot :
          /\ <<s, a>> \in Seq(Key) /\ <<s, a>> # << >>
          /\ <<a, s>> \in Seq(Key) /\ <<a, s>> # << >>
    BY DEF Key
  <1>2. \A a \in Appointment, r \in Slot, s \in Slot :
          <<a, r, s>> \in Seq(Key) /\ <<a, r, s>> # << >>
    BY DEF Key
  <1>3. PICK a \in Appointment :
          \/ ConfirmBegins(c, a) \/ CancelBegins(c, a) \/ ProposeBegins(c, a)
          \/ \E s \in Slot : HoldBegins(c, a, s) \/ RescheduleBegins(c, a, s)
          \/ \E n \in Meeting : MeetBegins(c, a, n)
    BY Zenon DEF Begin
  <1>4. CASE ConfirmBegins(c, a)
    <2>1. <<a>> \in Seq(Key) /\ <<a>> # << >>
      BY DEF Key
    <2>2. QED BY <1>4, <2>1, LockingFrame DEF ConfirmBegins, Locking
  <1>5. CASE CancelBegins(c, a)
    <2>1. <<a>> \in Seq(Key) /\ <<a>> # << >>
      BY DEF Key
    <2>2. QED BY <1>5, <2>1, LockingFrame DEF CancelBegins, Locking
  <1>6. CASE ProposeBegins(c, a)
    BY <1>6, MeetingFrame DEF ProposeBegins, Typed
  <1>7. CASE \E s \in Slot : HoldBegins(c, a, s) \/ RescheduleBegins(c, a, s)
    <2>1. PICK s \in Slot : HoldBegins(c, a, s) \/ RescheduleBegins(c, a, s)
      BY <1>7
    <2>2. CASE HoldBegins(c, a, s)
      BY <2>2, <1>1, LockingFrame DEF HoldBegins, Locking
    <2>3. CASE RescheduleBegins(c, a, s)
      <3> DEFINE w == IF slotOf[a] = NoKey THEN <<a, s>> ELSE <<a, slotOf[a], s>>
      <3>1. slotOf[a] = NoKey \/ slotOf[a] \in Slot
        BY DEF Typed
      <3>2. w \in Seq(Key) /\ w # << >>
        <4>1. CASE slotOf[a] = NoKey
          BY <4>1, <1>1
        <4>2. CASE slotOf[a] # NoKey
          BY <4>2, <3>1, <1>2
        <4>3. QED BY <4>1, <4>2
      <3>3. Begins(c, [NoCall EXCEPT !.op = "reschedule", !.pc = "locks", !.want = w,
                                     !.appt = a, !.slot = s])
        BY <2>3 DEF RescheduleBegins
      <3> HIDE DEF w
      <3>4. QED BY <3>2, <3>3, LockingFrame DEF Locking
    <2>4. QED BY <2>1, <2>2, <2>3
  <1>8. CASE \E n \in Meeting : MeetBegins(c, a, n)
    <2>1. PICK n \in Meeting : MeetBegins(c, a, n)
      BY <1>8
    <2>2. n \in Status
      BY MeetingAssumption DEF Status
    <2>3. QED BY <2>1, <2>2, MeetingFrame DEF MeetBegins
  <1>9. QED BY <1>3, <1>4, <1>5, <1>6, <1>7, <1>8
-----------------------------------------------------------------------------
(* Types *)

LEMMA CountFrame ==
  ASSUME NEW s \in Slot, NEW r \in [Slot -> 0..Capacity]
  PROVE  /\ r[s] < Capacity => [r EXCEPT ![s] = @ + 1] \in [Slot -> 0..Capacity]
         /\ [r EXCEPT ![s] = IF @ > 0 THEN @ - 1 ELSE 0] \in [Slot -> 0..Capacity]
  BY BookingAssumption

LEMMA FaultFrame ==
  ASSUME Typed, Fault
  PROVE  faults' \in 0..MaxFaults
  BY BookingAssumption DEF Typed, Fault

LEMMA LockFrame ==
  ASSUME NEW c \in Client, Typed
  PROVE  /\ Released(c) \in [Key -> Client \cup {Free, Leaked}]
         /\ LeftBehind(c) \in [Key -> Client \cup {Free, Leaked}]
  BY DEF Typed, Released, LeftBehind

LEMMA CallTyped ==
  ASSUME NEW c \in Client, Typed, Begin(c) \/ Works(c) \/ Throws(c) \/ Dies(c)
  PROVE  Typed'
  <1>c. call[c] \in Frame
    BY DEF Typed
  <1>h. At(c, "hold", "redis") \/ At(c, "hold", "commit") \/ At(c, "reschedule", "commit")
          => call[c].appt \in Appointment /\ call[c].slot \in Slot
    BY <1>c DEF Frame, At
  <1>a. /\ At(c, "confirm", "read") \/ At(c, "confirm", "commit") => call[c].appt \in Appointment
        /\ At(c, "cancel", "read") \/ At(c, "cancel", "commit") => call[c].appt \in Appointment
        /\ At(c, "meet", "commit") => call[c].appt \in Appointment
    BY <1>c DEF Frame, At
  <1>n. call[c].in \in Slot \cup {NoKey} /\ call[c].next \in Status
    BY <1>c DEF Frame, Call
  <1>f. /\ call \in [Client -> Frame]
        /\ "commit" \in PC \ {"locks"} /\ "dropHold" \in PC \ {"locks"}
    BY DEF Typed, PC
  <1>1. CASE Begin(c)
    <2>1. PICK f \in Frame : Begins(c, f)
      BY <1>1, FirstFrame
    <2>2. call' \in [Client -> Frame]
      BY <2>1, BeginsFrame DEF Typed
    <2>3. QED BY <2>1, <2>2 DEF Typed, Begins, rows, slots, sweepVars, faultVars
  <1>2. CASE TakesLock(c)
    <2>1. call' \in [Client -> Frame] /\ Head(call[c].want) \in Key
      BY <1>2, <1>f, TakesFrame
    <2>2. lock' \in [Key -> Client \cup {Free, Leaked}]
      BY <1>2, <2>1 DEF Typed, TakesLock
    <2>3. QED BY <1>2, <2>1, <2>2 DEF Typed, TakesLock, rows, slots, sweepVars, faultVars
  <1>3. CASE LockUnavailable(c)
    <2>1. call' \in [Client -> Frame]
      BY <1>3, <1>f, NoCallIsFrame DEF LockUnavailable
    <2>2. lock' \in [Key -> Client \cup {Free, Leaked}]
      BY <1>3, LockFrame DEF LockUnavailable
    <2>3. faults' \in 0..MaxFaults
      BY <1>3, FaultFrame DEF LockUnavailable, Typed, faultVars
    <2>4. QED BY <1>3, <2>1, <2>2, <2>3
          DEF Typed, LockUnavailable, rows, slots, sweepVars, faultVars
  <1>4. CASE Unlocks(c)
    <2>1. call' \in [Client -> Frame]
      BY <1>4, <1>f, NoCallIsFrame DEF Unlocks
    <2>2. lock' \in [Key -> Client \cup {Free, Leaked}]
      BY <1>4, LockFrame DEF Unlocks
    <2>3. faults' \in 0..MaxFaults
      BY <1>4, FaultFrame DEF Unlocks, Typed, faultVars
    <2>4. QED BY <1>4, <2>1, <2>2, <2>3 DEF Typed, Unlocks, rows, slots, sweepVars, faultVars
  <1>5. CASE Dies(c)
    <2>1. call' \in [Client -> Frame]
      BY <1>5, <1>f, NoCallIsFrame DEF Dies
    <2>2. lock' \in [Key -> Client \cup {Free, Leaked}]
      BY <1>5, LockFrame DEF Dies
    <2>3. faults' \in 0..MaxFaults
      BY <1>5, FaultFrame DEF Dies, Typed, faultVars
    <2>4. QED BY <1>5, <2>1, <2>2, <2>3 DEF Typed, Dies, rows, slots, sweepVars, faultVars
  <1>6. CASE Throws(c)
    <2>1. call' \in [Client -> Frame] /\ faults' \in 0..MaxFaults
      BY <1>6, <1>f, LeavesFrame, FaultFrame DEF Throws
    <2>2. QED BY <1>6, <2>1 DEF Typed, Throws, rows, slots, sweepVars, faultVars
  <1>7. CASE HoldUnavailable(c)
    <2>1. call' \in [Client -> Frame]
      BY <1>7, <1>f, LeavesFrame DEF HoldUnavailable
    <2>2. QED BY <1>7, <2>1 DEF Typed, HoldUnavailable, rows, slots, sweepVars, faultVars
  <1>8. CASE HoldRefused(c)
    <2>1. call' \in [Client -> Frame]
      BY <1>8, <1>f, LeavesFrame DEF HoldRefused
    <2>2. QED BY <1>8, <2>1 DEF Typed, HoldRefused, rows, slots, sweepVars, faultVars
  <1>9. CASE ConfirmDeclines(c)
    <2>1. call' \in [Client -> Frame]
      BY <1>9, <1>f, LeavesFrame DEF ConfirmDeclines
    <2>2. QED BY <1>9, <2>1 DEF Typed, ConfirmDeclines, rows, slots, sweepVars, faultVars
  <1>10. CASE ConfirmMismatches(c)
    <2>1. call' \in [Client -> Frame]
      BY <1>10, <1>f, LeavesFrame DEF ConfirmMismatches
    <2>2. QED BY <1>10, <2>1 DEF Typed, ConfirmMismatches, rows, slots, sweepVars, faultVars
  <1>11. CASE CancelDeclines(c)
    <2>1. call' \in [Client -> Frame]
      BY <1>11, <1>f, LeavesFrame DEF CancelDeclines
    <2>2. QED BY <1>11, <2>1 DEF Typed, CancelDeclines, rows, slots, sweepVars, faultVars
  <1>12. CASE RescheduleRefused(c)
    <2>1. call' \in [Client -> Frame]
      BY <1>12, <1>f, LeavesFrame DEF RescheduleRefused
    <2>2. QED BY <1>12, <2>1 DEF Typed, RescheduleRefused, rows, slots, sweepVars, faultVars
  <1>13. CASE HoldTakesKey(c)
    <2>1. call' \in [Client -> Frame]
      BY <1>13, <1>f, GoesFrame DEF HoldTakesKey
    <2>2. hold' \subseteq Slot
      BY <1>13, <1>h DEF Typed, HoldTakesKey
    <2>3. QED BY <1>13, <2>1, <2>2 DEF Typed, HoldTakesKey, rows, slots, sweepVars, faultVars
  <1>14. CASE HoldCommits(c)
    <2>1. call' \in [Client -> Frame]
      BY <1>14, <1>f, LeavesFrame DEF HoldCommits
    <2>2. reserved' \in [Slot -> 0..Capacity]
      BY <1>14, <1>h, CountFrame DEF Typed, HoldCommits
    <2>3. open' \subseteq Appointment \X Slot
      BY <1>14, <1>h DEF Typed, HoldCommits
    <2>4. /\ status' \in [Appointment -> Status] /\ slotOf' \in [Appointment -> Slot \cup {NoKey}]
          /\ expiry' \in [Appointment -> {"null", "ahead", "past"}]
      BY <1>14, <1>h DEF Typed, HoldCommits, Status
    <2>5. QED BY <1>14, <2>1, <2>2, <2>3, <2>4
          DEF Typed, HoldCommits, rows, slots, sweepVars, faultVars
  <1>15. CASE ConfirmReads(c)
    <2>1. slotOf[call[c].appt] \in Slot \cup {NoKey}
      BY <1>15, <1>a DEF Typed, ConfirmReads
    <2>2. call' \in [Client -> Frame]
      BY <1>15, <1>f, <2>1, ReadsFrame DEF ConfirmReads
    <2>3. QED BY <1>15, <2>2 DEF Typed, ConfirmReads, rows, slots, sweepVars, faultVars
  <1>16. CASE CancelReads(c)
    <2>1. slotOf[call[c].appt] \in Slot \cup {NoKey}
      BY <1>16, <1>a DEF Typed, CancelReads
    <2>2. call' \in [Client -> Frame]
      BY <1>16, <1>f, <2>1, ReadsFrame DEF CancelReads
    <2>3. QED BY <1>16, <2>2 DEF Typed, CancelReads, rows, slots, sweepVars, faultVars
  <1>17. CASE ConfirmCommits(c)
    <2>1. call' \in [Client -> Frame]
      BY <1>17, <1>f, GoesFrame DEF ConfirmCommits
    <2>2. /\ status' \in [Appointment -> Status]
          /\ expiry' \in [Appointment -> {"null", "ahead", "past"}]
      BY <1>17, <1>a DEF Typed, ConfirmCommits, Status
    <2>3. QED BY <1>17, <2>1, <2>2 DEF Typed, ConfirmCommits, rows, slots, sweepVars, faultVars
  <1>18. CASE DropsHold(c)
    <2>1. call' \in [Client -> Frame]
      BY <1>18, <1>f, LeavesFrame DEF DropsHold
    <2>2. hold' \subseteq Slot
      BY <1>18 DEF Typed, DropsHold
    <2>3. QED BY <1>18, <2>1, <2>2 DEF Typed, DropsHold, rows, slots, sweepVars, faultVars
  <1>19. CASE CancelCommits(c)
    <2>1. call' \in [Client -> Frame]
      BY <1>19, <1>f, GoesFrame, LeavesFrame DEF CancelCommits
    <2>2. reserved' \in [Slot -> 0..Capacity]
      BY <1>19, <1>n, CountFrame DEF Typed, CancelCommits, Decremented
    <2>3. open' \subseteq Appointment \X Slot
      BY <1>19 DEF Typed, CancelCommits, Closed
    <2>4. /\ status' \in [Appointment -> Status]
          /\ expiry' \in [Appointment -> {"null", "ahead", "past"}]
      BY <1>19, <1>a DEF Typed, CancelCommits, Status
    <2>5. QED BY <1>19, <2>1, <2>2, <2>3, <2>4
          DEF Typed, CancelCommits, rows, slots, sweepVars, faultVars
  <1>20. CASE RescheduleCommits(c)
    <2>1. call' \in [Client -> Frame]
      BY <1>20, <1>f, LeavesFrame DEF RescheduleCommits
    <2>2. slotOf[call[c].appt] \in Slot \cup {NoKey}
      BY <1>20, <1>h DEF Typed, RescheduleCommits
    <2>3. RoomAfterMove(call[c].appt) \in [Slot -> 0..Capacity]
      BY <2>2, CountFrame DEF Typed, RoomAfterMove, Decremented
    <2>4. reserved' \in [Slot -> 0..Capacity]
      BY <1>20, <1>h, <2>3, CountFrame DEF RescheduleCommits
    <2>5. open' \subseteq Appointment \X Slot
      BY <1>20, <1>h DEF Typed, RescheduleCommits, Closed
    <2>6. /\ status' \in [Appointment -> Status] /\ slotOf' \in [Appointment -> Slot \cup {NoKey}]
          /\ expiry' \in [Appointment -> {"null", "ahead", "past"}]
      BY <1>20, <1>h DEF Typed, RescheduleCommits, Status
    <2>7. QED BY <1>20, <2>1, <2>4, <2>5, <2>6
          DEF Typed, RescheduleCommits, rows, slots, sweepVars, faultVars
  <1>21. CASE MeetCommits(c)
    <2>1. call' \in [Client -> Frame]
      BY <1>21, <1>f, LeavesFrame DEF MeetCommits
    <2>2. status' \in [Appointment -> Status]
      BY <1>21, <1>a, <1>n DEF Typed, MeetCommits
    <2>3. QED BY <1>21, <2>1, <2>2 DEF Typed, MeetCommits, rows, slots, sweepVars, faultVars
  <1>22. QED BY <1>1, <1>2, <1>3, <1>4, <1>5, <1>6, <1>7, <1>8, <1>9, <1>10, <1>11, <1>12, <1>13,
        <1>14, <1>15, <1>16, <1>17, <1>18, <1>19, <1>20, <1>21 DEF Works

LEMMA ElseTyped ==
  ASSUME Typed,
         \/ Sweeps \/ SweepDies
         \/ \E k \in Key : LeaseEnds(k) \/ LeaseLapses(k)
         \/ \E s \in Slot : HoldKeyExpires(s)
         \/ \E a \in Appointment : HoldComesDue(a)
  PROVE  Typed'
  <1>1. ASSUME NEW a \in Appointment, SweepExpires(a)
        PROVE  Typed'
    <2>1. slotOf[a] \in Slot \cup {NoKey}
      BY DEF Typed
    <2>2. reserved' \in [Slot -> 0..Capacity]
      BY <1>1, <2>1, CountFrame DEF Typed, SweepExpires, Decremented
    <2>3. open' \subseteq Appointment \X Slot
      BY <1>1 DEF Typed, SweepExpires, Closed
    <2>4. /\ status' \in [Appointment -> Status]
          /\ expiry' \in [Appointment -> {"null", "ahead", "past"}]
      BY <1>1 DEF Typed, SweepExpires, Status
    <2>5. QED BY <1>1, <2>1, <2>2, <2>3, <2>4
          DEF Typed, SweepExpires, rows, slots, sweepVars, faultVars
  <1>2. ASSUME NEW a \in Appointment, SweepSkips(a)
        PROVE  Typed'
    BY <1>2, FaultFrame DEF Typed, SweepSkips, rows, slots, sweepVars, faultVars
  <1>3. CASE SweepLists
    BY <1>3 DEF Typed, SweepLists, rows, slots, sweepVars, faultVars
  <1>4. CASE SweepDropsHold
    BY <1>4 DEF Typed, SweepDropsHold, rows, slots, sweepVars, faultVars
  <1>5. CASE SweepDies
    BY <1>5, FaultFrame DEF Typed, SweepDies, rows, slots, sweepVars, faultVars
  <1>6. ASSUME NEW k \in Key, LeaseEnds(k)
        PROVE  Typed'
    BY <1>6 DEF Typed, LeaseEnds, rows, slots, sweepVars, faultVars
  <1>7. ASSUME NEW k \in Key, LeaseLapses(k)
        PROVE  Typed'
    BY <1>7, BookingAssumption DEF Typed, LeaseLapses, rows, slots, sweepVars, faultVars
  <1>8. ASSUME NEW s \in Slot, HoldKeyExpires(s)
        PROVE  Typed'
    BY <1>8 DEF Typed, HoldKeyExpires, rows, slots, sweepVars, faultVars
  <1>9. ASSUME NEW a \in Appointment, HoldComesDue(a)
        PROVE  Typed'
    BY <1>9 DEF Typed, HoldComesDue, rows, slots, sweepVars, faultVars
  <1>10. QED
    BY <1>1, <1>2, <1>3, <1>4, <1>5, <1>6, <1>7, <1>8, <1>9, Zenon DEF Sweeps

LEMMA StepTyped ==
  ASSUME Typed, [Next]_vars
  PROVE  Typed'
  <1>1. CASE Next
    BY <1>1, CallTyped, ElseTyped, Zenon DEF Next
  <1>2. CASE UNCHANGED vars
    BY <1>2 DEF Typed, vars, rows, slots, sweepVars, faultVars
  <1>3. QED BY <1>1, <1>2

\* What a step leaves of the appointments, unless it commits a transaction.
Quiet ==
  UNCHANGED <<status, slotOf, reserved, open, overtaken>>

LEMMA StepIsQuiet ==
  ASSUME [Next]_vars
  PROVE
    \/ Quiet /\ (lapsed' = lapsed \/ lapsed' = TRUE)
    \/ /\ lapsed' = lapsed
       /\ \/ \E c \in Client :
               \/ HoldCommits(c) \/ ConfirmCommits(c) \/ CancelCommits(c)
               \/ RescheduleCommits(c) \/ MeetCommits(c)
          \/ \E a \in Appointment : SweepExpires(a)
  <1>1. ASSUME NEW c \in Client, Begin(c)
        PROVE  Quiet /\ lapsed' = lapsed
    BY <1>1
    DEF Begin, ConfirmBegins, CancelBegins, ProposeBegins, HoldBegins, RescheduleBegins,
        MeetBegins, Begins, Quiet, rows, slots, faultVars
  <1>2. ASSUME NEW c \in Client, Throws(c) \/ Dies(c)
        PROVE  Quiet /\ lapsed' = lapsed
    BY <1>2 DEF Throws, Dies, Fault, Quiet, rows, slots
  <1>3. ASSUME NEW c \in Client, Works(c)
        PROVE  /\ lapsed' = lapsed
               /\ \/ Quiet
                  \/ HoldCommits(c) \/ ConfirmCommits(c) \/ CancelCommits(c)
                  \/ RescheduleCommits(c) \/ MeetCommits(c)
    <2>1. TakesLock(c) => Quiet /\ lapsed' = lapsed
      BY DEF TakesLock, Quiet, rows, slots, faultVars
    <2>2. LockUnavailable(c) => Quiet /\ lapsed' = lapsed
      BY DEF LockUnavailable, Quiet, rows, slots, faultVars, Fault
    <2>3. Unlocks(c) => Quiet /\ lapsed' = lapsed
      BY DEF Unlocks, Quiet, rows, slots, faultVars
    <2>4. HoldTakesKey(c) => Quiet /\ lapsed' = lapsed
      BY DEF HoldTakesKey, Quiet, rows, slots, faultVars
    <2>5. HoldUnavailable(c) => Quiet /\ lapsed' = lapsed
      BY DEF HoldUnavailable, Quiet, rows, slots, faultVars
    <2>6. HoldRefused(c) => Quiet /\ lapsed' = lapsed
      BY DEF HoldRefused, Quiet, rows, slots, faultVars
    <2>7. ConfirmReads(c) => Quiet /\ lapsed' = lapsed
      BY DEF ConfirmReads, Quiet, rows, slots, faultVars
    <2>8. ConfirmDeclines(c) => Quiet /\ lapsed' = lapsed
      BY DEF ConfirmDeclines, Quiet, rows, slots, faultVars
    <2>9. ConfirmMismatches(c) => Quiet /\ lapsed' = lapsed
      BY DEF ConfirmMismatches, Quiet, rows, slots, faultVars
    <2>10. DropsHold(c) => Quiet /\ lapsed' = lapsed
      BY DEF DropsHold, Quiet, rows, slots, faultVars
    <2>11. CancelReads(c) => Quiet /\ lapsed' = lapsed
      BY DEF CancelReads, Quiet, rows, slots, faultVars
    <2>12. CancelDeclines(c) => Quiet /\ lapsed' = lapsed
      BY DEF CancelDeclines, Quiet, rows, slots, faultVars
    <2>13. RescheduleRefused(c) => Quiet /\ lapsed' = lapsed
      BY DEF RescheduleRefused, Quiet, rows, slots, faultVars
    <2>14. /\ HoldCommits(c) => lapsed' = lapsed
           /\ ConfirmCommits(c) => lapsed' = lapsed
           /\ CancelCommits(c) => lapsed' = lapsed
           /\ RescheduleCommits(c) => lapsed' = lapsed
           /\ MeetCommits(c) => lapsed' = lapsed
      BY DEF HoldCommits, ConfirmCommits, CancelCommits, RescheduleCommits, MeetCommits, faultVars
    <2>15. \/ Quiet /\ lapsed' = lapsed
           \/ HoldCommits(c) \/ ConfirmCommits(c) \/ CancelCommits(c)
           \/ RescheduleCommits(c) \/ MeetCommits(c)
      BY <1>3, <2>1, <2>2, <2>3, <2>4, <2>5, <2>6, <2>7, <2>8, <2>9, <2>10, <2>11, <2>12, <2>13
      DEF Works
    <2>16. QED BY <2>14, <2>15
  <1>4. ASSUME Sweeps \/ SweepDies
        PROVE  /\ lapsed' = lapsed
               /\ Quiet \/ \E a \in Appointment : SweepExpires(a)
    <2>1. ASSUME NEW a \in Appointment
          PROVE  /\ SweepExpires(a) => lapsed' = lapsed
                 /\ SweepSkips(a) => Quiet /\ lapsed' = lapsed
      BY DEF SweepExpires, SweepSkips, Fault, Quiet, rows, slots, faultVars
    <2>2. SweepLists \/ SweepDropsHold \/ SweepDies => Quiet /\ lapsed' = lapsed
      BY DEF SweepLists, SweepDropsHold, SweepDies, Fault, Quiet, rows, slots, faultVars
    <2>3. QED BY <1>4, <2>1, <2>2, Zenon DEF Sweeps
  <1>5. ASSUME NEW k \in Key, LeaseEnds(k) \/ LeaseLapses(k)
        PROVE  Quiet /\ (lapsed' = lapsed \/ lapsed' = TRUE)
    BY <1>5 DEF LeaseEnds, LeaseLapses, Quiet, rows, slots, faultVars
  <1>6. ASSUME NEW s \in Slot, HoldKeyExpires(s)
        PROVE  Quiet /\ lapsed' = lapsed
    BY <1>6 DEF HoldKeyExpires, Quiet, rows, slots, faultVars
  <1>7. ASSUME NEW a \in Appointment, HoldComesDue(a)
        PROVE  Quiet /\ lapsed' = lapsed
    BY <1>7 DEF HoldComesDue, Quiet, rows, slots, faultVars
  <1>8. CASE UNCHANGED vars
    BY <1>8 DEF vars, Quiet, rows, slots, faultVars
  <1>9. CASE Next
    BY <1>9, <1>1, <1>2, <1>3, <1>4, <1>5, <1>6, <1>7, Zenon DEF Next
  <1>10. QED BY <1>8, <1>9

LEMMA StepFlags ==
  ASSUME Flags, [Next]_vars
  PROVE  Flags'
  <1>1. lapsed' \in BOOLEAN
    BY StepIsQuiet, Zenon DEF Flags
  <1>2. \/ overtaken' = overtaken
        \/ \E stale \in BOOLEAN : Overtakes(stale)
    <2>1. ASSUME NEW c \in Client
          PROVE  /\ HoldCommits(c) => overtaken' = overtaken
                 /\ ConfirmCommits(c) => \E stale \in BOOLEAN : Overtakes(stale)
                 /\ CancelCommits(c) => \E stale \in BOOLEAN : Overtakes(stale)
                 /\ RescheduleCommits(c) => \E stale \in BOOLEAN : Overtakes(stale)
                 /\ MeetCommits(c) => \E stale \in BOOLEAN : Overtakes(stale)
      BY DEF HoldCommits, ConfirmCommits, CancelCommits, RescheduleCommits, MeetCommits
    <2>2. ASSUME NEW a \in Appointment
          PROVE  SweepExpires(a) => overtaken' = overtaken
      BY DEF SweepExpires
    <2>3. Quiet => overtaken' = overtaken
      BY DEF Quiet
    <2>4. QED BY <2>1, <2>2, <2>3, StepIsQuiet, Zenon
  <1>3. overtaken' \in BOOLEAN
    BY <1>2, Zenon DEF Flags, Overtakes
  <1>4. QED BY <1>1, <1>3 DEF Flags

LEMMA InitTyped ==
  Init => Typed /\ Flags
  <1>1. 0 \in 0..Capacity /\ 0 \in 0..MaxFaults
    BY BookingAssumption
  <1>2. Init => Typed
    BY <1>1, NoCallIsFrame DEF Init, Typed, Status
  <1>3. Init => Flags
    BY DEF Init, Flags
  <1>4. QED BY <1>2, <1>3

LEMMA TypedAlways ==
  Spec => [](Typed /\ Flags)
  <1>1. Typed /\ Flags /\ [Next]_vars => (Typed /\ Flags)'
    BY StepTyped, StepFlags
  <1>2. QED BY InitTyped, <1>1, PTL DEF Spec

\* Rows, slots, keys, locks, calls, the sweep's list and the counters have their
\* types in every state, and no slot has more reservations than Capacity.
THEOREM BookingTypeCorrect == Spec => []TypeOK
  <1>1. Typed => call \in [Client -> Call]
    BY DEF Typed, Frame
  <1>2. Typed /\ Flags => TypeOK
    <2>1. Flags => lapsed \in BOOLEAN /\ overtaken \in BOOLEAN
      BY Zenon DEF Flags
    <2>2. QED BY <1>1, <2>1, Zenon DEF Typed, TypeOK
  <1>3. QED BY <1>2, TypedAlways, PTL

-----------------------------------------------------------------------------
(* Reservations *)

\* BookedIsReserved of one slot: the claims C are counted by r, and open in o.
Covers(C, r, o, s) ==
  /\ Cardinality(C) <= r
  /\ \A a \in C : <<a, s>> \in o

LEMMA CoversFewer ==
  ASSUME NEW C, NEW D, IsFiniteSet(C), D \subseteq C,
         NEW r \in Nat, NEW o, NEW p, NEW s,
         Covers(C, r, o, s), \A a \in D : <<a, s>> \in o => <<a, s>> \in p
  PROVE  Covers(D, r, p, s)
  <1>1. IsFiniteSet(D) /\ Cardinality(D) <= Cardinality(C)
    BY FS_Subset
  <1>2. Cardinality(C) \in Nat /\ Cardinality(D) \in Nat
    BY <1>1, FS_CardinalityType
  <1>3. Cardinality(D) <= r
    BY <1>1, <1>2 DEF Covers
  <1>4. QED BY <1>3 DEF Covers

LEMMA CoversGone ==
  ASSUME NEW C, NEW D, IsFiniteSet(C), NEW b \in C, D \subseteq C \ {b},
         NEW r \in Nat, NEW o, NEW p, NEW s,
         Covers(C, r, o, s), \A a \in D : <<a, s>> \in o => <<a, s>> \in p
  PROVE  r > 0 /\ Covers(D, r - 1, p, s)
  <1>1. /\ IsFiniteSet(C \ {b}) /\ Cardinality(C \ {b}) = Cardinality(C) - 1
        /\ Cardinality(C) \in Nat /\ Cardinality(C \ {b}) \in Nat
    BY FS_RemoveElement, FS_CardinalityType
  <1>2. r > 0 /\ r - 1 \in Nat /\ Cardinality(C \ {b}) <= r - 1
    BY <1>1 DEF Covers
  <1>3. Covers(C \ {b}, r - 1, o, s)
    BY <1>2 DEF Covers
  <1>4. QED BY <1>1, <1>2, <1>3, CoversFewer

LEMMA CoversMore ==
  ASSUME NEW C, NEW D, IsFiniteSet(C), NEW b, D \subseteq C \cup {b},
         NEW r \in Nat, NEW o, NEW p, NEW s,
         Covers(C, r, o, s), \A a \in D : <<a, s>> \in o \/ a = b => <<a, s>> \in p
  PROVE  Covers(D, r + 1, p, s)
  <1>1. /\ IsFiniteSet(C \cup {b}) /\ Cardinality(C \cup {b}) <= Cardinality(C) + 1
        /\ Cardinality(C) \in Nat /\ Cardinality(C \cup {b}) \in Nat
    BY FS_AddElement, FS_CardinalityType
  <1>2. IsFiniteSet(D) /\ Cardinality(D) <= Cardinality(C \cup {b})
    BY <1>1, FS_Subset
  <1>3. Cardinality(D) \in Nat
    BY <1>2, FS_CardinalityType
  <1>4. Cardinality(D) <= r + 1
    BY <1>1, <1>2, <1>3 DEF Covers
  <1>5. \A a \in D : <<a, s>> \in p
    BY DEF Covers
  <1>6. QED BY <1>4, <1>5 DEF Covers

Covered(s) == Covers(Claims(s), reserved[s], open, s)

LEMMA ClaimsFinite ==
  ASSUME NEW s
  PROVE  IsFiniteSet(Claims(s))
  <1>1. Claims(s) \subseteq Appointment
    BY DEF Claims
  <1>2. QED BY <1>1, FS_Subset, BookingAssumption

\* The step of a transaction, at each slot.
LEMMA CommitCovers ==
  ASSUME Typed, NEW s \in Slot, Covered(s), ~overtaken',
         \/ \E c \in Client :
              \/ HoldCommits(c) \/ ConfirmCommits(c) \/ CancelCommits(c)
              \/ RescheduleCommits(c) \/ MeetCommits(c)
         \/ \E a \in Appointment : SweepExpires(a)
  PROVE  Covered(s)'
  <1>t. /\ status \in [Appointment -> Status] /\ slotOf \in [Appointment -> Slot \cup {NoKey}]
        /\ reserved \in [Slot -> 0..Capacity] /\ call \in [Client -> Frame]
        /\ Capacity \in Nat /\ NoKey \notin Slot
    BY BookingAssumption DEF Typed
  <1>r. reserved[s] \in Nat
    BY <1>t
  <1>f. IsFiniteSet(Claims(s))
    BY ClaimsFinite
  <1>c. Covers(Claims(s), reserved[s], open, s)
    BY DEF Covered
  <1>1. ASSUME Claims(s)' \subseteq Claims(s), reserved'[s] = reserved[s],
               \A a \in Claims(s)' : <<a, s>> \in open => <<a, s>> \in open'
        PROVE  Covered(s)'
    BY <1>1, <1>r, <1>f, <1>c, CoversFewer DEF Covered
  <1>2. ASSUME NEW b \in Claims(s), Claims(s)' \subseteq Claims(s) \ {b},
               reserved'[s] = (IF reserved[s] > 0 THEN reserved[s] - 1 ELSE 0),
               \A a \in Claims(s)' : <<a, s>> \in open => <<a, s>> \in open'
        PROVE  Covered(s)'
    BY <1>2, <1>r, <1>f, <1>c, CoversGone DEF Covered
  <1>3. ASSUME NEW b, Claims(s)' \subseteq Claims(s) \cup {b},
               reserved'[s] = reserved[s] + 1,
               \A a \in Claims(s)' : <<a, s>> \in open \/ a = b => <<a, s>> \in open'
        PROVE  Covered(s)'
    <2>1. Covers(Claims(s)', reserved[s] + 1, open', s)
      BY <1>3, <1>r, <1>f, <1>c, CoversMore
    <2>2. QED BY <1>3, <2>1 DEF Covered
  <1>4. ASSUME NEW c \in Client, HoldCommits(c)
        PROVE  Covered(s)'
    <2> DEFINE a == call[c].appt
    <2>1. a \in Appointment /\ call[c].slot \in Slot
      BY <1>4, <1>t DEF HoldCommits, At, Frame
    <2>2. CASE call[c].slot = s
      <3>1. Claims(s)' \subseteq Claims(s) \cup {a}
        BY <1>4, <2>1, <2>2, <1>t DEF HoldCommits, Claims
      <3>2. reserved'[s] = reserved[s] + 1 /\ open' = open \cup {<<a, s>>}
        BY <1>4, <2>1, <2>2, <1>t DEF HoldCommits
      <3>3. QED BY <1>3, <3>1, <3>2
    <2>3. CASE call[c].slot # s
      <3>1. Claims(s)' \subseteq Claims(s)
        BY <1>4, <2>1, <2>3, <1>t DEF HoldCommits, Claims
      <3>2. reserved'[s] = reserved[s] /\ open \subseteq open'
        BY <1>4, <2>1, <2>3, <1>t DEF HoldCommits
      <3>3. QED BY <1>1, <3>1, <3>2
    <2>4. QED BY <2>2, <2>3
  <1>5. ASSUME NEW c \in Client, ConfirmCommits(c) \/ MeetCommits(c)
        PROVE  Covered(s)'
    <2>1. call[c].appt \in Appointment
      BY <1>5, <1>t DEF ConfirmCommits, MeetCommits, At, Frame
    <2>2. status[call[c].appt] # "ENDED"
      BY <1>5 DEF ConfirmCommits, MeetCommits, Overtakes
    <2>3. Claims(s)' \subseteq Claims(s)
      BY <1>5, <2>1, <2>2, <1>t DEF ConfirmCommits, MeetCommits, Claims
    <2>4. reserved' = reserved /\ open' = open
      BY <1>5 DEF ConfirmCommits, MeetCommits, slots
    <2>5. QED BY <1>1, <2>3, <2>4
  <1>6. ASSUME NEW c \in Client, CancelCommits(c)
        PROVE  Covered(s)'
    <2> DEFINE a == call[c].appt
    <2>1. a \in Appointment /\ call[c].in \in Slot \cup {NoKey}
      BY <1>6, <1>t DEF CancelCommits, At, Frame, Call
    <2>2. Claims(s)' \subseteq Claims(s) \ {a}
      BY <1>6, <2>1, <1>t DEF CancelCommits, Claims
    <2>3. CASE call[c].in = s
      <3>1. status[a] # "ENDED" /\ slotOf[a] = s
        BY <1>6, <2>3, <1>t DEF CancelCommits, Overtakes
      <3>2. a \in Claims(s)
        BY <2>1, <3>1 DEF Claims
      <3>3. /\ reserved'[s] = (IF reserved[s] > 0 THEN reserved[s] - 1 ELSE 0)
            /\ open' = open \ {<<a, s>>}
        BY <1>6, <2>3, <1>t DEF CancelCommits, Decremented, Closed
      <3>4. QED BY <1>2, <2>2, <3>2, <3>3
    <2>4. CASE call[c].in # s
      <3>1. /\ reserved'[s] = reserved[s]
            /\ \A b \in Claims(s)' : <<b, s>> \in open => <<b, s>> \in open'
        BY <1>6, <2>4, <2>1, <1>t DEF CancelCommits, Decremented, Closed
      <3>2. QED BY <1>1, <2>2, <3>1
    <2>5. QED BY <2>3, <2>4
  <1>7. ASSUME NEW c \in Client, RescheduleCommits(c)
        PROVE  Covered(s)'
    <2> DEFINE a   == call[c].appt
               old == slotOf[a]
               new == call[c].slot
    <2>1. a \in Appointment /\ new \in Slot /\ old \in Slot \cup {NoKey}
      BY <1>7, <1>t DEF RescheduleCommits, At, Frame
    <2>2. status[a] # "ENDED"
      BY <1>7 DEF RescheduleCommits, Overtakes
    <2>3. /\ status' = [status EXCEPT ![a] = "BOOKED"] /\ slotOf' = [slotOf EXCEPT ![a] = new]
          /\ reserved' = [RoomAfterMove(a) EXCEPT ![new] = @ + 1]
          /\ open' = (IF old = NoKey THEN open ELSE open \ {<<a, old>>}) \cup {<<a, new>>}
      BY <1>7 DEF RescheduleCommits, Closed
    <2>4. RoomAfterMove(a) = IF old = NoKey THEN reserved ELSE
            [reserved EXCEPT ![old] = IF @ > 0 THEN @ - 1 ELSE 0]
      BY DEF RoomAfterMove, Decremented
    <2> HIDE DEF a, new
    <2>5. CASE s = old /\ s = new
      <3>1. a \in Claims(s) /\ Claims(s)' \subseteq Claims(s)
        BY <2>5, <2>1, <2>2, <2>3, <1>t DEF Claims
      <3>2. reserved[s] > 0
        BY <3>1, <1>r, <1>f, <1>c, CoversGone
      <3>3. reserved'[s] = reserved[s]
        <4>1. RoomAfterMove(a) = [reserved EXCEPT ![s] = IF reserved[s] > 0 THEN reserved[s] - 1 ELSE 0]
          BY <2>5, <2>4, <1>t
        <4>2. RoomAfterMove(a)[s] = reserved[s] - 1 /\ DOMAIN RoomAfterMove(a) = Slot
          BY <4>1, <3>2, <1>t
        <4>3. reserved' = [RoomAfterMove(a) EXCEPT ![s] = RoomAfterMove(a)[s] + 1]
          BY <2>5, <2>3
        <4>4. reserved'[s] = reserved[s] - 1 + 1
          BY <4>2, <4>3
        <4>5. QED BY <4>4, <1>r
      <3>4. open \subseteq open'
        BY <2>5, <2>3
      <3>5. QED BY <1>1, <3>1, <3>3, <3>4
    <2>6. CASE s = old /\ s # new
      <3>1. a \in Claims(s) /\ Claims(s)' \subseteq Claims(s) \ {a}
        BY <2>6, <2>1, <2>2, <2>3, <1>t DEF Claims
      <3>2. reserved'[s] = (IF reserved[s] > 0 THEN reserved[s] - 1 ELSE 0)
        BY <2>6, <2>1, <2>3, <2>4, <1>t
      <3>3. open \ {<<a, s>>} \subseteq open'
        BY <2>6, <2>3
      <3>4. QED BY <1>2, <3>1, <3>2, <3>3
    <2>7. CASE s # old /\ s = new
      <3>1. Claims(s)' \subseteq Claims(s) \cup {a}
        BY <2>7, <2>1, <2>3, <1>t DEF Claims
      <3>2. reserved'[s] = reserved[s] + 1
        BY <2>7, <2>1, <2>3, <2>4, <1>t
      <3>3. \A b : <<b, s>> \in open \/ b = a => <<b, s>> \in open'
        BY <2>7, <2>3
      <3>4. QED BY <1>3, <3>1, <3>2, <3>3
    <2>8. CASE s # old /\ s # new
      <3>1. Claims(s)' \subseteq Claims(s)
        BY <2>8, <2>1, <2>3, <1>t DEF Claims
      <3>2. reserved'[s] = reserved[s]
        BY <2>8, <2>1, <2>3, <2>4, <1>t
      <3>3. \A b : <<b, s>> \in open => <<b, s>> \in open'
        BY <2>8, <2>3
      <3>4. QED BY <1>1, <3>1, <3>2, <3>3
    <2>9. QED BY <2>5, <2>6, <2>7, <2>8
  <1>8. ASSUME NEW a \in Appointment, SweepExpires(a)
        PROVE  Covered(s)'
    <2>1. Claims(s)' \subseteq Claims(s) \ {a} /\ slotOf[a] \in Slot \cup {NoKey}
      BY <1>8, <1>t DEF SweepExpires, Claims
    <2>2. CASE slotOf[a] = s
      <3>1. a \in Claims(s)
        BY <1>8, <2>2 DEF SweepExpires, Claims
      <3>2. /\ reserved'[s] = (IF reserved[s] > 0 THEN reserved[s] - 1 ELSE 0)
            /\ open' = open \ {<<a, s>>}
        BY <1>8, <2>2, <1>t DEF SweepExpires, Decremented, Closed
      <3>3. QED BY <1>2, <2>1, <3>1, <3>2
    <2>3. CASE slotOf[a] # s
      <3>1. /\ reserved'[s] = reserved[s]
            /\ \A b : <<b, s>> \in open => <<b, s>> \in open'
        BY <1>8, <2>1, <2>3, <1>t DEF SweepExpires, Decremented, Closed
      <3>2. QED BY <1>1, <2>1, <3>1
    <2>4. QED BY <2>2, <2>3
  <1>9. QED BY <1>4, <1>5, <1>6, <1>7, <1>8, Zenon

LEMMA StepCovers ==
  ASSUME Typed, [Next]_vars, NEW s \in Slot, ~overtaken => Covered(s), ~overtaken'
  PROVE  Covered(s)'
  <1>1. CASE Quiet
    BY <1>1 DEF Quiet, Covered, Claims
  <1>2. ASSUME NEW c \in Client,
               \/ HoldCommits(c) \/ ConfirmCommits(c) \/ CancelCommits(c)
               \/ RescheduleCommits(c) \/ MeetCommits(c)
        PROVE  ~overtaken
    BY <1>2
    DEF HoldCommits, ConfirmCommits, CancelCommits, RescheduleCommits, MeetCommits, Overtakes
  <1>3. ASSUME NEW a \in Appointment, SweepExpires(a)
        PROVE  ~overtaken
    BY <1>3 DEF SweepExpires
  <1>4. QED BY <1>1, <1>2, <1>3, CommitCovers, StepIsQuiet, Zenon

\* As long as no call has written over a row that ended or moved after it was
\* read, reservedCount of a slot covers its appointments, and the reservation
\* ledger has an open row for each: so no slot is overbooked.
THEOREM BookingBookedIsReserved == Spec => []BookedIsReserved
  <1> DEFINE Inv == \A s \in Slot : ~overtaken => Covered(s)
  <1>1. Init => Inv
    <2>1. ASSUME Init, NEW s \in Slot
          PROVE  Covered(s)
      <3>1. Claims(s) = {}
        BY <2>1, BookingAssumption DEF Init, Claims
      <3>2. Cardinality({}) = 0 /\ reserved[s] = 0
        BY <2>1, FS_EmptySet DEF Init
      <3>3. QED BY <3>1, <3>2 DEF Covered, Covers
    <2>2. QED BY <2>1
  <1>2. Typed /\ Inv /\ [Next]_vars => Inv'
    BY StepCovers
  <1>3. Inv => BookedIsReserved
    BY DEF Covered, Covers, BookedIsReserved
  <1>4. Spec => []Inv
    BY <1>1, <1>2, TypedAlways, PTL DEF Spec
  <1>5. QED BY <1>3, <1>4, PTL

\* A slot is booked by more appointments than it has room for only after a call
\* has written a row that ended or moved since the call read it: neither a crash,
\* an error nor a lost lock double-books by itself (README, finding 1).
THEOREM BookingOvertakingIsNeeded == Spec => [](~overtaken => NoDoubleBooking)
  <1>1. ASSUME Typed, BookedIsReserved, ~overtaken, NEW s \in Slot
        PROVE  Cardinality(Booked(s)) <= Capacity
    <2>1. IsFiniteSet(Claims(s)) /\ Booked(s) \subseteq Claims(s)
      BY ClaimsFinite DEF Booked, Claims
    <2>2. /\ IsFiniteSet(Booked(s)) /\ Cardinality(Booked(s)) <= Cardinality(Claims(s))
      BY <2>1, FS_Subset
    <2>3. Cardinality(Booked(s)) \in Nat /\ Cardinality(Claims(s)) \in Nat
      BY <2>1, <2>2, FS_CardinalityType
    <2>4. Cardinality(Claims(s)) <= reserved[s]
      BY <1>1 DEF BookedIsReserved
    <2>5. reserved[s] \in 0..Capacity
      BY <1>1 DEF Typed
    <2>6. QED BY <2>2, <2>3, <2>4, <2>5, BookingAssumption
  <1>2. Typed /\ BookedIsReserved => (~overtaken => NoDoubleBooking)
    BY <1>1 DEF NoDoubleBooking
  <1>3. QED BY <1>2, TypedAlways, BookingBookedIsReserved, PTL

-----------------------------------------------------------------------------
(* The lock of an appointment *)

Waiting(c) == \E i \in 1..Len(call[c].want) : call[c].want[i] = call[c].appt

\* A call has the lock of its appointment, or has yet to take it.
Held(c) ==
  call[c].op \in Locking =>
    /\ call[c].pc # "locks" => call[c].want = << >>
    /\ Waiting(c) \/ lock[call[c].appt] = c

\* What it has read in the row is still there.
Fresh(c) ==
  At(c, "confirm", "commit") \/ At(c, "cancel", "commit")
    => call[c].in \in {slotOf[call[c].appt], NoKey}

LEMMA HeldAtWork ==
  ASSUME NEW c \in Client, Held(c), call[c].op \in Locking, call[c].pc # "locks"
  PROVE  lock[call[c].appt] = c
  <1>1. call[c].want = << >>
    BY DEF Held
  <1>2. ~Waiting(c)
    BY <1>1 DEF Waiting
  <1>3. QED BY <1>2 DEF Held

\* A step of a client leaves the frames and the locks of the others.
LEMMA OthersKeep ==
  ASSUME Typed, NEW d \in Client, Begin(d) \/ Works(d) \/ Throws(d) \/ Dies(d),
         NEW c \in Client, c # d
  PROVE  /\ call'[c] = call[c]
         /\ \A k \in Key : lock[k] = c => lock'[k] = c
  <1>t. call \in [Client -> Frame] /\ lock \in [Key -> Client \cup {Free, Leaked}] /\ Free \notin Client
    BY BookingAssumption DEF Typed
  <1>1. CASE Begin(d)
    <2>1. PICK f \in Frame : Begins(d, f)
      BY <1>1, FirstFrame
    <2>2. QED BY <2>1, <1>t DEF Begins
  <1>2. CASE TakesLock(d)
    BY <1>2, <1>t, TakesFrame DEF TakesLock
  <1>3. CASE LockUnavailable(d) \/ Unlocks(d) \/ Dies(d)
    BY <1>3, <1>t DEF LockUnavailable, Unlocks, Dies, Released, LeftBehind
  <1>4. CASE HoldTakesKey(d) \/ HoldUnavailable(d) \/ HoldCommits(d) \/ HoldRefused(d) \/ ConfirmReads(d)
    BY <1>4, <1>t
    DEF HoldTakesKey, HoldUnavailable, HoldCommits, HoldRefused, ConfirmReads, Goto, Leave
  <1>5. CASE ConfirmDeclines(d) \/ ConfirmMismatches(d) \/ ConfirmCommits(d) \/ DropsHold(d) \/ CancelReads(d)
    BY <1>5, <1>t
    DEF ConfirmDeclines, ConfirmMismatches, ConfirmCommits, DropsHold, CancelReads, Goto, Leave
  <1>6. CASE CancelDeclines(d) \/ CancelCommits(d) \/ RescheduleCommits(d) \/ RescheduleRefused(d) \/ MeetCommits(d) \/ Throws(d)
    BY <1>6, <1>t
    DEF CancelDeclines, CancelCommits, RescheduleCommits, RescheduleRefused, MeetCommits, Throws,
        Goto, Leave
  <1>7. QED BY <1>1, <1>2, <1>3, <1>4, <1>5, <1>6 DEF Works

\* Only a call that has an appointment's lock moves it.
LEMMA MovesOwn ==
  ASSUME Typed, [Next]_vars, \A d \in Client : Held(d), NEW a \in Appointment
  PROVE  \/ slotOf'[a] = slotOf[a]
         \/ \E d \in Client : call[d].op \in {"hold", "reschedule"} /\ lock[a] = d
  <1>t. slotOf \in [Appointment -> Slot \cup {NoKey}] /\ call \in [Client -> Frame]
    BY DEF Typed
  <1>1. ASSUME NEW d \in Client, HoldCommits(d) \/ RescheduleCommits(d), slotOf'[a] # slotOf[a]
        PROVE  call[d].op \in {"hold", "reschedule"} /\ lock[a] = d
    <2>1. call[d].op \in {"hold", "reschedule"} /\ call[d].op \in Locking /\ call[d].pc # "locks"
      BY <1>1 DEF HoldCommits, RescheduleCommits, At, Locking
    <2>2. call[d].appt = a
      BY <1>1, <1>t DEF HoldCommits, RescheduleCommits
    <2>3. QED BY <2>1, <2>2, HeldAtWork
  <1>2. ASSUME NEW d \in Client, ConfirmCommits(d) \/ CancelCommits(d) \/ MeetCommits(d)
        PROVE  slotOf'[a] = slotOf[a]
    BY <1>2 DEF ConfirmCommits, CancelCommits, MeetCommits
  <1>3. ASSUME NEW b \in Appointment, SweepExpires(b)
        PROVE  slotOf'[a] = slotOf[a]
    BY <1>3 DEF SweepExpires
  <1>4. Quiet => slotOf'[a] = slotOf[a]
    BY DEF Quiet
  <1>5. QED BY <1>1, <1>2, <1>3, <1>4, StepIsQuiet, Zenon

\* A client whose call a step leaves keeps what it relies on.
LEMMA BystanderKeeps ==
  ASSUME Typed, [Next]_vars, \A d \in Client : Held(d), NEW c \in Client, Fresh(c),
         call'[c] = call[c], \A k \in Key : lock[k] = c => lock'[k] = c
  PROVE  Held(c)' /\ Fresh(c)'
  <1>t. call[c] \in Frame /\ (call[c].op \in Locking => call[c].appt \in Appointment)
    BY DEF Typed, Frame, Locking
  <1>1. Held(c)'
    <2>1. Waiting(c)' <=> Waiting(c)
      BY DEF Waiting
    <2>2. call[c].op \in Locking /\ lock[call[c].appt] = c => lock'[call[c].appt] = c
      BY <1>t DEF Key
    <2>3. QED BY <2>1, <2>2 DEF Held
  <1>2. CASE At(c, "confirm", "commit") \/ At(c, "cancel", "commit")
    <2> DEFINE a == call[c].appt
    <2>1. a \in Appointment /\ lock[a] = c /\ call[c].op \notin {"hold", "reschedule"}
      BY <1>2, <1>t, HeldAtWork DEF At, Locking
    <2>2. slotOf'[a] = slotOf[a]
      BY <2>1, MovesOwn
    <2>3. QED BY <1>1, <1>2, <2>2 DEF Fresh, At
  <1>3. CASE ~(At(c, "confirm", "commit") \/ At(c, "cancel", "commit"))
    BY <1>1, <1>3 DEF Fresh, At
  <1>4. QED BY <1>2, <1>3

\* A call that has ended, or is about to, relies on nothing.
LEMMA LeaverKeeps ==
  ASSUME NEW c \in Client, Typed, Leave(c) \/ call' = [call EXCEPT ![c] = NoCall]
  PROVE  Held(c)' /\ Fresh(c)'
  <1>1. call'[c].op = "none"
    BY DEF Typed, Leave, NoCall
  <1>2. QED BY <1>1 DEF Held, Fresh, At, Locking

\* One that goes on, without another commit, still has the lock.
LEMMA GoerKeeps ==
  ASSUME NEW c \in Client, Typed, Held(c), call[c].pc # "locks", UNCHANGED lock,
         NEW p \in {"commit", "dropHold"}, Goto(c, p),
         p = "commit" => call[c].op = "hold"
  PROVE  Held(c)' /\ Fresh(c)'
  <1>1. /\ call'[c].op = call[c].op /\ call'[c].want = call[c].want
        /\ call'[c].appt = call[c].appt /\ call'[c].pc = p
    BY DEF Typed, Goto, Frame, Call
  <1>2. Held(c)'
    BY <1>1 DEF Held, Waiting
  <1>3. Fresh(c)'
    BY <1>1 DEF Fresh, At
  <1>4. QED BY <1>2, <1>3

LEMMA ReaderKeeps ==
  ASSUME NEW c \in Client, Typed, Held(c), call[c].pc # "locks", UNCHANGED <<lock, slotOf>>,
         NEW s \in {slotOf[call[c].appt], NoKey},
         call' = [call EXCEPT ![c].pc = "commit", ![c].in = s]
  PROVE  Held(c)' /\ Fresh(c)'
  <1>1. /\ call'[c].op = call[c].op /\ call'[c].want = call[c].want
        /\ call'[c].appt = call[c].appt /\ call'[c].in = s
    BY DEF Typed, Frame, Call
  <1>2. Held(c)'
    BY <1>1 DEF Held, Waiting
  <1>3. Fresh(c)'
    BY <1>1 DEF Fresh
  <1>4. QED BY <1>2, <1>3

\* A call begins with its appointment among the locks to take.
LEMMA BeginnerKeeps ==
  ASSUME NEW c \in Client, Typed, Begin(c)
  PROVE  Held(c)' /\ Fresh(c)'
  <1>t. call \in [Client -> Frame]
    BY DEF Typed
  <1>1. PICK a \in Appointment :
          \/ ConfirmBegins(c, a) \/ CancelBegins(c, a) \/ ProposeBegins(c, a)
          \/ \E s \in Slot : HoldBegins(c, a, s) \/ RescheduleBegins(c, a, s)
          \/ \E n \in Meeting : MeetBegins(c, a, n)
    BY Zenon DEF Begin
  <1>2. CASE ConfirmBegins(c, a) \/ CancelBegins(c, a)
    <2>1. /\ call'[c].want = <<a>> /\ call'[c].appt = a /\ call'[c].pc = "locks"
      BY <1>2, <1>t DEF ConfirmBegins, CancelBegins, Begins, NoCall
    <2>2. Waiting(c)'
      BY <2>1 DEF Waiting
    <2>3. QED BY <2>1, <2>2 DEF Held, Fresh, At
  <1>3. CASE ProposeBegins(c, a) \/ \E n \in Meeting : MeetBegins(c, a, n)
    <2>1. call'[c].op = "meet"
      BY <1>3, <1>t DEF ProposeBegins, MeetBegins, Begins, NoCall
    <2>2. QED BY <2>1 DEF Held, Fresh, At, Locking
  <1>4. ASSUME NEW s \in Slot, HoldBegins(c, a, s)
        PROVE  Held(c)' /\ Fresh(c)'
    <2>1. call'[c].want = <<s, a>> /\ call'[c].appt = a /\ call'[c].pc = "locks"
      BY <1>4, <1>t DEF HoldBegins, Begins, NoCall
    <2>2. Len(call'[c].want) = 2 /\ call'[c].want[2] = a
      BY <2>1
    <2>3. Waiting(c)'
      BY <2>1, <2>2 DEF Waiting
    <2>4. QED BY <2>1, <2>3 DEF Held, Fresh, At
  <1>5. ASSUME NEW s \in Slot, RescheduleBegins(c, a, s)
        PROVE  Held(c)' /\ Fresh(c)'
    <2>1. /\ call'[c].want = <<a, s>> \/ call'[c].want = <<a, slotOf[a], s>>
          /\ call'[c].appt = a /\ call'[c].pc = "locks"
      BY <1>5, <1>t DEF RescheduleBegins, Begins, NoCall
    <2>2. Len(call'[c].want) \in {2, 3} /\ call'[c].want[1] = a
      BY <2>1
    <2>3. Waiting(c)'
      BY <2>1, <2>2 DEF Waiting
    <2>4. QED BY <2>1, <2>3 DEF Held, Fresh, At
  <1>6. QED BY <1>1, <1>2, <1>3, <1>4, <1>5, Zenon

\* The lock it takes is its appointment's, or that one is still to come.
LEMMA TakerKeeps ==
  ASSUME NEW c \in Client, Typed, Held(c), TakesLock(c)
  PROVE  Held(c)' /\ Fresh(c)'
  <1> DEFINE keys == call[c].want
             a == call[c].appt
  <1>t. /\ call[c] \in Frame /\ keys \in Seq(Key) /\ keys # << >>
        /\ call[c].op \in Locking /\ a \in Appointment
    BY DEF Typed, Frame, Call, TakesLock, Locking
  <1>1. /\ call'[c].want = Tail(keys) /\ call'[c].appt = a /\ call'[c].op = call[c].op
        /\ call'[c].pc = IF Tail(keys) = <<>> THEN AfterLocks[call[c].op] ELSE call[c].pc
        /\ call[c].pc = "locks" /\ lock' = [lock EXCEPT ![Head(keys)] = c]
    BY DEF Typed, Frame, Call, TakesLock
  <1>2. Len(keys) \in Nat \ {0} /\ Len(Tail(keys)) = Len(keys) - 1
        /\ \A i \in 1..Len(keys) - 1 : Tail(keys)[i] = keys[i + 1]
    BY <1>t
  <1>3. keys[1] = Head(keys) /\ Head(keys) \in Key /\ a \in Key
    BY <1>t DEF Key
  <1>4. Waiting(c)' \/ lock'[a] = c
    <2>1. CASE Head(keys) = a
      BY <2>1, <1>1, <1>3 DEF Typed
    <2>2. CASE Head(keys) # a /\ Waiting(c)
      <3>1. PICK i \in 1..Len(keys) : keys[i] = a
        BY <2>2 DEF Waiting
      <3>2. i # 1 /\ i - 1 \in 1..Len(keys) - 1 /\ Tail(keys)[i - 1] = keys[(i - 1) + 1]
        BY <3>1, <2>2, <1>2, <1>3
      <3>3. i - 1 \in 1..Len(Tail(keys)) /\ Tail(keys)[i - 1] = a
        BY <3>1, <3>2, <1>2
      <3>4. QED BY <3>3, <1>1 DEF Waiting
    <2>3. CASE Head(keys) # a /\ ~Waiting(c)
      <3>1. lock[a] = c
        BY <2>3, <1>t DEF Held
      <3>2. QED BY <3>1, <2>3, <1>1, <1>3 DEF Typed
    <2>4. QED BY <2>1, <2>2, <2>3
  <1>5. call'[c].pc # "locks" => call'[c].want = << >>
    BY <1>1
  <1>6. Held(c)'
    BY <1>1, <1>4, <1>5 DEF Held
  <1>7. Fresh(c)'
    BY <1>1, <1>t DEF Fresh, At, AfterLocks, Locking
  <1>8. QED BY <1>6, <1>7

LEMMA ActorKeeps ==
  ASSUME NEW c \in Client, Typed, Held(c), Begin(c) \/ Works(c) \/ Throws(c) \/ Dies(c)
  PROVE  Held(c)' /\ Fresh(c)'
  <1>1. CASE Begin(c)
    BY <1>1, BeginnerKeeps
  <1>2. CASE TakesLock(c)
    BY <1>2, TakerKeeps
  <1>3. CASE \/ LockUnavailable(c) \/ Unlocks(c) \/ Dies(c) \/ Throws(c)
             \/ HoldUnavailable(c) \/ HoldCommits(c) \/ HoldRefused(c)
    BY <1>3, LeaverKeeps
    DEF LockUnavailable, Unlocks, Dies, Throws, HoldUnavailable, HoldCommits, HoldRefused
  <1>4. CASE \/ ConfirmDeclines(c) \/ ConfirmMismatches(c) \/ DropsHold(c) \/ CancelDeclines(c)
             \/ RescheduleCommits(c) \/ RescheduleRefused(c) \/ MeetCommits(c)
    BY <1>4, LeaverKeeps
    DEF ConfirmDeclines, ConfirmMismatches, DropsHold, CancelDeclines, RescheduleCommits,
        RescheduleRefused, MeetCommits
  <1>5. CASE HoldTakesKey(c) \/ ConfirmCommits(c)
    BY <1>5, GoerKeeps DEF HoldTakesKey, ConfirmCommits, At
  <1>6. CASE CancelCommits(c)
    <2>1. call[c].pc # "locks" /\ UNCHANGED lock /\ (Goto(c, "dropHold") \/ Leave(c))
      BY <1>6 DEF CancelCommits, At
    <2>2. QED BY <2>1, GoerKeeps, LeaverKeeps
  <1>7. CASE ConfirmReads(c)
    BY <1>7, ReaderKeeps DEF ConfirmReads, At, rows
  <1>8. CASE CancelReads(c)
    <2>1. PICK s \in {slotOf[call[c].appt], NoKey} :
            call' = [call EXCEPT ![c].pc = "commit", ![c].in = s]
      BY <1>8 DEF CancelReads
    <2>2. QED BY <1>8, <2>1, ReaderKeeps DEF CancelReads, At, rows
  <1>9. QED
    BY <1>1, <1>2, <1>3, <1>4, <1>5, <1>6, <1>7, <1>8 DEF Works

Kept == lapsed \/ \A c \in Client : Held(c) /\ Fresh(c)

LEMMA StepKept ==
  ASSUME Typed, [Next]_vars, Kept
  PROVE  Kept'
  <1> SUFFICES ASSUME ~lapsed', NEW c \in Client
               PROVE  Held(c)' /\ Fresh(c)'
    BY DEF Kept
  <1>0. ~lapsed
    BY StepIsQuiet
  <1>1. \A d \in Client : Held(d) /\ Fresh(d)
    BY <1>0 DEF Kept
  <1>2. ASSUME NEW d \in Client, Begin(d) \/ Works(d) \/ Throws(d) \/ Dies(d)
        PROVE  Held(c)' /\ Fresh(c)'
    <2>1. CASE c = d
      BY <1>1, <1>2, <2>1, ActorKeeps
    <2>2. CASE c # d
      <3>1. call'[c] = call[c] /\ \A k \in Key : lock[k] = c => lock'[k] = c
        BY <1>2, <2>2, OthersKeep
      <3>2. QED BY <1>1, <3>1, BystanderKeeps
    <2>3. QED BY <2>1, <2>2
  <1>3. ASSUME call' = call, \A k \in Key : lock[k] = c => lock'[k] = c
        PROVE  Held(c)' /\ Fresh(c)'
    BY <1>1, <1>3, BystanderKeeps
  <1>4. ASSUME NEW k \in Key, LeaseEnds(k) \/ LeaseLapses(k)
        PROVE  Held(c)' /\ Fresh(c)'
    <2>1. Leaked # c
      BY BookingAssumption
    <2>2. LeaseEnds(k)
      BY <1>4 DEF LeaseLapses
    <2>3. call' = call /\ \A j \in Key : lock[j] = c => lock'[j] = c
      BY <2>1, <2>2 DEF LeaseEnds, Typed
    <2>4. QED BY <1>3, <2>3
  <1>5. CASE Sweeps \/ SweepDies
    <2>1. call' = call /\ lock' = lock
      BY <1>5 DEF Sweeps, SweepDies, SweepLists, SweepDropsHold, SweepExpires, SweepSkips
    <2>2. QED BY <1>3, <2>1
  <1>6. CASE \/ \E s \in Slot : HoldKeyExpires(s)
             \/ \E a \in Appointment : HoldComesDue(a)
             \/ UNCHANGED vars
    <2>1. call' = call /\ lock' = lock
      BY <1>6 DEF HoldKeyExpires, HoldComesDue, vars
    <2>2. QED BY <1>3, <2>1
  <1>7. QED BY <1>2, <1>4, <1>5, <1>6, Zenon DEF Next

\* Whatever a call that has its lock has read of its appointment's slot is still
\* true when it commits, as long as no lease runs out at work.
THEOREM BookingLockedSlotIsStable == Spec => []LockedSlotIsStable
  <1>1. Init => Kept
    BY DEF Init, Kept, Held, Fresh, At, NoCall, Locking
  <1>2. Typed /\ Kept /\ [Next]_vars => Kept'
    BY StepKept
  <1>3. Kept => LockedSlotIsStable
    <2>1. ASSUME NEW c \in Client, Held(c), Fresh(c),
                 At(c, "confirm", "commit") \/ At(c, "cancel", "commit")
          PROVE  lock[call[c].appt] = c /\ call[c].in \in {slotOf[call[c].appt], NoKey}
      BY <2>1, HeldAtWork DEF Fresh, At, Locking
    <2>2. QED BY <2>1, Zenon DEF Kept, LockedSlotIsStable
  <1>4. QED BY <1>1, <1>2, <1>3, TypedAlways, PTL DEF Spec

=============================================================================
