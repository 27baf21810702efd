CONSTANTS
  Appointment = {a1, a2}
  Slot = {s1, s2}
  Client = {c1, c2}
  Capacity = 1
  Meeting = {"BOOKED", "COMPLETED"}
  MaxFaults = 0
  NoKey = NoKey
  Free = Free
  Leaked = Leaked
SPECIFICATION Spec
INVARIANT TypeOK
INVARIANT BookedIsReserved
INVARIANT LockedSlotIsStable
CONSTRAINT NotOvertaken
SYMMETRY Symmetry
CHECK_DEADLOCK FALSE
