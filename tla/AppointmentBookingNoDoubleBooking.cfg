CONSTANTS
  Appointment = {a1, a2}
  Slot = {s1}
  Client = {c1, c2}
  Capacity = 1
  Meeting = {"BOOKED"}
  MaxFaults = 0
  NoKey = NoKey
  Free = Free
  Leaked = Leaked
SPECIFICATION Spec
INVARIANT NoDoubleBooking
CHECK_DEADLOCK FALSE
