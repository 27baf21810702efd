CONSTANTS
  Appointment = {a1}
  Slot = {s1}
  Client = {c1, c2}
  Capacity = 1
  Meeting = {"BOOKED"}
  MaxFaults = 1
  NoKey = NoKey
  Free = Free
  Leaked = Leaked
SPECIFICATION FairSpec
PROPERTY NothingIsStuck
CHECK_DEADLOCK FALSE
