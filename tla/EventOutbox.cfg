\* One event with three consumers, three calls at a time, two faults.
CONSTANTS
  Slots = {s1, s2, s3}
  None = None
  Consumers = 3
  Attempts = 2
  MaxFaults = 2
SPECIFICATION FairSpec
INVARIANT TypeOK
INVARIANT DeliveredPlusFaults
PROPERTY AcceptedIsSettled
CHECK_DEADLOCK FALSE
