\* One event, delivered three times.
CONSTANTS
  Requests = {r1, r2, r3}
  MaxIntakeFaults = 3
SPECIFICATION IntakeSpec
INVARIANT IntakeTypeOK
INVARIANT AcknowledgedIsQueued
INVARIANT RefusalBarsNothing
CHECK_DEADLOCK FALSE
