\* Crashes, errors, lost answers and swallowed read errors.
CONSTANTS
  MaxJobs = 2
  Attempts = 2
  Tries = 2
  MaxReschedules = 1
  MaxVersion = 1
  MaxFaults = 2
SPECIFICATION Spec
INVARIANT TypeOK
INVARIANT ConfirmedIsRecorded
INVARIANT FailedWasNotAnswered
INVARIANT AtMostOneLateMessage
INVARIANT RepeatsNeedFaults
PROPERTY NoResendAfterBoundary
CHECK_DEADLOCK FALSE
