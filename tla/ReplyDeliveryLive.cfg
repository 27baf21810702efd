\* Liveness with one fault.
CONSTANTS
  MaxJobs = 2
  Attempts = 2
  Tries = 2
  MaxReschedules = 1
  MaxVersion = 1
  MaxFaults = 1
SPECIFICATION FairSpec
PROPERTY RepliesSettle
CHECK_DEADLOCK FALSE
