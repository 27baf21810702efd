\* Throws, deaths, lost leases and Redis errors.
CONSTANTS
  MaxVersion = 2
  Attempts = 2
  MaxFailures = 1
  MaxCrashes = 1
  MaxSlips = 1
  Concurrency = 2
  NoOwner = NoOwner
SPECIFICATION FairSpec
INVARIANT TypeOK
INVARIANT CompletedWasProcessed
PROPERTY CompletedNeverRegresses
INVARIANT WorkIsNotRepeatedOrLost
PROPERTY EveryRequestCompletes
CHECK_DEADLOCK FALSE
