\* Healthy workers outlast the window, as in the defaults (300 s, 60 s).
CONSTANTS
  Workers = 2
  MaxForks = 6
  Cap = 3
  Window = 2
  Healthy = 3
  BaseDelay = 1
  MaxDelay = 3
  Grace = 1
SPECIFICATION FairSpec
INVARIANT TypeOK
INVARIANT BreakerMissesNothing
INVARIANT CapacityKept
INVARIANT ExitIsTruthful
PROPERTY TimersAct
CHECK_DEADLOCK FALSE
