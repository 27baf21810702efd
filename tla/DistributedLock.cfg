CONSTANTS
  Client = {c1, c2}
  None = None
  TTL = 3
  RefreshEvery = 2
  MaxAttempts = 2
  MaxPipe = 2
SPECIFICATION FairSpec
INVARIANT TypeOK
INVARIANT UnexpiredHandleOwnsKey
INVARIANT TimelyMutualExclusion
INVARIANT ReturnedLeavesNoLease
PROPERTY ImplementsLease
PROPERTY NothingHangs
CHECK_DEADLOCK FALSE
