SPECIFICATION FairSpec
CONSTANTS
  MaxJobs = 2
  worker = worker
  api = api
  Executors <- MCExecutors
  Serves <- MCServes
  MaxAttempts = 2
  LeaseTicks = 1
  Backoff <- MCBackoff
INVARIANTS
  TypeOK
  OneOwner
  PublishedOnce
  TransientRetried
PROPERTIES
  FinishedIsFinal
  OnlyOwnerWrites
  KeepsContract
  KeepsPromise
