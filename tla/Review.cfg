SPECIFICATION RFairSpec
CONSTANTS
  MaxJobs = 4
  worker = worker
  api = api
  h1 = h1
  h2 = h2
  Executors <- MCExecutors
  Handlers <- MCHandlers
  Serves <- MCServes
  MaxAttempts = 2
  LeaseTicks = 1
  Backoff <- MCBackoff
  MaxChanges = 2
  FirstStates = {0, 1}
INVARIANTS
  CoalescingSound
PROPERTIES
  EventuallyReviewed
