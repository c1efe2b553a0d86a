SPECIFICATION RSpec
CONSTANTS
  MaxJobs = 6
  worker = worker
  api = api
  h1 = h1
  h2 = h2
  Executors <- MCExecutors
  Handlers <- MCHandlers
  Serves <- MCServes
  MaxAttempts = 2
  LeaseTicks = 1
  Backoff <- MCBackoff
  MaxChanges = 3
  FirstStates = {1}
INVARIANTS
  RecoveryReflected
SYMMETRY MCSymmetry
