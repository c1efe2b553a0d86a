SPECIFICATION SSpec
CONSTANTS
  worker = worker
  api = api
  post1 = post1
  close1 = close1
  close2 = close2
  key1 = key1
  Executors <- MCExecutors
  Serves <- MCServes
  Backoff <- MCBackoff
  LeaseTicks = 1
  MaxAttempts = 2
  MaxJobs = 2
  Posters = {post1}
  Closers = {close1, close2}
  RequestKeys = {key1}
  ProviderErrors = {"UNAVAILABLE"}
  MaxUpsets = 1
INVARIANTS
  SyncLands

  
SYMMETRY MCSymmetry
