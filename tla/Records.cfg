SPECIFICATION MCSpec
CONSTANTS
  p1 = p1
  p2 = p2
  k1 = k1
  u1 = u1
  u2 = u2
  l1 = l1
  l2 = l2
  s1 = s1
  r1 = r1
  q1 = q1
  q2 = q2
  Clients = {p1, p2}
  Accounts = {q1, q2}
  Keys = {k1}
  Uploads = {u1, u2}
  BySymbol = {u1}
  Listings = {l1, l2}
  Legacy = {s1}
  MaxImports = 2
  MaxUpsets = 2
  Writers = {p1, p2}
  ImportKeys = {k1}
  Rupees = {1, 2}
  MaxGoals = 2
  MaxEarmarks = 3
  Forms = {p1, p2}
  Handlers = {q1, q2}
  Records = {r1}
  MaxSaves = 3
  Refreshers = {p1, p2}
  Texts = {q1, q2}
  Verdicts = {"supported", "no_evidence"}
  MaxConditions = 2
  MaxRevisions = 2
  MaxAssessments = 2
  a3 = a3
  Workers = {p1, p2}
  MaxLegacyJobs = 2
  MaxClaims = 2
  LegacyLease = 1
  Callers = {p1, p2}
  Attempts = {q1, q2, a3}
  Costs = {2}
  Cap = 3
  MaxReservations = 3
  Branches <- MCBranches
  MaxUrls = 2
  Budgets = {0, 2, 3, 6}
  Names = {"A"}
  Runners = {p1, p2}
  History = 2
  Tolerance = 0
  RatioTtl = 0
  MaxToday = 2
  MaxBasis = 1
  MaxReports = 2
  Missing = Missing
SYMMETRY Symmetry
CHECK_DEADLOCK FALSE
INVARIANTS
  RunsFollowAttempts
  SpendBounded
  HonestWithinBudget
  ImportedOnce
  
  AssessmentsTraced
  NoLostUpdate
  OverStaysOver
  
