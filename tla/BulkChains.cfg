SPECIFICATION MCSpec
CONSTANTS
  s1 = s1
  s2 = s2
  s3 = s3
  a1 = a1
  a2 = a2
  c1 = c1
  c2 = c2
  Securities = {s1, s2, s3}
  Tier <- MCTier
  MaxTier = 2
  BackfillChunk = 2
  Shortlist <- MCShortlist
  Unforecastable = {s1}
  ForecastChunk = 2
  Asked = {{s2}}
  MaxAsked = 1
  MaxDate = 2
  Amcs = {a1, a2}
  Companies = {c1, c2}
  MaxConsecutive = 1
  MaxWeek = 2
  MaxFaults = 1
  MaxJobs = 5
  MaxAttempts = 3
CHECK_DEADLOCK FALSE
INVARIANTS
  OneChain
  TerAccounted
PROPERTIES
  ChainsDeliver
  FundamentalsFresh
