SPECIFICATION GSpec
CONSTANTS
  Handlers = {h1, h2}
  Goals = {g1, g2}
  Claims = {c1, c2}
  Amounts = {1, 2}
  Values = {0, 2, 3}
  MaxOps = 4
CHECK_DEADLOCK FALSE
INVARIANTS
  ClosedGoalsHaveNoClaims
