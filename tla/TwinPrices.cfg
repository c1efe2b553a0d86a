SPECIFICATION TSpec
CONSTANTS
  Refreshers = {h1}
  Economics = {e1, e2}
  Prices = {p1, p2}
  MaxChanges = 4
CHECK_DEADLOCK FALSE
INVARIANTS
  ValuationFollowsInputs
