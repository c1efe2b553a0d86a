SPECIFICATION MCSpec
CONSTANTS
  r3 = r3
  e1 = e1
  e2 = e2
  p1 = p1
  p2 = p2
  h1 = h1
  h2 = h2
  g1 = g1
  g2 = g2
  c1 = c1
  c2 = c2
  Refreshers = {h1, h2, r3}
  Economics = {e1, e2}
  Prices = {p1, p2}
  MaxChanges = 3
  Handlers = {h1, h2}
  Goals = {g1, g2}
  Claims = {c1, c2}
  Amounts = {1, 2}
  Values = {0, 3}
  MaxOps = 5
  t1 = t1
  issue1 = issue1
  alert1 = alert1
  Tabs = {t1}
  Issues = {issue1}
  Alerts = {alert1}
  Evaluators = {h1, h2}
  Measures = {1, 2, 3}
  Growth = 2
  MaxDay = 1
  MaxWrites = 4
  Severities = {0, 2}
  Workers = {h1, h2}
  Names = {"first", "second"}
  ListIds = {1, 2}
  ItemIds = {1, 2}
  AlertIds = {1, 2}
  Tokens = {"token"}
  Masters <- MCMasters
  Universe <- MCUniverse
  Entries <- MCEntries
  AlertRules <- MCAlertRules
  Portfolios <- MCPortfolios
  MaxLists = 1
  MaxItems = 1
  MaxAlerts = 1
  IssuerShare = 10
  SectorShare = 25
  Missing = Missing
SYMMETRY Symmetry
CHECK_DEADLOCK FALSE
INVARIANTS
  
  ClaimsCarried
  
PROPERTIES
  DismissalRemembered
  ReviewSticky
