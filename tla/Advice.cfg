SPECIFICATION MCSpec
CONSTANTS
  Parts = {"race", "many", "study", "plan", "screen", "ledger", "gaps", "limits", "council", "evidence", "catalogue", "prices", "changes", "preview"}
  CashPositions = {"bank", "purse"}
  Stocks <- MCStocks
  Funds <- MCFunds
  Price <- MCPrice
  Lot <- MCLot
  Sector <- MCSector
  FeeNum = 3
  FeeDen = 1000
  Grain = 1000
  MaxCost = 1
  MinAction = 20
  IssuerLimit = 250
  SectorLimit = 400
  Slack = 5
  FreshShare = 800
  Threshold <- MCThreshold
  Scenarios <- MCScenarios
  GoalMonths = 10
  Baselines <- MCBaselines
  Claims <- MCClaims
  Flows <- MCFlows
  Rules <- MCRules
  Requests <- MCRequests
  MaxActions = 2
  Core <- MCCore
  Satellites <- MCSatellites
  GoldEtf = "gold"
  LiquidEtf = "liquid"
  Unplaced = "odd"
  Mix <- MCMix
  CoreSplit <- MCSplit
  SatelliteShare <- MCShare
  MaxStocks = 5
  MinStocks = 3
  MinStockLeg = 100
  StockCap = 3
  UnknownLimit = 20
  Fine = 5
  MaxMoney = 4000
  Step4 = 197
  NoValue = NoValue
  Listed <- MCListed
  Unit = 100
  Layout <- MCLayout
  LowerIsBetter = {"debt", "volatility"}
  MinMeasures <- MCMinMeasures
  MinActive = 4
  MinPeers = 3
  ShrinkK = 4
  RankWeight <- MCRankWeight
  RankFloor = 500
  MinTurnover = 5
  PerSector = 2
  MostCandidates = 3
  HeldCap = 2
  Ladders <- MCLadders
  CheckWeight <- MCCheckWeight
  CheckFloor = 600
  MinRelative = 2
  Restated = {"c"}
  Universes <- MCUniverses
  Per = 2
  YearMonths = 2
  FallbackRate = 1
  Unstated = Unstated
  MonthLength <- MCLength
  Projections <- MCProjections
  Unset = Unset
  Classes <- MCClasses
  Cent = 10
  Policy <- MCPolicy
  NearTermYears = 2
  PlanAsks <- MCPlanAsks
  Undeclared = Undeclared
  Questions = {"q1", "q2", "q3"}
  Stable = 34
  Rising = 67
  Year = 365
  ShortHorizon = 1095
  ScenarioRate <- MCScenarioRate
  Views <- MCViews
  NoFact = NoFact
  Seed <- MCSeed
  Limit <- MCLimit
  MinVolume = 5
  WeightOf <- MCWeightOf
  WeightCap <- MCWeightCap
  AllMoney = 600
  Runs <- MCRuns
  MaxFound = 3
  MaxRedirects = 2
  MaxBytes = 30
  MaxItems = 3
  MaxPassage = 6
  Joint = 2
  MaxClaim = 5
  Clashing <- MCClashing
  Nowhere = Nowhere
  Missions <- MCMissions
  KindOf <- MCKindOf
  Growth = {"f1"}
  Indexed = {"s1"}
  BrokerSymbol <- MCBrokerSymbol
  MinComplete = 60
  StaleDays = 1
  Overlap = 1
  WindowDays = 2
  Backfill = 3
  OverlapDays = 3
  MinPoints = 2
  MaxMove = 50
  NavTolerance = 0
  NearDays = 2
  NearTolerance = 5
  RebaseTolerance = 1
  Worlds <- MCWorlds
  MaxDay = 7
  Absent = Absent
  SureBand <- MCSureBand
  Unclear <- MCUnclear
  QuietMove <- MCQuietMove
  NoFactor = NoFactor
  Histories <- MCHistories
  iA = iA
  iB = iB
  iBad = iBad
  sX = sX
  sY = sY
  coin = coin
  n1 = n1
  Blank = Blank
  Garbled = Garbled
  Identified = {"stock", "fund"}
  CompletedTypes = {"stock"}
  Unidentified = {"gold"}
  Malformed = {iBad}
  OldTable <- MCInstruments
  Shelves <- MCShelves
  Uploads <- MCUploads
  ClaimAmounts = {4}
  MaxLines = 2
  MaxPreviews = 2
  SmaDays = 2
  YearSessions = 3
  ShortDays = 2
  Margin = 3
  Dwell = 2
  FreshSessions = 1
  Falls <- MCFalls
  VolEnter = 140
  VolClear = 110
  Prices = {5, 6, 8}
  Beginnings <- MCBeginnings
  Tracked = {"share"}
  NavFunds = {"fund"}
  Qualities <- MCQualities
  Mixes <- MCMixes
  MaxSessions = 8
  w1 = w1
  w2 = w2
  Holidays = {5}
  LastDay = 7
  Reach = 1
  Horizon = 2
  OverdueDays = 0
  TradedDays <- MCTraded
  Late = {3}
  SubjectKinds = {"signal", "observation"}
  MaxLogged = 3
  MaxRefetches = 2
  Scorers = {w1, w2}
  MinDates = 3
  EarnedDates = 5
  AtRest = AtRest
SYMMETRY SameWorkers
CHECK_DEADLOCK FALSE
INVARIANTS
  EngineSound
  PicksFair
  LimitsSound
  CouncilSound
  EvidenceSound
  
  MarketDataSound
  CatalogueSound
  
  PreviewTrue
