SPECIFICATION MCSpec
CONSTANTS
  None = None
  Nought = Nought
  k1 = k1
  k2 = k2
  u = u
  v = v
  x = x
  Venues = {"upbit", "bybit"}
  MaxTime = 5
  MaxCaptures = 2
  MaxCrashes = 2
  Strategies = {"fast"}
  Kinds = {"ASSESSMENT", "CAPTURE"}
  Outgrows = FALSE
  LastTime = 7
  MaxRows = 2
  MaxResets = 1
  MaxDeaths = 1
  Unknown = Unknown
  NoButton = NoButton
  Users = {u, v}
  Executors = {u}
  Messages <- Written
  LIFE = 1
  MaxUpdates = 3
  MaxButtons = 2
  MaxChanges = 1
  MaxLives = 2
  Until = 1
  Ids <- PickIds
  Intents <- PickIntents
  NoIntent = None
  NoWork = None
  Asks <- OneBook
  Bids <- OneBook
  Configs <- Shadow
  MaxLife = 2
  Skew = 0
  MaxHold = 1
  InitialCash = 210
  MaxOrder = 100
  MaxExposure = 210
  MaxDailyLoss = 1000
  FeeBps = 100
  DayLength = 100
  DayOffset = 0
  Horizon = 5
  MaxFaults = 1
  Watchable = {"a", "b"}
  MaxWatch = 2
  MaxRuns = 3
  Assets = {"x"}
  Periods = {"morning", "evening"}
  ScanTimes = {0, 2}
  NoSnapshot = None
  MaxSourceAge = 2
  Notional = 100
  Hold = 1
  FeedVenues = {"bybit", "kraken", "binance", "fast_binance"}
  Prices = {1, 2, 3, 4}
  MaxQty = 1
  Depth = 2
  MaxMoves = 6
  MaxWire = 3
  MaxInterruptions = 2
  NoBook = NoBook
  Majors = {"BTC"}
  Alts = {k1, k2}
  ByDay = "binance"
  Directions = {"UP"}
  Breadths = {"MIXED"}
  MIN_ALTS = 2
  NEAR = 2
  LIFETIME = 5
  EVERY = 3
  CalendarDay = 6
  LastMinute = 9
  NoContext = NoContext
INVARIANTS
  AlertedAtMostOnce
  AuditIsHonest
  BooksAreTheVenues
  ContextIsConfirmed
  UpdatesAreHandledOnce
  PipelineIsConsistent
PROPERTIES
  WarningsAreNews
  ButtonsDoAsShown
CHECK_DEADLOCK FALSE
