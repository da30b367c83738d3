SPECIFICATION Spec
CONSTANTS
  None = None
  s1 = s1
  s2 = s2
  c1 = c1
  c2 = c2
  b1 = b1
  b2 = b2
  x = x
  u = u
  d = d
  Callers = {c1, c2}
  Signals = {s1, s2}
  Cost = 2
  Limit = 4
  Capital = 4
  MaxAge = 1
  MaxTime = 3
  MaxCrashes = 1
  Symbols = {s1, s2}
  Seed = 30
  Slot = 20
  MaxPositions = 2
  Entry = 10
  Target = 12
  StopPrice = 9
  INTERVAL = 2
  TTL = 1
  LATENCY = 1
  AGE = 1
  Scopes <- Ledgers
  Nil = Nil
  RowIds = {1, 2, 3}
  Coins = {s1, s2}
  STALE = 3
  ENTRY_TTL = 2
  HOLD = 1
  DEADLINE = 3
  DELAY = 1
  COOLDOWN = 1
  SLOW = 1
  MAX_POSITIONS = 2
  SEED = 8
  Lots = 2
  LotCost = 2
  SellPrices = {1}
  Views = {b1, b2}
  LastInstant = 5
  Void = Void
  FRESH = 1
  GAP = 1
  HORIZONS = {1, 2}
  MAXAGE = 2
  MaxSnapshots = 2
  MaxStarts = 2
  Until = 3
  Nothing = Nothing
  Usdt = u
  Usd = d
  Holdings <- Accounts
  LAG = 1
  CACHE = 2
  PRICE_AGE = 1
  REPORT = 1
  LastReport = 3
  NoReport = NoReport
  Profits = {2}
  COST = 3
  DAY = 2
  TOLERANCE = 1
  MARK_AGE = 1
  MaxEntries = 2
  MaxKills = 1
  LastMoment = 5
  NoFigure = NoFigure
INVARIANTS
  CapitalIsKept
  RankIsFundedAndStops
  PromisesAreFunded
  TotalIsRecent
PROPERTIES
  NothingCountsTwice
  FiguresAreCurrent
  EntriesAreRanked
  SalesComeFirst
  ResearchIsHonest
SYMMETRY Symmetry
CHECK_DEADLOCK FALSE
