SPECIFICATION Spec
CONSTANTS
  s1 = s1
  s2 = s2
  a = a
  b = b
  c = c
  Malformed = Malformed
  Symbols = {s1, s2}
  TopN = 2
  TEN = 2
  Horizon = 2
  DAY = 8
  Requests = {"r1"}
  Scopes <- Lives
  NoWindow = NoWindow
  Markets = {1, 2}
  Slots = 2
  SeedCash = 24
  MinBudget = 6
  FlowDay = 3
  NoValue = NoValue
  FlowKinds = {"FLOW", "DAYHOLD"}
  BookPrices = {4, 6, 8}
  Ref = 6
  Low = 4
  ResumeIds = {1}
  MaxFaults = 1
  FlowScopes <- Extents
  Coins = {a, b, c}
  Batch = 2
  MaxStarts = 3
  MaxStreams = 4
  Kinds = {"BOLLINGER", "BEAR"}
  HISTORY = 2
  WatchBars = 2
  WatchScopes <- Reaches
  Bars0 = {0}
  MaxBreaks = 1
  NoCandle = NoCandle
  DayBars = 2
  DAYS = 2
  PAGE = 2
  MaxPages = 3
  BATCH = 2
  Until = 8
  Listings = {0, 2, 4}
  Quiet = {{}, {1}, {4}, {3, 5}, {4, 6}}
  NoBar = NoBar
  NoUniverse = NoUniverse
INVARIANTS
  ObserverStopWins
SYMMETRY Symmetry
CHECK_DEADLOCK FALSE
