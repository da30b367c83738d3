SPECIFICATION SlotsSpec
CONSTANTS
  a = a
  b = b
  Coins = {a, b}
  TopN = 2
  Returns <- FewReturns
  TakeProfit = 10
  HardStop <- MCHardStop
  Activation = 6
  Giveback = 3
  Grace = 1
  Confirmations = 2
  InitialCash = 40
  DayLength = 2
  Horizon = 2
  MaxSerial = 3
  MaxCrashes = 0
  None = None
  k1 = k1
  k2 = k2
  Assets = {k1, k2}
  Pairs = {k1}
  Shorts = {k1, k2}
  Venues = {"binance", "kraken"}
  CASH = 4
  SLOT = 3
  MAX_POSITIONS = 2
  MAX_SHORTS = 1
  DAY = 4
  EXPIRES = 1
  FRESH = 1
  FEED = 2
  PERIOD = 2
  Worth = {2}
  Losses = {1}
  Start = 2
  Until = 7
  Absent = Absent
SYMMETRY MCSymmetry
INVARIANTS
  TodayIsToday
