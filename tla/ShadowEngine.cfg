SPECIFICATION FairSpec
CONSTANTS
  Ids = {"a", "b"}
  Intents <- MCIntents
  NoIntent = NoIntent
  NoWork = NoWork
  Asks <- MCAsks
  Bids <- MCBids
  Configs <- MCConfigs
  MaxLife = 2
  Skew = 1
  MaxHold = 2
  InitialCash = 150
  MaxOrder = 100
  MaxExposure = 151
  MaxDailyLoss = 30
  FeeBps = 100
  DayLength = 4
  DayOffset = 1
  Horizon = 5
  MaxFaults = 1
INVARIANTS
  IntentsAreHonoured
  MoneyIsSafe
PROPERTIES
  HaltedProcessOnlyReduces
  IntentRefinement
  NothingIsLeftOpen
