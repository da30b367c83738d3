SPECIFICATION WSpec
CONSTANTS
  Watchable = {"a", "b"}
  MaxWatch = 2
  MaxRuns = 3
  Nought = Nought
INVARIANTS
  OnlyLeaversAreCleared
CHECK_DEADLOCK FALSE
