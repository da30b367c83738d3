SPECIFICATION Spec
CONSTANTS
  Symbols = {1, 2}
  Slots = 2
  InitialCash = 40
  MinBudget = 5
  HOUR = 4
  DAY = 12
  QuoteAge = 1
  StartStamp = 3
  None = None
  Worths = {90}
  Horizon = 11
  MaxGeneration = 3
  MaxRequests = 1
  MaxFaults = 1
INVARIANTS
  EntriesAreAccounted
PROPERTIES
  DecisionsAreFollowed
