SPECIFICATION StoresSpec
CONSTANTS
  Asofs = {1, 2, 3}
  Size = 2
  MaxVersion = 4
  MaxCrashes = 3
  Torn = Torn
  NoJournal = NoJournal
  NoState = NoState
  Plain = Plain
  None = None
  Busy = {1, 2}
  DAY = 2
  Batch = 1
  KeepRecords = 1
  KeepRaw = 1
  CompactRemote = TRUE
  DeleteRemote = TRUE
  Horizon = 5
  MaxFaults = 1
INVARIANTS
  JournalIsSound
  ArchiveKeeps
PROPERTIES
  RebuildIsAtomic
  StoresAreCleared
