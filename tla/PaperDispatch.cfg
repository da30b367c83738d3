SPECIFICATION FairSpec
CONSTANTS
  s1 = s1
  d1 = d1
  t1 = t1
  OneShots = {s1}
  ShotMode <- MCShotMode
  ShotExpires <- MCShotExpires
  MaxAhead = 2
  Days = {d1}
  Window <- MCWindow
  Tokens = {t1}
  Users = {"u"}
  Actions = {"rebuild"}
  TokenLife = 1
  MaxAge = 1
  Horizon = 2
  MaxReports = 1
  MaxCrashes = 1
  None = None
INVARIANTS
  RequestsAreKept
PROPERTIES
  WorkOnlyAdvances
  ScanIsSettled
