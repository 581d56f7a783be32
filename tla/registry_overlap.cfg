SPECIFICATION FairSpec
CONSTANTS
  s1 = s1
  w1 = w1
  w2 = w2
  c1 = c1
  Subs = {s1}
  Workers = {w1, w2}
  Calls = {c1}
  NoSub = NoSub
  NoWorker = NoWorker
  CallConfigs = {"unknownType"}
  AmsConfigs = {"ok"}
  SkipSubsLoad = FALSE
  FetchMayFail = TRUE
INVARIANTS TypeOK NoZombieEntry NoDeadEntry
PROPERTIES ReportsAreTaken DeletedIsReleased
