SPECIFICATION ConflictFreeSpec
CONSTANTS
  s1 = s1
  s2 = s2
  w1 = w1
  w2 = w2
  c1 = c1
  Subs = {s1, s2}
  Workers = {w1, w2}
  Calls = {c1}
  NoSub = NoSub
  NoWorker = NoWorker
  CallConfigs = {"badPolicy", "unknownType"}
  AmsConfigs = {"ok"}
  SkipSubsLoad = FALSE
  FetchMayFail = TRUE
INVARIANTS NoOrphan NoNilWorker
PROPERTIES ImplementsRegistry ImplementsLifecycle
SYMMETRY Symmetry
