SPECIFICATION Spec
CONSTANTS
  s1 = s1
  w1 = w1
  w2 = w2
  c1 = c1
  c2 = c2
  Subs = {s1}
  Workers = {w1, w2}
  Calls = {c1, c2}
  NoSub = NoSub
  NoWorker = NoWorker
  CallConfigs = {"ok"}
  AmsConfigs = {"ok"}
  SkipSubsLoad = FALSE
  FetchMayFail = TRUE
INVARIANTS NoNilWorker
