SPECIFICATION FairSystem
CONSTANTS
  s1 = s1
  w1 = w1
  c1 = c1
  Subs = {s1}
  Workers = {w1}
  Calls = {c1}
  NoSub = NoSub
  NoWorker = NoWorker
  CallConfigs = {"ok"}
  AmsConfigs = {"ok"}
  SkipSubsLoad = FALSE
  FetchMayFail = FALSE
  Period = 1000
  SlowStartInitialInterval = 1000
  SlowStartLowerTimeBound = 300
  SlowStartUpperTimeBound = 86400000
  MaxMessages = 1
  PushType = "HTTP_ENDPOINT"
  RetryPolicyType = "linear"
  MaxPublished = 1
  MaxDisturbances = 1
INVARIANTS Coupled
PROPERTIES StoppedWorkersEnd EventuallyAvailable Recovers DeletedGoesQuiet
