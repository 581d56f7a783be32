SPECIFICATION Spec
CONSTANTS
  Period = 1000
  SlowStartInitialInterval = 1000
  SlowStartLowerTimeBound = 300
  SlowStartUpperTimeBound = 86400000
  Workers = {w1}
  w1 = w1
  MaxMessages = 1
  PushType = "HTTP_ENDPOINT"
  RetryPolicyType = "slowstart"
  MaxPublished = 1
  MaxDisturbances = 1
  BoundEnds = TRUE
PROPERTIES SlowerOnlyAfterErrors
