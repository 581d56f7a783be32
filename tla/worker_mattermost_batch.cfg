SPECIFICATION Spec
CONSTANTS
  Period = 1000
  SlowStartInitialInterval = 1000
  SlowStartLowerTimeBound = 300
  SlowStartUpperTimeBound = 86400000
  Workers = {w1}
  w1 = w1
  MaxMessages = 2
  PushType = "MATTERMOST"
  RetryPolicyType = "linear"
  MaxPublished = 3
  MaxDisturbances = 2
  BoundEnds = TRUE
INVARIANTS NoLossOnAck
