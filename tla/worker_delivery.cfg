SPECIFICATION Spec
CONSTANTS
  Period = 1000
  SlowStartInitialInterval = 1000
  SlowStartLowerTimeBound = 300
  SlowStartUpperTimeBound = 86400000
  Workers = {w1, w2}
  w1 = w1
  w2 = w2
  MaxMessages = 2
  PushType = "HTTP_ENDPOINT"
  RetryPolicyType = "linear"
  MaxPublished = 3
  MaxDisturbances = 2
  BoundEnds = TRUE
INVARIANTS TypeOK NoLossOnAck NoGap DeliveryInv DrainNeverBlocks TimerFollowsCycle
PROPERTIES OnceWithoutFaults NoRequestAfterStop ImplementsDelivery ImplementsLifecycle
SYMMETRY Symmetry
