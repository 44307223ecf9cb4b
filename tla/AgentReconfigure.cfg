SPECIFICATION Spec
CHECK_DEADLOCK FALSE
CONSTANTS
  m1 = m1
  m2 = m2
  o1 = o1
  o2 = o2
  None = None
  Masters = {m1}
  Overlays = {o1, o2}
  UpdateOf <- TwoOverlays
  SubnetsOf <- BothSubnets
  BridgesOf <- AllBridges
  NetworkConfigs <- BothBridges
  MaxConfigAttempts = 1
  MaxFaults = 2
  MaxRetries = 2
  MaxUpdates = 2
  MaxMessages = 1
INVARIANTS ReportedWhenConfigured
