SPECIFICATION Spec
CHECK_DEADLOCK FALSE
CONSTANTS
  m1 = m1
  m2 = m2
  o1 = o1
  o2 = o2
  None = None
  Masters = {m1, m2}
  Overlays = {o1, o2}
  UpdateOf <- NewOverlayFirst
  SubnetsOf <- OnlyIPv6
  BridgesOf <- MissingBridges
  NetworkConfigs <- OneOrBothBridges
  MaxConfigAttempts = 1
  MaxFaults = 2
  MaxRetries = 2
  MaxUpdates = 2
  MaxMessages = 1
INVARIANTS TypeOK RegistrationRetried RegisteredConfigured ConfiguredForReal AwaitedUnderWay
PROPERTIES ConfiguredStays
