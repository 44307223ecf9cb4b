SPECIFICATION Spec
CONSTANTS
  a1 = a1
  a2 = a2
  o1 = o1
  o2 = o2
  None = None
  AgentIPs = {a1, a2}
  Overlays = {o1}
  IPv4Overlays = {o1}
  IPv6Overlays = {o1}
  Subnets <- TwoSubnets
  Subnets6 <- TwoSubnets
  VtepIPs = {1, 2}
  VtepIP6s = {1, 2}
  Configs <- FixedConfig
  Statuses = {"STATUS_OK"}
  AllocChoices = {TRUE}
  GoneOnly = FALSE
  MaxFaults = 1
  MaxDeletes = 1
INVARIANTS LogRecoverable
