SPECIFICATION Spec
CONSTANTS
  a1 = a1
  a2 = a2
  o1 = o1
  o2 = o2
  None = None
  AgentIPs = {a1, a2}
  Overlays = {o1, o2}
  IPv4Overlays = {o1, o2}
  IPv6Overlays = {o2}
  Subnets <- TwoSubnets
  Subnets6 <- OneSubnet
  VtepIPs = {1, 2}
  VtepIP6s = {1, 2}
  Configs <- GrowingConfigs
  Statuses = {"STATUS_OK"}
  AllocChoices = {TRUE}
  GoneOnly = TRUE
  MaxFaults = 1
  MaxDeletes = 1
SYMMETRY AgentSymmetry
INVARIANTS TypeOK LogRecoverable
PROPERTIES RegistrySpec
