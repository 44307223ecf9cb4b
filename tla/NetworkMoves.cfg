SPECIFICATION NetworkSpec
CONSTANTS
  a1 = a1
  a2 = a2
  o1 = o1
  o2 = o2
  None = None
  AgentIPs = {a1, a2}
  Overlays = {o1, o2}
  IPv4Overlays = {o1, o2}
  IPv6Overlays = {}
  Subnets <- TwoSubnets
  Subnets6 <- TwoSubnets
  VtepIPs = {1, 2}
  VtepIP6s = {1, 2}
  Configs <- SecondOverlay
  Statuses = {"STATUS_OK"}
  AllocChoices = {TRUE}
  GoneOnly = TRUE
  MaxFaults = 2
  MaxDeletes = 0
INVARIANTS NeverMoves
