SPECIFICATION Spec
CONSTANTS
  a1 = a1
  a2 = a2
  a3 = a3
  a4 = a4
  None = None
  Agents = {a1, a2, a3, a4}
  Plans <- SoundPlans
SYMMETRY AgentSymmetry
INVARIANTS
  TypeOK
  Exclusive
  WithinNetwork
  NothingLost
  BridgesHalve
  Recoverable
