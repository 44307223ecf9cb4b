SPECIFICATION FairSpec
CHECK_DEADLOCK FALSE
CONSTANTS
  c1 = c1
  n1 = n1
  s1 = s1
  d1 = d1
  None = None
  Containers = {n1, s1, d1}
  Debug = {d1}
  Directory <- MCDirectory
  Agent <- MCAgent
  MaxFaults = 2
INVARIANTS TypeOK NothingHeld BothRead AgentIdentified
PROPERTIES NoneStaysBehind
