SPECIFICATION Spec
CONSTANTS
  q1 = q1
  q2 = q2
  q3 = q3
  Requests = {q1, q2, q3}
  Connections = {1, 2}
  PrincipalOf <- MCPrincipalOf
  SessionOf <- MCSessionOf
  Lifetimes <- MCLifetimes
  MaxClock = 1
  Servers <- MCServers
  MayAsk <- MCMayAsk
  Throws <- MCThrows
  None = None
INVARIANTS ServedAsItself ResolvedOnce ForeignIsUnknown ListedIsReached
CHECK_DEADLOCK FALSE
