SPECIFICATION AgentsFairSpec
CONSTANTS
  Pids = {p1, p2, p3}
  NoPid = NoPid
  Faults = {"exit"}
  AgentIds = {a1}
  MaxCrashes = 1
CHECK_DEADLOCK FALSE
INVARIANTS
  SocketIsHolders
  BoundOrReplaced
PROPERTIES
  SomebodyRuns
