SPECIFICATION AwakeSpec
CONSTANTS
  Scans = {s1, s2, s3, s4}
  Clients = {c1, c2}
  QueueSize = 1
  SendBuffer = 1
  Stalling = {c1}
CHECK_DEADLOCK FALSE
INVARIANTS
  Gapless
PROPERTIES
  HubServes
