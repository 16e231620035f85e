SPECIFICATION FairSpec
CONSTANTS
  Procs = {p1, p2}
  NoProc = NoProc
  Values = {v0, v1}
  Default = v0
  Timers = {t1, t2}
  Faults = {"crash", "disk", "rename"}
  MaxChanges = 3
CHECK_DEADLOCK FALSE
INVARIANTS
  InSync
  OneCa
PROPERTIES
  Converges
