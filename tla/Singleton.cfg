SPECIFICATION Spec
CONSTANTS
  Pids = {p1, p2, p3}
  NoPid = NoPid
  Faults = {"exit", "stop", "reuse", "unkillable"}
SYMMETRY PidSymmetry
CHECK_DEADLOCK FALSE
INVARIANTS
  TypeOK
  OneDaemon
  PidfileNamesHolder
  SidecarOnFile
PROPERTIES
  ImplementsSlot
