SPECIFICATION Spec
CONSTANTS
  Clients = {c1, c2}
  Ports = {q1, q2}
  TPorts = {t1, t2}
  NoPort = NoPort
  Domains = {d1}
  IPs = {i1, i2}
  Serial = FALSE
  MaxStray = 0
  Faults = {"sudo", "dns", "listen", "crash"}
SYMMETRY RoutingSymmetry
INVARIANTS
  TypeOK
  FirewallTracked
  NoStaleRules
CHECK_DEADLOCK FALSE
