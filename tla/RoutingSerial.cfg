SPECIFICATION FairSpec
CONSTANTS
  Clients = {c1}
  Ports = {q1, q2}
  TPorts = {t1}
  NoPort = NoPort
  Domains = {d1}
  IPs = {i1, i2}
  Serial = TRUE
  MaxStray = 1
  Faults = {"sudo", "reap", "late", "load", "disk", "dns", "listen", "crash", "cleanup"}
INVARIANTS
  SwitchConsistent
PROPERTIES
  RulesFollowDns
CHECK_DEADLOCK FALSE
