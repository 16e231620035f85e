SPECIFICATION FairSpec
CONSTANTS
  Procs = {p1}
  Hosts = {h1}
  Addrs = {a1, a2}
  Ports = {n1}
  NoPort = NoPort
  Elsewhere = Elsewhere
  MaxConns = 2
  Faults = {"scan", "lookup", "send", "write", "crash"}
INVARIANTS
  TypeOK
PROPERTIES
  RunawayReported
  AlarmEnds
