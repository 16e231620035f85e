--------------------------- MODULE MCProxyRouting ---------------------------
EXTENDS ProxyRouting, TLC

RoutingSymmetry ==
  Permutations(Clients) \cup Permutations(Ports) \cup Permutations(TPorts)
    \cup Permutations(Domains) \cup Permutations(IPs)
=============================================================================
