SPECIFICATION FairSpec
CONSTANTS
  Orgs = {o1}
  Tokens = {t1}
  Uses = {1}
  Devices = {d1, d2}
  Laptops = {l1}
  Images = {base, built}
  Denylists = {none}
  SeedImage = base
  SeedList = none
  Builds = {b1}
  None = None
  MaxVersion = 2
CHECK_DEADLOCK FALSE
INVARIANTS
  TypeOK
  TokenLimit
  VersionNamesBundle
  CachedIsIssued
PROPERTIES
  CacheMonotone
  NotModifiedIsCurrent
  PolicyArrives
  ImplementsFeed
