--------------------------- MODULE MCScanCacheLRU ---------------------------
EXTENDS ScanCacheLRU, TLC

KeySymmetry == Permutations(Keys)
=============================================================================
