---------------------------- MODULE MCSingleton ----------------------------
EXTENDS Singleton, TLC

PidSymmetry == Permutations(Pids)
=============================================================================
