--------------------------- MODULE MCOrderEngine ---------------------------
EXTENDS OrderEngine, TLC

HashSymmetry == Permutations(Hashes)
ProcSymmetry == Permutations(Procs)
BothSymmetry == HashSymmetry \cup ProcSymmetry
============================================================================
