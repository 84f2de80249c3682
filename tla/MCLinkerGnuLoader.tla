------------------------- MODULE MCLinkerGnuLoader -------------------------
EXTENDS LinkerGnuLoader, TLC
CONSTANTS m1, m2, m3, m4, r1, r2, o1, o2, o3, o4
Symmetry == Permutations(Maps) \cup Permutations(Snapshotted)
=============================================================================
