------------------------------- MODULE MCHome -------------------------------
EXTENDS Home, TLC

CONSTANTS r1, r2, r3, k1, k2, c1, c2

Alike == Permutations({r1, r2}) \cup Permutations(Proc)
===============================================================================
