--------------------------- MODULE MCMemeFactory ---------------------------
EXTENDS MemeFactory, TLC

Ids == 1..3
Symmetry == Permutations(Thread) \cup Permutations(Location) \cup Permutations(Body)
=============================================================================
