--------------------------- MODULE MCPublication ---------------------------
EXTENDS Publication, TLC
CONSTANTS g1, g2, m1, m2, h1, h2
PubSymmetry == Permutations({g1, g2}) \cup Permutations({m1, m2}) \cup Permutations({h1, h2})
============================================================================
