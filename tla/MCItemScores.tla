----------------------------- MODULE MCItemScores -----------------------------
EXTENDS ItemScores, TLC

Symmetry == Permutations(Items) \cup Permutations(Categories) \cup Permutations(Votes)
=============================================================================
