------------------------------ MODULE MCOrder ------------------------------
EXTENDS Order, TLC

RequestSymmetry == Permutations(Requests)
=============================================================================
