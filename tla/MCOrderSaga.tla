----------------------------- MODULE MCOrderSaga -----------------------------
EXTENDS OrderSaga, TLC
Symmetry == Permutations(Orders) \cup Permutations(Products) \cup Permutations(Workers)
=============================================================================
