----------------------------- MODULE MCPayment -----------------------------
EXTENDS Payment

WorkerSymmetry == Permutations(Workers)
=============================================================================
