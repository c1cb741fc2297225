------------------------------ MODULE MCCatalog ------------------------------
EXTENDS Catalog, TLC
Symmetry == Permutations(Workers) \cup Permutations(Products) \cup Permutations(Attributes)
            \cup Permutations(Categories0) \cup Permutations(Categories \ Categories0)
=============================================================================
