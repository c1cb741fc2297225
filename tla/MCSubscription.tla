--------------------------- MODULE MCSubscription ---------------------------
EXTENDS Subscription, TLC

Symmetry == Permutations(GwSubs) \cup Permutations(Plans) \cup Permutations(Workers)
=============================================================================
