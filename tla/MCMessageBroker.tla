--------------------------- MODULE MCMessageBroker ---------------------------
EXTENDS MessageBroker, TLC
Symmetry == Permutations(Messages)
=============================================================================
