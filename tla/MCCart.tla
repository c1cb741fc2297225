------------------------------- MODULE MCCart -------------------------------
EXTENDS Cart, TLC

\* Two lines without and one with a variant may be made of each product.
MCLines == {l \in [kind : Kind, copy : 1..2] : l.kind.variant = NoVariant \/ l.copy = 1}

RequestSymmetry == Permutations(Requests)
=============================================================================
