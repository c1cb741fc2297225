\* Two requests on a cart of one product with and without a variant.
CONSTANTS
    Requests = {r1, r2}
    ProductIds = {p1}
    Variants = {v1}
    NoVariant = none
    Lines <- MCLines
    MaxQty = 2
    NaN = NaN
    Faulty = TRUE
SYMMETRY RequestSymmetry
SPECIFICATION CartSpec
INVARIANT CalmTotals
