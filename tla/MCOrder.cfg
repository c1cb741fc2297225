\* Two requests to cancel or refund among every other handler.  Totals are the
\* two a cart can hand over: 0 when its first item has not been added up yet,
\* else NaN.
CONSTANTS
    Requests = {r1, r2}
    Amounts = {1}
    Totals = {0, NaN}
    Tenant = tenant
    Null = null
    NaN = NaN
SYMMETRY RequestSymmetry
SPECIFICATION Spec
INVARIANTS StampsMatch RefundsWerePaid
