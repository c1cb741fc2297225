\* Two checkouts of one cart of up to two lines, an edit of it whose save may come
\* at any time, addresses, faults and midnight.
CONSTANTS
    Requests = {r1, r2}
    Edits = {e1}
    Carts = {c1}
    Items = {i1, i2}
    Physical = {i1}
    LastDay = 2
    Faulty = TRUE
SPECIFICATION FairSpec
INVARIANTS NextNumberFree GaplessDays ChargesAreBacked OrdersAreShippable
PROPERTIES OrdersComplete
