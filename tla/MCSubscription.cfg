\* One row, two gateway subscriptions, two requests; faults and events in any order.
CONSTANTS
    Subs = {s1}
    GwSubs = {g1, g2}
    Plans = {p1, p2}
    Customers = {t1, cus1}
    Tenant = t1
    Workers = {w1, w2}
    MaxRenewals = 2
    Faulty = TRUE
SYMMETRY Symmetry
SPECIFICATION Spec
INVARIANTS ActiveIsBacked UndisturbedAgreement TotalWithinCounts
CHECK_DEADLOCK FALSE
