\* Events in order and once, requests that die or lose answers of the gateway:
\* what a quiet service and a fair one reach.
CONSTANTS
    Charges = {g1}
    RefundIds = {r1, r2}
    Workers = {w1, w2}
    Customers = {t1, cus1}
    Tenant = t1
    Ordered = TRUE
    Repeated = FALSE
    Mortal = {"process", "refund", "cancel"}
SPECIFICATION FairSpec
INVARIANTS SettledAgreement
PROPERTIES RefundSettles
CHECK_DEADLOCK FALSE
