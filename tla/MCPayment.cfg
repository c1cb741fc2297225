\* One charge, two requests; events in any order and again, requests that die.
CONSTANTS
    Charges = {g1}
    RefundIds = {r1, r2}
    Workers = {w1, w2}
    Customers = {t1, cus1}
    Tenant = t1
    Ordered = FALSE
    Repeated = TRUE
    Mortal = {"process", "refund", "cancel", "webhook"}
SYMMETRY WorkerSymmetry
SPECIFICATION Spec
INVARIANTS NoPhantomStatus RefundsAreBacked
CHECK_DEADLOCK FALSE
