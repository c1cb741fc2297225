SPECIFICATION SagaSpec
CONSTANTS
    Orders = {o1, o2}
    Products = {p1, p2}
    Workers = {w1, w2}
    Stock = 1
    MaxPayments = 2
    Faulty = TRUE
SYMMETRY Symmetry
INVARIANTS NeverOversold AcknowledgedIsCharged
