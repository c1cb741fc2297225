\* A service that refuses every request goes on refusing: refusals are not steps.
SPECIFICATION Spec
CONSTANTS
    Tenants = {t1, t2}
    Tenants0 = {t1}
    Users = {u1, u2}
    Workers = {w1, w2}
    MaxLogins = 2
    MaxResets = 2
    Identifiers = {i1, i2}
    MaxAttempts = 3
    LockoutTime = 2
    MaxTime = 6
SYMMETRY Symmetry
INVARIANTS NothingRevived TenantsHaveOwners CancelledNotServed LockoutHolds
CHECK_DEADLOCK FALSE
