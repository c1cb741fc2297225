\* Three concurrent calls, some slow enough to outlive the reset timeout and to
\* settle in the half-open period.
CONSTANTS
    Callers = {c1, c2, c3}
    FailureThreshold = 2
    SuccessThreshold = 2
    ResetTimeout = 1
    CallTimeout = 3
SPECIFICATION FairSpec
INVARIANT CountersMatchState
PROPERTIES OpenIsLeft ImplementsBreaker
