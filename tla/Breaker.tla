------------------------------ MODULE Breaker ------------------------------
(***************************************************************************)
(* What a circuit breaker promises its callers, with none of the code's    *)
(* bookkeeping: a run of consecutive failures opens it, only a quiet       *)
(* period lets probes through, a run of successful probes closes it.       *)
(* CircuitBreaker implements it (CircuitBreakerRefines).                   *)
(***************************************************************************)
EXTENDS Integers

CONSTANTS Callers, FailureThreshold, SuccessThreshold

VARIABLES mode,    \* "CLOSED", "OPEN" or "HALF_OPEN"
          run,     \* length of the run of failures (CLOSED) or
                   \* of good probes (HALF_OPEN) so far
          quiet,   \* has the reset timeout passed since the last failure?
          pending  \* calls let through and not answered

bvars == <<mode, run, quiet, pending>>

Init == mode = "CLOSED" /\ run = 0 /\ quiet = TRUE /\ pending = {}

LetThrough(c) ==
    /\ mode # "OPEN"
    /\ pending' = pending \cup {c}
    /\ UNCHANGED <<mode, run, quiet>>

\* An answer to a call that was let through; in OPEN it changes no run.
GoodAnswer(c) ==
    /\ c \in pending
    /\ pending' = pending \ {c}
    /\ UNCHANGED quiet
    /\ \/ mode = "CLOSED" /\ run' = 0 /\ UNCHANGED mode
       \/ mode = "OPEN" /\ UNCHANGED <<mode, run>>
       \/ mode = "HALF_OPEN" /\ run + 1 < SuccessThreshold /\ run' = run + 1 /\ UNCHANGED mode
       \/ mode = "HALF_OPEN" /\ run + 1 = SuccessThreshold /\ run' = 0 /\ mode' = "CLOSED"

BadAnswer(c) ==
    /\ c \in pending
    /\ pending' = pending \ {c}
    /\ quiet' = FALSE
    /\ \/ mode = "CLOSED" /\ run + 1 < FailureThreshold /\ run' = run + 1 /\ UNCHANGED mode
       \/ mode = "CLOSED" /\ run + 1 = FailureThreshold /\ run' = 0 /\ mode' = "OPEN"
       \/ mode = "OPEN" /\ UNCHANGED <<mode, run>>
       \/ mode = "HALF_OPEN" /\ run' = 0 /\ mode' = "OPEN"

Quieten == ~quiet /\ quiet' = TRUE /\ UNCHANGED <<mode, run, pending>>

Probe == /\ mode = "OPEN" /\ quiet
         /\ mode' = "HALF_OPEN"
         /\ UNCHANGED <<run, quiet, pending>>

ForceClosed == mode' = "CLOSED" /\ run' = 0 /\ UNCHANGED <<quiet, pending>>

Next == \/ \E c \in Callers : LetThrough(c) \/ GoodAnswer(c) \/ BadAnswer(c)
        \/ Quieten \/ Probe \/ ForceClosed

BSpec == Init /\ [][Next]_bvars
=============================================================================
