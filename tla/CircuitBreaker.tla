--------------------------- MODULE CircuitBreaker ---------------------------
(***************************************************************************)
(* The circuit breaker that HttpServiceClient puts in front of every call  *)
(* to another service (shared/communication/circuit-breaker.ts).           *)
(*                                                                         *)
(* JavaScript runs one callback at a time, so each handler is one action:  *)
(* the synchronous part of execute() up to its await, the continuation     *)
(* after the awaited call settled, one firing of the monitor interval.     *)
(* What interleaves is the calls in flight: a call admitted in one state   *)
(* of the breaker settles in another.                                      *)
(*                                                                         *)
(* Time.  The code only compares Date.now() - lastFailureTime with         *)
(* resetTimeout, so the model keeps that difference, cut off one past      *)
(* ResetTimeout.  A call in flight has an age; no call gets older than     *)
(* CallTimeout (the timeout of the axios instance, 5000 ms beside a        *)
(* resetTimeout of 10000 ms).                                              *)
(***************************************************************************)
EXTENDS Integers, FiniteSets

CONSTANTS Callers,           \* slots for concurrent execute() calls
          FailureThreshold,  \* options.failureThreshold
          SuccessThreshold,  \* the field successThreshold
          ResetTimeout,      \* options.resetTimeout, in ticks
          CallTimeout        \* longest time a call is in flight, in ticks

ASSUME BreakerAssumption ==
    /\ IsFiniteSet(Callers)
    /\ FailureThreshold \in Nat \ {0}
    /\ SuccessThreshold \in Nat \ {0}
    /\ ResetTimeout \in Nat
    /\ CallTimeout \in Nat

VARIABLES state,         \* the field state
          failureCount,  \* the field failureCount
          successCount,  \* the field successCount
          sinceFailure,  \* Date.now() - lastFailureTime, cut off at Expired
          timer,         \* is the monitor interval running?
          inFlight,      \* the callers whose fn() has not settled
          age            \* how long each call has been in flight

vars == <<state, failureCount, successCount, sinceFailure, timer, inFlight, age>>
counters == <<failureCount, successCount>>
calls == <<inFlight, age>>

CircuitState == {"CLOSED", "OPEN", "HALF_OPEN"}

\* Any difference above resetTimeout looks the same to monitor().
Expired == ResetTimeout + 1

Init == /\ state = "CLOSED"
        /\ failureCount = 0
        /\ successCount = 0
        /\ sinceFailure = Expired   \* lastFailureTime is 0, the epoch
        /\ timer = TRUE             \* the constructor starts monitoring
        /\ inFlight = {}
        /\ age = [c \in Callers |-> 0]

-----------------------------------------------------------------------------
\* Change state, the counters being fc and sc at that point.  Nothing happens
\* when the state is the same; entering CLOSED or OPEN clears both counters.
TransitionToState(new, fc, sc) ==
    /\ state' = new
    /\ IF new = state \/ new = "HALF_OPEN"
       THEN failureCount' = fc /\ successCount' = sc
       ELSE failureCount' = 0 /\ successCount' = 0

\* The interval callback.
MonitorDueInSeconds ==  \* mutant: the option is taken for seconds
    timer /\ state = "OPEN" /\ sinceFailure > 1000 * (ResetTimeout + 1)
MonitorDue == timer /\ state = "OPEN" /\ sinceFailure > ResetTimeout
Monitor ==
    /\ MonitorDue
    /\ TransitionToState("HALF_OPEN", failureCount, successCount)
    /\ UNCHANGED <<sinceFailure, timer, calls>>

\* execute() up to its await.  In OPEN it throws and changes nothing.
Admitted == state # "OPEN"
Execute(c) ==
    /\ c \notin inFlight
    /\ Admitted
    /\ inFlight' = inFlight \cup {c}
    /\ age' = [age EXCEPT ![c] = 0]
    /\ UNCHANGED <<state, counters, sinceFailure, timer>>

Settle(c) ==
    /\ c \in inFlight
    /\ inFlight' = inFlight \ {c}
    /\ UNCHANGED <<age, timer>>

Closes == successCount + 1 >= SuccessThreshold

RecordSuccess ==
    \/ /\ state = "HALF_OPEN"
       /\ TransitionToState(IF Closes THEN "CLOSED" ELSE state,
                            failureCount, successCount + 1)
    \/ state = "CLOSED" /\ TransitionToState(state, 0, successCount)
    \/ state = "OPEN" /\ TransitionToState(state, failureCount, successCount)

Succeed(c) ==
    /\ Settle(c)
    /\ RecordSuccess
    /\ UNCHANGED sinceFailure

\* Does the failure just counted open the breaker?
TripsTooLate ==         \* mutant: > for >=
    state = "HALF_OPEN" \/ (state = "CLOSED" /\ failureCount + 1 > FailureThreshold)
Trips == \/ state = "HALF_OPEN"
         \/ state = "CLOSED" /\ failureCount + 1 >= FailureThreshold

RecordFailure ==
    /\ sinceFailure' = 0
    /\ TransitionToState(IF Trips THEN "OPEN" ELSE state,
                         failureCount + 1, successCount)

Fail(c) == Settle(c) /\ RecordFailure

\* The public reset(): in CLOSED it is a no-op that keeps the counters.
Reset ==
    /\ state # "CLOSED"
    /\ TransitionToState("CLOSED", failureCount, successCount)
    /\ UNCHANGED <<sinceFailure, timer, calls>>

Destroy ==
    /\ timer
    /\ timer' = FALSE
    /\ UNCHANGED <<state, counters, sinceFailure, calls>>

\* Time passes; a call that reached its timeout settles first.
Tick ==
    /\ \A c \in inFlight : age[c] < CallTimeout
    /\ sinceFailure' = IF sinceFailure < Expired THEN sinceFailure + 1 ELSE Expired
    /\ age' = [c \in Callers |-> IF c \in inFlight THEN age[c] + 1 ELSE age[c]]
    /\ UNCHANGED <<state, counters, timer, inFlight>>

Next == \/ \E c \in Callers : Execute(c) \/ Succeed(c) \/ Fail(c)
        \/ Monitor
        \/ Reset
        \/ Destroy
        \/ Tick

Spec == Init /\ [][Next]_vars

\* Intervals fire as long as they are installed, time passes, and a call
\* settles one way or the other because its socket times out.
Fairness == /\ WF_vars(Monitor)
            /\ WF_vars(Tick)
            /\ \A c \in Callers : WF_vars(Succeed(c) \/ Fail(c))

FairSpec == Spec /\ Fairness

-----------------------------------------------------------------------------
(* Properties *)

\* The fields have the values the class gives them; the success counter never
\* holds the value that should have closed the breaker.
TypeOK ==
    /\ state \in CircuitState
    /\ failureCount \in Nat
    /\ successCount \in 0..SuccessThreshold - 1
    /\ sinceFailure \in 0..Expired
    /\ timer \in BOOLEAN
    /\ inFlight \subseteq Callers
    /\ age \in [Callers -> 0..CallTimeout]

\* The counters are meaningful only in the state they belong to: a closed
\* breaker is below the failure threshold and has no successes left over from
\* an earlier half-open period, and an open one starts the next half-open
\* period with no success, however late calls settle.
CountersMatchState ==
    /\ state = "CLOSED" => failureCount < FailureThreshold
    /\ state # "HALF_OPEN" => successCount = 0

\* A half-open breaker has seen no failure for longer than resetTimeout: one
\* late failure, even of a call older than the period, reopens it.
HalfOpenIsQuiet == state = "HALF_OPEN" => sinceFailure > ResetTimeout

\* While OPEN only the calls admitted before can still count a failure, so the
\* counter the code keeps incrementing there is bounded.
StragglersAreCounted ==
    /\ state = "OPEN" => failureCount + Cardinality(inFlight) <= Cardinality(Callers)
    /\ state = "HALF_OPEN" => failureCount <= Cardinality(Callers)

\* A call admitted before the breaker opened that is still in flight when
\* monitor() lets probes through is older than resetTimeout: with calls that
\* time out earlier, what a half-open breaker counts are its own probes.
StragglersAreOld ==
    [][state = "OPEN" /\ state' = "HALF_OPEN" =>
          \A c \in inFlight : age[c] > ResetTimeout]_vars

\* Late failures postpone the half-open period but cannot postpone it for ever.
OpenIsLeft == state = "OPEN" ~> (state # "OPEN" \/ ~timer)
=============================================================================
