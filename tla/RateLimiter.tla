---------------------------- MODULE RateLimiter ----------------------------
(***************************************************************************)
(* The limiter of login attempts: per identifier, how many attempts there  *)
(* were and when the last one was.  A call runs to its end in one step.    *)
(***************************************************************************)
EXTENDS Naturals, Sequences

CONSTANTS Identifiers,
          MaxAttempts, \* MAX_LOGIN_ATTEMPTS
          LockoutTime, \* LOCKOUT_TIME
          MaxTime      \* bound on the clock

ASSUME LimiterAssumption == /\ MaxAttempts \in Nat \ {0}
                            /\ LockoutTime \in Nat \ {0}
                            /\ MaxTime \in Nat

VARIABLES now, loginAttempts,
          passed \* identifier -> times of the last Limit + 1 attempts let through since a
                 \* reset, in order (history)

limiterVars == <<now, loginAttempts, passed>>

NoAttempts == [count |-> 0]

LimiterInit == /\ now = 0
               /\ loginAttempts = [i \in Identifiers |-> NoAttempts]
               /\ passed = [i \in Identifiers |-> <<>>]

Since(i) == now - loginAttempts[i].lastAttempt
Known(i) == loginAttempts[i] # NoAttempts

Blocked(i) == Known(i) /\ loginAttempts[i].count >= MaxAttempts /\ Since(i) < LockoutTime

\* The first attempt, or the first after a pause as long as a lockout.
Restarts(i) == ~ Known(i) \/ Since(i) >= LockoutTime
Count(i) == IF Restarts(i) THEN 1 ELSE loginAttempts[i].count + 1
Lets(i) == Restarts(i) \/ Count(i) < MaxAttempts

\* How many attempts a run of them may see let through.
Limit == IF MaxAttempts = 1 THEN 1 ELSE MaxAttempts - 1
Record(times) == Append(IF Len(times) > Limit THEN Tail(times) ELSE times, now)

\* mutant: the time of the first attempt is kept while the attempts are counted
registerFromFirst(i) ==
    /\ ~ Blocked(i)
    /\ loginAttempts' = [loginAttempts EXCEPT ![i] =
          [count |-> Count(i),
           lastAttempt |-> IF Restarts(i) THEN now ELSE loginAttempts[i].lastAttempt]]
    /\ passed' = IF Lets(i) THEN [passed EXCEPT ![i] = Record(@)] ELSE passed
    /\ UNCHANGED now
registerLoginAttempt(i) ==
    /\ ~ Blocked(i)
    /\ loginAttempts' = [loginAttempts EXCEPT ![i] = [count |-> Count(i), lastAttempt |-> now]]
    /\ passed' = IF Lets(i) THEN [passed EXCEPT ![i] = Record(@)] ELSE passed
    /\ UNCHANGED now

resetLoginAttempts(i) ==
    /\ loginAttempts' = [loginAttempts EXCEPT ![i] = NoAttempts]
    /\ passed' = [passed EXCEPT ![i] = <<>>]
    /\ UNCHANGED now

getRemainingLockoutTime(i) ==
    IF ~ Known(i) \/ loginAttempts[i].count < MaxAttempts \/ Since(i) >= LockoutTime THEN 0
    ELSE LockoutTime - Since(i)

Tick == now < MaxTime /\ now' = now + 1 /\ UNCHANGED <<loginAttempts, passed>>

LimiterNext == \/ \E i \in Identifiers : registerLoginAttempt(i) \/ resetLoginAttempts(i)
               \/ Tick

LimiterSpec == LimiterInit /\ [][LimiterNext]_limiterVars

(* Properties *)

\* Between two resets no time span shorter than a lockout sees more attempts let through than
\* the limit less one (one, if the limit is one); and who is told to wait is not let through
\* before that time is over.
LockoutHolds ==
    \A i \in Identifiers :
        /\ Len(passed[i]) > Limit => passed[i][1] + LockoutTime <= passed[i][Limit + 1]
        /\ getRemainingLockoutTime(i) > 0 =>
             /\ Blocked(i)
             /\ loginAttempts[i].lastAttempt + LockoutTime = now + getRemainingLockoutTime(i)
=============================================================================
