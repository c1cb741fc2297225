------------------------------- MODULE MCAuth -------------------------------
EXTENDS Auth, RateLimiter, TLC

\* The two share nothing, so that a behaviour is one of the one or one of the other.
VARIABLE service

MCInit == service \in {"auth", "limiter"} /\ Init /\ LimiterInit
MCNext == \/ service = "auth" /\ Next /\ UNCHANGED <<service, limiterVars>>
          \/ service = "limiter" /\ LimiterNext /\ UNCHANGED <<service, vars>>
Spec == MCInit /\ [][MCNext]_<<service, vars, limiterVars>>

Symmetry == Permutations(Workers) \cup Permutations(Users) \cup Permutations(Tenants0)
            \cup Permutations(Tenants \ Tenants0) \cup Permutations(Identifiers)
=============================================================================
