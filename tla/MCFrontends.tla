----------------------------- MODULE MCFrontends -----------------------------
EXTENDS AdminPortal, MerchantPortal, Storefront, TLC

\* The three share nothing, so that a behaviour is one of the one, of the other or
\* of the third.
VARIABLE frontend

MCInit == /\ frontend \in {"admin", "merchant", "store"}
          /\ AdminInit /\ PortalInit /\ StoreInit
          /\ frontend # "admin" => adminPage = "login"
          /\ frontend # "merchant" => portalPage = "login"
          /\ frontend # "store" => storePage = "home"
MCNext ==
    \/ frontend = "admin" /\ AdminNext /\ UNCHANGED <<frontend, portalVars, storeVars>>
    \/ frontend = "merchant" /\ PortalNext /\ UNCHANGED <<frontend, adminVars, storeVars>>
    \/ frontend = "store" /\ StoreNext /\ UNCHANGED <<frontend, adminVars, portalVars>>
MCVars == <<frontend, adminVars, portalVars, storeVars>>

\* An effect of a page that is shown is run.
GuardRuns == frontend = "admin" /\ Guard
Spec == MCInit /\ [][MCNext]_MCVars /\ WF_adminVars(GuardRuns)
==============================================================================
