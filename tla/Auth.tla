-------------------------------- MODULE Auth --------------------------------
(***************************************************************************)
(* The auth service: registration of tenants, sessions, verification of    *)
(* e-mail addresses, resets of passwords, and the webhook of the gateway   *)
(* and the administrators that decide whether a tenant is served.          *)
(*                                                                         *)
(* A worker runs one HTTP request and every await ends a step.  A tenant   *)
(* is named by its subdomain and a user by the e-mail address: both are    *)
(* unique and never change.  Passwords are left out: a login is one with   *)
(* the right password.  isActive is only ever written TRUE.                *)
(***************************************************************************)
EXTENDS Naturals

CONSTANTS Tenants, Users,
          Workers,   \* concurrent requests
          MaxLogins, \* refresh tokens signed for a user (bound)
          MaxResets, \* reset tokens made for a user (bound)
          Tenants0   \* the tenants registered at the start

None == "none"

ASSUME AuthAssumption ==
    /\ MaxLogins \in Nat
    /\ MaxResets \in Nat
    /\ Tenants0 \subseteq Tenants
    /\ None \notin Tenants \cup Users

VARIABLES
    tenant,  \* subdomain -> row of the tenant
    user,    \* address -> row of the user
    issued,  \* user -> the refresh token signed last
    made,    \* user -> the reset token made last
    past,    \* the reset tokens whose hour has passed
    serves, worker,
    raced,   \* users whose row was written while a save of it was under way (history)
    revoked, \* user -> refresh tokens a logout has cleared and no login stored since (history)
    spent,   \* user -> reset tokens that have been cleared after use (history)
    confirmed, \* users whose address was verified (history)
    cancelled, \* tenants suspended by a cancellation and not readmitted (history)
    failed,  \* tenants whose registration was cut off (history)
    contested \* addresses two registrations were under way for (history)

history == <<raced, revoked, spent, confirmed, cancelled, failed, contested>>
vars == <<tenant, user, issued, made, past, serves, worker, history>>

NoTenant == [status |-> None]
NoUser == [tenant |-> None]
NoToken == 0
Idle == [pc |-> "idle"]
TenantStatus == {"active", "inactive", "suspended", "trial", "pending_payment"}
\* The names of the gateway's events that the webhook knows.
Events == {"PAYMENT_CONFIRMED", "PAYMENT_OVERDUE", "SUBSCRIPTION_CANCELLED"}
Kinds == {"sessions", "recovery", "registrations", "billing"}

NewTenant(u) == [status |-> "trial", overdue |-> "no", billed |-> "no", owner |-> u]
NewUser(t) == [tenant |-> t, refresh |-> NoToken, reset |-> NoToken, verified |-> "no"]

Init == /\ \E owner \in [Tenants0 -> Users] :
              /\ \A t, s \in Tenants0 : owner[t] = owner[s] => t = s
              /\ tenant = [t \in Tenants |-> IF t \in Tenants0 THEN NewTenant(owner[t]) ELSE NoTenant]
              /\ user = [u \in Users |-> IF \E t \in Tenants0 : owner[t] = u
                                         THEN NewUser(CHOOSE t \in Tenants0 : owner[t] = u)
                                         ELSE NoUser]
        /\ issued = [u \in Users |-> NoToken]
        /\ made = [u \in Users |-> NoToken]
        /\ past = {}
        /\ serves \in [Workers -> Kinds]
        /\ worker = [w \in Workers |-> Idle]
        /\ raced = {} /\ confirmed = {} /\ cancelled = {} /\ failed = {} /\ contested = {}
        /\ revoked = [u \in Users |-> {}]
        /\ spent = [u \in Users |-> {}]

HasTenant(t) == tenant[t] # NoTenant
HasUser(u) == user[u] # NoUser
\* Requests under way for user u, at a given point.
At(pc, u) == {w \in Workers : worker[w].pc = pc /\ worker[w].u = u}

Become(w, r) == worker' = [worker EXCEPT ![w] = r]
Step(w, pc, next, r) == worker[w].pc = pc /\ Become(w, IF next = "idle" THEN Idle ELSE [r EXCEPT !.pc = next])

\* An UPDATE of columns of a user, and whether it overlaps a save of the whole row.
WriteUser(w, u, row) ==
    /\ user' = [user EXCEPT ![u] = row]
    /\ raced' = IF At("save", u) \subseteq {w} THEN raced ELSE raced \cup {u}

(* Who is served *)

\* The check of every guarded request; the row of a user is never removed.
Served(t) == /\ HasTenant(t)
             /\ tenant[t].status # "suspended"
             /\ ~ (tenant[t].overdue = "yes" /\ tenant[t].status = "pending_payment")

\* A refresh compares with the one stored token, and asks nothing else.
RefreshAccepted(u, token) == HasUser(u) /\ token # NoToken /\ user[u].refresh = token

(* Registration *)

StartRegister(w, t, u) ==
    /\ worker[w] = Idle
    /\ ~ HasTenant(t)
    /\ Become(w, [pc |-> "email", t |-> t, u |-> u])
    /\ contested' = IF \E v \in Workers : worker[v].pc \in {"email", "insert_tenant", "insert_user"}
                                           /\ worker[v].u = u
                    THEN contested \cup {u} ELSE contested
    /\ UNCHANGED <<tenant, user, issued, made, past, serves, raced, revoked, spent, confirmed,
                   cancelled, failed>>

\* mutant: the address of the owner is not looked up
SkipEmail(w) == Step(w, "email", "insert_tenant", worker[w])
                /\ UNCHANGED <<tenant, user, issued, made, past, serves, history>>
CheckEmail(w) ==
    /\ worker[w].pc = "email"
    /\ Step(w, "email", IF HasUser(worker[w].u) THEN "idle" ELSE "insert_tenant", worker[w])
    /\ UNCHANGED <<tenant, user, issued, made, past, serves, history>>

\* The column subdomain is unique.
InsertTenant(w) ==
    /\ worker[w].pc = "insert_tenant"
    /\ LET t == worker[w].t IN
       IF HasTenant(t) THEN Become(w, Idle) /\ UNCHANGED tenant
       ELSE /\ tenant' = [tenant EXCEPT ![t] = NewTenant(worker[w].u)]
            /\ Step(w, "insert_tenant", "insert_user", worker[w])
    /\ UNCHANGED <<user, issued, made, past, serves, history>>

\* The column email is unique: a tenant whose owner is refused stays.
InsertUser(w) ==
    /\ worker[w].pc = "insert_user"
    /\ LET u == worker[w].u IN
       user' = IF HasUser(u) THEN user
               ELSE [user EXCEPT ![u] = NewUser(worker[w].t)]
    /\ Become(w, Idle)
    /\ UNCHANGED <<tenant, issued, made, past, serves, history>>

(* Sessions *)

StartLogin(w, u) ==
    /\ worker[w] = Idle
    /\ HasUser(u)
    /\ Become(w, [pc |-> "login", u |-> u, t |-> user[u].tenant, token |-> NoToken])
    /\ UNCHANGED <<tenant, user, issued, made, past, serves, history>>

\* Only a suspended tenant is refused here, one that is overdue is not.
CheckTenant(w) ==
    /\ worker[w].pc = "login"
    /\ Step(w, "login", IF tenant[worker[w].t].status = "suspended" THEN "idle" ELSE "sign", worker[w])
    /\ UNCHANGED <<tenant, user, issued, made, past, serves, history>>

\* After updateLastLogin.  Two tokens of one second are the same text.
Sign(w) ==
    /\ worker[w].pc = "sign"
    /\ LET u == worker[w].u IN
       \E token \in {issued[u], issued[u] + 1} \cap 1..MaxLogins :
          /\ issued' = [issued EXCEPT ![u] = token]
          /\ Become(w, [pc |-> "store", u |-> u, t |-> worker[w].t, token |-> token])
    /\ UNCHANGED <<tenant, user, made, past, serves, history>>

StoreRefresh(w) ==
    /\ worker[w].pc = "store"
    /\ LET u == worker[w].u IN
       /\ WriteUser(w, u, [user[u] EXCEPT !.refresh = worker[w].token])
       /\ revoked' = [revoked EXCEPT ![u] = @ \ {worker[w].token}]
    /\ Become(w, Idle)
    /\ UNCHANGED <<tenant, issued, made, past, serves, spent, confirmed, cancelled, failed, contested>>

StartLogout(w, u) ==
    /\ worker[w] = Idle
    /\ HasUser(u)
    /\ Served(user[u].tenant)
    /\ Become(w, [pc |-> "logout", u |-> u])
    /\ UNCHANGED <<tenant, user, issued, made, past, serves, history>>

ClearRefresh(w) ==
    /\ worker[w].pc = "logout"
    /\ LET u == worker[w].u IN
       /\ WriteUser(w, u, [user[u] EXCEPT !.refresh = NoToken])
       /\ revoked' = [revoked EXCEPT ![u] = @ \cup ({user[u].refresh} \ {NoToken})]
    /\ Become(w, Idle)
    /\ UNCHANGED <<tenant, issued, made, past, serves, spent, confirmed, cancelled, failed, contested>>

(* Verification and recovery *)

\* findByTenant(null) looks through all users; the token is cleared once it was used.
StartVerify(w, u) ==
    /\ worker[w] = Idle
    /\ HasUser(u)
    /\ user[u].verified = "no"
    /\ Become(w, [pc |-> "verify", u |-> u])
    /\ UNCHANGED <<tenant, user, issued, made, past, serves, history>>

MarkVerified(w) ==
    /\ worker[w].pc = "verify"
    /\ WriteUser(w, worker[w].u, [user[worker[w].u] EXCEPT !.verified = "yes"])
    /\ confirmed' = confirmed \cup {worker[w].u}
    /\ Become(w, Idle)
    /\ UNCHANGED <<tenant, issued, made, past, serves, revoked, spent, cancelled, failed, contested>>

StartForgot(w, u) ==
    /\ worker[w] = Idle
    /\ HasUser(u)
    /\ made[u] < MaxResets
    /\ made' = [made EXCEPT ![u] = @ + 1]
    /\ Become(w, [pc |-> "forgot", u |-> u, token |-> made[u] + 1])
    /\ UNCHANGED <<tenant, user, issued, past, serves, history>>

StoreReset(w) ==
    /\ worker[w].pc = "forgot"
    /\ WriteUser(w, worker[w].u, [user[worker[w].u] EXCEPT !.reset = worker[w].token])
    /\ Become(w, Idle)
    /\ UNCHANGED <<tenant, issued, made, past, serves, revoked, spent, confirmed, cancelled, failed,
                   contested>>

\* The hour of a reset token passes.
Expire(u) ==
    /\ HasUser(u)
    /\ user[u].reset # NoToken
    /\ <<u, user[u].reset>> \notin past
    /\ past' = past \cup {<<u, user[u].reset>>}
    /\ UNCHANGED <<tenant, user, issued, made, serves, worker, history>>

FindReset(w, u) ==
    /\ worker[w] = Idle
    /\ HasUser(u)
    /\ user[u].reset # NoToken
    /\ <<u, user[u].reset>> \notin past
    /\ Become(w, [pc |-> "reset", u |-> u, token |-> user[u].reset, row |-> user[u]])
    /\ UNCHANGED <<tenant, user, issued, made, past, serves, history>>

\* mutant: updatePassword saves the row that was found by its token
KeepRow(w) ==
    /\ worker[w].pc = "reset"
    /\ Become(w, [worker[w] EXCEPT !.pc = "save"])
    /\ UNCHANGED <<tenant, user, issued, made, past, serves, history>>
ReadAgain(w) ==
    /\ worker[w].pc = "reset"
    /\ Become(w, [worker[w] EXCEPT !.pc = "save", !.row = user[worker[w].u]])
    /\ UNCHANGED <<tenant, user, issued, made, past, serves, history>>

\* save writes every column that differs from the row read before.
SavePassword(w) ==
    /\ worker[w].pc = "save"
    /\ WriteUser(w, worker[w].u, worker[w].row)
    /\ Become(w, [pc |-> "clear", u |-> worker[w].u, token |-> worker[w].token])
    /\ UNCHANGED <<tenant, issued, made, past, serves, revoked, spent, confirmed, cancelled, failed,
                   contested>>

\* Clears the token that is stored now, whichever was used.
ClearReset(w) ==
    /\ worker[w].pc = "clear"
    /\ LET u == worker[w].u IN
       /\ WriteUser(w, u, [user[u] EXCEPT !.reset = NoToken])
       /\ spent' = [spent EXCEPT ![u] = @ \cup {worker[w].token}]
    /\ Become(w, Idle)
    /\ UNCHANGED <<tenant, issued, made, past, serves, revoked, confirmed, cancelled, failed, contested>>

(* Billing *)

\* The customer and the subscription of the gateway are entered by hand.
Enrol(t) ==
    /\ HasTenant(t)
    /\ tenant[t].billed = "no"
    /\ tenant' = [tenant EXCEPT ![t].billed = "yes"]
    /\ UNCHANGED <<user, issued, made, past, serves, worker, history>>

StartWebhook(w, t, event) ==
    /\ worker[w] = Idle
    /\ HasTenant(t)
    /\ tenant[t].billed = "yes"
    /\ Become(w, [pc |-> "hook", t |-> t, event |-> event])
    /\ UNCHANGED <<tenant, user, issued, made, past, serves, history>>

\* mutant: markOverdue changes the status only
AfterEventStatusOnly(row, event) ==
    CASE event = "PAYMENT_CONFIRMED" -> [row EXCEPT !.status = "active", !.overdue = "no"]
      [] event = "PAYMENT_OVERDUE" -> [row EXCEPT !.status = "pending_payment"]
      [] event = "SUBSCRIPTION_CANCELLED" -> [row EXCEPT !.status = "suspended"]
AfterEvent(row, event) ==
    CASE event = "PAYMENT_CONFIRMED" -> [row EXCEPT !.status = "active", !.overdue = "no"]
      [] event = "PAYMENT_OVERDUE" -> [row EXCEPT !.status = "pending_payment", !.overdue = "yes"]
      [] event = "SUBSCRIPTION_CANCELLED" -> [row EXCEPT !.status = "suspended"]

WriteEvent(w) ==
    /\ worker[w].pc = "hook"
    /\ LET t == worker[w].t  event == worker[w].event IN
       /\ tenant' = [tenant EXCEPT ![t] = AfterEvent(@, event)]
       /\ cancelled' = CASE event = "PAYMENT_CONFIRMED" -> cancelled \ {t}
                         [] event = "SUBSCRIPTION_CANCELLED" -> cancelled \cup {t}
                         [] OTHER -> cancelled
    /\ Become(w, Idle)
    /\ UNCHANGED <<user, issued, made, past, serves, raced, revoked, spent, confirmed, failed, contested>>

\* By an administrator of the platform.
StartStatus(w, t, status) ==
    /\ worker[w] = Idle
    /\ HasTenant(t)
    /\ Become(w, [pc |-> "status", t |-> t, status |-> status])
    /\ UNCHANGED <<tenant, user, issued, made, past, serves, history>>

UpdateStatus(w) ==
    /\ worker[w].pc = "status"
    /\ tenant' = [tenant EXCEPT ![worker[w].t].status = worker[w].status]
    /\ cancelled' = cancelled \ {worker[w].t}
    /\ Become(w, Idle)
    /\ UNCHANGED <<user, issued, made, past, serves, raced, revoked, spent, confirmed, failed, contested>>

\* The database refuses a statement, or the process is killed: the request ends where it is.
CutOff(w) ==
    /\ worker[w] # Idle
    /\ failed' = IF worker[w].pc = "insert_user" THEN failed \cup {worker[w].t} ELSE failed
    /\ Become(w, Idle)
    /\ UNCHANGED <<tenant, user, issued, made, past, serves, raced, revoked, spent, confirmed,
                   cancelled, contested>>

Request(w) ==
    \/ /\ serves[w] = "registrations"
       /\ \/ \E t \in Tenants, u \in Users : StartRegister(w, t, u)
          \/ CheckEmail(w) \/ InsertTenant(w) \/ InsertUser(w)
    \/ /\ serves[w] = "sessions"
       /\ \/ \E u \in Users : StartLogin(w, u) \/ StartLogout(w, u)
          \/ CheckTenant(w) \/ Sign(w) \/ StoreRefresh(w) \/ ClearRefresh(w)
    \/ /\ serves[w] = "recovery"
       /\ \/ \E u \in Users : StartVerify(w, u) \/ StartForgot(w, u) \/ FindReset(w, u)
          \/ MarkVerified(w) \/ StoreReset(w) \/ ReadAgain(w) \/ SavePassword(w) \/ ClearReset(w)
    \/ /\ serves[w] = "billing"
       /\ \/ \E t \in Tenants : \/ \E event \in Events : StartWebhook(w, t, event)
                                \/ \E status \in TenantStatus : StartStatus(w, t, status)
          \/ WriteEvent(w) \/ UpdateStatus(w)

Next == \/ \E w \in Workers : Request(w) \/ CutOff(w)
        \/ \E u \in Users : Expire(u)
        \/ \E t \in Tenants : Enrol(t)

AuthSpec == Init /\ [][Next]_vars

(* Properties *)

\* Nothing cleared comes back by itself: a refresh token that a logout cleared is not accepted
\* again before a login stores it (as it may: logins of one second sign one and the same text,
\* and the second to store it revives it), a reset token that was cleared after its use is not
\* stored again, and an address stays verified, all this unless the row of the user was written
\* between updatePassword's read of it and its save.
NothingRevived ==
    \A u \in Users \ raced :
        /\ \A token \in revoked[u] : ~ RefreshAccepted(u, token)
        /\ HasUser(u) => user[u].reset \notin spent[u]
        /\ u \in confirmed => user[u].verified = "yes"

\* A tenant whose registration is over has an owner, who belongs to no other tenant, unless
\* the registration was cut off or two were under way for one address.
TenantsHaveOwners ==
    \A t \in Tenants : HasTenant(t) =>
        \/ user[tenant[t].owner].tenant = t
        \/ \E w \in Workers : worker[w].pc = "insert_user" /\ worker[w].t = t
        \/ t \in failed
        \/ tenant[t].owner \in contested

\* Once a cancellation has suspended a tenant, its users' guarded requests are refused, whatever
\* event comes late or overlaps, until a payment is confirmed or an administrator decides.
\* Their logins and refreshes are not: a late PAYMENT_OVERDUE makes the status pending_payment,
\* which validateUser lets pass, and a refresh asks for no status at all.
CancelledNotServed == \A t \in cancelled : ~ Served(t)
=============================================================================
