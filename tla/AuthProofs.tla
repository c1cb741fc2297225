----------------------------- MODULE AuthProofs -----------------------------
(***************************************************************************)
(* The auth service and the limiter of logins, for any number of tenants,  *)
(* users, requests under way and tokens.                                   *)
(*                                                                         *)
(* AuthTypeOK says what a request holds at each of its awaits and that the *)
(* rows it works on exist: no row is ever removed.  On it rest three       *)
(* invariants, one per property, each the strengthening its property       *)
(* needs.                                                                  *)
(***************************************************************************)
EXTENDS Auth, RateLimiter, TLAPS

UserRow == [tenant : Tenants, refresh : Nat, reset : Nat, verified : {"yes", "no"}]
TenantRow == [status : TenantStatus, overdue : {"yes", "no"}, billed : {"yes", "no"}, owner : Users]

\* What a request holds, by the point it has reached.
Registration == [pc : {"email", "insert_tenant", "insert_user"}, t : Tenants, u : Users]
Login == [pc : {"login", "sign", "store"}, u : Users, t : Tenants, token : Nat]
Plain == [pc : {"logout", "verify"}, u : Users]
Forgot == [pc : {"forgot"}, u : Users, token : Nat \ {0}]
Resetting == [pc : {"reset", "save"}, u : Users, token : Nat \ {0}, row : UserRow]
Clearing == [pc : {"clear"}, u : Users, token : Nat \ {0}]
Hook == [pc : {"hook"}, t : Tenants, event : Events]
Deciding == [pc : {"status"}, t : Tenants, status : TenantStatus]
Requests == Registration \cup Login \cup Plain \cup Forgot \cup Resetting \cup Clearing \cup Hook
            \cup Deciding

\* The points at which the row of the user, or of the tenant, was seen.
SawUser == {"login", "sign", "store", "logout", "verify", "forgot", "reset", "save", "clear"}
SawTenant == {"insert_user", "hook", "status"}

AuthTypeOK ==
    /\ tenant \in [Tenants -> TenantRow \cup {NoTenant}]
    /\ user \in [Users -> UserRow \cup {NoUser}]
    /\ issued \in [Users -> Nat]
    /\ made \in [Users -> Nat]
    /\ worker \in [Workers -> Requests \cup {Idle}]
    /\ \A w \in Workers : worker[w].pc \in SawUser => HasUser(worker[w].u)
    /\ \A w \in Workers : worker[w].pc \in SawTenant => HasTenant(worker[w].t)

\* A row is one or none.
LEMMA Rows ==
    ASSUME AuthTypeOK
    PROVE  /\ \A u \in Users : HasUser(u) <=> user[u] \in UserRow
           /\ \A t \in Tenants : HasTenant(t) <=> tenant[t] \in TenantRow
<1>1. NoUser \notin UserRow BY AuthAssumption DEF NoUser, UserRow
<1>2. NoTenant \notin TenantRow BY DEF NoTenant, TenantRow, TenantStatus, None
<1> QED BY <1>1, <1>2 DEF AuthTypeOK, HasUser, HasTenant

\* The point a request has reached tells what it holds.
LEMMA Holds ==
    ASSUME AuthTypeOK, NEW w \in Workers
    PROVE  /\ worker[w].pc \in {"email", "insert_tenant", "insert_user"} => worker[w] \in Registration
           /\ worker[w].pc \in {"login", "sign", "store"} => worker[w] \in Login
           /\ worker[w].pc \in {"logout", "verify"} => worker[w] \in Plain
           /\ worker[w].pc = "forgot" => worker[w] \in Forgot
           /\ worker[w].pc \in {"reset", "save"} => worker[w] \in Resetting
           /\ worker[w].pc = "clear" => worker[w] \in Clearing
           /\ worker[w].pc = "hook" => worker[w] \in Hook
           /\ worker[w].pc = "status" => worker[w] \in Deciding
<1>1. worker[w] \in Requests \cup {Idle} BY DEF AuthTypeOK
<1> QED
  BY <1>1 DEF Requests, Idle, Registration, Login, Plain, Forgot, Resetting, Clearing, Hook, Deciding

LEMMA InitTypes == Init => AuthTypeOK
<1> SUFFICES ASSUME Init PROVE AuthTypeOK
  OBVIOUS
<1>1. PICK owner \in [Tenants0 -> Users] :
         /\ tenant = [t \in Tenants |-> IF t \in Tenants0 THEN NewTenant(owner[t]) ELSE NoTenant]
         /\ user = [u \in Users |-> IF \E t \in Tenants0 : owner[t] = u
                                    THEN NewUser(CHOOSE t \in Tenants0 : owner[t] = u)
                                    ELSE NoUser]
  BY DEF Init
<1>2. tenant \in [Tenants -> TenantRow \cup {NoTenant}]
  BY <1>1, AuthAssumption DEF NewTenant, TenantRow, TenantStatus
<1>3. ASSUME NEW u \in Users PROVE user[u] \in UserRow \cup {NoUser}
  <2>1. CASE \E t \in Tenants0 : owner[t] = u
    <3>1. (CHOOSE t \in Tenants0 : owner[t] = u) \in Tenants BY <2>1, AuthAssumption
    <3>2. user[u] = NewUser(CHOOSE t \in Tenants0 : owner[t] = u) BY <1>1, <2>1
    <3> QED BY <3>1, <3>2 DEF NewUser, UserRow, NoToken
  <2>2. CASE ~ \E t \in Tenants0 : owner[t] = u BY <1>1, <2>2
  <2> QED BY <2>1, <2>2
<1>4. user \in [Users -> UserRow \cup {NoUser}] BY <1>1, <1>3
<1>5. /\ issued \in [Users -> Nat] /\ made \in [Users -> Nat]
      /\ worker = [w \in Workers |-> Idle]
  BY DEF Init, NoToken
<1> QED BY <1>2, <1>4, <1>5 DEF AuthTypeOK, Idle, SawUser, SawTenant

\* A request that ends, or goes on with what it may hold, keeps the types, if no row goes away.
LEMMA TypesKept ==
    ASSUME AuthTypeOK,
           tenant' \in [Tenants -> TenantRow \cup {NoTenant}],
           user' \in [Users -> UserRow \cup {NoUser}],
           issued' \in [Users -> Nat], made' \in [Users -> Nat],
           \A t \in Tenants : HasTenant(t) => HasTenant(t)',
           \A u \in Users : HasUser(u) => HasUser(u)',
           NEW w \in Workers, NEW r \in Requests \cup {Idle}, Become(w, r),
           r.pc \in SawUser => HasUser(r.u)',
           r.pc \in SawTenant => HasTenant(r.t)'
    PROVE  AuthTypeOK'
<1>1. worker' \in [Workers -> Requests \cup {Idle}] BY DEF AuthTypeOK, Become
<1>2. \A v \in Workers : worker'[v] = IF v = w THEN r ELSE worker[v] BY DEF AuthTypeOK, Become
<1>3. ASSUME NEW v \in Workers, worker'[v].pc \in SawUser PROVE HasUser(worker[v].u)'
  <2>1. CASE v = w BY <1>2, <1>3, <2>1 DEF HasUser
  <2>2. CASE v # w
    <3>1. worker'[v] = worker[v] BY <1>2, <2>2
    <3>2. HasUser(worker[v].u) BY <1>3, <3>1 DEF AuthTypeOK
    <3>3. worker[v].u \in Users
      BY <1>3, <3>1, Holds DEF SawUser, Login, Plain, Forgot, Resetting, Clearing
    <3> QED BY <3>1, <3>2, <3>3 DEF HasUser
  <2> QED BY <2>1, <2>2
<1>4. ASSUME NEW v \in Workers, worker'[v].pc \in SawTenant PROVE HasTenant(worker[v].t)'
  <2>1. CASE v = w BY <1>2, <1>4, <2>1 DEF HasTenant
  <2>2. CASE v # w
    <3>1. worker'[v] = worker[v] BY <1>2, <2>2
    <3>2. HasTenant(worker[v].t) BY <1>4, <3>1 DEF AuthTypeOK
    <3>3. worker[v].t \in Tenants
      BY <1>4, <3>1, Holds DEF SawTenant, Registration, Hook, Deciding
    <3> QED BY <3>1, <3>2, <3>3 DEF HasTenant
  <2> QED BY <2>1, <2>2
<1> QED BY <1>1, <1>3, <1>4 DEF AuthTypeOK

\* A step that moves one request and touches no row.
LEMMA OnlyMoves ==
    ASSUME AuthTypeOK, UNCHANGED <<tenant, user, issued, made>>,
           NEW w \in Workers, NEW r \in Requests \cup {Idle}, Become(w, r),
           r.pc \in SawUser => HasUser(r.u),
           r.pc \in SawTenant => HasTenant(r.t)
    PROVE  AuthTypeOK'
<1>1. /\ tenant' \in [Tenants -> TenantRow \cup {NoTenant}]
      /\ user' \in [Users -> UserRow \cup {NoUser}]
      /\ issued' \in [Users -> Nat] /\ made' \in [Users -> Nat]
  BY DEF AuthTypeOK
<1>2. /\ \A t \in Tenants : HasTenant(t) => HasTenant(t)'
      /\ \A u \in Users : HasUser(u) => HasUser(u)'
  BY DEF HasTenant, HasUser
<1>3. /\ r.pc \in SawUser => HasUser(r.u)'
      /\ r.pc \in SawTenant => HasTenant(r.t)'
  BY DEF HasTenant, HasUser
<1> QED BY <1>1, <1>2, <1>3, TypesKept

LEMMA EndsIdle == Idle \in Requests \cup {Idle} /\ Idle.pc \notin SawUser /\ Idle.pc \notin SawTenant
BY DEF Idle, SawUser, SawTenant

\* A row of a user that is written stays a row.
LEMMA UserWritten ==
    ASSUME AuthTypeOK, NEW x \in Users, NEW row \in UserRow, user' = [user EXCEPT ![x] = row]
    PROVE  /\ user' \in [Users -> UserRow \cup {NoUser}]
           /\ \A u \in Users : HasUser(u) => HasUser(u)'
           /\ HasUser(x)'
<1>1. NoUser \notin UserRow BY AuthAssumption DEF NoUser, UserRow
<1> QED BY <1>1 DEF AuthTypeOK, HasUser

LEMMA TenantWritten ==
    ASSUME AuthTypeOK, NEW x \in Tenants, NEW row \in TenantRow, tenant' = [tenant EXCEPT ![x] = row]
    PROVE  /\ tenant' \in [Tenants -> TenantRow \cup {NoTenant}]
           /\ \A t \in Tenants : HasTenant(t) => HasTenant(t)'
           /\ HasTenant(x)'
<1>1. NoTenant \notin TenantRow BY DEF NoTenant, TenantRow, TenantStatus, None
<1> QED BY <1>1 DEF AuthTypeOK, HasTenant

\* An UPDATE of a user's row at the end of, or during, a request.
LEMMA UserWrite ==
    ASSUME AuthTypeOK, UNCHANGED <<tenant, issued, made>>,
           NEW w \in Workers, NEW x \in Users, NEW row \in UserRow, WriteUser(w, x, row),
           NEW r \in Clearing \cup {Idle}, Become(w, r), r # Idle => r.u = x
    PROVE  AuthTypeOK'
<1>1. /\ user' \in [Users -> UserRow \cup {NoUser}]
      /\ \A u \in Users : HasUser(u) => HasUser(u)'
      /\ HasUser(x)'
  BY UserWritten DEF WriteUser
<1>2. /\ tenant' \in [Tenants -> TenantRow \cup {NoTenant}]
      /\ issued' \in [Users -> Nat] /\ made' \in [Users -> Nat]
      /\ \A t \in Tenants : HasTenant(t) => HasTenant(t)'
  BY DEF AuthTypeOK, HasTenant
<1>3. /\ r \in Requests \cup {Idle}
      /\ r.pc \in SawUser => HasUser(r.u)'
      /\ r.pc \notin SawTenant
  BY <1>1, EndsIdle DEF Requests, Clearing, SawTenant, HasUser
<1> QED BY <1>1, <1>2, <1>3, TypesKept

LEMMA RegistrationTypes ==
    ASSUME AuthTypeOK, NEW w \in Workers,
           \/ \E t \in Tenants, u \in Users : StartRegister(w, t, u)
           \/ CheckEmail(w) \/ InsertTenant(w) \/ InsertUser(w)
    PROVE  AuthTypeOK'
<1>1. ASSUME NEW t \in Tenants, NEW u \in Users, StartRegister(w, t, u) PROVE AuthTypeOK'
  <2> DEFINE r == [pc |-> "email", t |-> t, u |-> u]
  <2>1. r \in Requests /\ r.pc \notin SawUser /\ r.pc \notin SawTenant
    BY DEF Requests, Registration, SawUser, SawTenant
  <2>2. Become(w, r) /\ UNCHANGED <<tenant, user, issued, made>> BY <1>1 DEF StartRegister
  <2> HIDE DEF r
  <2> QED BY <2>1, <2>2, OnlyMoves
<1>2. CASE CheckEmail(w)
  <2>1. worker[w] \in Registration /\ UNCHANGED <<tenant, user, issued, made>>
    BY <1>2, Holds DEF CheckEmail
  <2>2. CASE HasUser(worker[w].u)
    <3>1. Become(w, Idle) BY <1>2, <2>2 DEF CheckEmail, Step
    <3> QED BY <2>1, <3>1, EndsIdle, OnlyMoves
  <2>3. CASE ~ HasUser(worker[w].u)
    <3> DEFINE r == [worker[w] EXCEPT !.pc = "insert_tenant"]
    <3>1. Become(w, r) BY <1>2, <2>3 DEF CheckEmail, Step
    <3>2. r \in Requests /\ r.pc \notin SawUser /\ r.pc \notin SawTenant
      BY <2>1 DEF Requests, Registration, SawUser, SawTenant
    <3> HIDE DEF r
    <3> QED BY <2>1, <3>1, <3>2, OnlyMoves
  <2> QED BY <2>2, <2>3
<1>3. CASE InsertTenant(w)
  <2>1. worker[w] \in Registration /\ UNCHANGED <<user, issued, made>>
    BY <1>3, Holds DEF InsertTenant
  <2>2. PICK x \in Tenants, y \in Users : worker[w].t = x /\ worker[w].u = y BY <2>1 DEF Registration
  <2>3. CASE HasTenant(x)
    <3>1. Become(w, Idle) /\ UNCHANGED tenant BY <1>3, <2>2, <2>3 DEF InsertTenant
    <3> QED BY <2>1, <3>1, EndsIdle, OnlyMoves
  <2>4. CASE ~ HasTenant(x)
    <3>1. PICK r : r = [pc |-> "insert_user", t |-> x, u |-> y] OBVIOUS
    <3>2. Become(w, r) /\ tenant' = [tenant EXCEPT ![x] = NewTenant(y)]
      BY <1>3, <2>1, <2>2, <2>4, <3>1 DEF InsertTenant, Step, Registration
    <3>3. NewTenant(y) \in TenantRow BY DEF NewTenant, TenantRow, TenantStatus
    <3>4. r \in Requests /\ r.pc \notin SawUser /\ r.t = x
      BY <3>1 DEF Requests, Registration, SawUser
    <3>5. /\ tenant' \in [Tenants -> TenantRow \cup {NoTenant}]
          /\ \A t \in Tenants : HasTenant(t) => HasTenant(t)'
          /\ HasTenant(r.t)'
      BY <3>2, <3>3, <3>4, TenantWritten
    <3>6. /\ user' \in [Users -> UserRow \cup {NoUser}]
          /\ issued' \in [Users -> Nat] /\ made' \in [Users -> Nat]
          /\ \A u \in Users : HasUser(u) => HasUser(u)'
      BY <2>1 DEF AuthTypeOK, HasUser
    <3> QED BY <3>2, <3>4, <3>5, <3>6, TypesKept
  <2> QED BY <2>3, <2>4
<1>4. CASE InsertUser(w)
  <2> DEFINE x == worker[w].u
  <2>1. worker[w] \in Registration /\ UNCHANGED <<tenant, issued, made>> /\ Become(w, Idle)
    BY <1>4, Holds DEF InsertUser
  <2>2. CASE HasUser(x)
    <3>1. UNCHANGED user BY <1>4, <2>2 DEF InsertUser
    <3> QED BY <2>1, <3>1, EndsIdle, OnlyMoves
  <2>3. CASE ~ HasUser(x)
    <3>1. user' = [user EXCEPT ![x] = NewUser(worker[w].t)] BY <1>4, <2>3 DEF InsertUser
    <3>2. NewUser(worker[w].t) \in UserRow /\ x \in Users
      BY <2>1 DEF NewUser, UserRow, Registration, NoToken
    <3>3. /\ user' \in [Users -> UserRow \cup {NoUser}]
          /\ \A u \in Users : HasUser(u) => HasUser(u)'
      BY <3>1, <3>2, UserWritten
    <3>4. /\ tenant' \in [Tenants -> TenantRow \cup {NoTenant}]
          /\ issued' \in [Users -> Nat] /\ made' \in [Users -> Nat]
          /\ \A t \in Tenants : HasTenant(t) => HasTenant(t)'
      BY <2>1 DEF AuthTypeOK, HasTenant
    <3> QED BY <2>1, <3>3, <3>4, EndsIdle, TypesKept
  <2> QED BY <2>2, <2>3
<1> QED BY <1>1, <1>2, <1>3, <1>4

LEMMA SessionTypes ==
    ASSUME AuthTypeOK, NEW w \in Workers,
           \/ \E u \in Users : StartLogin(w, u) \/ StartLogout(w, u)
           \/ CheckTenant(w) \/ Sign(w) \/ StoreRefresh(w) \/ ClearRefresh(w)
    PROVE  AuthTypeOK'
<1>1. ASSUME NEW u \in Users, StartLogin(w, u) PROVE AuthTypeOK'
  <2>1. PICK r : r = [pc |-> "login", u |-> u, t |-> user[u].tenant, token |-> NoToken] OBVIOUS
  <2>2. Become(w, r) /\ HasUser(u) /\ UNCHANGED <<tenant, user, issued, made>>
    BY <1>1, <2>1 DEF StartLogin
  <2>3. r \in Requests /\ r.u = u /\ r.pc \notin SawTenant
    BY <2>1, <2>2, Rows DEF UserRow, Requests, Login, NoToken, SawTenant
  <2> QED BY <2>2, <2>3, OnlyMoves
<1>2. ASSUME NEW u \in Users, StartLogout(w, u) PROVE AuthTypeOK'
  <2>1. PICK r : r = [pc |-> "logout", u |-> u] OBVIOUS
  <2>2. Become(w, r) /\ HasUser(u) /\ UNCHANGED <<tenant, user, issued, made>>
    BY <1>2, <2>1 DEF StartLogout
  <2>3. r \in Requests /\ r.u = u /\ r.pc \notin SawTenant
    BY <2>1 DEF Requests, Plain, SawTenant
  <2> QED BY <2>2, <2>3, OnlyMoves
<1>3. CASE CheckTenant(w)
  <2>1. worker[w] \in Login /\ worker[w].pc = "login" /\ UNCHANGED <<tenant, user, issued, made>>
    BY <1>3, Holds DEF CheckTenant
  <2>2. HasUser(worker[w].u) BY <2>1 DEF AuthTypeOK, SawUser
  <2>3. PICK r : r = [worker[w] EXCEPT !.pc = "sign"] OBVIOUS
  <2>4. Become(w, r) \/ Become(w, Idle) BY <1>3, <2>3 DEF CheckTenant, Step
  <2>5. r \in Requests /\ r.u = worker[w].u /\ r.pc \notin SawTenant
    BY <2>1, <2>3 DEF Login, Requests, SawTenant
  <2>6. CASE Become(w, r) BY <2>1, <2>2, <2>5, <2>6, OnlyMoves
  <2>7. CASE Become(w, Idle) BY <2>1, <2>7, EndsIdle, OnlyMoves
  <2> QED BY <2>4, <2>6, <2>7
<1>4. CASE Sign(w)
  <2>1. worker[w] \in Login /\ HasUser(worker[w].u) /\ UNCHANGED <<tenant, user, made>>
    BY <1>4, Holds DEF Sign, AuthTypeOK, SawUser
  <2>2. PICK x \in Users : worker[w].u = x BY <2>1 DEF Login
  <2>3. PICK token \in {issued[x], issued[x] + 1} \cap 1..MaxLogins :
           /\ issued' = [issued EXCEPT ![x] = token]
           /\ Become(w, [pc |-> "store", u |-> x, t |-> worker[w].t, token |-> token])
    BY <1>4, <2>2 DEF Sign
  <2>4. token \in Nat BY <2>3
  <2>5. PICK r : r = [pc |-> "store", u |-> x, t |-> worker[w].t, token |-> token] OBVIOUS
  <2>6. r \in Requests /\ r.u = x /\ r.pc \notin SawTenant
    BY <2>1, <2>4, <2>5 DEF Login, Requests, SawTenant
  <2>7. /\ issued' \in [Users -> Nat] /\ made' \in [Users -> Nat]
        /\ tenant' \in [Tenants -> TenantRow \cup {NoTenant}]
        /\ user' \in [Users -> UserRow \cup {NoUser}]
    BY <2>1, <2>3, <2>4 DEF AuthTypeOK
  <2>8. /\ HasUser(x)'
        /\ \A u \in Users : HasUser(u) => HasUser(u)'
        /\ \A t \in Tenants : HasTenant(t) => HasTenant(t)'
    BY <2>1, <2>2 DEF HasUser, HasTenant
  <2>9. r.pc \in SawUser => HasUser(r.u)' BY <2>6, <2>8
  <2> QED BY <2>3, <2>5, <2>6, <2>7, <2>8, <2>9, TypesKept
<1>5. CASE StoreRefresh(w)
  <2>1. worker[w] \in Login /\ HasUser(worker[w].u) BY <1>5, Holds DEF StoreRefresh, AuthTypeOK, SawUser
  <2>2. PICK x \in Users : worker[w].u = x BY <2>1 DEF Login
  <2>3. PICK row : row = [user[x] EXCEPT !.refresh = worker[w].token] OBVIOUS
  <2>4. row \in UserRow BY <2>1, <2>2, <2>3, Rows DEF UserRow, Login
  <2>5. WriteUser(w, x, row) /\ Become(w, Idle) /\ UNCHANGED <<tenant, issued, made>>
    BY <1>5, <2>2, <2>3 DEF StoreRefresh
  <2> QED BY <2>4, <2>5, UserWrite
<1>6. CASE ClearRefresh(w)
  <2>1. worker[w] \in Plain /\ HasUser(worker[w].u) BY <1>6, Holds DEF ClearRefresh, AuthTypeOK, SawUser
  <2>2. PICK x \in Users : worker[w].u = x BY <2>1 DEF Plain
  <2>3. PICK row : row = [user[x] EXCEPT !.refresh = NoToken] OBVIOUS
  <2>4. row \in UserRow BY <2>1, <2>2, <2>3, Rows DEF UserRow, NoToken
  <2>5. WriteUser(w, x, row) /\ Become(w, Idle) /\ UNCHANGED <<tenant, issued, made>>
    BY <1>6, <2>2, <2>3 DEF ClearRefresh
  <2> QED BY <2>4, <2>5, UserWrite
<1> QED BY <1>1, <1>2, <1>3, <1>4, <1>5, <1>6

LEMMA RecoveryTypes ==
    ASSUME AuthTypeOK, NEW w \in Workers,
           \/ \E u \in Users : StartVerify(w, u) \/ StartForgot(w, u) \/ FindReset(w, u)
           \/ MarkVerified(w) \/ StoreReset(w) \/ ReadAgain(w) \/ SavePassword(w) \/ ClearReset(w)
    PROVE  AuthTypeOK'
<1>1. ASSUME NEW u \in Users, StartVerify(w, u) PROVE AuthTypeOK'
  <2>1. PICK r : r = [pc |-> "verify", u |-> u] OBVIOUS
  <2>2. Become(w, r) /\ HasUser(u) /\ UNCHANGED <<tenant, user, issued, made>>
    BY <1>1, <2>1 DEF StartVerify
  <2>3. r \in Requests /\ r.u = u /\ r.pc \notin SawTenant
    BY <2>1 DEF Requests, Plain, SawTenant
  <2> QED BY <2>2, <2>3, OnlyMoves
<1>2. ASSUME NEW u \in Users, StartForgot(w, u) PROVE AuthTypeOK'
  <2>1. PICK r : r = [pc |-> "forgot", u |-> u, token |-> made[u] + 1] OBVIOUS
  <2>2. /\ Become(w, r) /\ HasUser(u) /\ UNCHANGED <<tenant, user, issued>>
        /\ made' = [made EXCEPT ![u] = @ + 1]
    BY <1>2, <2>1 DEF StartForgot
  <2>3. r \in Requests /\ r.u = u /\ r.pc \notin SawTenant
    BY <2>1 DEF AuthTypeOK, Requests, Forgot, SawTenant
  <2>4. /\ issued' \in [Users -> Nat] /\ made' \in [Users -> Nat]
        /\ tenant' \in [Tenants -> TenantRow \cup {NoTenant}]
        /\ user' \in [Users -> UserRow \cup {NoUser}]
    BY <2>2 DEF AuthTypeOK
  <2>5. /\ HasUser(u)'
        /\ \A x \in Users : HasUser(x) => HasUser(x)'
        /\ \A t \in Tenants : HasTenant(t) => HasTenant(t)'
    BY <2>2 DEF HasUser, HasTenant
  <2>6. r.pc \in SawUser => HasUser(r.u)' BY <2>3, <2>5
  <2> QED BY <2>2, <2>3, <2>4, <2>5, <2>6, TypesKept
<1>3. ASSUME NEW u \in Users, FindReset(w, u) PROVE AuthTypeOK'
  <2>1. PICK r : r = [pc |-> "reset", u |-> u, token |-> user[u].reset, row |-> user[u]] OBVIOUS
  <2>2. /\ Become(w, r) /\ HasUser(u) /\ user[u].reset # NoToken
        /\ UNCHANGED <<tenant, user, issued, made>>
    BY <1>3, <2>1 DEF FindReset
  <2>3. user[u] \in UserRow BY <2>2, Rows
  <2>4. r \in Requests /\ r.u = u /\ r.pc \notin SawTenant
    BY <2>1, <2>2, <2>3 DEF UserRow, Requests, Resetting, NoToken, SawTenant
  <2> QED BY <2>2, <2>4, OnlyMoves
<1>4. CASE MarkVerified(w)
  <2>1. worker[w] \in Plain /\ HasUser(worker[w].u) BY <1>4, Holds DEF MarkVerified, AuthTypeOK, SawUser
  <2>2. PICK x \in Users : worker[w].u = x BY <2>1 DEF Plain
  <2>3. PICK row : row = [user[x] EXCEPT !.verified = "yes"] OBVIOUS
  <2>4. row \in UserRow BY <2>1, <2>2, <2>3, Rows DEF UserRow
  <2>5. WriteUser(w, x, row) /\ Become(w, Idle) /\ UNCHANGED <<tenant, issued, made>>
    BY <1>4, <2>2, <2>3 DEF MarkVerified
  <2> QED BY <2>4, <2>5, UserWrite
<1>5. CASE StoreReset(w)
  <2>1. worker[w] \in Forgot /\ HasUser(worker[w].u) BY <1>5, Holds DEF StoreReset, AuthTypeOK, SawUser
  <2>2. PICK x \in Users : worker[w].u = x BY <2>1 DEF Forgot
  <2>3. PICK row : row = [user[x] EXCEPT !.reset = worker[w].token] OBVIOUS
  <2>4. row \in UserRow BY <2>1, <2>2, <2>3, Rows DEF UserRow, Forgot
  <2>5. WriteUser(w, x, row) /\ Become(w, Idle) /\ UNCHANGED <<tenant, issued, made>>
    BY <1>5, <2>2, <2>3 DEF StoreReset
  <2> QED BY <2>4, <2>5, UserWrite
<1>6. CASE ReadAgain(w)
  <2>1. worker[w] \in Resetting /\ HasUser(worker[w].u) BY <1>6, Holds DEF ReadAgain, AuthTypeOK, SawUser
  <2>2. PICK x \in Users : worker[w].u = x BY <2>1 DEF Resetting
  <2>3. PICK r : r = [worker[w] EXCEPT !.pc = "save", !.row = user[x]] OBVIOUS
  <2>4. Become(w, r) /\ UNCHANGED <<tenant, user, issued, made>> BY <1>6, <2>2, <2>3 DEF ReadAgain
  <2>5. user[x] \in UserRow BY <2>1, <2>2, Rows
  <2>6. r \in Requests /\ r.u = x /\ r.pc \notin SawTenant
    BY <2>1, <2>2, <2>3, <2>5 DEF Requests, Resetting, SawTenant
  <2> QED BY <2>1, <2>2, <2>4, <2>6, OnlyMoves
<1>7. CASE SavePassword(w)
  <2>1. worker[w] \in Resetting BY <1>7, Holds DEF SavePassword
  <2>2. PICK x \in Users, row \in UserRow, k \in Nat \ {0} :
           worker[w].u = x /\ worker[w].row = row /\ worker[w].token = k
    BY <2>1 DEF Resetting
  <2>3. PICK r : r = [pc |-> "clear", u |-> x, token |-> k] OBVIOUS
  <2>4. r \in Clearing /\ r.u = x BY <2>3 DEF Clearing
  <2>5. WriteUser(w, x, row) /\ Become(w, r) /\ UNCHANGED <<tenant, issued, made>>
    BY <1>7, <2>2, <2>3 DEF SavePassword
  <2> QED BY <2>4, <2>5, UserWrite
<1>8. CASE ClearReset(w)
  <2>1. worker[w] \in Clearing /\ HasUser(worker[w].u) BY <1>8, Holds DEF ClearReset, AuthTypeOK, SawUser
  <2>2. PICK x \in Users : worker[w].u = x BY <2>1 DEF Clearing
  <2>3. PICK row : row = [user[x] EXCEPT !.reset = NoToken] OBVIOUS
  <2>4. row \in UserRow BY <2>1, <2>2, <2>3, Rows DEF UserRow, NoToken
  <2>5. WriteUser(w, x, row) /\ Become(w, Idle) /\ UNCHANGED <<tenant, issued, made>>
    BY <1>8, <2>2, <2>3 DEF ClearReset
  <2> QED BY <2>4, <2>5, UserWrite
<1> QED BY <1>1, <1>2, <1>3, <1>4, <1>5, <1>6, <1>7, <1>8

\* What an event makes of a tenant's row.
LEMMA EventOnRow ==
    ASSUME NEW row \in TenantRow, NEW event \in Events
    PROVE  AfterEvent(row, event) \in TenantRow /\ AfterEvent(row, event).owner = row.owner
BY DEF AfterEvent, TenantRow, Events, TenantStatus

\* A row of a tenant that is written at the end of a request.
LEMMA TenantWrite ==
    ASSUME AuthTypeOK, UNCHANGED <<user, issued, made>>,
           NEW w \in Workers, NEW x \in Tenants, NEW row \in TenantRow,
           tenant' = [tenant EXCEPT ![x] = row], Become(w, Idle)
    PROVE  AuthTypeOK'
<1>1. /\ tenant' \in [Tenants -> TenantRow \cup {NoTenant}]
      /\ \A t \in Tenants : HasTenant(t) => HasTenant(t)'
  BY TenantWritten
<1>2. /\ user' \in [Users -> UserRow \cup {NoUser}]
      /\ issued' \in [Users -> Nat] /\ made' \in [Users -> Nat]
      /\ \A u \in Users : HasUser(u) => HasUser(u)'
  BY DEF AuthTypeOK, HasUser
<1> QED BY <1>1, <1>2, EndsIdle, TypesKept

LEMMA BillingTypes ==
    ASSUME AuthTypeOK, NEW w \in Workers,
           \/ \E t \in Tenants : \/ \E event \in Events : StartWebhook(w, t, event)
                                 \/ \E s \in TenantStatus : StartStatus(w, t, s)
           \/ WriteEvent(w) \/ UpdateStatus(w)
    PROVE  AuthTypeOK'
<1>1. ASSUME NEW t \in Tenants, NEW event \in Events, StartWebhook(w, t, event) PROVE AuthTypeOK'
  <2>1. PICK r : r = [pc |-> "hook", t |-> t, event |-> event] OBVIOUS
  <2>2. Become(w, r) /\ HasTenant(t) /\ UNCHANGED <<tenant, user, issued, made>>
    BY <1>1, <2>1 DEF StartWebhook
  <2>3. r \in Requests /\ r.t = t /\ r.pc \notin SawUser
    BY <2>1 DEF Requests, Hook, SawUser
  <2> QED BY <2>2, <2>3, OnlyMoves
<1>2. ASSUME NEW t \in Tenants, NEW s \in TenantStatus, StartStatus(w, t, s) PROVE AuthTypeOK'
  <2>1. PICK r : r = [pc |-> "status", t |-> t, status |-> s] OBVIOUS
  <2>2. Become(w, r) /\ HasTenant(t) /\ UNCHANGED <<tenant, user, issued, made>>
    BY <1>2, <2>1 DEF StartStatus
  <2>3. r \in Requests /\ r.t = t /\ r.pc \notin SawUser
    BY <2>1 DEF Requests, Deciding, SawUser
  <2> QED BY <2>2, <2>3, OnlyMoves
<1>3. CASE WriteEvent(w)
  <2>1. worker[w] \in Hook /\ HasTenant(worker[w].t)
    BY <1>3, Holds DEF WriteEvent, AuthTypeOK, SawTenant
  <2>2. PICK x \in Tenants, event \in Events : worker[w].t = x /\ worker[w].event = event
    BY <2>1 DEF Hook
  <2>3. PICK row : row = AfterEvent(tenant[x], event) OBVIOUS
  <2>4. row \in TenantRow BY <2>1, <2>2, <2>3, Rows, EventOnRow
  <2>5. tenant' = [tenant EXCEPT ![x] = row] /\ Become(w, Idle) /\ UNCHANGED <<user, issued, made>>
    BY <1>3, <2>2, <2>3 DEF WriteEvent, AuthTypeOK
  <2> QED BY <2>4, <2>5, TenantWrite
<1>4. CASE UpdateStatus(w)
  <2>1. worker[w] \in Deciding /\ HasTenant(worker[w].t)
    BY <1>4, Holds DEF UpdateStatus, AuthTypeOK, SawTenant
  <2>2. PICK x \in Tenants, s \in TenantStatus : worker[w].t = x /\ worker[w].status = s
    BY <2>1 DEF Deciding
  <2>3. PICK row : row = [tenant[x] EXCEPT !.status = s] OBVIOUS
  <2>4. row \in TenantRow BY <2>1, <2>2, <2>3, Rows DEF TenantRow
  <2>5. tenant' = [tenant EXCEPT ![x] = row] /\ Become(w, Idle) /\ UNCHANGED <<user, issued, made>>
    BY <1>4, <2>2, <2>3 DEF UpdateStatus
  <2> QED BY <2>4, <2>5, TenantWrite
<1> QED BY <1>1, <1>2, <1>3, <1>4

\* What happens outside the requests.
LEMMA OutsideTypes ==
    ASSUME AuthTypeOK,
           \/ \E w \in Workers : CutOff(w)
           \/ \E u \in Users : Expire(u)
           \/ \E t \in Tenants : Enrol(t)
           \/ UNCHANGED vars
    PROVE  AuthTypeOK'
<1>1. ASSUME NEW w \in Workers, CutOff(w) PROVE AuthTypeOK'
  <2>1. Become(w, Idle) /\ UNCHANGED <<tenant, user, issued, made>> BY <1>1 DEF CutOff
  <2> QED BY <2>1, EndsIdle, OnlyMoves
<1>2. ASSUME UNCHANGED <<tenant, user, issued, made, worker>> PROVE AuthTypeOK'
  BY <1>2 DEF AuthTypeOK, HasUser, HasTenant
<1>3. ASSUME NEW x \in Tenants, Enrol(x) PROVE AuthTypeOK'
  <2>1. HasTenant(x) /\ UNCHANGED <<user, issued, made, worker>> BY <1>3 DEF Enrol
  <2>2. PICK row : row = [tenant[x] EXCEPT !.billed = "yes"] OBVIOUS
  <2>3. row \in TenantRow BY <2>1, <2>2, Rows DEF TenantRow
  <2>4. tenant' = [tenant EXCEPT ![x] = row] BY <1>3, <2>2 DEF Enrol
  <2>5. /\ tenant' \in [Tenants -> TenantRow \cup {NoTenant}]
        /\ \A t \in Tenants : HasTenant(t) => HasTenant(t)'
    BY <2>3, <2>4, TenantWritten
  <2>6. ASSUME NEW w \in Workers, worker[w].pc \in SawTenant PROVE HasTenant(worker[w].t)'
    <3>1. HasTenant(worker[w].t) BY <2>6 DEF AuthTypeOK
    <3>2. worker[w].t \in Tenants BY <2>6, Holds DEF SawTenant, Registration, Hook, Deciding
    <3> QED BY <2>1, <2>5, <3>1, <3>2 DEF HasTenant
  <2> QED BY <2>1, <2>5, <2>6 DEF AuthTypeOK, HasUser
<1> QED BY <1>1, <1>2, <1>3 DEF Expire, vars

LEMMA StepTypes == AuthTypeOK /\ [Next]_vars => AuthTypeOK'
BY RegistrationTypes, SessionTypes, RecoveryTypes, BillingTypes, OutsideTypes DEF Next, Request

\* The rows, tokens and requests have their types, and a request only works on rows that exist.
THEOREM AuthTypeCorrect == AuthSpec => []AuthTypeOK
<1> QED BY InitTypes, StepTypes, PTL DEF AuthSpec

-----------------------------------------------------------------------------
(***************************************************************************)
(* CancelledNotServed.  It also takes that a cancelled tenant has its row, *)
(* or a registration could bring it back.                                  *)
(***************************************************************************)
OutInv ==
    /\ AuthTypeOK
    /\ cancelled \subseteq Tenants
    /\ \A t \in cancelled : HasTenant(t) /\ ~ Served(t)

LEMMA InitOut == Init => OutInv
BY InitTypes DEF Init, OutInv

\* A step that writes no tenant's row and cancels none.
LEMMA SameTenants ==
    ASSUME OutInv, AuthTypeOK', UNCHANGED <<tenant, cancelled>>
    PROVE  OutInv'
BY DEF OutInv, HasTenant, Served

\* A step that writes one tenant's row and leaves that tenant out, or takes it off the list.
LEMMA OneTenant ==
    ASSUME OutInv, AuthTypeOK', NEW x \in Tenants, NEW row \in TenantRow,
           tenant' = [tenant EXCEPT ![x] = row],
           cancelled' \subseteq cancelled \cup {x},
           x \in cancelled' =>
               \/ row.status = "suspended"
               \/ row.status = "pending_payment" /\ row.overdue = "yes"
    PROVE  OutInv'
<1>1. \A t \in Tenants : tenant'[t] = IF t = x THEN row ELSE tenant[t] BY DEF OutInv, AuthTypeOK
<1>2. NoTenant \notin TenantRow BY DEF NoTenant, TenantRow, TenantStatus, None
<1>3. ASSUME NEW t \in cancelled' PROVE t \in Tenants /\ HasTenant(t)' /\ ~ Served(t)'
  <2>1. CASE t = x BY <1>1, <1>2, <1>3, <2>1 DEF HasTenant, Served
  <2>2. CASE t # x BY <1>1, <1>3, <2>2 DEF OutInv, HasTenant, Served
  <2> QED BY <2>1, <2>2
<1> QED BY <1>3 DEF OutInv

LEMMA StepOut == OutInv /\ [Next]_vars => OutInv'
<1> SUFFICES ASSUME OutInv, [Next]_vars PROVE OutInv'
  OBVIOUS
<1>0. AuthTypeOK /\ AuthTypeOK' BY StepTypes DEF OutInv
<1>1. CASE UNCHANGED <<tenant, cancelled>> BY <1>0, <1>1, SameTenants
<1>2. ASSUME NEW w \in Workers, InsertTenant(w), ~ UNCHANGED tenant PROVE OutInv'
  <2>1. worker[w] \in Registration BY <1>0, <1>2, Holds DEF InsertTenant
  <2>2. PICK x \in Tenants, y \in Users : worker[w].t = x /\ worker[w].u = y BY <2>1 DEF Registration
  <2>3. ~ HasTenant(x) /\ tenant' = [tenant EXCEPT ![x] = NewTenant(y)] /\ cancelled' = cancelled
    BY <1>2, <2>2 DEF InsertTenant, history
  <2>4. NewTenant(y) \in TenantRow BY DEF NewTenant, TenantRow, TenantStatus
  <2>5. x \notin cancelled' BY <2>3 DEF OutInv
  <2> QED BY <1>0, <2>3, <2>4, <2>5, OneTenant
<1>3. ASSUME NEW x \in Tenants, Enrol(x) PROVE OutInv'
  <2>1. PICK row : row = [tenant[x] EXCEPT !.billed = "yes"] OBVIOUS
  <2>2. tenant[x] \in TenantRow BY <1>0, <1>3, Rows DEF Enrol
  <2>3. /\ row \in TenantRow /\ row.status = tenant[x].status /\ row.overdue = tenant[x].overdue
        /\ tenant' = [tenant EXCEPT ![x] = row] /\ cancelled' = cancelled
    BY <1>3, <2>1, <2>2 DEF Enrol, TenantRow, history
  <2>4. x \in cancelled' => \/ row.status = "suspended"
                            \/ row.status = "pending_payment" /\ row.overdue = "yes"
    BY <2>3 DEF OutInv, Served
  <2> QED BY <1>0, <2>3, <2>4, OneTenant
<1>4. ASSUME NEW w \in Workers, WriteEvent(w) PROVE OutInv'
  <2>1. worker[w] \in Hook /\ HasTenant(worker[w].t)
    BY <1>0, <1>4, Holds DEF WriteEvent, AuthTypeOK, SawTenant
  <2>2. PICK x \in Tenants, event \in Events : worker[w].t = x /\ worker[w].event = event
    BY <2>1 DEF Hook
  <2>3. PICK row : row = AfterEvent(tenant[x], event) OBVIOUS
  <2>4. tenant[x] \in TenantRow BY <1>0, <2>1, <2>2, Rows
  <2>5. row \in TenantRow BY <2>3, <2>4, EventOnRow
  <2>6. tenant' = [tenant EXCEPT ![x] = row] BY <1>0, <1>4, <2>2, <2>3 DEF WriteEvent, AuthTypeOK
  <2>7. CASE event = "PAYMENT_CONFIRMED"
    <3>1. cancelled' = cancelled \ {x} BY <1>4, <2>2, <2>7 DEF WriteEvent
    <3> QED BY <1>0, <2>5, <2>6, <3>1, OneTenant
  <2>8. CASE event = "PAYMENT_OVERDUE"
    <3>1. cancelled' = cancelled BY <1>4, <2>2, <2>8 DEF WriteEvent
    <3>2. row.status = "pending_payment" /\ row.overdue = "yes"
      BY <2>3, <2>4, <2>8 DEF AfterEvent, TenantRow
    <3> QED BY <1>0, <2>5, <2>6, <3>1, <3>2, OneTenant
  <2>9. CASE event = "SUBSCRIPTION_CANCELLED"
    <3>1. cancelled' = cancelled \cup {x} BY <1>4, <2>2, <2>9 DEF WriteEvent
    <3>2. row.status = "suspended" BY <2>3, <2>4, <2>9 DEF AfterEvent, TenantRow
    <3> QED BY <1>0, <2>5, <2>6, <3>1, <3>2, OneTenant
  <2> QED BY <2>2, <2>7, <2>8, <2>9 DEF Events
<1>5. ASSUME NEW w \in Workers, UpdateStatus(w) PROVE OutInv'
  <2>1. worker[w] \in Deciding /\ HasTenant(worker[w].t)
    BY <1>0, <1>5, Holds DEF UpdateStatus, AuthTypeOK, SawTenant
  <2>2. PICK x \in Tenants, s \in TenantStatus : worker[w].t = x /\ worker[w].status = s
    BY <2>1 DEF Deciding
  <2>3. PICK row : row = [tenant[x] EXCEPT !.status = s] OBVIOUS
  <2>4. row \in TenantRow BY <1>0, <2>1, <2>2, <2>3, Rows DEF TenantRow
  <2>5. tenant' = [tenant EXCEPT ![x] = row] /\ cancelled' = cancelled \ {x}
    BY <1>5, <2>2, <2>3 DEF UpdateStatus
  <2> QED BY <1>0, <2>4, <2>5, OneTenant
<1> QED
  BY <1>1, <1>2, <1>3, <1>4, <1>5
  DEF Next, Request, vars, history, StartRegister, CheckEmail, InsertTenant, InsertUser, StartLogin, CheckTenant,
      Sign, StoreRefresh, StartLogout, ClearRefresh, StartVerify, MarkVerified, StartForgot,
      StoreReset, Expire, FindReset, ReadAgain, SavePassword, ClearReset, StartWebhook, StartStatus,
      CutOff

\* Once a cancellation has suspended a tenant the guard refuses every request of its users, in
\* whatever order events, requests and failures come, until a payment is confirmed or an
\* administrator decides.  That they cannot log in meanwhile is not said and not true.
THEOREM CancelledNeverServed == AuthSpec => []CancelledNotServed
<1>1. OutInv => CancelledNotServed BY DEF OutInv, CancelledNotServed
<1> QED BY <1>1, InitOut, StepOut, PTL DEF AuthSpec

-----------------------------------------------------------------------------
(***************************************************************************)
(* TenantsHaveOwners.  A registration that has looked the address up finds *)
(* it free later too (AddressFree), because another one for the same       *)
(* address, while this one is under way, is contested (OnePerAddress); the *)
(* row it leaves names it as owner (RowIsMine); and a user never changes   *)
(* tenants, whatever stale row a new password is saved with (RowsAgree).   *)
(***************************************************************************)
Inserting == {"insert_tenant", "insert_user"}
Registering == {"email"} \cup Inserting

RowsAgree ==
    \A w \in Workers : worker[w].pc \in {"reset", "save"} =>
        worker[w].row.tenant = user[worker[w].u].tenant
RowIsMine ==
    \A w \in Workers : worker[w].pc = "insert_user" => tenant[worker[w].t].owner = worker[w].u
AddressFree ==
    \A w \in Workers : worker[w].pc \in Inserting =>
        ~ HasUser(worker[w].u) \/ worker[w].u \in contested
OnePerAddress ==
    \A v, w \in Workers :
        v # w /\ worker[v].pc \in Registering /\ worker[w].pc \in Registering
              /\ worker[v].u = worker[w].u => worker[v].u \in contested

OwnersInv ==
    AuthTypeOK /\ TenantsHaveOwners /\ RowsAgree /\ RowIsMine /\ AddressFree /\ OnePerAddress

LEMMA InitOwners == Init => OwnersInv
<1> SUFFICES ASSUME Init PROVE OwnersInv
  OBVIOUS
<1>1. PICK owner \in [Tenants0 -> Users] :
         /\ \A t, s \in Tenants0 : owner[t] = owner[s] => t = s
         /\ tenant = [t \in Tenants |-> IF t \in Tenants0 THEN NewTenant(owner[t]) ELSE NoTenant]
         /\ user = [u \in Users |-> IF \E t \in Tenants0 : owner[t] = u
                                    THEN NewUser(CHOOSE t \in Tenants0 : owner[t] = u)
                                    ELSE NoUser]
  BY DEF Init
<1>2. ASSUME NEW t \in Tenants, HasTenant(t) PROVE user[tenant[t].owner].tenant = t
  <2>1. t \in Tenants0 BY <1>1, <1>2 DEF HasTenant
  <2>2. tenant[t].owner = owner[t] /\ owner[t] \in Users BY <1>1, <2>1 DEF NewTenant
  <2>3. (CHOOSE s \in Tenants0 : owner[s] = owner[t]) = t BY <1>1, <2>1
  <2>4. user[owner[t]] = NewUser(t) BY <1>1, <2>1, <2>2, <2>3
  <2> QED BY <2>2, <2>4 DEF NewUser
<1>3. TenantsHaveOwners BY <1>2 DEF TenantsHaveOwners
<1>4. \A w \in Workers : worker[w].pc = "idle" BY DEF Init, Idle
<1>5. RowsAgree /\ RowIsMine /\ AddressFree /\ OnePerAddress
  BY <1>4 DEF RowsAgree, RowIsMine, AddressFree, OnePerAddress, Inserting, Registering
<1> QED BY <1>3, <1>5, InitTypes DEF OwnersInv

\* Owners and addresses of tenants and users that stay as they are, for a step that makes neither.
NoNewRows ==
    /\ \A u \in Users : (HasUser(u)' => HasUser(u)) /\ user'[u].tenant = user[u].tenant
    /\ \A t \in Tenants : (HasTenant(t)' => HasTenant(t))
                          /\ (HasTenant(t) => tenant'[t].owner = tenant[t].owner)

\* A request that does not register, or gives up registering.
NotRegistering(w) ==
    \/ worker'[w] = worker[w]
    \/ /\ worker'[w].pc \notin Registering
       /\ worker[w].pc = "insert_user" => worker[w].t \in failed'
       /\ worker'[w].pc \in {"reset", "save"} =>
             worker'[w].u \in Users /\ worker'[w].row.tenant = user[worker'[w].u].tenant

LEMMA OthersKeepOwners ==
    ASSUME OwnersInv, AuthTypeOK', NoNewRows, contested' = contested, failed \subseteq failed',
           \A w \in Workers : NotRegistering(w)
    PROVE  OwnersInv'
<1> USE DEF OwnersInv, NoNewRows, NotRegistering
<1>1. ASSUME NEW w \in Workers PROVE worker[w].pc \in SawUser \cup Registering => worker[w].u \in Users
  BY Holds DEF SawUser, Registering, Inserting, Registration, Login, Plain, Forgot, Resetting, Clearing
<1>2. RowsAgree'
  <2> SUFFICES ASSUME NEW w \in Workers, worker'[w].pc \in {"reset", "save"}
               PROVE  worker'[w].row.tenant = user'[worker'[w].u].tenant
    BY DEF RowsAgree
  <2>1. CASE worker'[w] = worker[w] BY <1>1, <2>1 DEF RowsAgree, SawUser
  <2>2. CASE worker'[w] # worker[w] BY <2>2
  <2> QED BY <2>1, <2>2
<1>3. RowIsMine'
  <2> SUFFICES ASSUME NEW w \in Workers, worker'[w].pc = "insert_user"
               PROVE  tenant'[worker'[w].t].owner = worker'[w].u
    BY DEF RowIsMine
  <2>1. worker'[w] = worker[w] BY DEF Registering, Inserting
  <2>2. HasTenant(worker[w].t) BY <2>1 DEF AuthTypeOK, SawTenant
  <2>3. worker[w].t \in Tenants BY <2>1, Holds DEF Registration
  <2> QED BY <2>1, <2>2, <2>3 DEF RowIsMine
<1>4. AddressFree'
  <2> SUFFICES ASSUME NEW w \in Workers, worker'[w].pc \in Inserting, HasUser(worker[w].u)'
               PROVE  worker'[w].u \in contested'
    BY DEF AddressFree
  <2>1. worker'[w] = worker[w] BY DEF Registering
  <2>2. worker[w].u \in Users BY <1>1, <2>1 DEF Registering
  <2>3. HasUser(worker[w].u) BY <2>1, <2>2 DEF HasUser
  <2> QED BY <2>1, <2>3 DEF AddressFree
<1>5. OnePerAddress' BY DEF OnePerAddress
<1>6. TenantsHaveOwners'
  <2> SUFFICES ASSUME NEW t \in Tenants, HasTenant(t)'
               PROVE  \/ user'[tenant'[t].owner].tenant = t
                      \/ \E w \in Workers : worker'[w].pc = "insert_user" /\ worker'[w].t = t
                      \/ t \in failed'
                      \/ tenant'[t].owner \in contested'
    BY DEF TenantsHaveOwners
  <2>1. HasTenant(t) /\ tenant'[t].owner = tenant[t].owner OBVIOUS
  <2>2. tenant[t].owner \in Users BY <2>1, Rows DEF TenantRow
  <2>3. CASE \E w \in Workers : worker[w].pc = "insert_user" /\ worker[w].t = t
    BY <2>3
  <2> QED BY <2>1, <2>2, <2>3 DEF TenantsHaveOwners
<1> QED BY <1>2, <1>3, <1>4, <1>5, <1>6

LEMMA RegistrationOwners ==
    ASSUME OwnersInv, AuthTypeOK', NEW w \in Workers,
           \/ \E t \in Tenants, u \in Users : StartRegister(w, t, u)
           \/ CheckEmail(w) \/ InsertTenant(w) \/ InsertUser(w)
    PROVE  OwnersInv'
<1> USE DEF OwnersInv
\* A request that is cut short of its inserts, while nothing is written.
<1>0. ASSUME Become(w, Idle), UNCHANGED <<tenant, user, contested, failed>>,
             worker[w].pc # "insert_user"
      PROVE  OwnersInv'
  <2>1. \A v \in Workers : worker'[v] = IF v = w THEN Idle ELSE worker[v] BY <1>0 DEF AuthTypeOK, Become
  <2>2. \A v \in Workers : NotRegistering(v)
    BY <1>0, <2>1 DEF NotRegistering, Idle, Registering, Inserting
  <2>3. NoNewRows BY <1>0 DEF NoNewRows, HasUser, HasTenant
  <2> QED BY <1>0, <2>2, <2>3, OthersKeepOwners
<1>1. ASSUME NEW t \in Tenants, NEW u \in Users, StartRegister(w, t, u) PROVE OwnersInv'
  <2>1. \A v \in Workers : worker'[v] = IF v = w THEN [pc |-> "email", t |-> t, u |-> u] ELSE worker[v]
    BY <1>1 DEF StartRegister, AuthTypeOK, Become
  <2>2. UNCHANGED <<tenant, user, failed>> /\ worker[w] = Idle BY <1>1 DEF StartRegister
  <2>3. contested \subseteq contested' BY <1>1 DEF StartRegister
  <2>4. ASSUME NEW v \in Workers, v # w, worker[v].pc \in Registering, worker[v].u = u
        PROVE  u \in contested'
    BY <1>1, <2>4 DEF StartRegister, Registering, Inserting
  <2>5. RowsAgree' BY <2>1, <2>2 DEF RowsAgree
  <2>6. RowIsMine' BY <2>1, <2>2 DEF RowIsMine
  <2>7. AddressFree' BY <2>1, <2>2, <2>3 DEF AddressFree, Inserting, HasUser
  <2>8. OnePerAddress' BY <2>1, <2>3, <2>4 DEF OnePerAddress
  <2>9. TenantsHaveOwners'
    <3>1. \A v \in Workers : worker[v].pc = "insert_user" => worker'[v] = worker[v]
      BY <2>1, <2>2 DEF Idle
    <3> QED BY <2>2, <2>3, <3>1 DEF TenantsHaveOwners, HasTenant
  <2> QED BY <2>5, <2>6, <2>7, <2>8, <2>9
<1>2. CASE CheckEmail(w)
  <2>1. worker[w] \in Registration /\ worker[w].pc = "email" /\ UNCHANGED <<tenant, user, contested, failed>>
    BY <1>2, Holds DEF CheckEmail, history
  <2>2. CASE HasUser(worker[w].u)
    <3>1. Become(w, Idle) BY <1>2, <2>2 DEF CheckEmail, Step
    <3> QED BY <1>0, <2>1, <3>1
  <2>3. CASE ~ HasUser(worker[w].u)
    <3>1. PICK r : r = [worker[w] EXCEPT !.pc = "insert_tenant"] OBVIOUS
    <3>2. Become(w, r) BY <1>2, <2>3, <3>1 DEF CheckEmail, Step
    <3>3. \A v \in Workers : worker'[v] = IF v = w THEN r ELSE worker[v] BY <3>2 DEF AuthTypeOK, Become
    <3>4. r.pc = "insert_tenant" /\ r.t = worker[w].t /\ r.u = worker[w].u
      BY <2>1, <3>1 DEF Registration
    <3>5. RowsAgree' /\ RowIsMine' BY <2>1, <3>3, <3>4 DEF RowsAgree, RowIsMine
    <3>6. AddressFree' BY <2>1, <2>3, <3>3, <3>4 DEF AddressFree, HasUser
    <3>7. OnePerAddress' BY <2>1, <3>3, <3>4 DEF OnePerAddress, Registering
    <3>8. \A v \in Workers : worker[v].pc = "insert_user" => worker'[v] = worker[v]
      BY <2>1, <3>3
    <3>9. TenantsHaveOwners' BY <2>1, <3>8 DEF TenantsHaveOwners, HasTenant
    <3> QED BY <3>5, <3>6, <3>7, <3>9
  <2> QED BY <2>2, <2>3
<1>3. CASE InsertTenant(w)
  <2>1. /\ worker[w] \in Registration /\ worker[w].pc = "insert_tenant"
        /\ UNCHANGED <<user, contested, failed>>
    BY <1>3, Holds DEF InsertTenant, history
  <2>2. PICK x \in Tenants, y \in Users : worker[w].t = x /\ worker[w].u = y BY <2>1 DEF Registration
  <2>3. CASE HasTenant(x)
    <3>1. Become(w, Idle) /\ UNCHANGED tenant BY <1>3, <2>2, <2>3 DEF InsertTenant
    <3> QED BY <1>0, <2>1, <3>1
  <2>4. CASE ~ HasTenant(x)
    <3>1. PICK r : r = [pc |-> "insert_user", t |-> x, u |-> y] OBVIOUS
    <3>2. Become(w, r) /\ tenant' = [tenant EXCEPT ![x] = NewTenant(y)]
      BY <1>3, <2>1, <2>2, <2>4, <3>1 DEF InsertTenant, Step, Registration
    <3>3. \A v \in Workers : worker'[v] = IF v = w THEN r ELSE worker[v] BY <3>2 DEF AuthTypeOK, Become
    <3>4. \A t \in Tenants : tenant'[t] = IF t = x THEN NewTenant(y) ELSE tenant[t]
      BY <3>2 DEF AuthTypeOK
    <3>5. NewTenant(y).owner = y BY DEF NewTenant
    <3>6. RowsAgree' BY <2>1, <3>1, <3>3 DEF RowsAgree
    <3>7. RowIsMine'
      <4> SUFFICES ASSUME NEW v \in Workers, worker'[v].pc = "insert_user"
                   PROVE  tenant'[worker'[v].t].owner = worker'[v].u
        BY DEF RowIsMine
      <4>1. CASE v = w BY <3>1, <3>3, <3>4, <3>5, <4>1
      <4>2. CASE v # w
        <5>1. HasTenant(worker[v].t) /\ worker[v].t \in Tenants
          BY <3>3, <4>2, Holds DEF AuthTypeOK, SawTenant, Registration
        <5> QED BY <2>4, <3>3, <3>4, <4>2, <5>1 DEF RowIsMine
      <4> QED BY <4>1, <4>2
    <3>8. AddressFree' BY <2>1, <2>2, <3>1, <3>3 DEF AddressFree, HasUser, Inserting
    <3>9. OnePerAddress' BY <2>1, <2>2, <3>1, <3>3 DEF OnePerAddress, Registering, Inserting
    <3>10. TenantsHaveOwners'
      <4> SUFFICES ASSUME NEW t \in Tenants, HasTenant(t)'
                   PROVE  \/ user'[tenant'[t].owner].tenant = t
                          \/ \E v \in Workers : worker'[v].pc = "insert_user" /\ worker'[v].t = t
                          \/ t \in failed'
                          \/ tenant'[t].owner \in contested'
        BY DEF TenantsHaveOwners
      <4>1. CASE t = x BY <3>1, <3>3, <4>1
      <4>2. CASE t # x
        <5>1. HasTenant(t) /\ tenant'[t] = tenant[t] BY <3>4, <4>2 DEF HasTenant
        <5>2. \A v \in Workers : worker[v].pc = "insert_user" => worker'[v] = worker[v]
          BY <2>1, <3>3
        <5> QED BY <2>1, <5>1, <5>2 DEF TenantsHaveOwners
      <4> QED BY <4>1, <4>2
    <3> QED BY <3>6, <3>7, <3>8, <3>9, <3>10
  <2> QED BY <2>3, <2>4
<1>4. CASE InsertUser(w)
  <2>1. /\ worker[w] \in Registration /\ worker[w].pc = "insert_user"
        /\ UNCHANGED <<tenant, contested, failed>> /\ Become(w, Idle)
    BY <1>4, Holds DEF InsertUser, history
  <2>2. PICK x \in Tenants, y \in Users : worker[w].t = x /\ worker[w].u = y BY <2>1 DEF Registration
  <2>3. \A v \in Workers : worker'[v] = IF v = w THEN Idle ELSE worker[v] BY <2>1 DEF AuthTypeOK, Become
  <2>4. HasTenant(x) /\ tenant[x].owner = y
    BY <2>1, <2>2 DEF AuthTypeOK, SawTenant, RowIsMine
  <2>5. HasUser(y) => y \in contested BY <2>1, <2>2 DEF AddressFree, Inserting
  <2>6. user' = IF HasUser(y) THEN user ELSE [user EXCEPT ![y] = NewUser(x)] BY <1>4, <2>2 DEF InsertUser
  <2>7. \A u \in Users : HasUser(u) => HasUser(u)' /\ user'[u] = user[u] BY <2>6 DEF AuthTypeOK, HasUser
  <2>8. \A u \in Users : u # y => user'[u] = user[u] BY <2>6 DEF AuthTypeOK
  <2>9. RowsAgree'
    <3> SUFFICES ASSUME NEW v \in Workers, worker'[v].pc \in {"reset", "save"}
                 PROVE  worker'[v].row.tenant = user'[worker'[v].u].tenant
      BY DEF RowsAgree
    <3>1. worker'[v] = worker[v] BY <2>3 DEF Idle
    <3>2. HasUser(worker[v].u) /\ worker[v].u \in Users
      BY <3>1, Holds DEF AuthTypeOK, SawUser, Resetting
    <3> QED BY <2>7, <3>1, <3>2 DEF RowsAgree
  <2>10. RowIsMine' BY <2>1, <2>3 DEF RowIsMine, Idle
  <2>11. AddressFree'
    <3> SUFFICES ASSUME NEW v \in Workers, worker'[v].pc \in Inserting, HasUser(worker[v].u)'
                 PROVE  worker'[v].u \in contested'
      BY DEF AddressFree
    <3>1. worker'[v] = worker[v] /\ v # w BY <2>3 DEF Idle, Inserting
    <3>2. worker[v].u \in Users BY <3>1, Holds DEF Inserting, Registration
    <3>3. CASE worker[v].u = y BY <2>1, <2>2, <3>1, <3>3 DEF OnePerAddress, Registering, Inserting
    <3>4. CASE worker[v].u # y
      <4>1. HasUser(worker[v].u) BY <2>8, <3>1, <3>2, <3>4 DEF HasUser
      <4> QED BY <2>1, <3>1, <4>1 DEF AddressFree
    <3> QED BY <3>3, <3>4
  <2>12. OnePerAddress' BY <2>1, <2>3 DEF OnePerAddress, Idle, Registering, Inserting
  <2>13. TenantsHaveOwners'
    <3> SUFFICES ASSUME NEW t \in Tenants, HasTenant(t)'
                 PROVE  \/ user'[tenant'[t].owner].tenant = t
                        \/ \E v \in Workers : worker'[v].pc = "insert_user" /\ worker'[v].t = t
                        \/ t \in failed'
                        \/ tenant'[t].owner \in contested'
      BY DEF TenantsHaveOwners
    <3>1. HasTenant(t) /\ tenant'[t] = tenant[t] BY <2>1 DEF HasTenant
    <3>2. tenant[t].owner \in Users BY <3>1, Rows DEF TenantRow
    <3>3. CASE t = x
      <4>1. CASE HasUser(y) BY <2>1, <2>4, <2>5, <3>1, <3>3, <4>1
      <4>2. CASE ~ HasUser(y)
        <5>1. user'[y] = NewUser(x) BY <2>6, <4>2 DEF AuthTypeOK
        <5> QED BY <2>4, <3>1, <3>3, <5>1 DEF NewUser
      <4> QED BY <4>1, <4>2
    <3>4. CASE t # x
      <4>1. CASE user[tenant[t].owner].tenant = t
        <5>1. HasUser(tenant[t].owner) BY <4>1, AuthAssumption DEF HasUser, NoUser
        <5> QED BY <2>7, <3>1, <3>2, <4>1, <5>1
      <4>2. CASE \E v \in Workers : worker[v].pc = "insert_user" /\ worker[v].t = t
        BY <2>2, <2>3, <3>4, <4>2
      <4> QED BY <2>1, <3>1, <4>1, <4>2 DEF TenantsHaveOwners
    <3> QED BY <3>3, <3>4
  <2> QED BY <2>9, <2>10, <2>11, <2>12, <2>13
<1> QED BY <1>1, <1>2, <1>3, <1>4

LEMMA OtherMoves ==
    ASSUME OwnersInv, AuthTypeOK', NoNewRows, contested' = contested, failed' = failed,
           NEW w \in Workers, NEW r, Become(w, r), r.pc \notin Registering,
           worker[w].pc # "insert_user",
           r.pc \in {"reset", "save"} => r.u \in Users /\ r.row.tenant = user[r.u].tenant
    PROVE  OwnersInv'
<1>1. \A v \in Workers : worker'[v] = IF v = w THEN r ELSE worker[v]
  BY DEF OwnersInv, AuthTypeOK, Become
<1>2. \A v \in Workers : NotRegistering(v) BY <1>1 DEF NotRegistering
<1> QED BY <1>2, OthersKeepOwners

LEMMA SameRows == ASSUME UNCHANGED <<tenant, user>> PROVE NoNewRows
BY DEF NoNewRows, HasUser, HasTenant

\* An UPDATE of a user's row that leaves the tenant alone.
LEMMA TenantKept ==
    ASSUME OwnersInv, AuthTypeOK', UNCHANGED <<tenant, contested, failed>>,
           NEW w \in Workers, NEW x \in Users, NEW row \in UserRow, WriteUser(w, x, row),
           HasUser(x), row.tenant = user[x].tenant, worker[w].pc # "insert_user",
           NEW r \in Clearing \cup {Idle}, Become(w, r)
    PROVE  OwnersInv'
<1>1. \A u \in Users : user'[u] = IF u = x THEN row ELSE user[u]
  BY DEF OwnersInv, AuthTypeOK, WriteUser
<1>2. NoNewRows BY <1>1 DEF NoNewRows, HasUser, HasTenant
<1>3. r.pc \notin Registering /\ r.pc \notin {"reset", "save"}
  BY DEF Clearing, Idle, Registering, Inserting
<1> QED BY <1>2, <1>3, OtherMoves

LEMMA SessionOwners ==
    ASSUME OwnersInv, AuthTypeOK', NEW w \in Workers,
           \/ \E u \in Users : StartLogin(w, u) \/ StartLogout(w, u)
           \/ CheckTenant(w) \/ Sign(w) \/ StoreRefresh(w) \/ ClearRefresh(w)
    PROVE  OwnersInv'
<1>0. AuthTypeOK BY DEF OwnersInv
<1>1. CASE UNCHANGED <<tenant, user, contested, failed>> /\ worker[w].pc # "insert_user"
           /\ \E r : Become(w, r) /\ r.pc \notin Registering /\ r.pc \notin {"reset", "save"}
  BY <1>1, SameRows, OtherMoves
<1>2. ASSUME NEW u \in Users, StartLogin(w, u) PROVE OwnersInv'
  BY <1>1, <1>2 DEF StartLogin, history, Registering, Inserting, Idle
<1>3. ASSUME NEW u \in Users, StartLogout(w, u) PROVE OwnersInv'
  BY <1>1, <1>3 DEF StartLogout, history, Registering, Inserting, Idle
<1>4. CASE CheckTenant(w)
  <2>1. worker[w] \in Login BY <1>0, <1>4, Holds DEF CheckTenant
  <2>2. PICK r : r = [worker[w] EXCEPT !.pc = "sign"] OBVIOUS
  <2>3. r.pc = "sign" BY <2>1, <2>2 DEF Login
  <2>4. Become(w, r) \/ Become(w, Idle) BY <1>4, <2>2 DEF CheckTenant, Step
  <2>5. UNCHANGED <<tenant, user, contested, failed>> /\ worker[w].pc # "insert_user"
    BY <1>4 DEF CheckTenant, history
  <2> QED BY <1>1, <2>3, <2>4, <2>5 DEF Registering, Inserting, Idle
<1>5. CASE Sign(w)
  <2>1. \E r : Become(w, r) /\ r.pc \notin Registering /\ r.pc \notin {"reset", "save"}
    BY <1>5 DEF Sign, Registering, Inserting
  <2> QED BY <1>1, <1>5, <2>1 DEF Sign, history
<1>6. CASE StoreRefresh(w)
  <2>1. worker[w] \in Login /\ HasUser(worker[w].u)
    BY <1>0, <1>6, Holds DEF StoreRefresh, AuthTypeOK, SawUser
  <2>2. PICK x \in Users : worker[w].u = x BY <2>1 DEF Login
  <2>3. PICK row : row = [user[x] EXCEPT !.refresh = worker[w].token] OBVIOUS
  <2>4. row \in UserRow /\ row.tenant = user[x].tenant
    BY <1>0, <2>1, <2>2, <2>3, Rows DEF UserRow, Login
  <2>5. WriteUser(w, x, row) /\ Become(w, Idle) /\ UNCHANGED <<tenant, contested, failed>>
    BY <1>6, <2>2, <2>3 DEF StoreRefresh
  <2> QED BY <1>6, <2>1, <2>2, <2>4, <2>5, TenantKept DEF StoreRefresh
<1>7. CASE ClearRefresh(w)
  <2>1. worker[w] \in Plain /\ HasUser(worker[w].u)
    BY <1>0, <1>7, Holds DEF ClearRefresh, AuthTypeOK, SawUser
  <2>2. PICK x \in Users : worker[w].u = x BY <2>1 DEF Plain
  <2>3. PICK row : row = [user[x] EXCEPT !.refresh = NoToken] OBVIOUS
  <2>4. row \in UserRow /\ row.tenant = user[x].tenant
    BY <1>0, <2>1, <2>2, <2>3, Rows DEF UserRow, NoToken
  <2>5. WriteUser(w, x, row) /\ Become(w, Idle) /\ UNCHANGED <<tenant, contested, failed>>
    BY <1>7, <2>2, <2>3 DEF ClearRefresh
  <2> QED BY <1>7, <2>1, <2>2, <2>4, <2>5, TenantKept DEF ClearRefresh
<1> QED BY <1>2, <1>3, <1>4, <1>5, <1>6, <1>7

LEMMA RecoveryOwners ==
    ASSUME OwnersInv, AuthTypeOK', NEW w \in Workers,
           \/ \E u \in Users : StartVerify(w, u) \/ StartForgot(w, u) \/ FindReset(w, u)
           \/ MarkVerified(w) \/ StoreReset(w) \/ ReadAgain(w) \/ SavePassword(w) \/ ClearReset(w)
    PROVE  OwnersInv'
<1>0. AuthTypeOK BY DEF OwnersInv
<1>1. CASE UNCHANGED <<tenant, user, contested, failed>> /\ worker[w].pc # "insert_user"
           /\ \E r : Become(w, r) /\ r.pc \notin Registering
                     /\ (r.pc \in {"reset", "save"} => r.u \in Users /\ r.row.tenant = user[r.u].tenant)
  BY <1>1, SameRows, OtherMoves
<1>2. ASSUME NEW u \in Users, StartVerify(w, u) PROVE OwnersInv'
  BY <1>1, <1>2 DEF StartVerify, history, Registering, Inserting, Idle
<1>3. ASSUME NEW u \in Users, StartForgot(w, u) PROVE OwnersInv'
  BY <1>1, <1>3 DEF StartForgot, history, Registering, Inserting, Idle
<1>4. ASSUME NEW u \in Users, FindReset(w, u) PROVE OwnersInv'
  BY <1>1, <1>4 DEF FindReset, history, Registering, Inserting, Idle
<1>5. CASE MarkVerified(w)
  <2>1. worker[w] \in Plain /\ HasUser(worker[w].u)
    BY <1>0, <1>5, Holds DEF MarkVerified, AuthTypeOK, SawUser
  <2>2. PICK x \in Users : worker[w].u = x BY <2>1 DEF Plain
  <2>3. PICK row : row = [user[x] EXCEPT !.verified = "yes"] OBVIOUS
  <2>4. row \in UserRow /\ row.tenant = user[x].tenant BY <1>0, <2>1, <2>2, <2>3, Rows DEF UserRow
  <2>5. WriteUser(w, x, row) /\ Become(w, Idle) /\ UNCHANGED <<tenant, contested, failed>>
    BY <1>5, <2>2, <2>3 DEF MarkVerified
  <2> QED BY <1>5, <2>1, <2>2, <2>4, <2>5, TenantKept DEF MarkVerified
<1>6. CASE StoreReset(w)
  <2>1. worker[w] \in Forgot /\ HasUser(worker[w].u)
    BY <1>0, <1>6, Holds DEF StoreReset, AuthTypeOK, SawUser
  <2>2. PICK x \in Users : worker[w].u = x BY <2>1 DEF Forgot
  <2>3. PICK row : row = [user[x] EXCEPT !.reset = worker[w].token] OBVIOUS
  <2>4. row \in UserRow /\ row.tenant = user[x].tenant
    BY <1>0, <2>1, <2>2, <2>3, Rows DEF UserRow, Forgot
  <2>5. WriteUser(w, x, row) /\ Become(w, Idle) /\ UNCHANGED <<tenant, contested, failed>>
    BY <1>6, <2>2, <2>3 DEF StoreReset
  <2> QED BY <1>6, <2>1, <2>2, <2>4, <2>5, TenantKept DEF StoreReset
<1>7. CASE ReadAgain(w)
  <2>1. worker[w] \in Resetting BY <1>0, <1>7, Holds DEF ReadAgain
  <2>2. PICK r : r = [worker[w] EXCEPT !.pc = "save", !.row = user[worker[w].u]] OBVIOUS
  <2>3. r.pc = "save" /\ r.u \in Users /\ r.row.tenant = user[r.u].tenant
    BY <2>1, <2>2 DEF Resetting
  <2>4. Become(w, r) BY <1>7, <2>2 DEF ReadAgain
  <2> QED BY <1>1, <1>7, <2>3, <2>4 DEF ReadAgain, history, Registering, Inserting
<1>8. CASE SavePassword(w)
  <2>1. worker[w] \in Resetting /\ HasUser(worker[w].u)
    BY <1>0, <1>8, Holds DEF SavePassword, AuthTypeOK, SawUser
  <2>2. PICK x \in Users, row \in UserRow, k \in Nat \ {0} :
           worker[w].u = x /\ worker[w].row = row /\ worker[w].token = k
    BY <2>1 DEF Resetting
  <2>3. row.tenant = user[x].tenant BY <1>8, <2>2 DEF OwnersInv, RowsAgree, SavePassword
  <2>4. PICK r : r = [pc |-> "clear", u |-> x, token |-> k] OBVIOUS
  <2>5. r \in Clearing BY <2>4 DEF Clearing
  <2>6. WriteUser(w, x, row) /\ Become(w, r) /\ UNCHANGED <<tenant, contested, failed>>
    BY <1>8, <2>2, <2>4 DEF SavePassword
  <2> QED BY <1>8, <2>1, <2>2, <2>3, <2>5, <2>6, TenantKept DEF SavePassword
<1>9. CASE ClearReset(w)
  <2>1. worker[w] \in Clearing /\ HasUser(worker[w].u)
    BY <1>0, <1>9, Holds DEF ClearReset, AuthTypeOK, SawUser
  <2>2. PICK x \in Users : worker[w].u = x BY <2>1 DEF Clearing
  <2>3. PICK row : row = [user[x] EXCEPT !.reset = NoToken] OBVIOUS
  <2>4. row \in UserRow /\ row.tenant = user[x].tenant
    BY <1>0, <2>1, <2>2, <2>3, Rows DEF UserRow, NoToken
  <2>5. WriteUser(w, x, row) /\ Become(w, Idle) /\ UNCHANGED <<tenant, contested, failed>>
    BY <1>9, <2>2, <2>3 DEF ClearReset
  <2> QED BY <1>9, <2>1, <2>2, <2>4, <2>5, TenantKept DEF ClearReset
<1> QED BY <1>2, <1>3, <1>4, <1>5, <1>6, <1>7, <1>8, <1>9

\* A write of a tenant's row keeps its owner.
LEMMA OwnerKept ==
    ASSUME OwnersInv, NEW x \in Tenants, HasTenant(x), NEW row, row.owner = tenant[x].owner,
           tenant' = [tenant EXCEPT ![x] = row], UNCHANGED user
    PROVE  NoNewRows
BY DEF OwnersInv, AuthTypeOK, NoNewRows, HasUser, HasTenant

LEMMA BillingOwners ==
    ASSUME OwnersInv, AuthTypeOK', NEW w \in Workers,
           \/ \E t \in Tenants : \/ \E event \in Events : StartWebhook(w, t, event)
                                 \/ \E s \in TenantStatus : StartStatus(w, t, s)
           \/ WriteEvent(w) \/ UpdateStatus(w)
    PROVE  OwnersInv'
<1>0. AuthTypeOK BY DEF OwnersInv
<1>1. ASSUME NEW t \in Tenants, NEW event \in Events, StartWebhook(w, t, event) PROVE OwnersInv'
  BY <1>1, SameRows, OtherMoves DEF StartWebhook, history, Registering, Inserting, Idle
<1>2. ASSUME NEW t \in Tenants, NEW s \in TenantStatus, StartStatus(w, t, s) PROVE OwnersInv'
  BY <1>2, SameRows, OtherMoves DEF StartStatus, history, Registering, Inserting, Idle
<1>3. CASE WriteEvent(w)
  <2>1. worker[w] \in Hook /\ HasTenant(worker[w].t)
    BY <1>0, <1>3, Holds DEF WriteEvent, AuthTypeOK, SawTenant
  <2>2. PICK x \in Tenants, event \in Events : worker[w].t = x /\ worker[w].event = event
    BY <2>1 DEF Hook
  <2>3. PICK row : row = AfterEvent(tenant[x], event) OBVIOUS
  <2>4. row.owner = tenant[x].owner BY <1>0, <2>1, <2>2, <2>3, Rows, EventOnRow
  <2>5. tenant' = [tenant EXCEPT ![x] = row] BY <1>0, <1>3, <2>2, <2>3 DEF WriteEvent, AuthTypeOK
  <2>6. NoNewRows BY <1>3, <2>1, <2>2, <2>4, <2>5, OwnerKept DEF WriteEvent
  <2> QED BY <1>3, <2>6, OtherMoves DEF WriteEvent, Registering, Inserting, Idle
<1>4. CASE UpdateStatus(w)
  <2>1. worker[w] \in Deciding /\ HasTenant(worker[w].t)
    BY <1>0, <1>4, Holds DEF UpdateStatus, AuthTypeOK, SawTenant
  <2>2. PICK x \in Tenants, s \in TenantStatus : worker[w].t = x /\ worker[w].status = s
    BY <2>1 DEF Deciding
  <2>3. PICK row : row = [tenant[x] EXCEPT !.status = s] OBVIOUS
  <2>4. row.owner = tenant[x].owner BY <1>0, <2>1, <2>2, <2>3, Rows DEF TenantRow
  <2>5. tenant' = [tenant EXCEPT ![x] = row] BY <1>4, <2>2, <2>3 DEF UpdateStatus
  <2>6. NoNewRows BY <1>4, <2>1, <2>2, <2>4, <2>5, OwnerKept DEF UpdateStatus
  <2> QED BY <1>4, <2>6, OtherMoves DEF UpdateStatus, Registering, Inserting, Idle
<1> QED BY <1>1, <1>2, <1>3, <1>4

LEMMA OutsideOwners ==
    ASSUME OwnersInv, AuthTypeOK',
           \/ \E w \in Workers : CutOff(w)
           \/ \E u \in Users : Expire(u)
           \/ \E t \in Tenants : Enrol(t)
           \/ UNCHANGED vars
    PROVE  OwnersInv'
<1>0. AuthTypeOK BY DEF OwnersInv
<1>1. ASSUME NEW w \in Workers, CutOff(w) PROVE OwnersInv'
  <2>1. \A v \in Workers : worker'[v] = IF v = w THEN Idle ELSE worker[v]
    BY <1>0, <1>1 DEF CutOff, AuthTypeOK, Become
  <2>2. \A v \in Workers : NotRegistering(v)
    BY <1>1, <2>1 DEF CutOff, NotRegistering, Idle, Registering, Inserting
  <2>3. failed \subseteq failed' BY <1>1 DEF CutOff
  <2> QED BY <1>1, <2>2, <2>3, SameRows, OthersKeepOwners DEF CutOff
<1>2. ASSUME UNCHANGED <<tenant, user, worker, contested, failed>> PROVE OwnersInv'
  BY <1>2, SameRows, OthersKeepOwners DEF NotRegistering
<1>3. ASSUME NEW x \in Tenants, Enrol(x) PROVE OwnersInv'
  <2>1. HasTenant(x) /\ UNCHANGED <<user, worker, contested, failed>> BY <1>3 DEF Enrol, history
  <2>2. PICK row : row = [tenant[x] EXCEPT !.billed = "yes"] OBVIOUS
  <2>3. row.owner = tenant[x].owner BY <1>0, <2>1, <2>2, Rows DEF TenantRow
  <2>4. tenant' = [tenant EXCEPT ![x] = row] BY <1>3, <2>2 DEF Enrol
  <2>5. NoNewRows BY <2>1, <2>3, <2>4, OwnerKept
  <2> QED BY <2>1, <2>5, OthersKeepOwners DEF NotRegistering
<1> QED BY <1>1, <1>2, <1>3 DEF Expire, vars, history

LEMMA StepOwners == OwnersInv /\ [Next]_vars => OwnersInv'
<1> SUFFICES ASSUME OwnersInv, [Next]_vars PROVE OwnersInv'
  OBVIOUS
<1>1. AuthTypeOK' BY StepTypes DEF OwnersInv
<1> QED
  BY <1>1, RegistrationOwners, SessionOwners, RecoveryOwners, BillingOwners, OutsideOwners
  DEF Next, Request

\* Whatever overlaps and fails, a tenant has an owner of its own, unless its registration is under
\* way, was cut off, or was contested by another one for the same address.
THEOREM OwnersFound == AuthSpec => []TenantsHaveOwners
<1>1. OwnersInv => TenantsHaveOwners BY DEF OwnersInv
<1> QED BY <1>1, InitOwners, StepOwners, PTL DEF AuthSpec

-----------------------------------------------------------------------------
(***************************************************************************)
(* NothingRevived.  A save that nobody overtook writes the row as it is    *)
(* (SaveIsCurrent), and a reset token that is about to be stored has never *)
(* been stored before, so that it is neither spent nor held by anybody     *)
(* (FreshResets): tokens are numbered as they are made.                    *)
(***************************************************************************)
Histories ==
    /\ revoked \in [Users -> SUBSET Nat]
    /\ spent \in [Users -> SUBSET (Nat \ {0})]
    /\ confirmed \subseteq Users
    /\ \A u \in confirmed : HasUser(u)

SaveIsCurrent ==
    \A w \in Workers : worker[w].pc = "save" /\ worker[w].u \notin raced =>
        worker[w].row = user[worker[w].u]

\* Token k of user u is stored, was spent, or is held by a request that found it.
Seen(u, k) ==
    \/ k \in spent[u]
    \/ HasUser(u) /\ user[u].reset = k
    \/ \E v \in Workers : /\ worker[v].pc \in {"reset", "save", "clear"}
                          /\ worker[v].u = u /\ worker[v].token = k
    \/ \E v \in Workers : /\ worker[v].pc \in {"reset", "save"}
                          /\ worker[v].u = u /\ worker[v].row.reset = k

FreshResets ==
    /\ \A u \in Users, k \in Nat : Seen(u, k) => k <= made[u]
    /\ \A w \in Workers : worker[w].pc = "forgot" =>
          worker[w].token <= made[worker[w].u] /\ ~ Seen(worker[w].u, worker[w].token)
    /\ \A v, w \in Workers :
          v # w /\ worker[v].pc = "forgot" /\ worker[w].pc = "forgot" /\ worker[v].u = worker[w].u
             => worker[v].token # worker[w].token

TokensInv == AuthTypeOK /\ Histories /\ NothingRevived /\ SaveIsCurrent /\ FreshResets

LEMMA InitTokens == Init => TokensInv
<1> SUFFICES ASSUME Init PROVE TokensInv
  OBVIOUS
<1>0. AuthTypeOK BY InitTypes
<1>1. /\ revoked = [u \in Users |-> {}] /\ spent = [u \in Users |-> {}]
      /\ confirmed = {} /\ made = [u \in Users |-> 0]
  BY DEF Init, NoToken
<1>2. \A w \in Workers : worker[w].pc = "idle" BY DEF Init, Idle
<1>3. ASSUME NEW u \in Users, HasUser(u) PROVE user[u].reset = 0
  <2>1. PICK owner \in [Tenants0 -> Users] :
           user = [x \in Users |-> IF \E t \in Tenants0 : owner[t] = x
                                   THEN NewUser(CHOOSE t \in Tenants0 : owner[t] = x)
                                   ELSE NoUser]
    BY DEF Init
  <2>2. user[u] = NewUser(CHOOSE t \in Tenants0 : owner[t] = u) BY <1>3, <2>1 DEF HasUser
  <2> QED BY <2>2 DEF NewUser, NoToken
<1>4. Histories /\ NothingRevived /\ SaveIsCurrent
  BY <1>1, <1>2 DEF Histories, NothingRevived, SaveIsCurrent
<1>5. \A u \in Users, k \in Nat : Seen(u, k) => k = 0 BY <1>1, <1>2, <1>3 DEF Seen
<1>6. FreshResets BY <1>1, <1>2, <1>5 DEF FreshResets
<1> QED BY <1>0, <1>4, <1>6 DEF TokensInv

\* What has been seen stays fresh for others when nothing else comes to be seen than the token
\* one request was about to store.
LEMMA StaysFresh ==
    ASSUME TokensInv, AuthTypeOK', made' = made,
           \A w \in Workers : worker'[w].pc = "forgot" => worker'[w] = worker[w],
           \A u \in Users, k \in Nat : Seen(u, k)' =>
               \/ k = 0 \/ Seen(u, k)
               \/ \E w \in Workers : /\ worker[w].pc = "forgot" /\ worker'[w].pc # "forgot"
                                     /\ worker[w].u = u /\ worker[w].token = k
    PROVE  FreshResets'
<1>0. AuthTypeOK /\ FreshResets BY DEF TokensInv
<1>1. \A w \in Workers : worker[w].pc = "forgot" =>
         worker[w].u \in Users /\ worker[w].token \in Nat \ {0}
  BY <1>0, Holds DEF Forgot
<1>2. \A u \in Users : made[u] \in Nat BY <1>0 DEF AuthTypeOK
<1>3. ASSUME NEW u \in Users, NEW k \in Nat, Seen(u, k)' PROVE k <= made'[u]
  BY <1>0, <1>1, <1>2, <1>3 DEF FreshResets
<1>4. ASSUME NEW w \in Workers, worker'[w].pc = "forgot"
      PROVE  worker'[w].token <= made'[worker'[w].u] /\ ~ Seen(worker[w].u, worker[w].token)'
  <2>1. PICK u \in Users, k \in Nat \ {0} : worker[w].u = u /\ worker[w].token = k BY <1>1, <1>4
  <2>2. worker'[w].u = u /\ worker'[w].token = k BY <1>4, <2>1
  <2>3. k <= made[u] /\ ~ Seen(u, k) BY <1>0, <1>4, <2>1 DEF FreshResets
  <2>4. ~ Seen(u, k)'
    <3>1. ASSUME NEW v \in Workers, worker[v].pc = "forgot", worker'[v].pc # "forgot", worker[v].u = u,
                 worker[v].token = k
          PROVE  FALSE
      BY <1>0, <1>4, <2>1, <3>1 DEF FreshResets
    <3> QED BY <2>3, <3>1
  <2> QED BY <2>2, <2>3, <2>4 DEF Seen
<1>5. ASSUME NEW v \in Workers, NEW w \in Workers, v # w, worker'[v].pc = "forgot",
             worker'[w].pc = "forgot", worker'[v].u = worker'[w].u
      PROVE  worker'[v].token # worker'[w].token
  BY <1>0, <1>5 DEF FreshResets
<1> QED BY <1>3, <1>4, <1>5 DEF FreshResets

\* An UPDATE of a user's row, at the end of a request or before it clears the token it used.
LEMMA WriteKeepsTokens ==
    ASSUME TokensInv, AuthTypeOK', made' = made,
           NEW w \in Workers, NEW x \in Users, NEW row \in UserRow, WriteUser(w, x, row), HasUser(x),
           NEW r \in Clearing \cup {Idle}, Become(w, r), r # Idle => r.u = x /\ Seen(x, r.token),
           revoked' \in [Users -> SUBSET Nat], spent' \in [Users -> SUBSET (Nat \ {0})],
           confirmed' \subseteq confirmed \cup {x},
           \A u \in Users \ {x} : revoked'[u] = revoked[u] /\ spent'[u] = spent[u],
           \A k \in spent'[x] : Seen(x, k),
           x \notin raced' =>
               /\ row.refresh = 0 \/ row.refresh \notin revoked'[x]
               /\ row.reset \notin spent'[x]
               /\ x \in confirmed' => row.verified = "yes",
           \/ row.reset = 0 \/ Seen(x, row.reset)
           \/ worker[w].pc = "forgot" /\ worker[w].u = x /\ worker[w].token = row.reset
    PROVE  TokensInv'
<1>0. AuthTypeOK BY DEF TokensInv
<1>1. \A u \in Users : user'[u] = IF u = x THEN row ELSE user[u] BY <1>0 DEF AuthTypeOK, WriteUser
<1>2. \A v \in Workers : worker'[v] = IF v = w THEN r ELSE worker[v] BY <1>0 DEF AuthTypeOK, Become
<1>3. raced \subseteq raced' /\ raced' \subseteq raced \cup {x} BY DEF WriteUser
<1>4. r = Idle \/ r.pc = "clear" BY DEF Clearing
<1>5. HasUser(x)' /\ \A u \in Users : u # x => (HasUser(u)' <=> HasUser(u))
  BY <1>0, <1>1, UserWritten DEF HasUser, WriteUser
<1>6. Histories' BY <1>1, <1>5 DEF TokensInv, Histories, HasUser
<1>7. NothingRevived'
  <2> SUFFICES ASSUME NEW u \in Users, u \notin raced'
               PROVE  /\ \A token \in revoked'[u] : ~ RefreshAccepted(u, token)'
                      /\ HasUser(u)' => user'[u].reset \notin spent'[u]
                      /\ u \in confirmed' => user'[u].verified = "yes"
    BY DEF NothingRevived, RefreshAccepted, HasUser
  <2>1. CASE u = x BY <1>1, <2>1 DEF RefreshAccepted, NoToken
  <2>2. CASE u # x
    <3>1. u \notin raced /\ user'[u] = user[u] /\ revoked'[u] = revoked[u] /\ spent'[u] = spent[u]
          /\ (HasUser(u)' <=> HasUser(u)) /\ (u \in confirmed' => u \in confirmed)
      BY <1>1, <1>3, <1>5, <2>2
    <3> QED BY <3>1 DEF TokensInv, NothingRevived, RefreshAccepted
  <2> QED BY <2>1, <2>2
<1>8. SaveIsCurrent'
  <2> SUFFICES ASSUME NEW v \in Workers, worker'[v].pc = "save", worker'[v].u \notin raced'
               PROVE  worker'[v].row = user'[worker'[v].u]
    BY DEF SaveIsCurrent
  <2>1. v # w /\ worker'[v] = worker[v] BY <1>2, <1>4 DEF Idle
  <2>2. worker[v].u \in Users BY <1>0, <2>1, Holds DEF Resetting
  <2>3. worker[v].u # x BY <2>1 DEF WriteUser, At
  <2> QED BY <1>1, <1>3, <2>1, <2>2, <2>3 DEF TokensInv, SaveIsCurrent
<1>9. FreshResets'
  <2>1. \A v \in Workers : worker'[v].pc = "forgot" => worker'[v] = worker[v]
    BY <1>2, <1>4 DEF Idle
  <2>2. ASSUME NEW u \in Users, NEW k \in Nat, Seen(u, k)'
        PROVE  \/ k = 0 \/ Seen(u, k)
               \/ \E v \in Workers : /\ worker[v].pc = "forgot" /\ worker'[v].pc # "forgot"
                                     /\ worker[v].u = u /\ worker[v].token = k
    <3>1. CASE k \in spent'[u] BY <3>1 DEF Seen
    <3>2. CASE HasUser(u)' /\ user'[u].reset = k
      <4>1. CASE u = x
        <5>1. row.reset = k BY <1>1, <3>2, <4>1
        <5>2. worker'[w].pc # "forgot" BY <1>2, <1>4 DEF Idle
        <5> QED BY <4>1, <5>1, <5>2
      <4>2. CASE u # x BY <1>1, <1>5, <3>2, <4>2 DEF Seen
      <4> QED BY <4>1, <4>2
    <3>3. ASSUME NEW v \in Workers, worker'[v].pc \in {"reset", "save", "clear"},
                 worker'[v].u = u, worker'[v].token = k
          PROVE  Seen(u, k)
      <4>1. CASE v = w BY <1>2, <3>3, <4>1 DEF Idle
      <4>2. CASE v # w BY <1>2, <3>3, <4>2 DEF Seen
      <4> QED BY <4>1, <4>2
    <3>4. ASSUME NEW v \in Workers, worker'[v].pc \in {"reset", "save"},
                 worker'[v].u = u, worker'[v].row.reset = k
          PROVE  Seen(u, k)
      BY <1>2, <1>4, <3>4 DEF Seen, Idle
    <3> QED BY <2>2, <3>1, <3>2, <3>3, <3>4 DEF Seen
  <2> QED BY <2>1, <2>2, StaysFresh
<1> QED BY <1>6, <1>7, <1>8, <1>9 DEF TokensInv

\* A step that writes no user's row and holds no token that was not seen.
LEMMA MovesKeepTokens ==
    ASSUME TokensInv, AuthTypeOK', UNCHANGED <<user, made, revoked, spent, confirmed, raced>>,
           \A v \in Workers : \/ worker'[v] = worker[v]
                              \/ worker'[v].pc \notin {"forgot", "reset", "save", "clear"}
    PROVE  TokensInv'
<1>1. Histories' /\ NothingRevived' BY DEF TokensInv, Histories, NothingRevived, HasUser, RefreshAccepted
<1>2. SaveIsCurrent' BY DEF TokensInv, SaveIsCurrent
<1>3. \A u \in Users, k \in Nat : Seen(u, k)' => Seen(u, k) BY DEF Seen, HasUser
<1>4. FreshResets' BY <1>3, StaysFresh
<1> QED BY <1>1, <1>2, <1>4 DEF TokensInv

LEMMA RegistrationTokens ==
    ASSUME TokensInv, AuthTypeOK', NEW w \in Workers,
           \/ \E t \in Tenants, u \in Users : StartRegister(w, t, u)
           \/ CheckEmail(w) \/ InsertTenant(w) \/ InsertUser(w)
    PROVE  TokensInv'
<1>0. AuthTypeOK BY DEF TokensInv
<1>1. ASSUME NEW r, Become(w, r), r.pc \notin {"forgot", "reset", "save", "clear"},
             UNCHANGED <<user, made, revoked, spent, confirmed, raced>>
      PROVE  TokensInv'
  <2>1. \A v \in Workers : worker'[v] = IF v = w THEN r ELSE worker[v] BY <1>0, <1>1 DEF AuthTypeOK, Become
  <2> QED BY <1>1, <2>1, MovesKeepTokens
<1>2. ASSUME NEW t \in Tenants, NEW u \in Users, StartRegister(w, t, u) PROVE TokensInv'
  BY <1>1, <1>2 DEF StartRegister
<1>3. CASE CheckEmail(w)
  <2>1. PICK r : r = [worker[w] EXCEPT !.pc = "insert_tenant"] OBVIOUS
  <2>2. r.pc = "insert_tenant" BY <1>0, <1>3, <2>1, Holds DEF CheckEmail, Registration
  <2>3. Become(w, r) \/ Become(w, Idle) BY <1>3, <2>1 DEF CheckEmail, Step
  <2>4. UNCHANGED <<user, made, revoked, spent, confirmed, raced>> BY <1>3 DEF CheckEmail, history
  <2> QED BY <1>1, <2>2, <2>3, <2>4 DEF Idle
<1>4. CASE InsertTenant(w)
  <2>1. PICK r : r = [worker[w] EXCEPT !.pc = "insert_user"] OBVIOUS
  <2>2. r.pc = "insert_user" BY <1>0, <1>4, <2>1, Holds DEF InsertTenant, Registration
  <2>3. Become(w, r) \/ Become(w, Idle) BY <1>4, <2>1 DEF InsertTenant, Step
  <2>4. UNCHANGED <<user, made, revoked, spent, confirmed, raced>> BY <1>4 DEF InsertTenant, history
  <2> QED BY <1>1, <2>2, <2>3, <2>4 DEF Idle
<1>5. CASE InsertUser(w)
  <2>1. Become(w, Idle) /\ UNCHANGED <<made, revoked, spent, confirmed, raced>>
    BY <1>5 DEF InsertUser, history
  <2>2. PICK x \in Users : worker[w].u = x BY <1>0, <1>5, Holds DEF InsertUser, Registration
  <2>3. CASE HasUser(x)
    <3>1. UNCHANGED user BY <1>5, <2>2, <2>3 DEF InsertUser
    <3> QED BY <1>1, <2>1, <3>1 DEF Idle
  <2>4. CASE ~ HasUser(x)
    <3>1. PICK row : row = NewUser(worker[w].t) OBVIOUS
    <3>2. row.reset = 0 /\ row.refresh = 0 BY <3>1 DEF NewUser, NoToken
    <3>3. user' = [user EXCEPT ![x] = row] BY <1>5, <2>2, <2>4, <3>1 DEF InsertUser
    <3>4. \A u \in Users : user'[u] = IF u = x THEN row ELSE user[u] BY <1>0, <3>3 DEF AuthTypeOK
    <3>5. \A v \in Workers : worker'[v] = IF v = w THEN Idle ELSE worker[v]
      BY <1>0, <2>1 DEF AuthTypeOK, Become
    <3>6. x \notin confirmed BY <2>4 DEF TokensInv, Histories
    <3>7. Histories' BY <2>1, <3>4, <3>6 DEF TokensInv, Histories, HasUser
    <3>8. NothingRevived'
      <4>1. ASSUME NEW u \in Users \ raced
            PROVE  /\ \A token \in revoked'[u] : ~ RefreshAccepted(u, token)'
                   /\ HasUser(u)' => user'[u].reset \notin spent'[u]
                   /\ u \in confirmed' => user'[u].verified = "yes"
        <5>1. CASE u = x
          BY <2>1, <3>2, <3>4, <3>6, <5>1 DEF TokensInv, Histories, RefreshAccepted, NoToken
        <5>2. CASE u # x
          BY <2>1, <3>4, <5>2 DEF TokensInv, NothingRevived, RefreshAccepted, HasUser
        <5> QED BY <5>1, <5>2
      <4> QED BY <2>1, <4>1 DEF NothingRevived, RefreshAccepted, HasUser
    <3>9. SaveIsCurrent'
      <4> SUFFICES ASSUME NEW v \in Workers, worker'[v].pc = "save", worker'[v].u \notin raced'
                   PROVE  worker'[v].row = user'[worker'[v].u]
        BY DEF SaveIsCurrent
      <4>1. worker'[v] = worker[v] BY <3>5 DEF Idle
      <4>2. worker[v].u \in Users /\ HasUser(worker[v].u)
        BY <1>0, <4>1, Holds DEF Resetting, AuthTypeOK, SawUser
      <4> QED BY <2>1, <2>4, <3>4, <4>1, <4>2 DEF TokensInv, SaveIsCurrent
    <3>10. FreshResets'
      <4>1. ASSUME NEW u \in Users, NEW k \in Nat, Seen(u, k)' PROVE k = 0 \/ Seen(u, k)
        <5>1. CASE u = x BY <2>1, <3>2, <3>4, <3>5, <4>1, <5>1 DEF Seen, Idle
        <5>2. CASE u # x BY <2>1, <3>4, <3>5, <4>1, <5>2 DEF Seen, Idle, HasUser
        <5> QED BY <5>1, <5>2
      <4> QED BY <2>1, <3>5, <4>1, StaysFresh DEF Idle
    <3> QED BY <3>7, <3>8, <3>9, <3>10 DEF TokensInv
  <2> QED BY <2>3, <2>4
<1> QED BY <1>2, <1>3, <1>4, <1>5

LEMMA SessionTokens ==
    ASSUME TokensInv, AuthTypeOK', NEW w \in Workers,
           \/ \E u \in Users : StartLogin(w, u) \/ StartLogout(w, u)
           \/ CheckTenant(w) \/ Sign(w) \/ StoreRefresh(w) \/ ClearRefresh(w)
    PROVE  TokensInv'
<1>0. AuthTypeOK /\ Histories /\ NothingRevived BY DEF TokensInv
<1>1. ASSUME NEW r, Become(w, r), r.pc \notin {"forgot", "reset", "save", "clear"},
             UNCHANGED <<user, made, revoked, spent, confirmed, raced>>
      PROVE  TokensInv'
  <2>1. \A v \in Workers : worker'[v] = IF v = w THEN r ELSE worker[v] BY <1>0, <1>1 DEF AuthTypeOK, Become
  <2> QED BY <1>1, <2>1, MovesKeepTokens
<1>2. ASSUME NEW u \in Users, StartLogin(w, u) PROVE TokensInv'
  BY <1>1, <1>2 DEF StartLogin, history
<1>3. ASSUME NEW u \in Users, StartLogout(w, u) PROVE TokensInv'
  BY <1>1, <1>3 DEF StartLogout, history
<1>4. CASE CheckTenant(w)
  <2>1. PICK r : r = [worker[w] EXCEPT !.pc = "sign"] OBVIOUS
  <2>2. r.pc = "sign" BY <1>0, <1>4, <2>1, Holds DEF CheckTenant, Login
  <2>3. Become(w, r) \/ Become(w, Idle) BY <1>4, <2>1 DEF CheckTenant, Step
  <2>4. UNCHANGED <<user, made, revoked, spent, confirmed, raced>> BY <1>4 DEF CheckTenant, history
  <2> QED BY <1>1, <2>2, <2>3, <2>4 DEF Idle
<1>5. CASE Sign(w)
  <2>1. \E r : Become(w, r) /\ r.pc \notin {"forgot", "reset", "save", "clear"}
    BY <1>5 DEF Sign
  <2> QED BY <1>1, <1>5, <2>1 DEF Sign, history
<1>6. CASE StoreRefresh(w)
  <2>1. worker[w] \in Login /\ HasUser(worker[w].u)
    BY <1>0, <1>6, Holds DEF StoreRefresh, AuthTypeOK, SawUser
  <2>2. PICK x \in Users, k \in Nat : worker[w].u = x /\ worker[w].token = k BY <2>1 DEF Login
  <2>3. user[x] \in UserRow BY <1>0, <2>1, <2>2, Rows
  <2>4. PICK row : row = [user[x] EXCEPT !.refresh = k] OBVIOUS
  <2>5. row \in UserRow /\ row.refresh = k /\ row.reset = user[x].reset /\ row.verified = user[x].verified
    BY <2>3, <2>4 DEF UserRow
  <2>6. /\ WriteUser(w, x, row) /\ Become(w, Idle) /\ UNCHANGED <<made, spent, confirmed>>
        /\ revoked' = [revoked EXCEPT ![x] = @ \ {k}]
    BY <1>6, <2>2, <2>4 DEF StoreRefresh
  <2>7. Seen(x, row.reset) BY <2>1, <2>2, <2>5 DEF Seen
  <2>8. revoked' \in [Users -> SUBSET Nat] /\ row.refresh \notin revoked'[x]
        /\ \A u \in Users \ {x} : revoked'[u] = revoked[u]
    BY <1>0, <2>5, <2>6 DEF Histories
  <2>9. x \notin raced' => x \notin raced BY <2>6 DEF WriteUser
  <2>10. x \notin raced' => row.reset \notin spent'[x] /\ (x \in confirmed' => row.verified = "yes")
    BY <1>0, <2>1, <2>2, <2>5, <2>6, <2>9 DEF NothingRevived
  <2>11. spent' \in [Users -> SUBSET (Nat \ {0})] /\ \A k2 \in spent'[x] : Seen(x, k2)
    BY <1>0, <2>6 DEF Histories, Seen
  <2> QED BY <2>1, <2>2, <2>5, <2>6, <2>7, <2>8, <2>10, <2>11, WriteKeepsTokens
<1>7. CASE ClearRefresh(w)
  <2>1. worker[w] \in Plain /\ HasUser(worker[w].u)
    BY <1>0, <1>7, Holds DEF ClearRefresh, AuthTypeOK, SawUser
  <2>2. PICK x \in Users : worker[w].u = x BY <2>1 DEF Plain
  <2>3. user[x] \in UserRow BY <1>0, <2>1, <2>2, Rows
  <2>4. PICK row : row = [user[x] EXCEPT !.refresh = NoToken] OBVIOUS
  <2>5. row \in UserRow /\ row.refresh = 0 /\ row.reset = user[x].reset /\ row.verified = user[x].verified
    BY <2>3, <2>4 DEF UserRow, NoToken
  <2>6. /\ WriteUser(w, x, row) /\ Become(w, Idle) /\ UNCHANGED <<made, spent, confirmed>>
        /\ revoked' = [revoked EXCEPT ![x] = @ \cup ({user[x].refresh} \ {NoToken})]
    BY <1>7, <2>2, <2>4 DEF ClearRefresh
  <2>7. Seen(x, row.reset) BY <2>1, <2>2, <2>5 DEF Seen
  <2>8. revoked' \in [Users -> SUBSET Nat] /\ \A u \in Users \ {x} : revoked'[u] = revoked[u]
    BY <1>0, <2>3, <2>6 DEF Histories, UserRow
  <2>9. x \notin raced' => x \notin raced BY <2>6 DEF WriteUser
  <2>10. x \notin raced' => row.reset \notin spent'[x] /\ (x \in confirmed' => row.verified = "yes")
    BY <1>0, <2>1, <2>2, <2>5, <2>6, <2>9 DEF NothingRevived
  <2>11. spent' \in [Users -> SUBSET (Nat \ {0})] /\ \A k2 \in spent'[x] : Seen(x, k2)
    BY <1>0, <2>6 DEF Histories, Seen
  <2> QED BY <2>1, <2>2, <2>5, <2>6, <2>7, <2>8, <2>10, <2>11, WriteKeepsTokens
<1> QED BY <1>2, <1>3, <1>4, <1>5, <1>6, <1>7

\* The refresh token of a row is none that a logout has cleared.
LEMMA StoredIsLive ==
    ASSUME TokensInv, NEW x \in Users \ raced, HasUser(x)
    PROVE  /\ user[x].refresh = 0 \/ user[x].refresh \notin revoked[x]
           /\ user[x].reset \notin spent[x]
           /\ x \in confirmed => user[x].verified = "yes"
BY DEF TokensInv, NothingRevived, RefreshAccepted, NoToken

LEMMA StartForgotTokens ==
    ASSUME TokensInv, AuthTypeOK', NEW w \in Workers, NEW u \in Users, StartForgot(w, u)
    PROVE  TokensInv'
<1>0. AuthTypeOK /\ FreshResets BY DEF TokensInv
<1>1. PICK r : r = [pc |-> "forgot", u |-> u, token |-> made[u] + 1] OBVIOUS
<1>2. /\ made' = [made EXCEPT ![u] = @ + 1] /\ Become(w, r) /\ worker[w] = Idle
      /\ UNCHANGED <<user, raced, revoked, spent, confirmed>>
  BY <1>1 DEF StartForgot, history
<1>3. \A v \in Workers : worker'[v] = IF v = w THEN r ELSE worker[v]
  BY <1>0, <1>2 DEF AuthTypeOK, Become
<1>4. \A x \in Users : /\ made[x] \in Nat
                       /\ made'[x] = IF x = u THEN made[x] + 1 ELSE made[x]
  BY <1>0, <1>2 DEF AuthTypeOK
<1>5. Histories' /\ NothingRevived'
  BY <1>2 DEF TokensInv, Histories, NothingRevived, HasUser, RefreshAccepted
<1>6. SaveIsCurrent' BY <1>1, <1>2, <1>3 DEF TokensInv, SaveIsCurrent
<1>7. \A x \in Users, k \in Nat : Seen(x, k)' => Seen(x, k)
  BY <1>1, <1>2, <1>3 DEF Seen, HasUser
<1>8. ASSUME NEW x \in Users, NEW k \in Nat, Seen(x, k)' PROVE k <= made'[x]
  <2>1. k <= made[x] BY <1>0, <1>7, <1>8 DEF FreshResets
  <2> QED BY <1>4, <2>1
<1>9. ASSUME NEW v \in Workers, worker'[v].pc = "forgot"
      PROVE  worker'[v].token <= made'[worker'[v].u] /\ ~ Seen(worker[v].u, worker[v].token)'
  <2>1. PICK x \in Users, k \in Nat : /\ worker'[v].u = x /\ worker'[v].token = k
                                      /\ k <= made'[x] /\ ~ Seen(x, k)
    <3>1. CASE v = w
      <4>1. worker'[v].u = u /\ worker'[v].token = made[u] + 1 /\ made[u] + 1 \in Nat
        BY <1>1, <1>3, <1>4, <3>1
      <4>2. ~ Seen(u, made[u] + 1) BY <1>0, <1>4 DEF FreshResets
      <4>3. made[u] + 1 <= made'[u] BY <1>4
      <4> QED BY <4>1, <4>2, <4>3
    <3>2. CASE v # w
      <4>1. worker'[v] = worker[v] BY <1>3, <3>2
      <4>2. worker[v] \in Forgot BY <1>0, <1>9, <4>1, Holds
      <4>3. worker[v].token <= made[worker[v].u] /\ ~ Seen(worker[v].u, worker[v].token)
        BY <1>0, <1>9, <4>1 DEF FreshResets
      <4>4. worker[v].u \in Users /\ worker[v].token \in Nat BY <4>2 DEF Forgot
      <4>5. worker[v].token <= made'[worker[v].u] BY <1>4, <4>3, <4>4
      <4> QED BY <4>1, <4>3, <4>4, <4>5
    <3> QED BY <3>1, <3>2
  <2>2. ~ Seen(x, k)' BY <1>7, <2>1
  <2> QED BY <2>1, <2>2 DEF Seen
<1>10. ASSUME NEW v \in Workers, NEW y \in Workers, v # y, worker'[v].pc = "forgot",
              worker'[y].pc = "forgot", worker'[v].u = worker'[y].u
       PROVE  worker'[v].token # worker'[y].token
  <2>1. ASSUME NEW z \in Workers, z # w, worker'[z].pc = "forgot", worker'[z].u = u
        PROVE  worker'[z].token # made[u] + 1
    <3>1. worker'[z] = worker[z] BY <1>3, <2>1
    <3>2. worker[z].token \in Nat /\ worker[z].token <= made[u]
      BY <1>0, <2>1, <3>1, Holds DEF Forgot, FreshResets
    <3> QED BY <1>4, <3>1, <3>2
  <2>2. CASE v = w BY <1>1, <1>3, <1>10, <2>1, <2>2
  <2>3. CASE y = w BY <1>1, <1>3, <1>10, <2>1, <2>3
  <2>4. CASE v # w /\ y # w BY <1>0, <1>3, <1>10, <2>4 DEF FreshResets
  <2> QED BY <2>2, <2>3, <2>4
<1>11. FreshResets' BY <1>8, <1>9, <1>10 DEF FreshResets
<1> QED BY <1>5, <1>6, <1>11 DEF TokensInv

LEMMA RecoveryTokens ==
    ASSUME TokensInv, AuthTypeOK', NEW w \in Workers,
           \/ \E u \in Users : StartVerify(w, u) \/ StartForgot(w, u) \/ FindReset(w, u)
           \/ MarkVerified(w) \/ StoreReset(w) \/ ReadAgain(w) \/ SavePassword(w) \/ ClearReset(w)
    PROVE  TokensInv'
<1>0. AuthTypeOK /\ Histories /\ NothingRevived /\ SaveIsCurrent /\ FreshResets BY DEF TokensInv
\* A request that goes on holding tokens that were seen, and saves nothing but the row as it is.
<1>1. ASSUME NEW r, Become(w, r), NEW x \in Users, r.u = x, r.pc \in {"reset", "save"},
             Seen(x, r.token), r.row = user[x], HasUser(x),
             UNCHANGED <<user, made, revoked, spent, confirmed, raced>>
      PROVE  TokensInv'
  <2>1. \A v \in Workers : worker'[v] = IF v = w THEN r ELSE worker[v] BY <1>0, <1>1 DEF AuthTypeOK, Become
  <2>2. Histories' /\ NothingRevived'
    BY <1>1 DEF TokensInv, Histories, NothingRevived, HasUser, RefreshAccepted
  <2>3. SaveIsCurrent' BY <1>0, <1>1, <2>1 DEF SaveIsCurrent
  <2>4. ASSUME NEW u \in Users, NEW k \in Nat, Seen(u, k)' PROVE Seen(u, k)
    <3>1. ASSUME NEW v \in Workers, worker'[v].pc \in {"reset", "save", "clear"},
                 worker'[v].u = u, worker'[v].token = k
          PROVE  Seen(u, k)
      <4>1. CASE v = w BY <1>1, <2>1, <3>1, <4>1
      <4>2. CASE v # w BY <2>1, <3>1, <4>2 DEF Seen
      <4> QED BY <4>1, <4>2
    <3>2. ASSUME NEW v \in Workers, worker'[v].pc \in {"reset", "save"},
                 worker'[v].u = u, worker'[v].row.reset = k
          PROVE  Seen(u, k)
      <4>1. CASE v = w BY <1>1, <2>1, <3>2, <4>1 DEF Seen
      <4>2. CASE v # w BY <2>1, <3>2, <4>2 DEF Seen
      <4> QED BY <4>1, <4>2
    <3>3. CASE k \in spent[u] BY <3>3 DEF Seen
    <3>4. CASE HasUser(u) /\ user[u].reset = k BY <3>4 DEF Seen
    <3> QED BY <1>1, <2>4, <3>1, <3>2, <3>3, <3>4 DEF Seen, HasUser
  <2>5. FreshResets' BY <1>1, <2>1, <2>4, StaysFresh
  <2> QED BY <2>2, <2>3, <2>5 DEF TokensInv
<1>2. ASSUME NEW u \in Users, StartVerify(w, u) PROVE TokensInv'
  <2>1. \A v \in Workers : worker'[v] = IF v = w THEN [pc |-> "verify", u |-> u] ELSE worker[v]
    BY <1>0, <1>2 DEF StartVerify, AuthTypeOK, Become
  <2> QED BY <1>2, <2>1, MovesKeepTokens DEF StartVerify, history
<1>3. ASSUME NEW u \in Users, StartForgot(w, u) PROVE TokensInv' BY <1>3, StartForgotTokens
<1>4. ASSUME NEW u \in Users, FindReset(w, u) PROVE TokensInv'
  <2>1. PICK r : r = [pc |-> "reset", u |-> u, token |-> user[u].reset, row |-> user[u]] OBVIOUS
  <2>2. /\ Become(w, r) /\ HasUser(u)
        /\ UNCHANGED <<user, made, revoked, spent, confirmed, raced>>
    BY <1>4, <2>1 DEF FindReset, history
  <2>3. Seen(u, r.token) BY <2>1, <2>2 DEF Seen
  <2> QED BY <1>1, <2>1, <2>2, <2>3
<1>5. CASE ReadAgain(w)
  <2>1. worker[w] \in Resetting /\ HasUser(worker[w].u)
    BY <1>0, <1>5, Holds DEF ReadAgain, AuthTypeOK, SawUser
  <2>2. PICK x \in Users : worker[w].u = x BY <2>1 DEF Resetting
  <2>3. PICK r : r = [worker[w] EXCEPT !.pc = "save", !.row = user[x]] OBVIOUS
  <2>4. r.u = x /\ r.pc = "save" /\ r.token = worker[w].token /\ r.row = user[x]
    BY <2>1, <2>2, <2>3 DEF Resetting
  <2>5. Seen(x, r.token) BY <1>5, <2>2, <2>4 DEF Seen, ReadAgain
  <2>6. Become(w, r) /\ UNCHANGED <<user, made, revoked, spent, confirmed, raced>>
    BY <1>5, <2>2, <2>3 DEF ReadAgain, history
  <2> QED BY <1>1, <2>1, <2>2, <2>4, <2>5, <2>6
<1>6. CASE MarkVerified(w)
  <2>1. worker[w] \in Plain /\ HasUser(worker[w].u)
    BY <1>0, <1>6, Holds DEF MarkVerified, AuthTypeOK, SawUser
  <2>2. PICK x \in Users : worker[w].u = x BY <2>1 DEF Plain
  <2>3. user[x] \in UserRow BY <1>0, <2>1, <2>2, Rows
  <2>4. PICK row : row = [user[x] EXCEPT !.verified = "yes"] OBVIOUS
  <2>5. row \in UserRow /\ row.refresh = user[x].refresh /\ row.reset = user[x].reset /\ row.verified = "yes"
    BY <2>3, <2>4 DEF UserRow
  <2>6. /\ WriteUser(w, x, row) /\ Become(w, Idle) /\ UNCHANGED <<made, revoked, spent>>
        /\ confirmed' = confirmed \cup {x}
    BY <1>6, <2>2, <2>4 DEF MarkVerified
  <2>7. Seen(x, row.reset) BY <2>1, <2>2, <2>5 DEF Seen
  <2>8. x \notin raced' => x \notin raced BY <2>6 DEF WriteUser
  <2>9. x \notin raced' => /\ row.refresh = 0 \/ row.refresh \notin revoked'[x]
                           /\ row.reset \notin spent'[x]
    BY <2>1, <2>2, <2>5, <2>6, <2>8, StoredIsLive
  <2>10. /\ revoked' \in [Users -> SUBSET Nat]
         /\ spent' \in [Users -> SUBSET (Nat \ {0})] /\ \A k \in spent'[x] : Seen(x, k)
    BY <1>0, <2>6 DEF Histories, Seen
  <2> QED BY <2>1, <2>2, <2>5, <2>6, <2>7, <2>9, <2>10, WriteKeepsTokens
<1>7. CASE StoreReset(w)
  <2>1. worker[w] \in Forgot /\ HasUser(worker[w].u) /\ worker[w].pc = "forgot"
    BY <1>0, <1>7, Holds DEF StoreReset, AuthTypeOK, SawUser
  <2>2. PICK x \in Users, k \in Nat \ {0} : worker[w].u = x /\ worker[w].token = k BY <2>1 DEF Forgot
  <2>3. user[x] \in UserRow BY <1>0, <2>1, <2>2, Rows
  <2>4. PICK row : row = [user[x] EXCEPT !.reset = k] OBVIOUS
  <2>5. /\ row \in UserRow /\ row.refresh = user[x].refresh /\ row.reset = k
        /\ row.verified = user[x].verified
    BY <2>3, <2>4 DEF UserRow
  <2>6. /\ WriteUser(w, x, row) /\ Become(w, Idle) /\ UNCHANGED <<made, revoked, spent, confirmed>>
    BY <1>7, <2>2, <2>4 DEF StoreReset
  <2>7. k \notin spent[x] BY <1>0, <2>1, <2>2 DEF FreshResets, Seen
  <2>8. x \notin raced' => x \notin raced BY <2>6 DEF WriteUser
  <2>9. x \notin raced' => /\ row.refresh = 0 \/ row.refresh \notin revoked'[x]
                           /\ row.reset \notin spent'[x]
                           /\ x \in confirmed' => row.verified = "yes"
    BY <2>1, <2>2, <2>5, <2>6, <2>7, <2>8, StoredIsLive
  <2>10. /\ revoked' \in [Users -> SUBSET Nat]
         /\ spent' \in [Users -> SUBSET (Nat \ {0})] /\ \A k2 \in spent'[x] : Seen(x, k2)
    BY <1>0, <2>6 DEF Histories, Seen
  <2> QED BY <2>1, <2>2, <2>5, <2>6, <2>9, <2>10, WriteKeepsTokens
<1>8. CASE SavePassword(w)
  <2>1. worker[w] \in Resetting /\ HasUser(worker[w].u) /\ worker[w].pc = "save"
    BY <1>0, <1>8, Holds DEF SavePassword, AuthTypeOK, SawUser
  <2>2. PICK x \in Users, row \in UserRow, k \in Nat \ {0} :
           worker[w].u = x /\ worker[w].row = row /\ worker[w].token = k
    BY <2>1 DEF Resetting
  <2>3. PICK r : r = [pc |-> "clear", u |-> x, token |-> k] OBVIOUS
  <2>4. r \in Clearing /\ r.u = x /\ r.token = k BY <2>3 DEF Clearing
  <2>5. Seen(x, k) /\ Seen(x, row.reset) BY <2>1, <2>2 DEF Seen
  <2>6. WriteUser(w, x, row) /\ Become(w, r) /\ UNCHANGED <<made, revoked, spent, confirmed>>
    BY <1>8, <2>2, <2>3 DEF SavePassword
  <2>7. x \notin raced' => x \notin raced BY <2>6 DEF WriteUser
  <2>8. x \notin raced => row = user[x] BY <1>0, <2>1, <2>2 DEF SaveIsCurrent
  <2>9. x \notin raced' => /\ row.refresh = 0 \/ row.refresh \notin revoked'[x]
                           /\ row.reset \notin spent'[x]
                           /\ x \in confirmed' => row.verified = "yes"
    BY <2>1, <2>2, <2>6, <2>7, <2>8, StoredIsLive
  <2>10. /\ revoked' \in [Users -> SUBSET Nat]
         /\ spent' \in [Users -> SUBSET (Nat \ {0})] /\ \A k2 \in spent'[x] : Seen(x, k2)
    BY <1>0, <2>6 DEF Histories, Seen
  <2> QED BY <2>1, <2>2, <2>4, <2>5, <2>6, <2>9, <2>10, WriteKeepsTokens
<1>9. CASE ClearReset(w)
  <2>1. worker[w] \in Clearing /\ HasUser(worker[w].u) /\ worker[w].pc = "clear"
    BY <1>0, <1>9, Holds DEF ClearReset, AuthTypeOK, SawUser
  <2>2. PICK x \in Users, k \in Nat \ {0} : worker[w].u = x /\ worker[w].token = k BY <2>1 DEF Clearing
  <2>3. user[x] \in UserRow BY <1>0, <2>1, <2>2, Rows
  <2>4. PICK row : row = [user[x] EXCEPT !.reset = NoToken] OBVIOUS
  <2>5. /\ row \in UserRow /\ row.refresh = user[x].refresh /\ row.reset = 0
        /\ row.verified = user[x].verified
    BY <2>3, <2>4 DEF UserRow, NoToken
  <2>6. /\ WriteUser(w, x, row) /\ Become(w, Idle) /\ UNCHANGED <<made, revoked, confirmed>>
        /\ spent' = [spent EXCEPT ![x] = @ \cup {k}]
    BY <1>9, <2>2, <2>4 DEF ClearReset
  <2>7. x \notin raced' => x \notin raced BY <2>6 DEF WriteUser
  <2>8. /\ spent' \in [Users -> SUBSET (Nat \ {0})] /\ spent'[x] = spent[x] \cup {k}
        /\ \A u \in Users \ {x} : spent'[u] = spent[u]
    BY <1>0, <2>6 DEF Histories
  <2>9. \A k2 \in spent'[x] : Seen(x, k2) BY <2>1, <2>2, <2>8 DEF Seen
  <2>10. 0 \notin spent'[x] BY <2>8
  <2>11. x \notin raced' => /\ row.refresh = 0 \/ row.refresh \notin revoked'[x]
                            /\ x \in confirmed' => row.verified = "yes"
    BY <2>1, <2>2, <2>5, <2>6, <2>7, StoredIsLive
  <2>12. revoked' \in [Users -> SUBSET Nat] BY <1>0, <2>6 DEF Histories
  <2> QED BY <2>1, <2>2, <2>5, <2>6, <2>8, <2>9, <2>10, <2>11, <2>12, WriteKeepsTokens
<1> QED BY <1>2, <1>3, <1>4, <1>5, <1>6, <1>7, <1>8, <1>9

LEMMA RestTokens ==
    ASSUME TokensInv, AuthTypeOK',
           \/ \E w \in Workers :
                 \/ \E t \in Tenants : \/ \E event \in Events : StartWebhook(w, t, event)
                                       \/ \E s \in TenantStatus : StartStatus(w, t, s)
                 \/ WriteEvent(w) \/ UpdateStatus(w) \/ CutOff(w)
           \/ \E u \in Users : Expire(u)
           \/ \E t \in Tenants : Enrol(t)
           \/ UNCHANGED vars
    PROVE  TokensInv'
<1>0. AuthTypeOK BY DEF TokensInv
<1>1. ASSUME NEW w \in Workers, NEW r, Become(w, r), r.pc \notin {"forgot", "reset", "save", "clear"},
             UNCHANGED <<user, made, revoked, spent, confirmed, raced>>
      PROVE  TokensInv'
  <2>1. \A v \in Workers : worker'[v] = IF v = w THEN r ELSE worker[v] BY <1>0, <1>1 DEF AuthTypeOK, Become
  <2> QED BY <1>1, <2>1, MovesKeepTokens
<1>2. ASSUME UNCHANGED <<user, made, worker, revoked, spent, confirmed, raced>> PROVE TokensInv'
  BY <1>2, MovesKeepTokens
<1>3. ASSUME NEW w \in Workers, NEW t \in Tenants, NEW event \in Events, StartWebhook(w, t, event)
      PROVE  TokensInv'
  BY <1>1, <1>3 DEF StartWebhook, history
<1>4. ASSUME NEW w \in Workers, NEW t \in Tenants, NEW s \in TenantStatus, StartStatus(w, t, s)
      PROVE  TokensInv'
  BY <1>1, <1>4 DEF StartStatus, history
<1>5. ASSUME NEW w \in Workers, WriteEvent(w) \/ UpdateStatus(w) \/ CutOff(w) PROVE TokensInv'
  <2>1. Become(w, Idle) /\ UNCHANGED <<user, made, revoked, spent, confirmed, raced>>
    BY <1>5 DEF WriteEvent, UpdateStatus, CutOff
  <2> QED BY <1>1, <2>1 DEF Idle
<1>6. ASSUME NEW u \in Users, Expire(u) PROVE TokensInv' BY <1>2, <1>6 DEF Expire, history
<1>7. ASSUME NEW t \in Tenants, Enrol(t) PROVE TokensInv' BY <1>2, <1>7 DEF Enrol, history
<1> QED BY <1>2, <1>3, <1>4, <1>5, <1>6, <1>7 DEF vars, history

LEMMA StepTokens == TokensInv /\ [Next]_vars => TokensInv'
<1> SUFFICES ASSUME TokensInv, [Next]_vars PROVE TokensInv'
  OBVIOUS
<1>1. AuthTypeOK' BY StepTypes DEF TokensInv
<1> QED BY <1>1, RegistrationTokens, SessionTokens, RecoveryTokens, RestTokens DEF Next, Request

\* A token that a logout cleared is not accepted before a login stores it anew, and no use of a
\* reset token or verification is undone, for any number of concurrent requests, unless a write
\* came between a new password's read of the row and its save.
THEOREM TokensStayDead == AuthSpec => []NothingRevived
<1>1. TokensInv => NothingRevived BY DEF TokensInv
<1> QED BY <1>1, InitTokens, StepTokens, PTL DEF AuthSpec

(***************************************************************************)
(* The limiter of logins.                                                  *)
(***************************************************************************)
USE LimiterAssumption

\* How many of the attempts of its run a known identifier has been let through.
Used(count) == IF count <= Limit THEN count ELSE Limit

\* What is kept of an identifier: the attempts of the run it is in are the last ones of times, and
\* the one before them is at least a lockout older.
RunOK(attempts, times, time) ==
    /\ attempts.count \in 1..MaxAttempts
    /\ attempts.lastAttempt \in Nat /\ attempts.lastAttempt <= time
    /\ times \in Seq(Nat)
    /\ Used(attempts.count) <= Len(times) /\ Len(times) <= Limit + 1
    /\ \A a, b \in 1..Len(times) : a <= b => times[a] <= times[b]
    /\ times[Len(times)] <= attempts.lastAttempt
    /\ Len(times) > Used(attempts.count) =>
          times[Len(times) - Used(attempts.count)] + LockoutTime
              <= times[Len(times) - Used(attempts.count) + 1]

LimiterInv ==
    /\ now \in Nat
    /\ DOMAIN loginAttempts = Identifiers /\ DOMAIN passed = Identifiers
    /\ loginAttempts = [i \in Identifiers |-> loginAttempts[i]]
    /\ passed = [i \in Identifiers |-> passed[i]]
    /\ \A i \in Identifiers :
          IF Known(i) THEN RunOK(loginAttempts[i], passed[i], now) ELSE passed[i] = <<>>

LEMMA LimitOK == Limit \in Nat \ {0} /\ (MaxAttempts # 1 => Limit = MaxAttempts - 1) /\ (MaxAttempts = 1 => Limit = 1)
BY DEF Limit

LEMMA RunHolds ==
    ASSUME NEW attempts, NEW times, NEW time \in Nat, RunOK(attempts, times, time)
    PROVE  Len(times) > Limit => times[1] + LockoutTime <= times[Limit + 1]
<1> SUFFICES ASSUME Len(times) > Limit PROVE times[1] + LockoutTime <= times[Limit + 1]
  OBVIOUS
<1> DEFINE n == Len(times)  j == Used(attempts.count)
<1>1. n = Limit + 1 /\ j \in 1..Limit BY LimitOK DEF RunOK, Used
<1> HIDE DEF n, j
<1>2. /\ n - j \in 1..n /\ n - j + 1 \in 1..n /\ 1 \in 1..n /\ n \in 1..n /\ 1 <= n - j /\ n - j + 1 <= n
  BY <1>1, LimitOK
<1>3. times[1] <= times[n - j] /\ times[n - j + 1] <= times[n] BY <1>2 DEF RunOK, n
<1>4. times[n - j] + LockoutTime <= times[n - j + 1] BY <1>1, <1>2 DEF RunOK, n, j
<1>5. times[1] \in Nat /\ times[n - j] \in Nat /\ times[n - j + 1] \in Nat /\ times[n] \in Nat
  BY <1>2 DEF RunOK, n
<1>6. times[1] + LockoutTime <= times[n] BY <1>3, <1>4, <1>5
<1> QED BY <1>1, <1>6 DEF n

\* One more time at the end, the oldest dropped when there are more than Limit.
LEMMA Recorded ==
    ASSUME NEW times \in Seq(Nat), now \in Nat, Len(times) <= Limit + 1
    PROVE  /\ Record(times) \in Seq(Nat)
           /\ Len(times) > Limit =>
                 /\ Len(Record(times)) = Limit + 1
                 /\ \A a \in 1..Limit : Record(times)[a] = times[a + 1]
                 /\ Record(times)[Limit + 1] = now
           /\ Len(times) <= Limit =>
                 /\ Len(Record(times)) = Len(times) + 1
                 /\ \A a \in 1..Len(times) : Record(times)[a] = times[a]
                 /\ Record(times)[Len(times) + 1] = now
<1>1. CASE Len(times) > Limit
  <2>1. times # <<>> BY <1>1, LimitOK
  <2>2. /\ Tail(times) \in Seq(Nat) /\ Len(Tail(times)) = Limit
        /\ \A a \in 1..Limit : Tail(times)[a] = times[a + 1]
    BY <1>1, <2>1, LimitOK
  <2>3. Record(times) = Append(Tail(times), now) BY <1>1 DEF Record
  <2> QED BY <1>1, <2>2, <2>3, LimitOK
<1>2. CASE ~ (Len(times) > Limit)
  <2>1. Record(times) = Append(times, now) BY <1>2 DEF Record
  <2> QED BY <1>2, <2>1, LimitOK
<1> QED BY <1>1, <1>2

\* A sequence in order, with an end that is no smaller, is in order.
LEMMA SortedEnd ==
    ASSUME NEW s, NEW n \in Nat, NEW t \in Nat, s[n + 1] = t,
           \A a \in 1..n : s[a] \in Nat /\ s[a] <= t,
           \A a, b \in 1..n : a <= b => s[a] <= s[b]
    PROVE  \A a, b \in 1..(n + 1) : a <= b => s[a] <= s[b]
<1> SUFFICES ASSUME NEW a \in 1..(n + 1), NEW b \in 1..(n + 1), a <= b PROVE s[a] <= s[b]
  OBVIOUS
<1>1. CASE b = n + 1
  <2>1. a \in 1..n \/ a = n + 1 OBVIOUS
  <2> QED BY <1>1, <2>1
<1>2. CASE b \in 1..n
  <2>1. a \in 1..n BY <1>2
  <2> QED BY <1>2, <2>1
<1> QED BY <1>1, <1>2

\* The first attempt of a run, a lockout after the attempt before.
LEMMA FirstOfRun ==
    ASSUME now \in Nat, NEW times \in Seq(Nat), Len(times) <= Limit + 1,
           \A a, b \in 1..Len(times) : a <= b => times[a] <= times[b],
           Len(times) > 0 => times[Len(times)] + LockoutTime <= now
    PROVE  RunOK([count |-> 1, lastAttempt |-> now], Record(times), now)
<1> DEFINE n == Len(times)  s == Record(times)
<1>1. n \in Nat /\ Used(1) = 1 BY LimitOK DEF Used
<1>2. \A a \in 1..n : times[a] \in Nat /\ times[a] + LockoutTime <= now
  <2> SUFFICES ASSUME NEW a \in 1..n PROVE times[a] \in Nat /\ times[a] + LockoutTime <= now
    OBVIOUS
  <2>1. n \in 1..n /\ a <= n /\ n > 0 BY <1>1
  <2>2. times[a] \in Nat /\ times[n] \in Nat BY <2>1
  <2>3. times[a] <= times[n] /\ times[n] + LockoutTime <= now BY <2>1
  <2> QED BY <2>2, <2>3
<1>3. CASE n > Limit
  <2>1. /\ s \in Seq(Nat) /\ Len(s) = Limit + 1 /\ s[Limit + 1] = now
        /\ \A a \in 1..Limit : s[a] = times[a + 1]
    BY <1>3, Recorded
  <2>2. n = Limit + 1 BY <1>1, <1>3, LimitOK
  <2> HIDE DEF s, n
  <2>3. \A a, b \in 1..Limit : a <= b => s[a] <= s[b] BY <2>1, <2>2, LimitOK DEF n
  <2>4. ASSUME NEW a \in 1..Limit PROVE s[a] \in Nat /\ s[a] + LockoutTime <= now
    <3>1. a + 1 \in 1..n BY <2>2, LimitOK
    <3>2. times[a + 1] \in Nat /\ times[a + 1] + LockoutTime <= now BY <1>2, <3>1
    <3> QED BY <2>1, <3>2
  <2>5. \A a, b \in 1..Len(s) : a <= b => s[a] <= s[b]
    <3>1. \A a \in 1..Limit : s[a] \in Nat /\ s[a] <= now BY <2>4
    <3> QED BY <2>1, <2>3, <3>1, LimitOK, SortedEnd
  <2>6. s[Limit] + LockoutTime <= now BY <2>4, LimitOK
  <2> QED BY <1>1, <2>1, <2>5, <2>6, LimitOK DEF RunOK, s
<1>4. CASE n <= Limit
  <2>1. /\ s \in Seq(Nat) /\ Len(s) = n + 1 /\ s[n + 1] = now
        /\ \A a \in 1..n : s[a] = times[a]
    BY <1>4, Recorded
  <2> HIDE DEF s, n
  <2>2. \A a, b \in 1..n : a <= b => s[a] <= s[b] BY <2>1 DEF n
  <2>3. \A a \in 1..n : s[a] \in Nat /\ s[a] + LockoutTime <= now BY <1>2, <2>1
  <2>4. \A a, b \in 1..Len(s) : a <= b => s[a] <= s[b]
    <3>1. \A a \in 1..n : s[a] \in Nat /\ s[a] <= now BY <2>3
    <3> QED BY <1>1, <2>1, <2>2, <3>1, SortedEnd
  <2>5. n > 0 => s[n] + LockoutTime <= now
    <3>1. n > 0 => n \in 1..n BY <1>1
    <3> QED BY <2>3, <3>1
  <2> QED BY <1>1, <1>4, <2>1, <2>4, <2>5, LimitOK DEF RunOK, s
<1> QED BY <1>1, <1>3, <1>4, LimitOK

\* One more attempt of a run that is let through.
LEMMA NextOfRun ==
    ASSUME now \in Nat, NEW attempts, NEW times, RunOK(attempts, times, now),
           attempts.count + 1 < MaxAttempts
    PROVE  RunOK([count |-> attempts.count + 1, lastAttempt |-> now], Record(times), now)
<1> DEFINE n == Len(times)  s == Record(times)  c == attempts.count
<1>1. /\ n \in Nat /\ c \in Nat /\ c >= 1 /\ c + 1 <= Limit /\ n >= c /\ n <= Limit + 1
      /\ Used(c) = c /\ Used(c + 1) = c + 1
  BY LimitOK DEF RunOK, Used
<1>2. \A a \in 1..n : times[a] \in Nat /\ times[a] <= now
  BY DEF RunOK
<1>3. n > c => times[n - c] + LockoutTime <= times[n - c + 1] BY <1>1 DEF RunOK
<1>4. \A a, b \in 1..n : a <= b => times[a] <= times[b] BY DEF RunOK
<1>5. CASE n > Limit
  <2>1. /\ s \in Seq(Nat) /\ Len(s) = Limit + 1 /\ s[Limit + 1] = now
        /\ \A a \in 1..Limit : s[a] = times[a + 1]
    BY <1>5, Recorded DEF RunOK
  <2>2. n = Limit + 1 BY <1>1, <1>5, LimitOK
  <2> HIDE DEF s, n, c
  <2>3. \A a, b \in 1..Limit : a <= b => s[a] <= s[b] BY <1>4, <2>1, <2>2, LimitOK
  <2>4. ASSUME NEW a \in 1..Limit PROVE s[a] \in Nat /\ s[a] <= now
    <3>1. a + 1 \in 1..n BY <2>2, LimitOK
    <3> QED BY <1>2, <2>1, <3>1
  <2>5. \A a, b \in 1..Len(s) : a <= b => s[a] <= s[b] BY <2>1, <2>3, <2>4, LimitOK, SortedEnd
  <2>6. Limit - c \in 1..Limit /\ Limit - c + 1 \in 1..Limit BY <1>1, LimitOK
  <2>7. s[Limit - c] = times[n - c] /\ s[Limit - c + 1] = times[n - c + 1]
    BY <1>1, <2>1, <2>2, <2>6, LimitOK
  <2>8. s[Len(s) - Used(c + 1)] + LockoutTime <= s[Len(s) - Used(c + 1) + 1]
    <3>1. Len(s) - Used(c + 1) = Limit - c BY <1>1, <2>1, LimitOK
    <3> QED BY <1>1, <1>3, <1>5, <2>2, <2>7, <3>1, LimitOK
  <2>9. c + 1 \in 1..MaxAttempts BY <1>1 DEF c
  <2> QED BY <1>1, <2>1, <2>5, <2>8, <2>9, LimitOK DEF RunOK, s, c
<1>6. CASE n <= Limit
  <2>1. /\ s \in Seq(Nat) /\ Len(s) = n + 1 /\ s[n + 1] = now
        /\ \A a \in 1..n : s[a] = times[a]
    BY <1>6, Recorded DEF RunOK
  <2> HIDE DEF s, n, c
  <2>2. \A a, b \in 1..n : a <= b => s[a] <= s[b] BY <1>4, <2>1
  <2>3. \A a \in 1..n : s[a] \in Nat /\ s[a] <= now BY <1>2, <2>1
  <2>4. \A a, b \in 1..Len(s) : a <= b => s[a] <= s[b] BY <1>1, <2>1, <2>2, <2>3
  <2>5. Len(s) > Used(c + 1) => s[Len(s) - Used(c + 1)] + LockoutTime <= s[Len(s) - Used(c + 1) + 1]
    <3>1. Len(s) - Used(c + 1) = n - c BY <1>1, <2>1
    <3>2. n > c => n - c \in 1..n /\ n - c + 1 \in 1..n BY <1>1
    <3>3. n > c => s[n - c] + LockoutTime <= s[n - c + 1] BY <1>3, <2>1, <3>2
    <3>4. Len(s) > Used(c + 1) => n > c BY <1>1, <2>1
    <3> QED BY <3>1, <3>3, <3>4
  <2>6. c + 1 \in 1..MaxAttempts BY <1>1 DEF c
  <2> QED BY <1>1, <1>6, <2>1, <2>4, <2>5, <2>6, LimitOK DEF RunOK, s, c
<1> QED BY <1>1, <1>5, <1>6, LimitOK

\* The attempt that reaches the limit is refused, and starts the lockout.
LEMMA LastOfRun ==
    ASSUME now \in Nat, NEW attempts, NEW times, RunOK(attempts, times, now),
           attempts.count + 1 = MaxAttempts
    PROVE  RunOK([count |-> attempts.count + 1, lastAttempt |-> now], times, now)
<1>1. Used(attempts.count) = attempts.count /\ Used(attempts.count + 1) = attempts.count
  BY LimitOK DEF RunOK, Used
<1>2. Len(times) \in Nat /\ Len(times) >= 1 BY <1>1 DEF RunOK
<1>3. times[Len(times)] \in Nat BY <1>2 DEF RunOK
<1> QED BY <1>1, <1>2, <1>3 DEF RunOK

LEMMA InitLimiter == LimiterInit => LimiterInv
BY DEF LimiterInit, LimiterInv, Known, NoAttempts

LEMMA StepLimiter == LimiterInv /\ [LimiterNext]_limiterVars => LimiterInv'
<1> SUFFICES ASSUME LimiterInv, [LimiterNext]_limiterVars PROVE LimiterInv'
  OBVIOUS
<1>1. ASSUME NEW i \in Identifiers, registerLoginAttempt(i) PROVE LimiterInv'
  <2> DEFINE a == [count |-> Count(i), lastAttempt |-> now]
  <2>1. loginAttempts' = [loginAttempts EXCEPT ![i] = a] /\ now' = now /\ ~ Blocked(i)
    BY <1>1 DEF registerLoginAttempt
  <2>2. \A k \in Identifiers : loginAttempts'[k] = IF k = i THEN a ELSE loginAttempts[k]
    BY <2>1 DEF LimiterInv
  <2>3. DOMAIN loginAttempts' = Identifiers
        /\ loginAttempts' = [k \in Identifiers |-> loginAttempts'[k]]
    BY <2>1 DEF LimiterInv
  <2>4. a # NoAttempts BY DEF NoAttempts
  <2> HIDE DEF a
  <2>5. \A k \in Identifiers : passed'[k] = IF k = i /\ Lets(i) THEN Record(passed[i]) ELSE passed[k]
    BY <1>1 DEF registerLoginAttempt, LimiterInv
  <2>6. DOMAIN passed' = Identifiers /\ passed' = [k \in Identifiers |-> passed'[k]]
    BY <1>1 DEF registerLoginAttempt, LimiterInv
  <2>7. RunOK(a, passed'[i], now)
    <3>1. CASE ~ Known(i)
      <4>1. Lets(i) /\ Count(i) = 1 BY <3>1 DEF Lets, Count, Restarts
      <4>2. passed[i] = <<>> BY <3>1 DEF LimiterInv
      <4>3. RunOK([count |-> 1, lastAttempt |-> now], Record(<<>>), now)
        <5>1. PICK times : times = <<>> OBVIOUS
        <5>2. times \in Seq(Nat) /\ Len(times) = 0 /\ Len(times) <= Limit + 1
              /\ (\A x, y \in 1..Len(times) : x <= y => times[x] <= times[y])
          BY <5>1, LimitOK
        <5>3. now \in Nat BY DEF LimiterInv
        <5>4. Len(times) > 0 => times[Len(times)] + LockoutTime <= now BY <5>2
        <5>5. RunOK([count |-> 1, lastAttempt |-> now], Record(times), now)
          BY <5>2, <5>3, <5>4, FirstOfRun
        <5> QED BY <5>1, <5>5
      <4> QED BY <2>5, <4>1, <4>2, <4>3 DEF a
    <3>2. CASE Known(i) /\ Restarts(i)
      <4>1. Lets(i) /\ Count(i) = 1 BY <3>2 DEF Lets, Count
      <4>2. RunOK(loginAttempts[i], passed[i], now) BY <3>2 DEF LimiterInv
      <4>3. loginAttempts[i].lastAttempt + LockoutTime <= now
        BY <3>2, <4>2 DEF Restarts, Since, RunOK, LimiterInv
      <4>4. passed[i] \in Seq(Nat) BY <4>2 DEF RunOK
      <4>5. Len(passed[i]) > 0 => passed[i][Len(passed[i])] \in Nat BY <4>4
      <4>6. Len(passed[i]) > 0 => passed[i][Len(passed[i])] + LockoutTime <= now
        BY <4>2, <4>3, <4>5 DEF RunOK, LimiterInv
      <4>7. RunOK([count |-> 1, lastAttempt |-> now], Record(passed[i]), now)
        BY <4>2, <4>6, FirstOfRun DEF RunOK, LimiterInv
      <4> QED BY <2>5, <4>1, <4>7 DEF a
    <3>3. CASE Known(i) /\ ~ Restarts(i)
      <4>1. RunOK(loginAttempts[i], passed[i], now) BY <3>3 DEF LimiterInv
      <4>2. Count(i) = loginAttempts[i].count + 1 BY <3>3 DEF Count
      <4>3. loginAttempts[i].count \in Nat /\ loginAttempts[i].count < MaxAttempts
        BY <2>1, <3>3, <4>1 DEF Blocked, Restarts, Since, RunOK, LimiterInv
      <4>4. CASE Count(i) < MaxAttempts
        <5>1. RunOK(a, Record(passed[i]), now) BY <4>1, <4>2, <4>4, NextOfRun DEF a, LimiterInv
        <5> QED BY <2>5, <4>4, <5>1 DEF Lets
      <4>5. CASE ~ (Count(i) < MaxAttempts)
        <5>1. loginAttempts[i].count + 1 = MaxAttempts BY <4>2, <4>3, <4>5
        <5>2. RunOK(a, passed[i], now) BY <4>1, <4>2, <5>1, LastOfRun DEF a, LimiterInv
        <5> QED BY <2>5, <3>3, <4>5, <5>2 DEF Lets
      <4> QED BY <4>4, <4>5
    <3> QED BY <3>1, <3>2, <3>3
  <2>8. ASSUME NEW k \in Identifiers
        PROVE  IF Known(k)' THEN RunOK(loginAttempts'[k], passed'[k], now') ELSE passed'[k] = <<>>
    <3>1. CASE k = i
      <4>1. loginAttempts'[k] = a /\ Known(k)' BY <2>2, <2>4, <3>1 DEF Known
      <4> QED BY <2>1, <2>7, <3>1, <4>1
    <3>2. CASE k # i BY <2>1, <2>2, <2>5, <3>2 DEF Known, LimiterInv, NoAttempts
    <3> QED BY <3>1, <3>2
  <2> QED BY <2>1, <2>3, <2>6, <2>8 DEF LimiterInv, Known
<1>2. ASSUME NEW i \in Identifiers, resetLoginAttempts(i) PROVE LimiterInv'
  BY <1>2 DEF resetLoginAttempts, LimiterInv, Known, NoAttempts
<1>3. CASE Tick
  <2>1. now' \in Nat /\ now <= now' /\ UNCHANGED <<loginAttempts, passed>>
    BY <1>3 DEF Tick, LimiterInv
  <2>2. \A k \in Identifiers : RunOK(loginAttempts[k], passed[k], now)
                                  => RunOK(loginAttempts[k], passed[k], now')
    BY <2>1 DEF RunOK, LimiterInv
  <2> QED BY <2>1, <2>2 DEF LimiterInv, Known, NoAttempts
<1>4. CASE UNCHANGED limiterVars BY <1>4 DEF limiterVars, LimiterInv, Known, NoAttempts
<1> QED BY <1>1, <1>2, <1>3, <1>4 DEF LimiterNext

\* Whatever the limit, the lockout and the times of the attempts, no span shorter than a lockout
\* sees as many as the limit let through, and a lockout lasts as long as it is said to.
THEOREM LockoutEnforced == LimiterSpec => []LockoutHolds
<1>1. LimiterInv => LockoutHolds
  <2> SUFFICES ASSUME LimiterInv, NEW i \in Identifiers
               PROVE  /\ Len(passed[i]) > Limit => passed[i][1] + LockoutTime <= passed[i][Limit + 1]
                      /\ getRemainingLockoutTime(i) > 0 =>
                           /\ Blocked(i)
                           /\ loginAttempts[i].lastAttempt + LockoutTime = now + getRemainingLockoutTime(i)
    BY DEF LockoutHolds
  <2>1. CASE ~ Known(i)
    <3>1. passed[i] = <<>> BY <2>1 DEF LimiterInv
    <3>2. getRemainingLockoutTime(i) = 0 BY <2>1 DEF getRemainingLockoutTime
    <3> QED BY <3>1, <3>2, LimitOK
  <2>2. CASE Known(i)
    <3>1. RunOK(loginAttempts[i], passed[i], now) /\ now \in Nat BY <2>2 DEF LimiterInv
    <3>2. Len(passed[i]) > Limit => passed[i][1] + LockoutTime <= passed[i][Limit + 1]
      BY <3>1, RunHolds
    <3>3. getRemainingLockoutTime(i) > 0 =>
             /\ Blocked(i)
             /\ loginAttempts[i].lastAttempt + LockoutTime = now + getRemainingLockoutTime(i)
      BY <2>2, <3>1 DEF RunOK, getRemainingLockoutTime, Blocked, Since
    <3> QED BY <3>2, <3>3
  <2> QED BY <2>1, <2>2
<1> QED BY <1>1, InitLimiter, StepLimiter, PTL DEF LimiterSpec
=============================================================================
