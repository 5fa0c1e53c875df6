---------------------------- MODULE AccessProofs ----------------------------
(***************************************************************************)
(* Disabling administrators one request at a time leaves a super           *)
(* administrator, for any administrators, users, tokens and number of      *)
(* overlapping requests, as long as no two of them disable at once; and    *)
(* every change an administrator makes has its audit row or a request that *)
(* is about to write it, except for the requests that failed.  A request   *)
(* of the mini program is repeated with a good token, and a save changes   *)
(* no setting that its administrator left alone, unless the page is behind.*)
(***************************************************************************)
EXTENDS Access, FiniteSetTheorems, TLAPS

----------------------------------------------------------------------------
(* Types *)

\* Every request is answered, or has the next step its statement calls for.
LEMMA StepTypes ==
  ASSUME AccountsTypeOK, NEW r \in Requests, NEW q \in Request
  PROVE  /\ Begins(r, q) => req' \in [Requests -> Request]
         /\ Goes(r, q) => req' \in [Requests -> Request]
BY DEF AccountsTypeOK, Begins, Goes

\* The requests without data, and one with each kind of it.
LEMMA RequestTypes ==
  /\ Idle \in Request /\ Audit \in Request
  /\ \A a \in Admins :
       /\ [op |-> "bootstrap", admin |-> a] \in Request
       /\ [op |-> "count", admin |-> a] \in Request
       /\ \A role \in Role : [op |-> "insert", admin |-> a, role |-> role] \in Request
       /\ \A s \in AdminStatus : [op |-> "set", admin |-> a, status |-> s] \in Request
  /\ \A u \in Users, b \in BOOLEAN : [op |-> "upsert", user |-> u, found |-> b] \in Request
  /\ \A keys \in SUBSET Keys, b \in BOOLEAN :
       [op |-> "config", left |-> keys, written |-> b] \in Request
  /\ \A t \in Token : [op |-> "sign", token |-> t] \in Request
<1>1. Idle \in Request /\ Audit \in Request
  BY DEF Request, Idle, Audit
<1>2. \A a \in Admins : [op |-> "bootstrap", admin |-> a] \in Request
                        /\ [op |-> "count", admin |-> a] \in Request
  BY DEF Request
<1>3. \A a \in Admins, role \in Role : [op |-> "insert", admin |-> a, role |-> role] \in Request
  BY DEF Request
<1>4. \A a \in Admins, s \in AdminStatus : [op |-> "set", admin |-> a, status |-> s] \in Request
  BY DEF Request
<1>5. \A u \in Users, b \in BOOLEAN : [op |-> "upsert", user |-> u, found |-> b] \in Request
  BY DEF Request
<1>6. \A keys \in SUBSET Keys, b \in BOOLEAN :
        [op |-> "config", left |-> keys, written |-> b] \in Request
  BY DEF Request
<1>7. \A t \in Token : [op |-> "sign", token |-> t] \in Request
  BY DEF Request
<1> QED
  BY <1>1, <1>2, <1>3, <1>4, <1>5, <1>6, <1>7

\* What a request in progress carries.
LEMMA CarriedTypes ==
  ASSUME NEW q \in Request
  PROVE  /\ q.op \in {"bootstrap", "count", "insert", "set"} => q.admin \in Admins
         /\ q.op = "insert" => q.role \in Role
         /\ q.op = "set" => q.status \in AdminStatus
         /\ q.op = "upsert" => q.user \in Users
         /\ q.op = "sign" => q.token \in Token
         /\ q.op = "config" => q \in [op : {"config"}, left : SUBSET Keys, written : BOOLEAN]
BY DEF Request, Idle

\* What the services sign.
LEMMA TokenTypes ==
  /\ \A a \in Admins, role \in Role : AdminClaims(a, role) \in Token
  /\ \A u \in Users : UserClaims(u) \in Token
<1>1. \A a \in Admins, role \in Role :
        AdminClaims(a, role) \in {AdminClaims(b, r) : b \in Admins, r \in Role}
  OBVIOUS
<1>2. \A u \in Users : UserClaims(u) \in {UserClaims(v) : v \in Users}
  OBVIOUS
<1> QED
  BY <1>1, <1>2 DEF Token

LEMMA ClaimTypes ==
  /\ \A a, role : AdminClaims(a, role).type = "ADMIN" /\ AdminClaims(a, role).sub = a
  /\ \A u : UserClaims(u).type = "USER"
BY DEF AdminClaims, UserClaims

LEMMA InitType == AccountsInit => AccountsTypeOK
<1> SUFFICES ASSUME AccountsInit
             PROVE  AccountsTypeOK
  OBVIOUS
<1>1. req \in [Requests -> Request]
  BY RequestTypes DEF AccountsInit
<1>2. 0 \in 0 .. MaxChanges /\ 0 \in 0 .. MaxFaults
  BY BoundsAssumption
<1>3. /\ admins \in [Admins -> AdminRow \cup {NoAdmin}]
      /\ users \in [Users -> UserStatus \cup {"NONE"}]
  BY DEF AccountsInit
<1> QED
  BY <1>1, <1>2, <1>3 DEF AccountsInit, AccountsTypeOK

\* What a request has learnt of the rows: those it is about to count for or to set exist, a
\* token to be signed for an administrator is for one, and whoever inserts is one already.
VouchedBy(rows, t) == t.type = "ADMIN" => t.sub \in Admins /\ rows[t.sub] # NoAdmin
SoundFor(rows, q) ==
  /\ q.op \in {"count", "set"} => rows[q.admin] # NoAdmin
  /\ q.op = "sign" => VouchedBy(rows, q.token)
  /\ q.op = "insert" => \E a \in Admins : rows[a] # NoAdmin
Sound == \A r \in Requests : SoundFor(admins, req[r])

\* Every step of one request keeps the types.
LEMMA LoginsType ==
  ASSUME AccountsTypeOK, NEW r \in Requests,
         \/ BootstrapAdmin(r) \/ Sign(r) \/ UpsertUser(r)
         \/ \E a \in Admins : Login(r, a)
         \/ \E u \in Users : UserLogin(r, u)
  PROVE  AccountsTypeOK'
<1>1. req[r] \in Request
  BY DEF AccountsTypeOK
<1>2. CASE BootstrapAdmin(r)
  <2>1. req[r].admin \in Admins
    BY <1>1, <1>2, CarriedTypes DEF BootstrapAdmin
  <2>2. req' \in [Requests -> Request]
    BY <1>2, <2>1, StepTypes, RequestTypes, TokenTypes DEF BootstrapAdmin, Role
  <2>3. admins' \in [Admins -> AdminRow \cup {NoAdmin}]
    BY <1>2, <2>1 DEF BootstrapAdmin, AccountsTypeOK, AdminRow, Role, AdminStatus
  <2> QED
    BY <1>2, <2>2, <2>3 DEF BootstrapAdmin, AccountsTypeOK
<1>3. CASE Sign(r)
  <2>1. req[r].token \in Token
    BY <1>1, <1>3, CarriedTypes DEF Sign
  <2>2. req' \in [Requests -> Request]
    BY <1>3, StepTypes, RequestTypes DEF Sign
  <2> QED
    BY <1>3, <2>1, <2>2 DEF Sign, AccountsTypeOK
<1>4. CASE UpsertUser(r)
  <2>1. req[r].user \in Users
    BY <1>1, <1>4, CarriedTypes DEF UpsertUser
  <2>2. [op |-> "sign", token |-> UserClaims(req[r].user)] \in Request
    BY <2>1, RequestTypes, TokenTypes
  <2>3. req' \in [Requests -> Request]
    BY <1>4, <2>2, StepTypes, RequestTypes DEF UpsertUser
  <2>4. users' \in [Users -> UserStatus \cup {"NONE"}]
    BY <1>4, <2>1 DEF UpsertUser, AccountsTypeOK, UserStatus
  <2> QED
    BY <1>4, <2>3, <2>4 DEF UpsertUser, AccountsTypeOK
<1>5. ASSUME NEW a \in Admins, Login(r, a)
      PROVE  AccountsTypeOK'
  <2>1. CASE admins[a].status = "NORMAL"
            /\ Begins(r, [op |-> "sign", token |-> AdminClaims(a, admins[a].role)])
    <3>1. admins[a].role \in Role
      BY <2>1 DEF AccountsTypeOK, AdminRow, NoAdmin
    <3>2. req' \in [Requests -> Request]
      BY <2>1, <3>1, StepTypes, RequestTypes, TokenTypes
    <3> QED
      BY <1>5, <3>2 DEF Login, AccountsTypeOK
  <2>2. CASE Begins(r, [op |-> "bootstrap", admin |-> a])
    <3>1. req' \in [Requests -> Request]
      BY <2>2, StepTypes, RequestTypes
    <3> QED
      BY <1>5, <3>1 DEF Login, AccountsTypeOK
  <2> QED
    BY <1>5, <2>1, <2>2 DEF Login
<1>6. ASSUME NEW u \in Users, UserLogin(r, u)
      PROVE  AccountsTypeOK'
  <2>1. [op |-> "upsert", user |-> u, found |-> users[u] # "NONE"] \in Request
    BY RequestTypes
  <2>2. req' \in [Requests -> Request]
    BY <1>6, <2>1, StepTypes DEF UserLogin
  <2> QED
    BY <1>6, <2>2 DEF UserLogin, AccountsTypeOK
<1> QED
  BY <1>2, <1>3, <1>4, <1>5, <1>6

LEMMA ChangesType ==
  ASSUME AccountsTypeOK, Changes
  PROVE  changes' \in 0 .. MaxChanges
BY BoundsAssumption DEF AccountsTypeOK, Changes

LEMMA WritesType ==
  ASSUME AccountsTypeOK, NEW r \in Requests, Sound,
         \/ InsertAdmin(r) \/ CountSuperAdmins(r) \/ SetAdminStatus(r)
         \/ UpsertKey(r) \/ WriteAudit(r) \/ Fail(r)
  PROVE  AccountsTypeOK'
<1>1. req[r] \in Request
  BY DEF AccountsTypeOK
<1>2. CASE InsertAdmin(r)
  <2>1. req[r].admin \in Admins /\ req[r].role \in Role
    BY <1>1, <1>2, CarriedTypes DEF InsertAdmin
  <2>2. req' \in [Requests -> Request] /\ changes' \in 0 .. MaxChanges
    BY <1>2, StepTypes, RequestTypes, ChangesType DEF InsertAdmin, AccountsTypeOK
  <2>3. admins' \in [Admins -> AdminRow \cup {NoAdmin}]
    BY <1>2, <2>1 DEF InsertAdmin, AccountsTypeOK, AdminRow, AdminStatus
  <2> QED
    BY <1>2, <2>2, <2>3 DEF InsertAdmin, AccountsTypeOK
<1>3. CASE CountSuperAdmins(r)
  <2>1. [op |-> "set", admin |-> req[r].admin, status |-> "DISABLED"] \in Request
    BY <1>1, <1>3, CarriedTypes, RequestTypes DEF CountSuperAdmins, AdminStatus
  <2>2. req' \in [Requests -> Request]
    BY <1>3, <2>1, StepTypes, RequestTypes DEF CountSuperAdmins
  <2>3. raced' \in BOOLEAN
    BY <1>3 DEF CountSuperAdmins, AccountsTypeOK
  <2> QED
    BY <1>3, <2>2, <2>3 DEF CountSuperAdmins, AccountsTypeOK
<1>4. CASE SetAdminStatus(r)
  <2>1. req[r].admin \in Admins /\ req[r].status \in AdminStatus
        /\ admins[req[r].admin] \in AdminRow
    BY <1>1, <1>4, CarriedTypes DEF SetAdminStatus, Sound, SoundFor, AccountsTypeOK
  <2>2. req' \in [Requests -> Request] /\ changes' \in 0 .. MaxChanges
    BY <1>4, StepTypes, RequestTypes, ChangesType DEF SetAdminStatus
  <2>3. admins' \in [Admins -> AdminRow \cup {NoAdmin}]
    BY <1>4, <2>1 DEF SetAdminStatus, AccountsTypeOK, AdminRow, AdminStatus
  <2> QED
    BY <1>4, <2>2, <2>3 DEF SetAdminStatus, AccountsTypeOK
<1>5. CASE UpsertKey(r)
  <2>2. PICK k \in req[r].left :
          Goes(r, IF req[r].left \ {k} = {} THEN Audit
                  ELSE [req[r] EXCEPT !.left = req[r].left \ {k}, !.written = TRUE])
    BY <1>5 DEF UpsertKey
  <2>3. [req[r] EXCEPT !.left = req[r].left \ {k}, !.written = TRUE] \in Request
    <3>1. req[r] \in [op : {"config"}, left : SUBSET Keys, written : BOOLEAN]
      BY <1>1, <1>5, CarriedTypes DEF UpsertKey
    <3>2. [req[r] EXCEPT !.left = req[r].left \ {k}, !.written = TRUE]
            \in [op : {"config"}, left : SUBSET Keys, written : BOOLEAN]
      BY <3>1
    <3> QED
      BY <3>2 DEF Request
  <2>4. req' \in [Requests -> Request]
    BY <2>2, <2>3, StepTypes, RequestTypes
  <2>5. changes' \in 0 .. MaxChanges
    BY <1>5, ChangesType DEF UpsertKey, AccountsTypeOK
  <2> QED
    BY <1>5, <2>4, <2>5 DEF UpsertKey, AccountsTypeOK
<1>6. CASE WriteAudit(r)
  <2>1. req' \in [Requests -> Request]
    BY <1>6, StepTypes, RequestTypes DEF WriteAudit
  <2> QED
    BY <1>6, <2>1 DEF WriteAudit, AccountsTypeOK
<1>7. CASE Fail(r)
  <2>1. req' \in [Requests -> Request]
    BY <1>7, StepTypes, RequestTypes DEF Fail
  <2>2. changes' \in 0 .. MaxChanges
    BY <1>7, ChangesType DEF Fail, AccountsTypeOK
  <2> QED
    BY <1>7, <2>1, <2>2, BoundsAssumption DEF Fail, AccountsTypeOK
<1> QED
  BY <1>2, <1>3, <1>4, <1>5, <1>6, <1>7

LEMMA OrdersType ==
  ASSUME AccountsTypeOK, NEW r \in Requests, NEW t \in tokens,
         \/ \E a \in Admins, role \in Role : CreateAdmin(r, t, a, role)
         \/ \E a \in Admins : ResetAdminPassword(r, t, a)
         \/ \E a \in Admins, status \in AdminStatus : UpdateAdminStatus(r, t, a, status)
         \/ \E u \in Users, status \in UserStatus : UpdateUserStatus(r, t, u, status)
         \/ \E keys \in SUBSET Keys : UpdateSystemConfig(r, t, keys)
         \/ CloseRoom(r, t)
  PROVE  AccountsTypeOK'
<1>1. ASSUME NEW a \in Admins, NEW role \in Role, CreateAdmin(r, t, a, role)
      PROVE  AccountsTypeOK'
  <2>1. req' \in [Requests -> Request]
    BY <1>1, StepTypes, RequestTypes DEF CreateAdmin
  <2> QED
    BY <1>1, <2>1 DEF CreateAdmin, AccountsTypeOK
<1>2. ASSUME NEW a \in Admins, ResetAdminPassword(r, t, a)
      PROVE  AccountsTypeOK'
  <2>1. req' \in [Requests -> Request] /\ changes' \in 0 .. MaxChanges
    BY <1>2, StepTypes, RequestTypes, ChangesType DEF ResetAdminPassword
  <2> QED
    BY <1>2, <2>1 DEF ResetAdminPassword, AccountsTypeOK
<1>3. ASSUME NEW a \in Admins, NEW status \in AdminStatus, UpdateAdminStatus(r, t, a, status)
      PROVE  AccountsTypeOK'
  <2>1. req' \in [Requests -> Request]
    BY <1>3, StepTypes, RequestTypes DEF UpdateAdminStatus
  <2> QED
    BY <1>3, <2>1 DEF UpdateAdminStatus, AccountsTypeOK
<1>4. ASSUME NEW u \in Users, NEW status \in UserStatus, UpdateUserStatus(r, t, u, status)
      PROVE  AccountsTypeOK'
  <2>1. req' \in [Requests -> Request] /\ changes' \in 0 .. MaxChanges
    BY <1>4, StepTypes, RequestTypes, ChangesType DEF UpdateUserStatus
  <2> QED
    BY <1>4, <2>1 DEF UpdateUserStatus, AccountsTypeOK
<1>5. ASSUME NEW keys \in SUBSET Keys, UpdateSystemConfig(r, t, keys)
      PROVE  AccountsTypeOK'
  <2>1. req' \in [Requests -> Request]
    BY <1>5, StepTypes, RequestTypes DEF UpdateSystemConfig
  <2>2. changes' \in 0 .. MaxChanges
    BY <1>5, ChangesType DEF UpdateSystemConfig, AccountsTypeOK
  <2> QED
    BY <1>5, <2>1, <2>2 DEF UpdateSystemConfig, AccountsTypeOK
<1>6. CASE CloseRoom(r, t)
  <2>1. req' \in [Requests -> Request] /\ changes' \in 0 .. MaxChanges
    BY <1>6, StepTypes, RequestTypes, ChangesType DEF CloseRoom
  <2> QED
    BY <1>6, <2>1 DEF CloseRoom, AccountsTypeOK
<1> QED
  BY <1>1, <1>2, <1>3, <1>4, <1>5, <1>6

LEMMA NextType ==
  ASSUME AccountsTypeOK, Sound, [AccountsNext]_accountsVars
  PROVE  AccountsTypeOK'
<1>1. CASE UNCHANGED accountsVars
  BY <1>1 DEF accountsVars, AccountsTypeOK
<1>2. ASSUME NEW t \in tokens, Expire(t)
      PROVE  AccountsTypeOK'
  BY <1>2 DEF Expire, AccountsTypeOK
<1> QED
  BY <1>1, <1>2, LoginsType, WritesType, OrdersType DEF AccountsNext

----------------------------------------------------------------------------
(* Rows are added and keep their roles *)

Grows(rows, next) ==
  \A a \in Admins : rows[a] # NoAdmin => next[a] # NoAdmin /\ next[a].role = rows[a].role

\* What a request has learnt stays true.
LEMMA SoundStays ==
  ASSUME NEW rows, NEW next, Grows(rows, next), NEW q \in Request, SoundFor(rows, q)
  PROVE  SoundFor(next, q)
<1>1. q.op \in {"count", "set"} => q.admin \in Admins
  BY CarriedTypes
<1>2. q.op = "sign" => (VouchedBy(rows, q.token) => VouchedBy(next, q.token))
  BY DEF VouchedBy, Grows
<1> QED
  BY <1>1, <1>2 DEF SoundFor, Grows

\* The rows that the three writes of administrators leave.
LEMMA RowsGrow ==
  ASSUME AccountsTypeOK, Sound, NEW r \in Requests
  PROVE  /\ admins' = admins => Grows(admins, admins')
         /\ BootstrapAdmin(r) \/ InsertAdmin(r) \/ SetAdminStatus(r) => Grows(admins, admins')
<1>1. req[r] \in Request
  BY DEF AccountsTypeOK
<1>2. ASSUME BootstrapAdmin(r) \/ InsertAdmin(r) PROVE Grows(admins, admins')
  BY <1>2 DEF BootstrapAdmin, InsertAdmin, Registered, Grows, AccountsTypeOK
<1>3. ASSUME SetAdminStatus(r) PROVE Grows(admins, admins')
  <2>1. req[r].admin \in Admins /\ admins[req[r].admin] \in AdminRow
        /\ req[r].status \in AdminStatus
    BY <1>1, <1>3, CarriedTypes DEF SetAdminStatus, Sound, SoundFor, AccountsTypeOK
  <2>2. admins' = [admins EXCEPT ![req[r].admin].status = req[r].status]
    BY <1>3 DEF SetAdminStatus
  <2> QED
    BY <2>1, <2>2 DEF Grows, AccountsTypeOK, AdminRow, NoAdmin, Role
<1> QED
  BY <1>2, <1>3 DEF Grows

Steps(r, q) == q \in Request /\ req' = [req EXCEPT ![r] = q] /\ SoundFor(admins', q)

\* A step of one request that keeps what it has learnt keeps what all have.
LEMMA StepSound ==
  ASSUME AccountsTypeOK, Sound, Grows(admins, admins'), NEW r \in Requests,
         NEW q, Steps(r, q)
  PROVE  Sound'
<1>1. \A o \in Requests : SoundFor(admins', req'[o])
  BY SoundStays DEF AccountsTypeOK, Sound, Steps
<1> QED
  BY <1>1 DEF Sound

Vouched == \A t \in tokens : VouchedBy(admins, t)

\* An administrator's token is for one who has a row.
LEMMA AnAdminActs ==
  ASSUME Vouched, NEW t, JwtAdminGuard(t)
  PROVE  \E a \in Admins : admins[a] # NoAdmin
BY DEF Vouched, VouchedBy, JwtAdminGuard

----------------------------------------------------------------------------
(* What each action asks of the next one *)

Supers(rows) == {a \in Admins : rows[a] = [role |-> "SUPER_ADMIN", status |-> "NORMAL"]}
DisablesOf(rows, q) ==
  q.op = "set" /\ q.status = "DISABLED" /\ rows[q.admin].role = "SUPER_ADMIN"

\* A step after which the request is not about to disable a super administrator, and which
\* leaves the ones there are.
Harmless(r) ==
  /\ \E q : Steps(r, q) /\ ~DisablesOf(admins', q)
  /\ Grows(admins, admins') /\ Supers(admins) \subseteq Supers(admins')
  /\ raced' = raced /\ Vouched'
  /\ ASuperAdminRemains => ASuperAdminRemains'

\* Without a write to the rows, what is left to show is about the request and the tokens.
LEMMA PlainSteps ==
  ASSUME AccountsTypeOK, Sound, Vouched, NEW r \in Requests, NEW q,
         admins' = admins, raced' = raced,
         Begins(r, q) \/ Goes(r, q), q \in Request, SoundFor(admins, q),
         ~DisablesOf(admins, q),
         \A t \in tokens' : t \in tokens \/ VouchedBy(admins, t)
  PROVE  Harmless(r)
<1>1. Steps(r, q) /\ ~DisablesOf(admins', q)
  BY DEF Steps, Begins, Goes
<1>2. Grows(admins, admins') /\ Supers(admins) \subseteq Supers(admins')
  BY DEF Grows, Supers
<1>3. Vouched'
  BY DEF Vouched, VouchedBy
<1>4. ASuperAdminRemains => ASuperAdminRemains'
  BY DEF ASuperAdminRemains, Registered, SuperAdmins
<1> QED
  BY <1>1, <1>2, <1>3, <1>4 DEF Harmless

\* Requests that ask for nothing of the rows.
LEMMA PlainRequests ==
  /\ \A rows : SoundFor(rows, Idle) /\ ~DisablesOf(rows, Idle)
  /\ \A rows : SoundFor(rows, Audit) /\ ~DisablesOf(rows, Audit)
  /\ \A rows, q : q.op \in {"upsert", "config", "bootstrap"}
                    => SoundFor(rows, q) /\ ~DisablesOf(rows, q)
BY DEF Idle, Audit, SoundFor, DisablesOf

LEMMA SigningRequests ==
  \A rows, t : VouchedBy(rows, t)
    => SoundFor(rows, [op |-> "sign", token |-> t])
       /\ ~DisablesOf(rows, [op |-> "sign", token |-> t])
BY DEF SoundFor, DisablesOf

\* Logging in.
LEMMA LoginsAreHarmless ==
  ASSUME AccountsTypeOK, Sound, Vouched, NEW r \in Requests,
         \/ Sign(r) \/ UpsertUser(r)
         \/ \E a \in Admins : Login(r, a)
         \/ \E u \in Users : UserLogin(r, u)
  PROVE  Harmless(r)
<1>1. req[r] \in Request /\ SoundFor(admins, req[r])
  BY DEF AccountsTypeOK, Sound
<1>2. CASE Sign(r)
  <2>1. \A t \in tokens' : t \in tokens \/ VouchedBy(admins, t)
    BY <1>1, <1>2 DEF Sign, SoundFor
  <2> QED
    BY <1>2, <2>1, PlainSteps, PlainRequests, RequestTypes DEF Sign
<1>3. CASE UpsertUser(r)
  <2>1. req[r].user \in Users
    BY <1>1, <1>3, CarriedTypes DEF UpsertUser
  <2> DEFINE q == [op |-> "sign", token |-> UserClaims(req[r].user)]
  <2>2. q \in Request /\ SoundFor(admins, q) /\ ~DisablesOf(admins, q)
    BY <2>1, RequestTypes, TokenTypes, ClaimTypes, SigningRequests DEF VouchedBy
  <2>3. Goes(r, q) \/ Goes(r, Idle)
    BY <1>3 DEF UpsertUser
  <2> HIDE DEF q
  <2> QED
    BY <1>3, <2>2, <2>3, PlainSteps, PlainRequests, RequestTypes DEF UpsertUser
<1>4. ASSUME NEW a \in Admins, Login(r, a)
      PROVE  Harmless(r)
  <2>1. CASE Begins(r, [op |-> "bootstrap", admin |-> a])
    <3> DEFINE q == [op |-> "bootstrap", admin |-> a]
    <3>1. q \in Request /\ q.op = "bootstrap"
      BY RequestTypes
    <3> HIDE DEF q
    <3>2. SoundFor(admins, q) /\ ~DisablesOf(admins, q)
      BY <3>1, PlainRequests
    <3> QED
      BY <1>4, <2>1, <3>1, <3>2, PlainSteps DEF Login, q
  <2>2. CASE admins[a].status = "NORMAL"
            /\ Begins(r, [op |-> "sign", token |-> AdminClaims(a, admins[a].role)])
    <3> DEFINE q == [op |-> "sign", token |-> AdminClaims(a, admins[a].role)]
    <3>1. admins[a].role \in Role /\ admins[a] # NoAdmin
      BY <2>2 DEF AccountsTypeOK, AdminRow, NoAdmin
    <3>2. q \in Request /\ SoundFor(admins, q) /\ ~DisablesOf(admins, q)
      BY <3>1, RequestTypes, TokenTypes, ClaimTypes, SigningRequests DEF VouchedBy
    <3> HIDE DEF q
    <3> QED
      BY <1>4, <2>2, <3>2, PlainSteps DEF Login, q
  <2> QED
    BY <1>4, <2>1, <2>2 DEF Login
<1>5. ASSUME NEW u \in Users, UserLogin(r, u)
      PROVE  Harmless(r)
  <2> DEFINE q == [op |-> "upsert", user |-> u, found |-> users[u] # "NONE"]
  <2>1. q \in Request /\ q.op = "upsert"
    BY RequestTypes
  <2> HIDE DEF q
  <2>2. SoundFor(admins, q) /\ ~DisablesOf(admins, q)
    BY <2>1, PlainRequests
  <2> QED
    BY <1>5, <2>1, <2>2, PlainSteps DEF UserLogin, q
<1> QED
  BY <1>2, <1>3, <1>4, <1>5

\* What administrators ask for is only begun, and refused without their token.
LEMMA OrdersAreHarmless ==
  ASSUME AccountsTypeOK, Sound, Vouched, NEW r \in Requests, NEW t \in tokens,
         \/ \E a \in Admins, role \in Role : CreateAdmin(r, t, a, role)
         \/ \E a \in Admins : ResetAdminPassword(r, t, a)
         \/ \E a \in Admins, status \in AdminStatus : UpdateAdminStatus(r, t, a, status)
         \/ \E u \in Users, status \in UserStatus : UpdateUserStatus(r, t, u, status)
         \/ \E keys \in SUBSET Keys : UpdateSystemConfig(r, t, keys)
         \/ CloseRoom(r, t)
  PROVE  Harmless(r)
<1>1. ASSUME NEW a \in Admins, NEW role \in Role, CreateAdmin(r, t, a, role)
      PROVE  Harmless(r)
  <2> DEFINE q == [op |-> "insert", admin |-> a, role |-> role]
  <2>1. q \in Request
    BY RequestTypes
  <2>2. SoundFor(admins, q) /\ ~DisablesOf(admins, q)
    BY <1>1, AnAdminActs DEF SoundFor, DisablesOf, CreateAdmin
  <2> HIDE DEF q
  <2> QED
    BY <1>1, <2>1, <2>2, PlainSteps DEF CreateAdmin, q
<1>2. ASSUME NEW a \in Admins, ResetAdminPassword(r, t, a)
      PROVE  Harmless(r)
  BY <1>2, PlainSteps, PlainRequests, RequestTypes DEF ResetAdminPassword
<1>3. ASSUME NEW a \in Admins, NEW status \in AdminStatus, UpdateAdminStatus(r, t, a, status)
      PROVE  Harmless(r)
  <2>1. admins[a] # NoAdmin
    BY <1>3 DEF UpdateAdminStatus, Registered
  <2>2. CASE status = "DISABLED" /\ admins[a].role = "SUPER_ADMIN"
    <3> DEFINE q == [op |-> "count", admin |-> a]
    <3>1. q \in Request /\ SoundFor(admins, q) /\ ~DisablesOf(admins, q)
      BY <2>1, RequestTypes DEF SoundFor, DisablesOf
    <3> HIDE DEF q
    <3> QED
      BY <1>3, <2>2, <3>1, PlainSteps DEF UpdateAdminStatus, q
  <2>3. CASE ~(status = "DISABLED" /\ admins[a].role = "SUPER_ADMIN")
    <3> DEFINE q == [op |-> "set", admin |-> a, status |-> status]
    <3>1. q \in Request
      BY RequestTypes
    <3>2. SoundFor(admins, q) /\ ~DisablesOf(admins, q)
      BY <2>1, <2>3 DEF SoundFor, DisablesOf
    <3> HIDE DEF q
    <3> QED
      BY <1>3, <2>3, <3>1, <3>2, PlainSteps DEF UpdateAdminStatus, q
  <2> QED
    BY <2>2, <2>3
<1>4. ASSUME NEW u \in Users, NEW status \in UserStatus, UpdateUserStatus(r, t, u, status)
      PROVE  Harmless(r)
  BY <1>4, PlainSteps, PlainRequests, RequestTypes DEF UpdateUserStatus
<1>5. ASSUME NEW keys \in SUBSET Keys, UpdateSystemConfig(r, t, keys)
      PROVE  Harmless(r)
  <2> DEFINE q == [op |-> "config", left |-> keys, written |-> FALSE]
  <2>1. q \in Request /\ q.op = "config"
    BY RequestTypes
  <2> HIDE DEF q
  <2>2. SoundFor(admins, q) /\ ~DisablesOf(admins, q)
    BY <2>1, PlainRequests
  <2>3. Begins(r, q) \/ Begins(r, Audit)
    BY <1>5 DEF UpdateSystemConfig, q
  <2>4. CASE Begins(r, q)
    BY <1>5, <2>1, <2>2, <2>4, PlainSteps DEF UpdateSystemConfig
  <2>5. CASE Begins(r, Audit)
    BY <1>5, <2>5, PlainSteps, PlainRequests, RequestTypes DEF UpdateSystemConfig
  <2> QED
    BY <2>3, <2>4, <2>5
<1>6. CASE CloseRoom(r, t)
  BY <1>6, PlainSteps, PlainRequests, RequestTypes DEF CloseRoom
<1> QED
  BY <1>1, <1>2, <1>3, <1>4, <1>5, <1>6

\* Rows are only added, the first of them with all rights.
LEMMA InsertsAreHarmless ==
  ASSUME AccountsTypeOK, Sound, Vouched, NEW r \in Requests,
         BootstrapAdmin(r) \/ InsertAdmin(r)
  PROVE  Harmless(r)
<1>1. req[r] \in Request /\ SoundFor(admins, req[r])
  BY DEF AccountsTypeOK, Sound
<1>2. Grows(admins, admins')
  BY RowsGrow
<1>3. raced' = raced /\ tokens' = tokens
  BY DEF BootstrapAdmin, InsertAdmin
<1>4. Supers(admins) \subseteq Supers(admins')
  BY DEF BootstrapAdmin, InsertAdmin, Registered, Supers, NoAdmin, AccountsTypeOK
<1>5. Vouched'
  BY <1>2, <1>3 DEF Vouched, VouchedBy, Grows
<1>6. CASE BootstrapAdmin(r)
  <2> DEFINE a == req[r].admin
             q == [op |-> "sign", token |-> AdminClaims(a, "SUPER_ADMIN")]
  <2>1. a \in Admins
    BY <1>1, <1>6, CarriedTypes DEF BootstrapAdmin
  <2>2. CASE Registered(a)
    <3>1. Goes(r, Idle) /\ admins' = admins
      BY <1>6, <2>2 DEF BootstrapAdmin
    <3> QED
      BY <1>3, <1>5, <3>1, PlainSteps, PlainRequests, RequestTypes
  <2>3. CASE ~Registered(a)
    <3>1. Goes(r, q) /\ admins' = [admins EXCEPT ![a] = [role |-> "SUPER_ADMIN", status |-> "NORMAL"]]
      BY <1>6, <2>3 DEF BootstrapAdmin
    <3>2. a \in Supers(admins') /\ admins'[a] # NoAdmin
      BY <2>1, <3>1 DEF Supers, NoAdmin, AccountsTypeOK
    <3>3. q \in Request /\ SoundFor(admins', q) /\ ~DisablesOf(admins', q)
      BY <2>1, <3>2, RequestTypes, TokenTypes, ClaimTypes, SigningRequests DEF VouchedBy, Role
    <3>4. Steps(r, q)
      BY <3>1, <3>3 DEF Steps, Goes
    <3>5. ASuperAdminRemains'
      BY <3>2 DEF ASuperAdminRemains, SuperAdmins, Supers
    <3> HIDE DEF q
    <3> QED
      BY <1>2, <1>3, <1>4, <1>5, <3>3, <3>4, <3>5 DEF Harmless
  <2> QED
    BY <2>2, <2>3
<1>7. CASE InsertAdmin(r)
  <2>1. Goes(r, Idle) \/ Goes(r, Audit)
    BY <1>7 DEF InsertAdmin
  <2>2. \E q : Steps(r, q) /\ ~DisablesOf(admins', q)
    BY <2>1, PlainRequests, RequestTypes DEF Steps, Goes
  <2>3. \E a \in Admins : admins[a] # NoAdmin
    BY <1>1, <1>7 DEF InsertAdmin, SoundFor
  <2>4. ASuperAdminRemains => ASuperAdminRemains'
    BY <1>4, <2>3 DEF ASuperAdminRemains, Registered, SuperAdmins, Supers
  <2> QED
    BY <1>2, <1>3, <1>4, <1>5, <2>2, <2>4 DEF Harmless
<1> QED
  BY <1>6, <1>7

LEMMA AuditsAreHarmless ==
  ASSUME AccountsTypeOK, Sound, Vouched, NEW r \in Requests,
         UpsertKey(r) \/ WriteAudit(r) \/ Fail(r)
  PROVE  Harmless(r)
<1>1. CASE WriteAudit(r) \/ Fail(r)
  BY <1>1, PlainSteps, PlainRequests, RequestTypes DEF WriteAudit, Fail
<1>2. CASE UpsertKey(r)
  <2>1. AccountsTypeOK'
    BY <1>2, WritesType
  <2>2. PICK k \in req[r].left :
          Goes(r, IF req[r].left \ {k} = {} THEN Audit
                  ELSE [req[r] EXCEPT !.left = req[r].left \ {k}, !.written = TRUE])
    BY <1>2 DEF UpsertKey
  <2> DEFINE q == [req[r] EXCEPT !.left = req[r].left \ {k}, !.written = TRUE]
  <2>3. req[r] \in [op : {"config"}, left : SUBSET Keys, written : BOOLEAN]
    BY <1>2, CarriedTypes DEF UpsertKey, AccountsTypeOK
  <2>4. q \in [op : {"config"}, left : SUBSET Keys, written : BOOLEAN]
    BY <2>3
  <2>5. q \in Request /\ q.op = "config"
    BY <2>4 DEF Request
  <2> HIDE DEF q
  <2>6. SoundFor(admins, q) /\ ~DisablesOf(admins, q)
    BY <2>5, PlainRequests
  <2>7. Goes(r, Audit) \/ Goes(r, q)
    BY <2>2 DEF q
  <2> QED
    BY <1>2, <2>5, <2>6, <2>7, PlainSteps, PlainRequests, RequestTypes DEF UpsertKey
<1> QED
  BY <1>1, <1>2

----------------------------------------------------------------------------
(* The race *)

\* While nobody has raced: one request at a time is about to disable a super administrator,
\* and another one is left when it does.
Guarded ==
  /\ \A r, o \in Requests : DisablesOf(admins, req[r]) /\ DisablesOf(admins, req[o]) => r = o
  /\ \A r \in Requests : DisablesOf(admins, req[r])
       => \E a \in Supers(admins) : a # req[r].admin
  /\ ASuperAdminRemains

AccountsInv == AccountsTypeOK /\ Sound /\ Vouched /\ (~raced => Guarded)

\* A row keeps its role, so nobody begins to disable a super administrator by another's step.
LEMMA OthersAsBefore ==
  ASSUME AccountsTypeOK, Sound, Grows(admins, admins'), NEW r \in Requests,
         NEW q, Steps(r, q)
  PROVE  /\ req'[r] = q
         /\ \A o \in Requests \ {r} :
              /\ req'[o] = req[o]
              /\ DisablesOf(admins', req[o]) => DisablesOf(admins, req[o])
<1>1. \A o \in Requests : req[o] \in Request /\ SoundFor(admins, req[o])
  BY DEF AccountsTypeOK, Sound
<1>2. \A o \in Requests : req[o].op = "set" => req[o].admin \in Admins
  BY <1>1, CarriedTypes
<1> QED
  BY <1>1, <1>2 DEF Steps, AccountsTypeOK, SoundFor, DisablesOf, Grows

LEMMA HarmlessInv ==
  ASSUME AccountsInv, AccountsTypeOK', NEW r \in Requests, Harmless(r)
  PROVE  AccountsInv'
<1>1. PICK q : Steps(r, q) /\ ~DisablesOf(admins', q)
  BY DEF Harmless
<1>2. Sound'
  BY <1>1, StepSound DEF AccountsInv, Harmless
<1>3. ASSUME ~raced' PROVE Guarded'
  <2>1. Guarded
    BY <1>3 DEF AccountsInv, Harmless
  <2>2. \A o \in Requests : DisablesOf(admins', req'[o])
          => o # r /\ req'[o] = req[o] /\ DisablesOf(admins, req[o])
    BY <1>1, OthersAsBefore DEF AccountsInv, Harmless
  <2>3. ASuperAdminRemains'
    BY <2>1 DEF Guarded, Harmless
  <2>4. \A o \in Requests : DisablesOf(admins', req'[o])
          => \E a \in Supers(admins') : a # req'[o].admin
    BY <2>1, <2>2 DEF Guarded, Harmless
  <2> QED
    BY <2>1, <2>2, <2>3, <2>4 DEF Guarded
<1> QED
  BY <1>2, <1>3 DEF AccountsInv, Harmless

\* The row of a super administrator is disabled while another one is enabled.
LEMMA SetInv ==
  ASSUME AccountsInv, AccountsTypeOK', NEW r \in Requests, SetAdminStatus(r)
  PROVE  AccountsInv'
<1>1. Grows(admins, admins')
  BY RowsGrow DEF AccountsInv
<1>2. Steps(r, Audit)
  BY PlainRequests, RequestTypes DEF SetAdminStatus, Goes, Steps
<1>3. Sound'
  BY <1>1, <1>2, StepSound DEF AccountsInv
<1>4. Vouched'
  BY <1>1 DEF AccountsInv, Vouched, VouchedBy, Grows, SetAdminStatus
<1>5. req[r] \in Request /\ req[r].op = "set" /\ req[r].admin \in Admins
      /\ admins[req[r].admin] \in AdminRow
      /\ admins' = [admins EXCEPT ![req[r].admin].status = req[r].status]
  BY CarriedTypes DEF AccountsInv, AccountsTypeOK, Sound, SoundFor, SetAdminStatus
<1>6. ASSUME ~raced' PROVE Guarded'
  <2>1. Guarded /\ raced' = raced
    BY <1>6 DEF AccountsInv, SetAdminStatus
  <2>2. \A o \in Requests : DisablesOf(admins', req'[o])
          => o # r /\ req'[o] = req[o] /\ DisablesOf(admins, req[o])
    BY <1>1, <1>2, OthersAsBefore, PlainRequests DEF AccountsInv
  <2>3. CASE DisablesOf(admins, req[r])
    <3>1. PICK a \in Supers(admins) : a # req[r].admin
      BY <2>1, <2>3 DEF Guarded
    <3>2. a \in Supers(admins')
      BY <1>5, <3>1 DEF Supers
    <3>3. \A o \in Requests : ~DisablesOf(admins', req'[o])
      BY <2>1, <2>2, <2>3 DEF Guarded
    <3> QED
      BY <3>2, <3>3 DEF Guarded, ASuperAdminRemains, SuperAdmins, Supers
  <2>4. CASE ~DisablesOf(admins, req[r])
    <3>1. req[r].status \in AdminStatus
      BY <1>5, CarriedTypes
    <3>2. Supers(admins) \subseteq Supers(admins')
      BY <1>5, <2>4, <3>1 DEF Supers, DisablesOf, AdminStatus, AdminRow
    <3>3. Supers(admins) # {}
      BY <1>5, <2>1 DEF Guarded, ASuperAdminRemains, SuperAdmins, Supers, Registered,
                        AdminRow, NoAdmin, Role
    <3>4. ASuperAdminRemains'
      BY <3>2, <3>3 DEF ASuperAdminRemains, SuperAdmins, Supers
    <3> QED
      BY <2>1, <2>2, <3>2, <3>4 DEF Guarded
  <2> QED
    BY <2>3, <2>4
<1> QED
  BY <1>3, <1>4, <1>6 DEF AccountsInv

\* Of two or more there is another one.
LEMMA AnotherOne ==
  ASSUME NEW S, IsFiniteSet(S), ~(Cardinality(S) <= 1), NEW x
  PROVE  \E y \in S : y # x
<1> SUFFICES ASSUME S \subseteq {x}
             PROVE  FALSE
  OBVIOUS
<1>1. IsFiniteSet({x}) /\ Cardinality({x}) = 1
  BY FS_Singleton
<1>2. Cardinality(S) <= Cardinality({x}) /\ Cardinality(S) \in Nat
  BY <1>1, FS_Subset, FS_CardinalityType
<1> QED
  BY <1>1, <1>2

LEMMA CountInv ==
  ASSUME AccountsInv, AccountsTypeOK', NEW r \in Requests, CountSuperAdmins(r)
  PROVE  AccountsInv'
<1>1. admins' = admins /\ tokens' = tokens /\ Grows(admins, admins')
  BY DEF CountSuperAdmins, Grows
<1>2. Vouched'
  BY <1>1 DEF AccountsInv, Vouched
<1>3. CASE Goes(r, Idle) /\ raced' = raced
  <2>1. Harmless(r)
    BY <1>1, <1>3, PlainSteps, PlainRequests, RequestTypes DEF AccountsInv
  <2> QED
    BY <2>1, HarmlessInv
<1> DEFINE q == [op |-> "set", admin |-> req[r].admin, status |-> "DISABLED"]
<1>4. CASE /\ ~(Cardinality(SuperAdmins) <= 1) /\ Goes(r, q)
           /\ raced' = (raced \/ \E o \in Requests \ {r} : Disabling(req[o]))
  <2>1. req[r] \in Request /\ req[r].op = "count" /\ req[r].admin \in Admins
        /\ admins[req[r].admin] # NoAdmin
    BY CarriedTypes DEF AccountsInv, AccountsTypeOK, Sound, SoundFor, CountSuperAdmins
  <2>2. q \in Request /\ SoundFor(admins', q)
    BY <1>1, <2>1, RequestTypes DEF SoundFor, AdminStatus
  <2>3. Steps(r, q)
    BY <1>4, <2>2 DEF Steps, Goes
  <2>4. Sound'
    BY <1>1, <2>3, StepSound DEF AccountsInv
  <2>5. ASSUME ~raced' PROVE Guarded'
    <3>1. Guarded /\ \A o \in Requests \ {r} : ~DisablesOf(admins, req[o])
      BY <1>4, <2>5 DEF AccountsInv, AccountsTypeOK, Disabling, DisablesOf
    <3>2. \A o \in Requests : DisablesOf(admins', req'[o]) => o = r
      BY <1>1, <2>3, <3>1, OthersAsBefore DEF AccountsInv
    <3>3. IsFiniteSet(Supers(admins))
      BY AdminsAssumption, FS_Subset DEF Supers
    <3>4. \E a \in Supers(admins) : a # req[r].admin
      BY <1>4, <3>3, AnotherOne DEF SuperAdmins, Supers
    <3>5. req'[r].admin = req[r].admin
      BY <2>3 DEF Steps, AccountsInv, AccountsTypeOK
    <3>6. ASuperAdminRemains'
      BY <1>1, <3>1 DEF Guarded, ASuperAdminRemains, Registered, SuperAdmins
    <3> QED
      BY <1>1, <3>2, <3>4, <3>5, <3>6 DEF Guarded
  <2> QED
    BY <1>2, <2>4, <2>5 DEF AccountsInv
<1> QED
  BY <1>3, <1>4 DEF CountSuperAdmins

----------------------------------------------------------------------------
LEMMA InitInv == AccountsInit => AccountsInv
<1> SUFFICES ASSUME AccountsInit
             PROVE  AccountsInv
  OBVIOUS
<1>1. Sound /\ Vouched
  BY PlainRequests DEF AccountsInit, Sound, Vouched
<1>2. \A r \in Requests : ~DisablesOf(admins, req[r])
  BY PlainRequests DEF AccountsInit
<1>3. ASuperAdminRemains
  BY DEF AccountsInit, ASuperAdminRemains, Registered
<1> QED
  BY <1>1, <1>2, <1>3, InitType DEF AccountsInv, Guarded

LEMMA NextInv == AccountsInv /\ [AccountsNext]_accountsVars => AccountsInv'
<1> SUFFICES ASSUME AccountsInv, [AccountsNext]_accountsVars
             PROVE  AccountsInv'
  OBVIOUS
<1>1. AccountsTypeOK /\ Sound /\ Vouched
  BY DEF AccountsInv
<1>2. AccountsTypeOK'
  BY <1>1, NextType
<1>3. CASE UNCHANGED accountsVars
  BY <1>2, <1>3 DEF accountsVars, AccountsInv, Sound, Vouched, Guarded, ASuperAdminRemains,
                    SuperAdmins, Registered
<1>4. ASSUME NEW t \in tokens, Expire(t)
      PROVE  AccountsInv'
  BY <1>2, <1>4 DEF Expire, AccountsInv, Sound, Vouched, Guarded, ASuperAdminRemains,
                    SuperAdmins, Registered
<1>5. ASSUME NEW r \in Requests,
             \/ BootstrapAdmin(r) \/ Sign(r) \/ InsertAdmin(r)
             \/ UpsertKey(r) \/ WriteAudit(r) \/ UpsertUser(r) \/ Fail(r)
             \/ \E a \in Admins : Login(r, a)
             \/ \E u \in Users : UserLogin(r, u)
      PROVE  AccountsInv'
  BY <1>1, <1>2, <1>5, LoginsAreHarmless, InsertsAreHarmless, AuditsAreHarmless, HarmlessInv
<1>6. ASSUME NEW r \in Requests, NEW t \in tokens,
             \/ \E a \in Admins, role \in Role : CreateAdmin(r, t, a, role)
             \/ \E a \in Admins : ResetAdminPassword(r, t, a)
             \/ \E a \in Admins, status \in AdminStatus : UpdateAdminStatus(r, t, a, status)
             \/ \E u \in Users, status \in UserStatus : UpdateUserStatus(r, t, u, status)
             \/ \E keys \in SUBSET Keys : UpdateSystemConfig(r, t, keys)
             \/ CloseRoom(r, t)
      PROVE  AccountsInv'
  <2>1. Harmless(r)
    BY <1>1, <1>6, OrdersAreHarmless
  <2> QED
    BY <1>2, <2>1, HarmlessInv
<1>7. ASSUME NEW r \in Requests, SetAdminStatus(r) \/ CountSuperAdmins(r)
      PROVE  AccountsInv'
  BY <1>2, <1>7, SetInv, CountInv
<1> QED
  BY <1>3, <1>4, <1>5, <1>6, <1>7 DEF AccountsNext

\* A step of Access is one of the accounts, or leaves them alone.
LEMMA AccessStep == [Next]_accessVars => [AccountsNext]_accountsVars
BY DEF Next, KeepsAccounts, KeepsASession, KeepsTheConfig, accessVars, accountsVars

\* Whatever administrators do, one request after another or many at a time, with tokens of
\* administrators disabled since: as long as no two requests have counted the super
\* administrators before either disabled one, one of them is left.
THEOREM OnlyRacesRemoveTheLast == Spec => []OnlyARaceRemovesTheLast
<1>1. AccountsInv => OnlyARaceRemovesTheLast
  BY DEF AccountsInv, Guarded, OnlyARaceRemovesTheLast
<1>2. Init => AccountsInv
  BY InitInv DEF Init
<1>3. AccountsInv /\ [Next]_accessVars => AccountsInv'
  BY AccessStep, NextInv
<1> QED
  BY <1>1, <1>2, <1>3, PTL DEF Spec

\* The rows, tokens and requests of the accounts keep their types.
THEOREM AccountsTypeCorrect == Spec => []AccountsTypeOK
<1>1. AccountsInv => AccountsTypeOK
  BY DEF AccountsInv
<1>2. Init => AccountsInv
  BY InitInv DEF Init
<1>3. AccountsInv /\ [Next]_accessVars => AccountsInv'
  BY AccessStep, NextInv
<1> QED
  BY <1>1, <1>2, <1>3, PTL DEF Spec

----------------------------------------------------------------------------
(* Changes and their audit *)

\* A request whose change has no row yet.
IsWritten(q) == q.op = "audit" \/ (q.op = "config" /\ q.written)

\* There are finitely many, and the three numbers agree.
AuditInv == IsFiniteSet(Written) /\ ChangesAreAudited

\* How request r going on as q changes which requests have written something.
LEMMA WrittenAfter ==
  ASSUME AccountsTypeOK, NEW r \in Requests, NEW q, req' = [req EXCEPT ![r] = q]
  PROVE  /\ r \in Written <=> IsWritten(req[r])
         /\ IsWritten(q) => Written' = Written \cup {r}
         /\ ~IsWritten(q) => Written' = Written \ {r}
<1>1. /\ Written = {o \in Requests : IsWritten(req[o])}
      /\ Written' = {o \in Requests : IsWritten(req'[o])}
  BY DEF Written, IsWritten
<1>2. req'[r] = q /\ \A o \in Requests : o # r => req'[o] = req[o]
  BY DEF AccountsTypeOK
<1>3. QED BY <1>1, <1>2

\* The ways a request goes on: nothing is written, something is (or nothing had to be)
\* and awaits its row, the row is written, or the request fails, having written or not.
Tallies(r, q) ==
  /\ req' = [req EXCEPT ![r] = q]
  /\ \/ /\ IsWritten(q) <=> IsWritten(req[r])
        /\ UNCHANGED <<changes, audits, faults>>
     \/ /\ ~IsWritten(req[r]) /\ IsWritten(q)
        /\ changes' = changes + 1 /\ UNCHANGED <<audits, faults>>
     \/ /\ IsWritten(req[r]) /\ ~IsWritten(q)
        /\ audits' = audits + 1 /\ UNCHANGED <<changes, faults>>
     \/ /\ ~IsWritten(q)
        /\ faults' = faults + 1 /\ UNCHANGED audits
        /\ changes' = changes \/ (~IsWritten(req[r]) /\ changes' = changes + 1)

LEMMA TalliesInv ==
  ASSUME AccountsTypeOK, AuditInv, NEW r \in Requests, NEW q, Tallies(r, q)
  PROVE  AuditInv'
<1>1. /\ changes \in Nat /\ audits \in Nat /\ faults \in Nat
      /\ audits + Cardinality(Written) <= changes
      /\ changes <= audits + Cardinality(Written) + faults
      /\ IsFiniteSet(Written) /\ Cardinality(Written) \in Nat
  BY BoundsAssumption, FS_CardinalityType DEF AccountsTypeOK, AuditInv, ChangesAreAudited
<1>2. /\ r \in Written <=> IsWritten(req[r])
      /\ IsWritten(q) => Written' = Written \cup {r}
      /\ ~IsWritten(q) => Written' = Written \ {r}
  BY WrittenAfter DEF Tallies
<1>3. IsFiniteSet(Written')
  BY <1>1, <1>2, FS_AddElement, FS_RemoveElement
<1>4. /\ r \notin Written => Cardinality(Written \cup {r}) = Cardinality(Written) + 1
      /\ r \in Written => /\ Written \cup {r} = Written
                          /\ Cardinality(Written \ {r}) = Cardinality(Written) - 1
      /\ r \notin Written => Written \ {r} = Written
  <2> HIDE DEF Written
  <2> DEFINE W == Written
  <2>1. IsFiniteSet(W)
    BY <1>1
  <2> HIDE DEF W
  <2>2. Cardinality(W \cup {r}) = IF r \in W THEN Cardinality(W) ELSE Cardinality(W) + 1
    BY <2>1, FS_AddElement
  <2>3. Cardinality(W \ {r}) = IF r \in W THEN Cardinality(W) - 1 ELSE Cardinality(W)
    BY <2>1, FS_RemoveElement
  <2>4. /\ r \in W => W \cup {r} = W
        /\ r \notin W => W \ {r} = W
    OBVIOUS
  <2>5. QED BY <2>2, <2>3, <2>4 DEF W
<1> DEFINE n == Cardinality(Written)
           m == Cardinality(Written')
<1>5. /\ IsWritten(q) /\ IsWritten(req[r]) => m = n
      /\ ~IsWritten(q) /\ ~IsWritten(req[r]) => m = n
      /\ IsWritten(q) /\ ~IsWritten(req[r]) => m = n + 1
      /\ ~IsWritten(q) /\ IsWritten(req[r]) => m = n - 1
  BY <1>2, <1>4
<1>6. /\ n \in Nat
      /\ audits + n <= changes /\ changes <= audits + n + faults
  BY <1>1
<1> HIDE DEF n, m
<1>7. audits' + m <= changes' /\ changes' <= audits' + m + faults'
  BY <1>1, <1>5, <1>6 DEF Tallies
<1>8. QED BY <1>3, <1>7 DEF AuditInv, ChangesAreAudited, m

LEMMA PlainAreUnwritten ==
  /\ ~IsWritten(Idle) /\ IsWritten(Audit)
  /\ \A q : q.op \notin {"audit", "config"} => ~IsWritten(q)
BY DEF IsWritten, Idle, Audit

\* Logins write nothing an administrator changes.
LEMMA LoginsTally ==
  ASSUME AccountsTypeOK, NEW r \in Requests,
         \/ BootstrapAdmin(r) \/ Sign(r) \/ CountSuperAdmins(r) \/ UpsertUser(r)
         \/ \E a \in Admins : Login(r, a)
         \/ \E u \in Users : UserLogin(r, u)
  PROVE  \E q : Tallies(r, q)
<1>1. UNCHANGED <<changes, audits, faults>>
  BY DEF BootstrapAdmin, Sign, CountSuperAdmins, UpsertUser, Login, UserLogin
<1>2. ~IsWritten(req[r])
  BY PlainAreUnwritten DEF BootstrapAdmin, Sign, CountSuperAdmins, UpsertUser, Login, UserLogin,
                           Begins
<1>3. ASSUME NEW q, req' = [req EXCEPT ![r] = q], q.op \notin {"audit", "config"}
      PROVE  \E p : Tallies(r, p)
  BY <1>1, <1>2, <1>3, PlainAreUnwritten DEF Tallies
<1>4. Idle.op \notin {"audit", "config"}
  BY DEF Idle
<1>5. \A t : [op |-> "sign", token |-> t].op \notin {"audit", "config"}
  OBVIOUS
<1>6. \A a, s : [op |-> "set", admin |-> a, status |-> s].op \notin {"audit", "config"}
  OBVIOUS
<1>7. \A a : [op |-> "bootstrap", admin |-> a].op \notin {"audit", "config"}
  OBVIOUS
<1>8. \A u, f : [op |-> "upsert", user |-> u, found |-> f].op \notin {"audit", "config"}
  OBVIOUS
<1>9. CASE BootstrapAdmin(r)
  BY <1>3, <1>4, <1>5, <1>9 DEF BootstrapAdmin, Goes
<1>10. CASE Sign(r)
  BY <1>3, <1>4, <1>10 DEF Sign, Goes
<1>11. CASE CountSuperAdmins(r)
  BY <1>3, <1>4, <1>6, <1>11 DEF CountSuperAdmins, Goes
<1>12. CASE UpsertUser(r)
  BY <1>3, <1>4, <1>5, <1>12 DEF UpsertUser, Goes
<1>13. CASE \E a \in Admins : Login(r, a)
  BY <1>3, <1>5, <1>7, <1>13 DEF Login, Begins
<1>14. CASE \E u \in Users : UserLogin(r, u)
  BY <1>3, <1>8, <1>14 DEF UserLogin, Begins
<1>15. QED BY <1>9, <1>10, <1>11, <1>12, <1>13, <1>14

\* What changes in one statement awaits its row.
LEMMA ChangesTally ==
  ASSUME AccountsTypeOK, NEW r \in Requests,
         \/ InsertAdmin(r) \/ SetAdminStatus(r)
         \/ \E t \in tokens : \/ \E a \in Admins : ResetAdminPassword(r, t, a)
                              \/ \E u \in Users, s \in UserStatus : UpdateUserStatus(r, t, u, s)
                              \/ CloseRoom(r, t)
  PROVE  \E q : Tallies(r, q)
<1>1. UNCHANGED <<audits, faults>> /\ ~IsWritten(req[r])
  BY PlainAreUnwritten DEF InsertAdmin, SetAdminStatus, ResetAdminPassword, UpdateUserStatus,
                           CloseRoom, Begins
<1>2. \/ req' = [req EXCEPT ![r] = Idle] /\ changes' = changes
      \/ req' = [req EXCEPT ![r] = Audit] /\ changes' = changes + 1
  BY DEF InsertAdmin, SetAdminStatus, ResetAdminPassword, UpdateUserStatus, CloseRoom,
         Begins, Goes, Changes
<1>3. QED BY <1>1, <1>2, PlainAreUnwritten DEF Tallies

\* What a request of an administrator asks for is written later; an empty configuration has
\* nothing to write but the audit.
LEMMA OrdersTally ==
  ASSUME AccountsTypeOK, NEW r \in Requests, NEW t \in tokens,
         \/ \E a \in Admins, role \in Role : CreateAdmin(r, t, a, role)
         \/ \E a \in Admins, s \in AdminStatus : UpdateAdminStatus(r, t, a, s)
         \/ \E keys \in SUBSET Keys : UpdateSystemConfig(r, t, keys)
  PROVE  \E q : Tallies(r, q)
<1>1. UNCHANGED <<audits, faults>> /\ req[r] = Idle
  BY DEF CreateAdmin, UpdateAdminStatus, UpdateSystemConfig, Begins
<1>2. ASSUME NEW q, req' = [req EXCEPT ![r] = q], ~IsWritten(q), UNCHANGED changes
      PROVE  \E p : Tallies(r, p)
  BY <1>1, <1>2, PlainAreUnwritten DEF Tallies
<1>3. /\ \A a, role : ~IsWritten([op |-> "insert", admin |-> a, role |-> role])
      /\ \A a : ~IsWritten([op |-> "count", admin |-> a])
      /\ \A a, s : ~IsWritten([op |-> "set", admin |-> a, status |-> s])
      /\ \A keys : ~IsWritten([op |-> "config", left |-> keys, written |-> FALSE])
  BY DEF IsWritten
<1>4. CASE \E a \in Admins, role \in Role : CreateAdmin(r, t, a, role)
  BY <1>2, <1>3, <1>4 DEF CreateAdmin, Begins
<1>5. CASE \E a \in Admins, s \in AdminStatus : UpdateAdminStatus(r, t, a, s)
  <2>1. PICK a \in Admins, s \in AdminStatus : UpdateAdminStatus(r, t, a, s)
    BY <1>5
  <2>2. \/ req' = [req EXCEPT ![r] = [op |-> "count", admin |-> a]]
        \/ req' = [req EXCEPT ![r] = [op |-> "set", admin |-> a, status |-> s]]
    BY <2>1 DEF UpdateAdminStatus, Begins
  <2>3. UNCHANGED changes
    BY <2>1 DEF UpdateAdminStatus
  <2>4. QED BY <1>2, <1>3, <2>2, <2>3
<1>6. CASE \E keys \in SUBSET Keys : UpdateSystemConfig(r, t, keys)
  <2>1. PICK keys \in SUBSET Keys : UpdateSystemConfig(r, t, keys)
    BY <1>6
  <2>2. \/ /\ UNCHANGED changes
           /\ req' = [req EXCEPT ![r] = [op |-> "config", left |-> keys, written |-> FALSE]]
        \/ changes' = changes + 1 /\ req' = [req EXCEPT ![r] = Audit]
    BY <2>1 DEF UpdateSystemConfig, Begins, Changes
  <2>3. CASE UNCHANGED changes
             /\ req' = [req EXCEPT ![r] = [op |-> "config", left |-> keys, written |-> FALSE]]
    BY <1>2, <1>3, <2>3
  <2>4. CASE changes' = changes + 1 /\ req' = [req EXCEPT ![r] = Audit]
    BY <1>1, <2>4, PlainAreUnwritten DEF Tallies
  <2>5. QED BY <2>2, <2>3, <2>4
<1>7. QED BY <1>4, <1>5, <1>6

\* Only the first key of a configuration counts as its change; the row is written once.
LEMMA AuditsTally ==
  ASSUME AccountsTypeOK, NEW r \in Requests, UpsertKey(r) \/ WriteAudit(r) \/ Fail(r)
  PROVE  \E q : Tallies(r, q)
<1>1. CASE UpsertKey(r)
  <2>1. req[r] \in [op : {"config"}, left : SUBSET Keys, written : BOOLEAN]
    BY <1>1, CarriedTypes DEF UpsertKey, AccountsTypeOK
  <2>2. PICK k \in req[r].left :
          req' = [req EXCEPT ![r] = IF req[r].left \ {k} = {} THEN Audit
                                    ELSE [req[r] EXCEPT !.left = req[r].left \ {k},
                                                        !.written = TRUE]]
    BY <1>1 DEF UpsertKey, Goes
  <2> DEFINE q == IF req[r].left \ {k} = {} THEN Audit
                  ELSE [req[r] EXCEPT !.left = req[r].left \ {k}, !.written = TRUE]
  <2>3. IsWritten(q) /\ (IsWritten(req[r]) <=> req[r].written)
    BY <2>1 DEF IsWritten, Audit
  <2>4. /\ req[r].written => changes' = changes
        /\ ~req[r].written => changes' = changes + 1
        /\ UNCHANGED <<audits, faults>>
    BY <1>1 DEF UpsertKey, Changes
  <2>5. req' = [req EXCEPT ![r] = q]
    BY <2>2
  <2> HIDE DEF q
  <2>6. Tallies(r, q)
    BY <2>3, <2>4, <2>5 DEF Tallies
  <2>7. QED BY <2>6
<1>2. CASE WriteAudit(r)
  <2>1. Tallies(r, Idle)
    BY <1>2, PlainAreUnwritten DEF WriteAudit, Goes, Tallies, IsWritten
  <2>2. QED BY <2>1
<1>3. CASE Fail(r)
  <2>1. /\ req' = [req EXCEPT ![r] = Idle]
        /\ faults' = faults + 1 /\ UNCHANGED audits
    BY <1>3 DEF Fail, Goes
  <2>2. changes' = changes \/ (~IsWritten(req[r]) /\ changes' = changes + 1)
    BY <1>3 DEF Fail, Changes, IsWritten
  <2>3. Tallies(r, Idle)
    BY <2>1, <2>2, PlainAreUnwritten DEF Tallies
  <2>4. QED BY <2>3
<1>4. QED BY <1>1, <1>2, <1>3

LEMMA NextAudits ==
  AccountsTypeOK /\ AuditInv /\ [AccountsNext]_accountsVars => AuditInv'
<1> SUFFICES ASSUME AccountsTypeOK, AuditInv, [AccountsNext]_accountsVars
             PROVE  AuditInv'
  OBVIOUS
<1>1. ASSUME NEW r \in Requests, \E q : Tallies(r, q) PROVE AuditInv'
  BY <1>1, TalliesInv
<1>2. CASE UNCHANGED accountsVars \/ \E t \in tokens : Expire(t)
  BY <1>2 DEF accountsVars, Expire, AuditInv, ChangesAreAudited, Written
<1>3. QED
  BY <1>1, <1>2, LoginsTally, ChangesTally, OrdersTally, AuditsTally DEF AccountsNext

\* However requests of administrators overlap and fail, the audit tells of no others but those
\* that changed something and the empty updates of the configuration, and each of these has
\* its row or a request that is about to write it, except for the requests that failed.
THEOREM ChangesStayAudited == Spec => []ChangesAreAudited
<1>1. AccountsInit => AuditInv
  <2> SUFFICES ASSUME AccountsInit PROVE AuditInv
    OBVIOUS
  <2>1. Written = {}
    BY DEF AccountsInit, Written, Idle
  <2>2. QED BY <2>1, FS_EmptySet DEF AccountsInit, AuditInv, ChangesAreAudited
<1>2. Init => AccountsInv /\ AuditInv
  BY <1>1, InitInv DEF Init
<1>3. AccountsInv /\ AuditInv /\ [Next]_accessVars => AccountsInv' /\ AuditInv'
  BY AccessStep, NextInv, NextAudits DEF AccountsInv
<1>4. AuditInv => ChangesAreAudited
  BY DEF AuditInv
<1>5. QED BY <1>2, <1>3, <1>4, PTL DEF Spec

----------------------------------------------------------------------------
(* The session *)

\* While a login is under way, nobody has a token but one that was signed just before.
SessionInv ==
  /\ SessionTypeOK
  /\ loginPromise # "null" => token \in {"none", "good"}

Asker == [ for : {"nothing", "profile", "page", "avatar"}, sent : Tokens, retried : BOOLEAN,
           answer : Verdicts \cup {"none", "login"} ]

LEMMA AskerTypes ==
  /\ NotAsking \in Asker
  /\ \A for \in {"nothing", "profile", "page", "avatar"}, t \in Tokens, b \in BOOLEAN :
       Asked(for, t, b) \in Asker
  /\ \A q \in Asker, v \in Verdicts \cup {"none", "login"} : [q EXCEPT !.answer = v] \in Asker
  /\ \A q \in Asker, t \in Tokens : [q EXCEPT !.sent = t] \in Asker
  /\ \A t : Guard(t) \in Verdicts
BY DEF Asker, Asked, NotAsking, Tokens, Verdicts, Guard

LEMMA SessionInitInv == SessionInit => SessionInv
<1> SUFFICES ASSUME SessionInit PROVE SessionInv
  OBVIOUS
<1>1. asking \in [Askers -> Asker]
  BY AskerTypes DEF SessionInit
<1>2. trouble \in 0 .. MaxTrouble
  BY TroubleAssumption DEF SessionInit
<1>3. QED BY <1>1, <1>2 DEF SessionInit, SessionInv, SessionTypeOK, Asker

\* Each step gives every request the type it had.
LEMMA AskingType ==
  ASSUME SessionInv, SessionNext
  PROVE  asking' \in [Askers -> Asker]
<1>1. asking \in [Askers -> Asker] /\ token \in Tokens /\ "good" \in Tokens
  BY DEF SessionInv, SessionTypeOK, Asker, Tokens
<1>2. CASE OnShow \/ EnsureDevLogin \/ PageAsks \/ UploadAvatar \/ PageLoggedIn
  <2>1. \/ asking' = asking
        \/ \E a \in Askers, for \in {"profile", "page", "avatar"}, t \in {token, "good"} :
             asking' = [asking EXCEPT ![a] = Asked(for, t, FALSE)]
    BY <1>2 DEF OnShow, EnsureDevLogin, PageAsks, UploadAvatar, PageLoggedIn, Sends, FreeAskers
  <2>2. ASSUME NEW a \in Askers, NEW for \in {"profile", "page", "avatar"},
               NEW t \in {token, "good"}, asking' = [asking EXCEPT ![a] = Asked(for, t, FALSE)]
        PROVE  asking' \in [Askers -> Asker]
    <3>1. Asked(for, t, FALSE) \in Asker
      BY <1>1, AskerTypes
    <3> QED
      BY <1>1, <2>2, <3>1
  <2> QED
    BY <1>1, <2>1, <2>2
<1>3. CASE Relaunch
  <2>1. PICK first \in Askers :
          asking' = [a \in Askers |-> IF a = first /\ token # "none"
                                      THEN Asked("profile", token, FALSE) ELSE NotAsking]
    BY <1>3 DEF Relaunch
  <2>2. Asked("profile", token, FALSE) \in Asker /\ NotAsking \in Asker
    BY <1>1, AskerTypes
  <2> QED
    BY <2>1, <2>2
<1>4. CASE LogsIn
  BY <1>1, <1>4 DEF LogsIn
<1>5. CASE LoggedIn
  <2>1. token' \in Tokens
    BY <1>1, <1>5 DEF LoggedIn
  <2>2. asking' = [a \in Askers |->
           IF asking[a].answer # "login" THEN asking[a]
           ELSE IF token' # "none" THEN Asked(asking[a].for, token', TRUE)
           ELSE NotAsking]
    BY <1>5 DEF LoggedIn
  <2>3. ASSUME NEW a \in Askers
        PROVE  asking[a] \in Asker /\ Asked(asking[a].for, token', TRUE) \in Asker
    <3>1. asking[a].for \in {"nothing", "profile", "page", "avatar"}
      BY <1>1 DEF Asker
    <3> QED
      BY <1>1, <2>1, <3>1, AskerTypes
  <2> QED
    BY <2>2, <2>3, AskerTypes
<1>6. ASSUME NEW how \in {"expired", "invalid"}, Spoil(how) PROVE asking' \in [Askers -> Asker]
  <2>1. PICK t \in [Askers -> Tokens] :
          asking' = [a \in Askers |-> [asking[a] EXCEPT !.sent = t[a]]]
    <3> DEFINE t == [a \in Askers |-> IF asking[a].sent = "good" THEN how ELSE asking[a].sent]
    <3>1. t \in [Askers -> Tokens]
      BY <1>1 DEF Asker, Tokens
    <3>2. asking' = [a \in Askers |-> [asking[a] EXCEPT !.sent = t[a]]]
      BY <1>6 DEF Spoil
    <3> HIDE DEF t
    <3> QED
      BY <3>1, <3>2
  <2> QED
    BY <1>1, <2>1, AskerTypes
<1>7. ASSUME NEW a \in Askers,
             \/ Answers(a) \/ Answered401(a) \/ AnsweredOtherwise(a)
             \/ UploadAnswered(a) \/ RequestDrops(a)
      PROVE  asking' \in [Askers -> Asker]
  <2>1. \/ \E v \in Verdicts \cup {"none", "login"} :
             asking' = [asking EXCEPT ![a] = [asking[a] EXCEPT !.answer = v]]
        \/ asking' = [asking EXCEPT ![a] = NotAsking]
    BY <1>7, AskerTypes
       DEF Answers, Answered401, AnsweredOtherwise, UploadAnswered, RequestDrops
  <2> QED
    BY <1>1, <2>1, AskerTypes
<1> QED
  BY <1>2, <1>3, <1>4, <1>5, <1>6, <1>7 DEF SessionNext

LEMMA SessionNextInv == SessionInv /\ [SessionNext]_sessionVars => SessionInv'
<1> SUFFICES ASSUME SessionInv, [SessionNext]_sessionVars
             PROVE  SessionInv'
  OBVIOUS
<1>1. SessionTypeOK'
  <2>1. asking' \in [Askers -> Asker]
    BY AskingType DEF sessionVars, SessionInv, SessionTypeOK, Asker
  <2>2. token' \in Tokens
    BY DEF SessionInv, SessionTypeOK, sessionVars, SessionNext, OnShow, Relaunch, EnsureDevLogin,
           PageAsks, UploadAvatar, LogsIn, LoggedIn, PageLoggedIn, Spoil, Answers, Answered401,
           AnsweredOtherwise, UploadAnswered, RequestDrops, Tokens
  <2>3. {loginPromise, pageLogin}' \subseteq {"null", "asked", "good", "failed"}
    BY DEF SessionInv, SessionTypeOK, sessionVars, SessionNext, OnShow, Relaunch, EnsureDevLogin,
           PageAsks, UploadAvatar, DoLogin, LogsIn, WxLogin, LoggedIn, PageLoggedIn, Spoil,
           Answers, Answered401, AnsweredOtherwise, UploadAnswered, RequestDrops
  <2>4. trouble' \in 0 .. MaxTrouble
    <3>1. trouble \in 0 .. MaxTrouble
      BY DEF SessionInv, SessionTypeOK
    <3>2. trouble' = trouble \/ (trouble < MaxTrouble /\ trouble' = trouble + 1)
      BY DEF sessionVars, SessionNext, OnShow, Relaunch, EnsureDevLogin, PageAsks, UploadAvatar,
             LogsIn, WxLogin, LoggedIn, PageLoggedIn, Spoil, Fails, Answers, Answered401,
             AnsweredOtherwise, UploadAnswered, RequestDrops
    <3> QED
      BY <3>1, <3>2, TroubleAssumption
  <2> QED
    BY <2>1, <2>2, <2>3, <2>4 DEF SessionTypeOK, Asker
<1>2. loginPromise' # "null" => token' \in {"none", "good"}
  BY DEF SessionInv, sessionVars, SessionNext, OnShow, Relaunch, EnsureDevLogin, PageAsks,
         UploadAvatar, DoLogin, LogsIn, WxLogin, LoggedIn, PageLoggedIn, Spoil, Answers,
         Answered401, AnsweredOtherwise, UploadAnswered, RequestDrops
<1> QED
  BY <1>1, <1>2 DEF SessionInv

\* Only the end of a login repeats requests.
LEMMA OnlyLoggedInRetries ==
  ASSUME SessionInv, SessionNext, NEW a \in Askers, asking'[a].retried, ~asking[a].retried
  PROVE  asking'[a].sent = "good"
<1>1. \A for, t : ~Asked(for, t, FALSE).retried
  BY DEF Asked
<1>2. ~NotAsking.retried
  BY DEF NotAsking
<1>0. asking \in [Askers -> Asker]
  BY DEF SessionInv, SessionTypeOK, Asker
<1>3. CASE LoggedIn
  <2>1. \/ asking'[a] \in {asking[a], NotAsking}
        \/ token' # "none" /\ asking'[a] = Asked(asking[a].for, token', TRUE)
    <3>1. asking'[a] = CASE asking[a].answer # "login" -> asking[a]
                         [] token' # "none" -> Asked(asking[a].for, token', TRUE)
                         [] OTHER -> NotAsking
      BY <1>3 DEF LoggedIn
    <3> QED
      BY <3>1
  <2>2. token' # "none" => token' = "good"
    BY <1>3 DEF LoggedIn, SessionInv
  <2> QED
    BY <1>2, <2>1, <2>2 DEF Asked
<1>4. CASE OnShow \/ EnsureDevLogin \/ PageAsks \/ UploadAvatar \/ PageLoggedIn \/ Relaunch
  <2>1. asking'[a] = asking[a] \/ asking'[a] = NotAsking
          \/ \E for, t : asking'[a] = Asked(for, t, FALSE)
    BY <1>4 DEF OnShow, EnsureDevLogin, PageAsks, UploadAvatar, PageLoggedIn, Relaunch, Sends,
                SessionInv, SessionTypeOK
  <2> QED
    BY <1>1, <1>2, <2>1
<1>5. CASE LogsIn
  BY <1>5 DEF LogsIn
<1>6. ASSUME NEW b \in Askers, NEW v, asking' = [asking EXCEPT ![b].answer = v]
      PROVE  asking'[a].retried = asking[a].retried
  <2>1. asking'[b] = [asking[b] EXCEPT !.answer = v] /\ (a # b => asking'[a] = asking[a])
    BY <1>0, <1>6
  <2> QED
    BY <1>0, <2>1 DEF Asker
<1>7. ASSUME NEW how, Spoil(how) PROVE asking'[a].retried = asking[a].retried
  <2>1. \E t : asking'[a] = [asking[a] EXCEPT !.sent = t]
    BY <1>7 DEF Spoil
  <2> QED
    BY <1>0, <2>1 DEF Asker
<1>8. ASSUME NEW b \in Askers,
             \/ Answers(b) \/ Answered401(b) \/ AnsweredOtherwise(b)
             \/ UploadAnswered(b) \/ RequestDrops(b)
      PROVE  FALSE
  <2>1. \/ \E v : asking' = [asking EXCEPT ![b].answer = v]
        \/ asking' = [asking EXCEPT ![b] = NotAsking]
    BY <1>8 DEF Answers, Answered401, AnsweredOtherwise, UploadAnswered, RequestDrops
  <2>2. CASE asking' = [asking EXCEPT ![b] = NotAsking]
    BY <1>0, <1>2, <2>2
  <2> QED
    BY <1>6, <2>1, <2>2
<1> QED
  BY <1>3, <1>4, <1>5, <1>7, <1>8 DEF SessionNext

\* A request is repeated with a token the API has just signed, whatever other requests were
\* refused, and other logins made, in the meantime: for any number of requests and logins.
THEOREM RetriesAlwaysCarryAGoodToken == Spec => RetriesCarryAGoodToken
<1>1. Init => SessionInv
  BY SessionInitInv DEF Init
<1>2. [Next]_accessVars => [SessionNext]_sessionVars
  BY DEF Next, KeepsAccounts, KeepsASession, KeepsTheConfig, accessVars, sessionVars
<1>3. SessionInv /\ [Next]_accessVars => SessionInv'
  BY <1>2, SessionNextInv
<1>4. SessionInv /\ [Next]_accessVars =>
        [\A a \in Askers : asking'[a].retried /\ ~asking[a].retried
                            => asking'[a].sent = "good"]_sessionVars
  BY <1>2, OnlyLoggedInRetries
<1> QED
  BY <1>1, <1>3, <1>4, PTL DEF Spec, RetriesCarryAGoodToken

Plain == Settings \ Secrets
Effective(rows) == Merged(DefaultSystemConfig, rows)

----------------------------------------------------------------------------
(* The texts of the configuration *)

LEMMA TextsAre ==
  ASSUME NEW f
  PROVE  f \in Texts <=> DOMAIN f \subseteq Settings /\ f \in [DOMAIN f -> Values]
BY DEF Texts

LEMMA MergedText ==
  ASSUME NEW f \in Texts, NEW g \in Texts
  PROVE  /\ Merged(f, g) \in Texts
         /\ DOMAIN Merged(f, g) = DOMAIN f \cup DOMAIN g
         /\ \A k \in DOMAIN g : Merged(f, g)[k] = g[k]
         /\ \A k \in DOMAIN f \ DOMAIN g : Merged(f, g)[k] = f[k]
<1>1. \A k \in DOMAIN g : Merged(f, g)[k] = g[k]
  BY DEF Merged
<1>2. \A k \in DOMAIN f \ DOMAIN g : Merged(f, g)[k] = f[k]
  BY DEF Merged
<1>3. DOMAIN Merged(f, g) = DOMAIN f \cup DOMAIN g
  BY DEF Merged
<1>4. \A k \in DOMAIN f \cup DOMAIN g : Merged(f, g)[k] \in Values
  BY <1>1, <1>2, TextsAre
<1>5. Merged(f, g) = [k \in DOMAIN f \cup DOMAIN g |-> Merged(f, g)[k]]
  BY DEF Merged
<1>6. Merged(f, g) \in [DOMAIN f \cup DOMAIN g -> Values]
  BY <1>4, <1>5
<1> QED
  BY <1>1, <1>2, <1>3, <1>6, TextsAre

LEMMA DefaultText ==
  DefaultSystemConfig \in Texts /\ DOMAIN DefaultSystemConfig = Plain
<1>1. DOMAIN DefaultSystemConfig = Plain /\ DefaultSystemConfig \in [Plain -> Values]
  BY DEF DefaultSystemConfig, Plain, Values
<1> QED
  BY <1>1, TextsAre DEF Plain

\* One setting more.
One(k, v) == [i \in {k} |-> v]

LEMMA OneSetting ==
  ASSUME NEW f \in Texts, NEW k \in Settings, NEW v \in Values
  PROVE  /\ Merged(f, One(k, v)) \in Texts
         /\ k \in DOMAIN Merged(f, One(k, v)) /\ Merged(f, One(k, v))[k] = v
         /\ \A j : j # k =>
              /\ j \in DOMAIN Merged(f, One(k, v)) <=> j \in DOMAIN f
              /\ j \in DOMAIN f => Merged(f, One(k, v))[j] = f[j]
<1>1. DOMAIN One(k, v) = {k} /\ One(k, v)[k] = v /\ One(k, v) \in [{k} -> Values]
  BY DEF One
<1>2. One(k, v) \in Texts
  BY <1>1, TextsAre
<1>3. LET g == Merged(f, One(k, v)) IN
      /\ g \in Texts
      /\ DOMAIN g = DOMAIN f \cup DOMAIN One(k, v)
      /\ \A j \in DOMAIN One(k, v) : g[j] = One(k, v)[j]
      /\ \A j \in DOMAIN f \ DOMAIN One(k, v) : g[j] = f[j]
  BY <1>2, MergedText
<1> QED
  BY <1>1, <1>3

\* What is in force is the row, where there is one.
LEMMA EffectiveIs ==
  ASSUME NEW f \in Texts, NEW j \in Plain
  PROVE  Effective(f)[j] = IF j \in DOMAIN f THEN f[j] ELSE DefaultSystemConfig[j]
<1>1. /\ \A k \in DOMAIN f : Effective(f)[k] = f[k]
      /\ \A k \in Plain \ DOMAIN f : Effective(f)[k] = DefaultSystemConfig[k]
  BY DefaultText, MergedText DEF Effective
<1> QED
  BY <1>1

\* What is in force after one setting was written.
LEMMA EffectiveOf ==
  ASSUME NEW f \in Texts, NEW g \in Texts, NEW k \in DOMAIN g,
         \A j : j # k => (j \in DOMAIN g <=> j \in DOMAIN f) /\ (j \in DOMAIN f => g[j] = f[j])
  PROVE  \A j \in Plain : Effective(g)[j] = IF j = k THEN g[k] ELSE Effective(f)[j]
<1>1. \A j \in Plain : Effective(g)[j] = IF j \in DOMAIN g THEN g[j] ELSE DefaultSystemConfig[j]
  BY EffectiveIs
<1>2. \A j \in Plain : Effective(f)[j] = IF j \in DOMAIN f THEN f[j] ELSE DefaultSystemConfig[j]
  BY EffectiveIs
<1> QED
  BY <1>1, <1>2

\* What the API answers.
LEMMA AnsweredText ==
  ASSUME NEW rows \in Texts
  PROVE  /\ GetSystemConfig(rows) \in Texts
         /\ \A k \in Plain : /\ k \in DOMAIN GetSystemConfig(rows)
                             /\ GetSystemConfig(rows)[k] = Effective(rows)[k]
<1> DEFINE S == DOMAIN DefaultSystemConfig \cup DOMAIN rows
<1>1. S \subseteq Settings /\ Plain \subseteq S
  BY DefaultText, TextsAre DEF Plain
<1>2. \A k \in S : Merged(DefaultSystemConfig, rows)[k] \in Values
  BY DefaultText, MergedText, TextsAre
<1>3. GetSystemConfig(rows) = [k \in S |-> IF k \in Secrets THEN Mask
                                           ELSE Merged(DefaultSystemConfig, rows)[k]]
  BY DEF GetSystemConfig
<1> HIDE DEF S
<1>4. GetSystemConfig(rows) \in [S -> Values]
  BY <1>2, <1>3 DEF Values
<1> QED
  BY <1>1, <1>3, <1>4, TextsAre DEF Plain, Effective

----------------------------------------------------------------------------
(* Types *)

\* The text of a form, or of a request, stays one.
LEMMA EditedText ==
  ASSUME NEW f \in Texts, NEW k \in DOMAIN f
  PROVE  /\ Restrict(f, DOMAIN f \ {k}) \in Texts
         /\ DOMAIN Restrict(f, DOMAIN f \ {k}) = DOMAIN f \ {k}
         /\ \A j \in DOMAIN f \ {k} : Restrict(f, DOMAIN f \ {k})[j] = f[j]
<1>1. Restrict(f, DOMAIN f \ {k}) = [j \in DOMAIN f \ {k} |-> f[j]]
  BY DEF Restrict
<1>2. Restrict(f, DOMAIN f \ {k}) \in [DOMAIN f \ {k} -> Values]
  BY <1>1, TextsAre
<1> QED
  BY <1>1, <1>2, TextsAre

LEMMA NoText == << >> \in Texts /\ DOMAIN << >> = {}
<1>1. DOMAIN << >> = {} /\ << >> \in [{} -> Values]
  OBVIOUS
<1> QED
  BY <1>1, TextsAre

CallRecord == [step : {"writing", "answer"}, of : Editors, left : SUBSET Settings,
               text : Texts, typed : SUBSET Settings, failed : BOOLEAN,
               behind : BOOLEAN, page : {"same", "another", "gone"}]

LEMMA FormTypes ==
  /\ EmptyForm \in Form
  /\ NoCall \in Call
  /\ \A W \in Call : W # NoCall <=> W \in CallRecord
  /\ \A W : W.step \in {"writing", "answer"} => W # NoCall
<1>1. << >> \in Texts
  BY NoText
<1>2. \A W \in CallRecord : W.step # "none"
  BY DEF CallRecord
<1>3. Call = {NoCall} \cup CallRecord
  BY DEF Call, CallRecord
<1>4. NoCall.step = "none"
  BY DEF NoCall
<1> QED
  BY <1>1, <1>2, <1>3, <1>4 DEF EmptyForm, Form

\* A request just sent.
LEMMA SendingTypes ==
  ASSUME NEW e \in Editors, NEW F \in Form
  PROVE  Sending(e, F) \in CallRecord
<1>1. F.text \in Texts /\ DOMAIN F.text \subseteq Settings
  BY TextsAre DEF Form
<1> QED
  BY <1>1 DEF Sending, CallRecord, Form

\* Requests whose page has got another text, or is gone, are otherwise as they were.
LEMMA LeavesAre ==
  ASSUME ConfigTypeOK, NEW e \in Editors, NEW n \in Calls, NEW page \in {"another", "gone"}
  PROVE  LET W == Leaves(e, page)[n] IN
         /\ W \in Call
         /\ W # NoCall => /\ call[n] # NoCall
                          /\ W.of = call[n].of /\ W.left = call[n].left /\ W.text = call[n].text
                          /\ W.typed = call[n].typed /\ W.behind = call[n].behind
                          /\ W.page = "same" => call[n].page = "same" /\ call[n].of # e
<1>1. call[n] \in Call /\ (call[n] # NoCall => call[n] \in CallRecord)
  BY FormTypes DEF ConfigTypeOK
<1>2. Leaves(e, page)[n] =
        IF call[n] # NoCall /\ call[n].of = e /\ call[n].page # "gone"
        THEN [call[n] EXCEPT !.page = page] ELSE call[n]
  BY DEF Leaves
<1>3. CASE call[n] # NoCall /\ call[n].of = e /\ call[n].page # "gone"
  <2> DEFINE W == [call[n] EXCEPT !.page = page]
  <2>1. /\ W \in CallRecord
        /\ W.of = call[n].of /\ W.left = call[n].left /\ W.text = call[n].text
        /\ W.typed = call[n].typed /\ W.behind = call[n].behind /\ W.page # "same"
    BY <1>1, <1>3 DEF CallRecord
  <2>2. W \in Call
    BY <2>1 DEF Call, CallRecord
  <2> HIDE DEF W
  <2> QED
    BY <1>2, <1>3, <2>1, <2>2 DEF W
<1>4. CASE ~(call[n] # NoCall /\ call[n].of = e /\ call[n].page # "gone")
  BY <1>1, <1>2, <1>4
<1> QED
  BY <1>3, <1>4

LEMMA ConfigInitType == ConfigInit => ConfigTypeOK
<1>1. << >> \in Texts
  BY NoText
<1> QED
  BY <1>1, FormTypes, EditsAssumption DEF ConfigInit, ConfigTypeOK

----------------------------------------------------------------------------
(* What the texts of pages and requests have to do with what is in force *)

\* A form or a request D that is not behind: of the settings nobody has typed into it, what it
\* has is in force.
UpToDate(D, rows) ==
  ~D.behind => \A k \in Plain \ D.typed : k \in DOMAIN D.text => D.text[k] = Effective(rows)[k]

\* Where nothing was typed into either, two texts are the same.
Agree(D, E) ==
  \A k \in Plain \ (D.typed \cup E.typed) :
    /\ k \in DOMAIN D.text <=> k \in DOMAIN E.text
    /\ k \in DOMAIN D.text => D.text[k] = E.text[k]

\* What is still to be written is part of what was sent.
Holds(W, rows) == W # NoCall => W.left \subseteq DOMAIN W.text /\ UpToDate(W, rows)

\* A request of the text that its page still edits, and two requests of one text.
SentFrom(W, e, F) ==
  W # NoCall /\ W.of = e /\ W.page = "same" => W.typed \subseteq F.typed /\ Agree(W, F)
Twins(W, V) ==
  W # NoCall /\ V # NoCall /\ W.of = V.of /\ W.page = "same" /\ V.page = "same" => Agree(W, V)

CallInv ==
  /\ \A n \in Calls : Holds(call[n], config)
  /\ \A e \in Editors, n \in Calls : SentFrom(call[n], e, forms[e])
  /\ \A n \in Calls, m \in Calls : Twins(call[n], call[m])
ConfigInv ==
  /\ ConfigTypeOK
  /\ \A e \in Editors : UpToDate(forms[e], config)
  /\ CallInv

LEMMA AgreementIsMutual == \A D, E : Agree(D, E) <=> Agree(E, D)
BY DEF Agree

\* A page is edited.
LEMMA EditKeeps ==
  ASSUME ConfigInv, NEW e \in Editors, NEW k \in Settings, NEW text \in Texts, Edits(e, k, text),
         \A j : j # k => (j \in DOMAIN text <=> j \in DOMAIN forms[e].text)
                         /\ (j \in DOMAIN text => text[j] = forms[e].text[j])
  PROVE  ConfigInv'
<1>1. forms[e] \in Form
  BY DEF ConfigInv, ConfigTypeOK
<1>2. /\ config' = config /\ call' = call
      /\ forms' = [forms EXCEPT ![e].text = text, ![e].typed = forms[e].typed \cup {k}]
  BY DEF Edits, ConfigInv, ConfigTypeOK
<1>3. /\ forms'[e].text = text /\ forms'[e].typed = forms[e].typed \cup {k}
      /\ forms'[e].behind = forms[e].behind
      /\ \A o \in Editors : o # e => forms'[o] = forms[o]
      /\ forms' \in [Editors -> Form]
  BY <1>1, <1>2 DEF ConfigInv, ConfigTypeOK, Form
<1>4. ConfigTypeOK'
  <2>1. edits' \in 0 .. MaxEdits
    BY EditsAssumption DEF Edits, ConfigInv, ConfigTypeOK
  <2> QED
    BY <1>2, <1>3, <2>1 DEF ConfigInv, ConfigTypeOK
<1>5. \A o \in Editors : UpToDate(forms'[o], config')
  BY <1>2, <1>3 DEF ConfigInv, UpToDate
<1>6. \A n \in Calls : SentFrom(call[n], e, forms'[e])
  <2> SUFFICES ASSUME NEW n \in Calls, call[n] # NoCall, call[n].of = e, call[n].page = "same"
               PROVE  call[n].typed \subseteq forms'[e].typed /\ Agree(call[n], forms'[e])
    BY DEF SentFrom
  <2>1. call[n].typed \subseteq forms[e].typed /\ Agree(call[n], forms[e])
    BY DEF ConfigInv, CallInv, SentFrom
  <2> QED
    BY <1>3, <2>1 DEF Agree
<1>7. CallInv'
  BY <1>2, <1>3, <1>6 DEF ConfigInv, CallInv
<1> QED
  BY <1>4, <1>5, <1>7 DEF ConfigInv

LEMMA PageKeeps ==
  ASSUME ConfigInv, NEW e \in Editors, NEW k \in Settings,
         StrikeOut(e, k) \/ \E v \in Typings : TypeValue(e, k, v)
  PROVE  ConfigInv'
<1>1. forms[e].text \in Texts
  BY DEF ConfigInv, ConfigTypeOK, Form
<1>2. ASSUME NEW v \in Typings, TypeValue(e, k, v)
      PROVE  ConfigInv'
  <2> DEFINE text == Merged(forms[e].text, One(k, v))
  <2>1. v \in Values
    BY DEF Values
  <2>2. /\ text \in Texts
        /\ \A j : j # k => (j \in DOMAIN text <=> j \in DOMAIN forms[e].text)
                           /\ (j \in DOMAIN forms[e].text => text[j] = forms[e].text[j])
    BY <1>1, <2>1, OneSetting
  <2>3. Edits(e, k, text)
    BY <1>2 DEF TypeValue, One
  <2> HIDE DEF text
  <2> QED
    BY <2>2, <2>3, EditKeeps
<1>3. CASE StrikeOut(e, k)
  <2> DEFINE text == Restrict(forms[e].text, DOMAIN forms[e].text \ {k})
  <2>1. k \in DOMAIN forms[e].text
    BY <1>3 DEF StrikeOut
  <2>2. /\ text \in Texts /\ DOMAIN text = DOMAIN forms[e].text \ {k}
        /\ \A j \in DOMAIN text : text[j] = forms[e].text[j]
    BY <1>1, <2>1, EditedText
  <2>3. Edits(e, k, text)
    BY <1>3 DEF StrikeOut
  <2> HIDE DEF text
  <2> QED
    BY <2>2, <2>3, EditKeeps
<1> QED
  BY <1>2, <1>3

\* A request of page e begins with the text F that the page has then; those under way are left
\* as they were, or their pages gone.
LEMMA RequestBegins ==
  ASSUME ConfigInv, NEW e \in Editors, NEW n \in Calls, NEW F \in Form, UpToDate(F, config),
         config' = config, edits' = edits,
         forms' = [forms EXCEPT ![e] = F], call'[n] = Sending(e, F),
         call' \in [Calls -> Call],
         \A m \in Calls \ {n} :
           call'[m] # NoCall => /\ call[m] # NoCall
                                /\ call'[m].of = call[m].of /\ call'[m].left = call[m].left
                                /\ call'[m].text = call[m].text /\ call'[m].typed = call[m].typed
                                /\ call'[m].behind = call[m].behind
                                /\ call'[m].page = "same" => call[m].page = "same",
         \A m \in Calls \ {n} : SentFrom(call'[m], e, F)
  PROVE  ConfigInv'
<1>1. ConfigTypeOK'
  BY DEF ConfigInv, ConfigTypeOK
<1>2. forms'[e] = F /\ \A o \in Editors : o # e => forms'[o] = forms[o]
  BY DEF ConfigInv, ConfigTypeOK
<1>3. \A o \in Editors : UpToDate(forms'[o], config')
  BY <1>2 DEF ConfigInv
<1> DEFINE N == Sending(e, F)
<1>4. /\ N.of = e /\ N.left = DOMAIN N.text /\ N.text = F.text /\ N.typed = F.typed
      /\ N.behind = F.behind
  BY DEF Sending
<1> HIDE DEF N
<1>5. call'[n] = N
  BY DEF N
<1>6. \A m \in Calls : Holds(call'[m], config')
  <2>1. UpToDate(N, config)
    BY <1>4 DEF UpToDate
  <2>2. ASSUME NEW m \in Calls, m # n
        PROVE  Holds(call'[m], config')
    <3>1. Holds(call[m], config)
      BY DEF ConfigInv, CallInv
    <3> QED
      BY <2>2, <3>1 DEF Holds, UpToDate
  <2> QED
    BY <1>4, <1>5, <2>1, <2>2 DEF Holds
<1>7. \A o \in Editors, m \in Calls : SentFrom(call'[m], o, forms'[o])
  <2> SUFFICES ASSUME NEW o \in Editors, NEW m \in Calls
               PROVE  SentFrom(call'[m], o, forms'[o])
    OBVIOUS
  <2>1. CASE m = n
    BY <1>2, <1>4, <1>5, <2>1 DEF SentFrom, Agree
  <2>2. CASE m # n /\ o = e
    BY <1>2, <2>2
  <2>3. CASE m # n /\ o # e
    <3>1. SentFrom(call[m], o, forms[o])
      BY DEF ConfigInv, CallInv
    <3> QED
      BY <1>2, <2>3, <3>1 DEF SentFrom, Agree
  <2> QED
    BY <2>1, <2>2, <2>3
<1>8. \A m \in Calls, l \in Calls : Twins(call'[m], call'[l])
  <2>1. ASSUME NEW m \in Calls, m # n
        PROVE  Twins(call'[m], N) /\ Twins(N, call'[m])
    <3> SUFFICES ASSUME call'[m] # NoCall, call'[m].of = e, call'[m].page = "same"
                 PROVE  Agree(call'[m], N)
      BY <1>4, AgreementIsMutual DEF Twins
    <3>1. Agree(call'[m], F)
      BY <2>1 DEF SentFrom
    <3> QED
      BY <1>4, <3>1 DEF Agree
  <2>2. ASSUME NEW m \in Calls, NEW l \in Calls, m # n, l # n
        PROVE  Twins(call'[m], call'[l])
    <3>1. Twins(call[m], call[l])
      BY DEF ConfigInv, CallInv
    <3> QED
      BY <2>2, <3>1 DEF Twins, Agree
  <2>3. Twins(N, N)
    BY DEF Twins, Agree
  <2> QED
    BY <1>5, <2>1, <2>2, <2>3
<1> QED
  BY <1>1, <1>3, <1>6, <1>7, <1>8 DEF ConfigInv, CallInv

LEMMA RequestsKeep ==
  ASSUME ConfigInv, NEW e \in Editors, NEW n \in Calls, Reopen(e, n) \/ SaveConfig(e, n)
  PROVE  ConfigInv'
<1>1. forms[e] \in Form /\ EmptyForm \in Form /\ call \in [Calls -> Call]
  BY FormTypes DEF ConfigInv, ConfigTypeOK
<1>2. \A F \in Form : Sending(e, F) \in Call
  BY SendingTypes, FormTypes DEF Call, CallRecord
<1>3. CASE SaveConfig(e, n)
  <2>1. /\ call' = [call EXCEPT ![n] = Sending(e, forms[e])]
        /\ config' = config /\ edits' = edits /\ forms' = forms
    BY <1>3 DEF SaveConfig
  <2>2. /\ call' \in [Calls -> Call] /\ call'[n] = Sending(e, forms[e])
        /\ \A m \in Calls \ {n} : call'[m] = call[m]
    BY <1>1, <1>2, <2>1
  <2>3. forms' = [forms EXCEPT ![e] = forms[e]]
    BY <2>1 DEF ConfigInv, ConfigTypeOK
  <2>4. /\ UpToDate(forms[e], config)
        /\ \A m \in Calls \ {n} : SentFrom(call'[m], e, forms[e])
    BY <2>2 DEF ConfigInv, CallInv
  <2> QED
    BY <1>1, <2>1, <2>2, <2>3, <2>4, RequestBegins
<1>4. CASE Reopen(e, n)
  <2> DEFINE L == Leaves(e, "gone")
  <2>1. /\ call' = [L EXCEPT ![n] = Sending(e, EmptyForm)]
        /\ config' = config /\ edits' = edits /\ forms' = [forms EXCEPT ![e] = EmptyForm]
    BY <1>4 DEF Reopen
  <2>2. \A m \in Calls :
          /\ L[m] \in Call
          /\ L[m] # NoCall => /\ call[m] # NoCall
                              /\ L[m].of = call[m].of /\ L[m].left = call[m].left
                              /\ L[m].text = call[m].text /\ L[m].typed = call[m].typed
                              /\ L[m].behind = call[m].behind
                              /\ L[m].page = "same" => call[m].page = "same" /\ call[m].of # e
    BY LeavesAre DEF ConfigInv
  <2>3. DOMAIN L = Calls
    BY DEF Leaves
  <2>4. L = [m \in Calls |-> L[m]]
    BY DEF Leaves
  <2> HIDE DEF L
  <2>5. /\ call' \in [Calls -> Call] /\ call'[n] = Sending(e, EmptyForm)
        /\ \A m \in Calls \ {n} : call'[m] = L[m]
    BY <1>1, <1>2, <2>1, <2>2, <2>4
  <2>6. UpToDate(EmptyForm, config)
    BY NoText DEF UpToDate, EmptyForm
  <2>7. \A m \in Calls \ {n} : SentFrom(call'[m], e, EmptyForm)
    BY <2>2, <2>5 DEF SentFrom
  <2>8. \A m \in Calls \ {n} :
          call'[m] # NoCall => /\ call[m] # NoCall
                               /\ call'[m].of = call[m].of /\ call'[m].left = call[m].left
                               /\ call'[m].text = call[m].text /\ call'[m].typed = call[m].typed
                               /\ call'[m].behind = call[m].behind
                               /\ call'[m].page = "same" => call[m].page = "same"
    BY <2>2, <2>5
  <2> QED
    BY <1>1, <2>1, <2>5, <2>6, <2>7, <2>8, RequestBegins
<1> QED
  BY <1>3, <1>4

\* One request goes on, without writing, and the pages stay as they are.
LEMMA RequestGoesOn ==
  ASSUME ConfigInv, NEW n \in Calls, NEW W \in Call, call' = [call EXCEPT ![n] = W],
         UNCHANGED <<config, forms, edits>>,
         Holds(W, config),
         W # NoCall /\ W.page = "same" =>
           /\ call[n] # NoCall /\ call[n].page = "same" /\ W.of = call[n].of
           /\ W.text = call[n].text /\ W.typed = call[n].typed
  PROVE  ConfigInv'
<1>1. ConfigTypeOK' /\ call'[n] = W /\ \A m \in Calls : m # n => call'[m] = call[m]
  BY DEF ConfigInv, ConfigTypeOK
<1>2. /\ \A m \in Calls : Holds(call'[m], config')
      /\ \A e \in Editors : UpToDate(forms'[e], config')
  BY <1>1 DEF ConfigInv, CallInv
<1>3. \A e \in Editors, m \in Calls : SentFrom(call'[m], e, forms'[e])
  <2>1. \A e \in Editors : SentFrom(call[n], e, forms[e]) => SentFrom(W, e, forms[e])
    BY DEF SentFrom, Agree
  <2> QED
    BY <1>1, <2>1 DEF ConfigInv, CallInv
<1>4. \A m \in Calls, l \in Calls : Twins(call'[m], call'[l])
  <2>1. \A m \in Calls : /\ Twins(call[n], call[m]) => Twins(W, call[m])
                         /\ Twins(call[m], call[n]) => Twins(call[m], W)
    BY DEF Twins, Agree
  <2>2. Twins(W, W)
    BY DEF Twins, Agree
  <2> QED
    BY <1>1, <2>1, <2>2 DEF ConfigInv, CallInv
<1> QED
  BY <1>1, <1>2, <1>3, <1>4 DEF ConfigInv, CallInv

LEMMA CallsGoOn ==
  ASSUME ConfigInv, NEW n \in Calls,
         \/ ReadConfig(n) \/ Unanswered(n)
         \/ \E k \in Settings : SettingFails(n, k)
  PROVE  ConfigInv'
<1>1. /\ call[n] \in CallRecord \/ call[n] = NoCall
      /\ Holds(call[n], config) /\ config \in Texts
      /\ call[n].step = "writing" => call[n] # NoCall
  BY FormTypes DEF ConfigInv, ConfigTypeOK, CallInv
<1>2. CASE Unanswered(n)
  <2>1. call' = [call EXCEPT ![n] = NoCall] /\ UNCHANGED <<config, forms, edits>>
    BY <1>2 DEF Unanswered
  <2>2. NoCall \in Call /\ Holds(NoCall, config)
    BY FormTypes DEF Holds
  <2> QED
    BY <2>1, <2>2, RequestGoesOn
<1>3. CASE ReadConfig(n)
  <2> DEFINE W == [call[n] EXCEPT !.step = "answer", !.text = GetSystemConfig(config),
                                  !.typed = {}, !.behind = FALSE,
                                  !.page = IF call[n].page = "gone" THEN call[n].page ELSE "another"]
  <2>1. call[n] \in CallRecord /\ call[n].left = {}
    BY <1>1, <1>3 DEF ReadConfig
  <2>2. /\ GetSystemConfig(config) \in Texts
        /\ \A k \in Plain : GetSystemConfig(config)[k] = Effective(config)[k]
    BY <1>1, AnsweredText
  <2>3. /\ W \in CallRecord /\ W.left = {} /\ W.text = GetSystemConfig(config)
        /\ W.page # "same"
    BY <2>1, <2>2 DEF CallRecord
  <2>4. call' = [call EXCEPT ![n] = W] /\ UNCHANGED <<config, forms, edits>>
    BY <1>3, <2>1 DEF ReadConfig, CallRecord, ConfigInv, ConfigTypeOK
  <2> HIDE DEF W
  <2>5. W \in Call /\ Holds(W, config)
    BY <2>2, <2>3 DEF Holds, UpToDate, Call, CallRecord
  <2> QED
    BY <2>3, <2>4, <2>5, RequestGoesOn
<1>4. ASSUME NEW k \in Settings, SettingFails(n, k)
      PROVE  ConfigInv'
  <2> DEFINE W == [call[n] EXCEPT !.left = call[n].left \ {k}, !.failed = TRUE]
  <2>1. call[n] # NoCall /\ call[n] \in CallRecord
    BY <1>1, <1>4 DEF SettingFails
  <2>2. /\ W \in CallRecord /\ W.left \subseteq call[n].left /\ W.text = call[n].text
        /\ W.typed = call[n].typed /\ W.behind = call[n].behind /\ W.of = call[n].of
        /\ W.page = call[n].page
    BY <2>1 DEF CallRecord
  <2>3. call' = [call EXCEPT ![n] = W] /\ UNCHANGED <<config, forms, edits>>
    BY <1>4, <2>1 DEF SettingFails, CallRecord, ConfigInv, ConfigTypeOK
  <2> HIDE DEF W
  <2>4. W \in Call /\ Holds(W, config)
    BY <1>1, <2>1, <2>2 DEF Holds, UpToDate, Call, CallRecord
  <2> QED
    BY <2>1, <2>2, <2>3, <2>4, RequestGoesOn
<1> QED
  BY <1>2, <1>3, <1>4

\* A page gets its answer, and what was sent from its text before is another one's.
LEMMA AnswersKeep ==
  ASSUME ConfigInv, NEW n \in Calls, Answered(n)
  PROVE  ConfigInv'
<1> DEFINE e == call[n].of
<1>1. call[n] \in CallRecord /\ call[n] # NoCall /\ Holds(call[n], config)
  BY FormTypes DEF Answered, ConfigInv, ConfigTypeOK, CallInv
<1>2. e \in Editors
  BY <1>1 DEF CallRecord
<1>3. CASE call[n].page = "gone"
  <2>1. call' = [call EXCEPT ![n] = NoCall] /\ UNCHANGED <<config, forms, edits>>
    BY <1>3 DEF Answered
  <2>2. NoCall \in Call /\ Holds(NoCall, config)
    BY FormTypes DEF Holds
  <2> QED
    BY <2>1, <2>2, RequestGoesOn
<1>4. CASE call[n].page # "gone"
  <2> DEFINE F == [text |-> call[n].text, typed |-> call[n].typed, behind |-> call[n].behind]
             L == Leaves(e, "another")
  <2>1. /\ forms' = [forms EXCEPT ![e] = F] /\ call' = [L EXCEPT ![n] = NoCall]
        /\ config' = config /\ edits' = edits
    BY <1>4 DEF Answered
  <2>2. \A m \in Calls :
          /\ L[m] \in Call
          /\ L[m] # NoCall => /\ call[m] # NoCall
                              /\ L[m].of = call[m].of /\ L[m].left = call[m].left
                              /\ L[m].text = call[m].text /\ L[m].typed = call[m].typed
                              /\ L[m].behind = call[m].behind
                              /\ L[m].page = "same" => call[m].page = "same" /\ call[m].of # e
    BY <1>2, LeavesAre DEF ConfigInv
  <2>3. L = [m \in Calls |-> L[m]]
    BY DEF Leaves
  <2>4. F \in Form /\ UpToDate(F, config)
    BY <1>1 DEF CallRecord, Form, Holds, UpToDate
  <2> HIDE DEF L, F
  <2>5. /\ call' \in [Calls -> Call] /\ call'[n] = NoCall
        /\ \A m \in Calls : m # n => call'[m] = L[m]
    BY <2>1, <2>2, <2>3, FormTypes
  <2>6. forms'[e] = F /\ (\A o \in Editors : o # e => forms'[o] = forms[o])
        /\ forms' \in [Editors -> Form]
    BY <1>2, <2>1, <2>4 DEF ConfigInv, ConfigTypeOK
  <2>7. ConfigTypeOK'
    BY <2>1, <2>5, <2>6 DEF ConfigInv, ConfigTypeOK
  <2>8. \A o \in Editors : UpToDate(forms'[o], config')
    BY <2>1, <2>4, <2>6 DEF ConfigInv
  <2>9. \A m \in Calls : Holds(call'[m], config')
    <3>1. \A m \in Calls : Holds(call[m], config)
      BY DEF ConfigInv, CallInv
    <3> QED
      BY <2>1, <2>2, <2>5, <3>1 DEF Holds, UpToDate
  <2>10. \A o \in Editors, m \in Calls : SentFrom(call'[m], o, forms'[o])
    <3> SUFFICES ASSUME NEW o \in Editors, NEW m \in Calls,
                        call'[m] # NoCall, call'[m].of = o, call'[m].page = "same"
                 PROVE  call'[m].typed \subseteq forms'[o].typed /\ Agree(call'[m], forms'[o])
      BY DEF SentFrom
    <3>1. m # n /\ call'[m] = L[m] /\ o # e
      BY <2>2, <2>5
    <3>2. SentFrom(call[m], o, forms[o])
      BY DEF ConfigInv, CallInv
    <3> QED
      BY <2>2, <2>6, <3>1, <3>2 DEF SentFrom, Agree
  <2>11. \A m \in Calls, l \in Calls : Twins(call'[m], call'[l])
    <3> SUFFICES ASSUME NEW m \in Calls, NEW l \in Calls,
                        call'[m] # NoCall, call'[l] # NoCall, call'[m].of = call'[l].of,
                        call'[m].page = "same", call'[l].page = "same"
                 PROVE  Agree(call'[m], call'[l])
      BY DEF Twins
    <3>1. Twins(call[m], call[l]) /\ m # n /\ l # n
      BY <2>5 DEF ConfigInv, CallInv
    <3> QED
      BY <2>2, <2>5, <3>1 DEF Twins, Agree
  <2> QED
    BY <2>7, <2>8, <2>9, <2>10, <2>11 DEF ConfigInv, CallInv
<1> QED
  BY <1>3, <1>4

----------------------------------------------------------------------------
(* Writing *)

\* What a write of setting k by save n leaves: k is in force as the save has it, the rest as
\* before.
LEMMA WrittenIs ==
  ASSUME ConfigInv, NEW n \in Calls, NEW k \in Settings, WriteSetting(n, k)
  PROVE  /\ config' \in Texts
         /\ call[n] \in CallRecord /\ call[n] # NoCall /\ k \in DOMAIN call[n].text
         /\ \A j \in Plain : Effective(config')[j] = IF j = k THEN call[n].text[k]
                                                     ELSE Effective(config)[j]
<1> DEFINE v == call[n].text[k]
<1>1. call[n] \in CallRecord /\ call[n] # NoCall /\ config \in Texts
  BY FormTypes DEF ConfigInv, ConfigTypeOK, WriteSetting
<1>2. k \in DOMAIN call[n].text
  BY <1>1 DEF WriteSetting, ConfigInv, CallInv, Holds
<1>3. v \in Values
  BY <1>1, <1>2, TextsAre DEF CallRecord
<1>4. config' = Merged(config, One(k, v))
  BY DEF WriteSetting, One
<1> HIDE DEF v
<1>5. /\ config' \in Texts
      /\ k \in DOMAIN config' /\ config'[k] = v
      /\ \A j : j # k => /\ j \in DOMAIN config' <=> j \in DOMAIN config
                         /\ j \in DOMAIN config => config'[j] = config[j]
  BY <1>1, <1>3, <1>4, OneSetting
<1>6. \A j \in Plain : Effective(config')[j] = IF j = k THEN v ELSE Effective(config)[j]
  BY <1>1, <1>5, EffectiveOf
<1> QED
  BY <1>1, <1>2, <1>5, <1>6 DEF v

\* A save that is not behind leaves in force what was not typed into it.
LEMMA WriteKeeps ==
  ASSUME ConfigInv, NEW n \in Calls, NEW k \in Settings, WriteSetting(n, k),
         ~call[n].behind, k \in Plain \ call[n].typed
  PROVE  Effective(config')[k] = Effective(config)[k]
<1>1. call[n].text[k] = Effective(config)[k]
  BY WrittenIs DEF ConfigInv, CallInv, Holds, UpToDate
<1> QED
  BY <1>1, WrittenIs

\* What the write does to the forms and the other requests.
LEMMA WriteMarks ==
  ASSUME ConfigInv, NEW n \in Calls, NEW k \in Settings, WriteSetting(n, k)
  PROVE  /\ \A o \in Editors :
              /\ forms'[o] \in Form
              /\ forms'[o].text = forms[o].text /\ forms'[o].typed = forms[o].typed
              /\ forms'[o].behind = (forms[o].behind \/ Beside(n, o, "same", forms[o].typed))
         /\ \A m \in Calls :
              /\ call'[m] \in Call
              /\ call'[m] # NoCall => /\ call[m] # NoCall
                                      /\ call'[m].of = call[m].of /\ call'[m].text = call[m].text
                                      /\ call'[m].typed = call[m].typed
                                      /\ call'[m].left \subseteq call[m].left
                                      /\ call'[m].page = call[m].page
              /\ m = n => call'[m].behind = call[m].behind
              /\ m # n /\ call'[m] # NoCall =>
                   call'[m].behind = (call[m].behind \/ Beside(n, call[m].of, call[m].page,
                                                               call[m].typed))
<1>1. call[n] \in CallRecord /\ call[n] # NoCall
  BY WrittenIs
<1>2. ASSUME NEW o \in Editors
      PROVE  /\ forms'[o] \in Form
             /\ forms'[o].text = forms[o].text /\ forms'[o].typed = forms[o].typed
             /\ forms'[o].behind = (forms[o].behind \/ Beside(n, o, "same", forms[o].typed))
  <2> DEFINE b == forms[o].behind \/ Beside(n, o, "same", forms[o].typed)
  <2>1. b \in BOOLEAN
    BY DEF Beside, ConfigInv, ConfigTypeOK, Form
  <2>2. forms'[o] = [forms[o] EXCEPT !.behind = b] /\ forms[o] \in Form
    BY DEF WriteSetting, ConfigInv, ConfigTypeOK
  <2> HIDE DEF b
  <2>3. /\ forms'[o] \in Form /\ forms'[o].behind = b
        /\ forms'[o].text = forms[o].text /\ forms'[o].typed = forms[o].typed
    BY <2>1, <2>2 DEF Form
  <2> QED
    BY <2>3 DEF b
<1>3. call'[n] = [call[n] EXCEPT !.left = call[n].left \ {k}]
  BY DEF WriteSetting
<1>4. /\ call'[n] \in CallRecord
      /\ call'[n].of = call[n].of /\ call'[n].text = call[n].text
      /\ call'[n].typed = call[n].typed /\ call'[n].left \subseteq call[n].left
      /\ call'[n].page = call[n].page /\ call'[n].behind = call[n].behind
  BY <1>1, <1>3 DEF CallRecord
<1>5. ASSUME NEW m \in Calls, m # n, call[m] # NoCall
      PROVE  /\ call'[m] \in CallRecord
             /\ call'[m].of = call[m].of /\ call'[m].text = call[m].text
             /\ call'[m].typed = call[m].typed /\ call'[m].left = call[m].left
             /\ call'[m].page = call[m].page
             /\ call'[m].behind = (call[m].behind \/ Beside(n, call[m].of, call[m].page,
                                                            call[m].typed))
  <2> DEFINE b == call[m].behind \/ Beside(n, call[m].of, call[m].page, call[m].typed)
  <2>1. call[m] \in CallRecord
    BY <1>5, FormTypes DEF ConfigInv, ConfigTypeOK
  <2>2. b \in BOOLEAN
    BY <2>1 DEF Beside, CallRecord
  <2>3. call'[m] = [call[m] EXCEPT !.behind = b]
    BY <1>5 DEF WriteSetting
  <2> HIDE DEF b
  <2>4. /\ call'[m] \in CallRecord /\ call'[m].behind = b
        /\ call'[m].of = call[m].of /\ call'[m].text = call[m].text
        /\ call'[m].typed = call[m].typed /\ call'[m].left = call[m].left
        /\ call'[m].page = call[m].page
    BY <2>1, <2>2, <2>3 DEF CallRecord
  <2> QED
    BY <2>4 DEF b
<1>6. \A m \in Calls : m # n /\ call[m] = NoCall => call'[m] = NoCall
  BY DEF WriteSetting
<1>7. CallRecord \subseteq Call /\ NoCall \in Call
  BY FormTypes DEF Call, CallRecord
<1> QED
  BY <1>1, <1>2, <1>4, <1>5, <1>6, <1>7

\* A text D that the write was not beside has what it writes, unless D was typed over there.
LEMMA NotBeside ==
  ASSUME ConfigInv, NEW n \in Calls, NEW k \in Settings, WriteSetting(n, k),
         NEW D, NEW E, E.text = D.text, E.typed = D.typed, ~E.behind => ~D.behind,
         UpToDate(D, config),
         call[n].typed \subseteq D.typed /\ Agree(call[n], D)
  PROVE  UpToDate(E, config')
<1> SUFFICES ASSUME ~D.behind, NEW j \in Plain \ D.typed, j \in DOMAIN D.text
             PROVE  D.text[j] = Effective(config')[j]
  BY DEF UpToDate
<1>1. D.text[j] = Effective(config)[j]
  BY DEF UpToDate
<1>2. call[n].text[k] = D.text[k] \/ j # k
  BY WrittenIs DEF Agree
<1> QED
  BY <1>1, <1>2, WrittenIs

LEMMA WriteFits ==
  ASSUME ConfigInv, NEW n \in Calls, NEW k \in Settings, WriteSetting(n, k)
  PROVE  ConfigInv'
<1>1. call[n] \in CallRecord /\ call[n] # NoCall
  BY WrittenIs
<1>2. ConfigTypeOK'
  <2>1. forms' = [o \in Editors |-> forms'[o]] /\ call' = [m \in Calls |-> call'[m]]
    BY DEF WriteSetting
  <2>2. forms' \in [Editors -> Form] /\ call' \in [Calls -> Call]
    BY <2>1, WriteMarks
  <2> QED
    BY <2>2, WrittenIs DEF WriteSetting, ConfigInv, ConfigTypeOK
<1>3. ASSUME NEW o \in Editors
      PROVE  UpToDate(forms'[o], config')
  <2>1. CASE Beside(n, o, "same", forms[o].typed)
    BY <2>1, WriteMarks DEF UpToDate
  <2>2. CASE ~Beside(n, o, "same", forms[o].typed)
    <3>1. call[n].typed \subseteq forms[o].typed /\ Agree(call[n], forms[o])
      BY <1>1, <2>2 DEF Beside, ConfigInv, CallInv, SentFrom
    <3>2. UpToDate(forms[o], config)
      BY DEF ConfigInv
    <3> QED
      BY <3>1, <3>2, WriteMarks, NotBeside
  <2> QED
    BY <2>1, <2>2
<1>4. ASSUME NEW m \in Calls
      PROVE  Holds(call'[m], config')
  <2> SUFFICES ASSUME call'[m] # NoCall
               PROVE  call'[m].left \subseteq DOMAIN call'[m].text /\ UpToDate(call'[m], config')
    BY DEF Holds
  <2>1. call[m] # NoCall /\ call[m].left \subseteq DOMAIN call[m].text /\ UpToDate(call[m], config)
    BY WriteMarks DEF ConfigInv, CallInv, Holds
  <2>2. CASE m = n
    <3>1. Agree(call[n], call[n])
      BY DEF Agree
    <3> QED
      BY <2>1, <2>2, <3>1, WriteMarks, NotBeside
  <2>3. CASE m # n /\ Beside(n, call[m].of, call[m].page, call[m].typed)
    BY <2>1, <2>3, WriteMarks DEF UpToDate
  <2>4. CASE m # n /\ ~Beside(n, call[m].of, call[m].page, call[m].typed)
    <3>1. call[n].typed \subseteq call[m].typed /\ Agree(call[n], call[m])
      BY <1>1, <2>1, <2>4 DEF Beside, ConfigInv, CallInv, Twins
    <3> QED
      BY <2>1, <2>4, <3>1, WriteMarks, NotBeside
  <2> QED
    BY <2>2, <2>3, <2>4
<1>5. ASSUME NEW o \in Editors, NEW m \in Calls
      PROVE  SentFrom(call'[m], o, forms'[o])
  <2>1. SentFrom(call[m], o, forms[o])
    BY DEF ConfigInv, CallInv
  <2> QED
    BY <2>1, WriteMarks DEF SentFrom, Agree
<1>6. ASSUME NEW m \in Calls, NEW l \in Calls
      PROVE  Twins(call'[m], call'[l])
  <2>1. Twins(call[m], call[l])
    BY DEF ConfigInv, CallInv
  <2> QED
    BY <2>1, WriteMarks DEF Twins, Agree
<1> QED
  BY <1>2, <1>3, <1>4, <1>5, <1>6 DEF ConfigInv, CallInv

----------------------------------------------------------------------------
LEMMA ConfigInitInv == ConfigInit => ConfigInv
<1> SUFFICES ASSUME ConfigInit
             PROVE  ConfigInv
  OBVIOUS
<1>1. (\A e \in Editors : forms[e] = EmptyForm) /\ \A n \in Calls : call[n] = NoCall
  BY DEF ConfigInit
<1>2. \A e \in Editors : UpToDate(forms[e], config)
  BY <1>1, NoText DEF UpToDate, EmptyForm
<1>3. CallInv
  BY <1>1 DEF CallInv, Holds, SentFrom, Twins
<1> QED
  BY <1>2, <1>3, ConfigInitType DEF ConfigInv

LEMMA ConfigNextInv == ConfigInv /\ [ConfigNext]_configVars => ConfigInv'
<1> SUFFICES ASSUME ConfigInv, [ConfigNext]_configVars
             PROVE  ConfigInv'
  OBVIOUS
<1>1. CASE UNCHANGED configVars
  BY <1>1 DEF configVars, ConfigInv, ConfigTypeOK, CallInv
<1> QED
  BY <1>1, PageKeeps, RequestsKeep, CallsGoOn, AnswersKeep, WriteFits DEF ConfigNext

\* A step of Access is one of the configuration, or leaves it alone.
LEMMA ConfigKept == [Next]_accessVars => [ConfigNext]_configVars
BY DEF Next, KeepsAccounts, KeepsASession, KeepsTheConfig, accessVars, configVars

\* However saves of several administrators, and several of one page, overlap and fail half-way,
\* and whatever they type and strike out, a save writes over what is in force only where its
\* administrator meant to, or where it is behind: where a save has written beside it, or since
\* its page was answered, that was not an earlier one of the same text.
THEOREM SavesAlwaysKeepTheRest == Spec => SavesKeepTheRest
<1>1. Init => ConfigInv
  BY ConfigInitInv DEF Init
<1>2. ConfigInv /\ [Next]_accessVars => ConfigInv'
  BY ConfigKept, ConfigNextInv
<1>3. ConfigInv /\ [Next]_accessVars =>
        [\A n \in Calls, k \in Settings \ Secrets :
           WriteSetting(n, k) /\ ~call[n].behind /\ k \notin call[n].typed
           => Merged(DefaultSystemConfig, config')[k]
                = Merged(DefaultSystemConfig, config)[k]]_configVars
  BY WriteKeeps DEF Effective, Plain
<1> QED
  BY <1>1, <1>2, <1>3, PTL DEF Spec, SavesKeepTheRest

----------------------------------------------------------------------------
\* Every reachable row, token, request, form and answer of the three parts has its type.
THEOREM TypeCorrect == Spec => []TypeOK
<1>1. Init => AccountsInv /\ SessionInv /\ ConfigInv
  BY InitInv, SessionInitInv, ConfigInitInv DEF Init
<1>2. AccountsInv /\ SessionInv /\ ConfigInv /\ [Next]_accessVars
        => AccountsInv' /\ SessionInv' /\ ConfigInv'
  <2>1. [Next]_accessVars => [SessionNext]_sessionVars
    BY DEF Next, KeepsAccounts, KeepsASession, KeepsTheConfig, accessVars, sessionVars
  <2> QED
    BY <2>1, AccessStep, ConfigKept, NextInv, SessionNextInv, ConfigNextInv
<1>3. AccountsInv /\ SessionInv /\ ConfigInv => TypeOK
  BY DEF AccountsInv, SessionInv, ConfigInv, TypeOK
<1> QED
  BY <1>1, <1>2, <1>3, PTL DEF Spec
=============================================================================
