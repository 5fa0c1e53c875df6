------------------------------ MODULE Accounts ------------------------------
(***************************************************************************)
(* Who may use the API: the rows of administrators and users, the tokens   *)
(* signed for them (admin.service.ts, auth.service.ts) and the guards that *)
(* let a token in (jwt-admin.guard.ts, jwt-user.guard.ts).  A request is   *)
(* the statements it still has to run, with what it read before them.      *)
(*                                                                         *)
(* Not represented: passwords beyond being right, profiles, the values of  *)
(* the system configuration, and the lists that are only read.             *)
(***************************************************************************)
EXTENDS Naturals, FiniteSets

CONSTANTS
    Admins,      \* usernames of administrators
    Bootstrap,   \* the one the environment names, created by its first login
    Users,       \* openids
    Keys,        \* keys of the system configuration
    HighRisk,    \* HIGH_RISK_KEYS among them
    Requests,    \* how many requests the server handles at once, as slots
    MaxChanges,  \* bound: what administrators change, empty configurations too
    MaxFaults    \* bound: requests that fail between two statements

ASSUME AdminsAssumption == IsFiniteSet(Admins) /\ Bootstrap \in Admins
ASSUME KeysAssumption == HighRisk \subseteq Keys
ASSUME BoundsAssumption == MaxChanges \in Nat /\ MaxFaults \in Nat

VARIABLES
    admins,   \* the rows of adminUser
    users,    \* the status of the rows of user
    tokens,   \* the tokens signed and not expired
    changes,  \* how many requests of administrators have written something, and how many
              \* of the configuration had nothing to write
    audits,   \* the number of rows of adminAuditLog
    req,      \* what each request is about to do
    faults,   \* requests that failed half-way
    raced     \* history: two requests were about to disable a super administrator

accountsVars == <<admins, users, tokens, changes, audits, req, faults, raced>>

----------------------------------------------------------------------------
(* Rows and tokens *)

Role == {"SUPER_ADMIN", "ADMIN", "OPERATOR", "AUDITOR"}
AdminStatus == {"NORMAL", "DISABLED"}
UserStatus == {"NORMAL", "BANNED"}

NoAdmin == [role |-> "NONE", status |-> "NONE"]
AdminRow == [role : Role, status : AdminStatus]

\* What the two services sign.
AdminClaims(a, role) == [type |-> "ADMIN", sub |-> a, role |-> role]
UserClaims(u) == [type |-> "USER", sub |-> u]
Token == {AdminClaims(a, role) : a \in Admins, role \in Role} \cup {UserClaims(u) : u \in Users}

\* The guards look at the token alone, never at the row of its subject.
JwtAdminGuard(t) == t \in tokens /\ t.type = "ADMIN"
JwtUserGuard(t) == t \in tokens /\ t.type = "USER"

Registered(a) == admins[a] # NoAdmin
SuperAdmins == {a \in Admins : admins[a] = [role |-> "SUPER_ADMIN", status |-> "NORMAL"]}

Idle == [op |-> "idle"]
Request == {Idle}
    \cup [op : {"bootstrap", "count"}, admin : Admins]
    \cup [op : {"insert"}, admin : Admins, role : Role]
    \cup [op : {"set"}, admin : Admins, status : AdminStatus]
    \cup [op : {"upsert"}, user : Users, found : BOOLEAN]
    \cup [op : {"config"}, left : SUBSET Keys, written : BOOLEAN]
    \cup [op : {"sign"}, token : Token]
    \cup [op : {"audit"}]

----------------------------------------------------------------------------
(* Requests *)

Begins(r, q) == req[r] = Idle /\ req' = [req EXCEPT ![r] = q]
Goes(r, q) == req' = [req EXCEPT ![r] = q]
Audit == [op |-> "audit"]
Changes == changes < MaxChanges /\ changes' = changes + 1

\* About to disable a super administrator, all checks behind it.
Disabling(q) == q.op = "set" /\ q.status = "DISABLED" /\ admins[q.admin].role = "SUPER_ADMIN"

AccountsInit ==
    /\ admins = [a \in Admins |-> NoAdmin]
    /\ users = [u \in Users |-> "NONE"]
    /\ tokens = {}
    /\ changes = 0 /\ audits = 0 /\ faults = 0
    /\ req = [r \in Requests |-> Idle]
    /\ raced = FALSE

\* Faulty: a disabled administrator is let in.
LoginOfAnyone(r, a) ==
    /\ \/ /\ Registered(a)
          /\ Begins(r, [op |-> "sign", token |-> AdminClaims(a, admins[a].role)])
       \/ /\ ~Registered(a) /\ a = Bootstrap
          /\ Begins(r, [op |-> "bootstrap", admin |-> a])
    /\ UNCHANGED <<admins, users, tokens, changes, audits, faults, raced>>

\* With the right password; the row is read once, before the password is compared.
Login(r, a) ==
    /\ \/ /\ admins[a].status = "NORMAL"
          /\ Begins(r, [op |-> "sign", token |-> AdminClaims(a, admins[a].role)])
       \/ /\ ~Registered(a) /\ a = Bootstrap
          /\ Begins(r, [op |-> "bootstrap", admin |-> a])
    /\ UNCHANGED <<admins, users, tokens, changes, audits, faults, raced>>

\* A username is unique: the second insert fails.
BootstrapAdmin(r) ==
    /\ req[r].op = "bootstrap"
    /\ LET a == req[r].admin IN
       IF Registered(a) THEN Goes(r, Idle) /\ UNCHANGED admins
       ELSE /\ admins' = [admins EXCEPT ![a] = [role |-> "SUPER_ADMIN", status |-> "NORMAL"]]
            /\ Goes(r, [op |-> "sign", token |-> AdminClaims(a, "SUPER_ADMIN")])
    /\ UNCHANGED <<users, tokens, changes, audits, faults, raced>>

Sign(r) ==
    /\ req[r].op = "sign"
    /\ tokens' = tokens \cup {req[r].token}
    /\ Goes(r, Idle)
    /\ UNCHANGED <<admins, users, changes, audits, faults, raced>>

Expire(t) ==
    /\ t \in tokens
    /\ tokens' = tokens \ {t}
    /\ UNCHANGED <<admins, users, changes, audits, req, faults, raced>>

----------------------------------------------------------------------------
(* What administrators change *)

CreateAdmin(r, t, a, role) ==
    /\ JwtAdminGuard(t) /\ t.role = "SUPER_ADMIN"
    /\ ~Registered(a)
    /\ Begins(r, [op |-> "insert", admin |-> a, role |-> role])
    /\ UNCHANGED <<admins, users, tokens, changes, audits, faults, raced>>

InsertAdmin(r) ==
    /\ req[r].op = "insert"
    /\ IF Registered(req[r].admin) THEN Goes(r, Idle) /\ UNCHANGED <<admins, changes>>
       ELSE /\ Changes
            /\ admins' = [admins EXCEPT ![req[r].admin] =
                            [role |-> req[r].role, status |-> "NORMAL"]]
            /\ Goes(r, Audit)
    /\ UNCHANGED <<users, tokens, audits, faults, raced>>

ResetAdminPassword(r, t, a) ==
    /\ JwtAdminGuard(t) /\ t.role = "SUPER_ADMIN"
    /\ Registered(a)
    /\ Changes
    /\ Begins(r, Audit)
    /\ UNCHANGED <<admins, users, tokens, audits, faults, raced>>

\* Only disabling a super administrator is counted first.
UpdateAdminStatus(r, t, a, status) ==
    /\ JwtAdminGuard(t) /\ t.role = "SUPER_ADMIN"
    /\ Registered(a)
    /\ Begins(r, IF status = "DISABLED" /\ admins[a].role = "SUPER_ADMIN"
                 THEN [op |-> "count", admin |-> a]
                 ELSE [op |-> "set", admin |-> a, status |-> status])
    /\ UNCHANGED <<admins, users, tokens, changes, audits, faults, raced>>

\* Faulty: the last super administrator is not protected.
CountNobody(r) ==
    /\ req[r].op = "count"
    /\ Goes(r, [op |-> "set", admin |-> req[r].admin, status |-> "DISABLED"])
    /\ raced' = (raced \/ \E o \in Requests \ {r} : Disabling(req[o]))
    /\ UNCHANGED <<admins, users, tokens, changes, audits, faults>>

CountSuperAdmins(r) ==
    /\ req[r].op = "count"
    /\ IF Cardinality(SuperAdmins) <= 1 THEN Goes(r, Idle) /\ UNCHANGED raced
       ELSE /\ Goes(r, [op |-> "set", admin |-> req[r].admin, status |-> "DISABLED"])
            /\ raced' = (raced \/ \E o \in Requests \ {r} : Disabling(req[o]))
    /\ UNCHANGED <<admins, users, tokens, changes, audits, faults>>

SetAdminStatus(r) ==
    /\ req[r].op = "set"
    /\ Changes
    /\ admins' = [admins EXCEPT ![req[r].admin].status = req[r].status]
    /\ Goes(r, Audit)
    /\ UNCHANGED <<users, tokens, audits, faults, raced>>

\* Whatever the role of the administrator.
UpdateUserStatus(r, t, u, status) ==
    /\ JwtAdminGuard(t)
    /\ users[u] # "NONE"
    /\ Changes
    /\ users' = [users EXCEPT ![u] = status]
    /\ Begins(r, Audit)
    /\ UNCHANGED <<admins, tokens, audits, faults, raced>>

\* closePracticeRoom, closeTeamLedgerRoom: the room is written elsewhere.
CloseRoom(r, t) ==
    /\ JwtAdminGuard(t)
    /\ Changes
    /\ Begins(r, Audit)
    /\ UNCHANGED <<admins, users, tokens, audits, faults, raced>>

\* Any object is accepted, the empty one too, which leaves nothing to do but the audit.
UpdateSystemConfig(r, t, keys) ==
    /\ JwtAdminGuard(t)
    /\ keys \cap HighRisk # {} => t.role = "SUPER_ADMIN"
    /\ \/ /\ keys # {} /\ UNCHANGED changes
          /\ Begins(r, [op |-> "config", left |-> keys, written |-> FALSE])
       \/ keys = {} /\ Changes /\ Begins(r, Audit)
    /\ UNCHANGED <<admins, users, tokens, audits, faults, raced>>

\* All keys at once, each a statement of its own; the audit waits for all.
UpsertKey(r) ==
    /\ req[r].op = "config"
    /\ \E k \in req[r].left :
         LET left == req[r].left \ {k} IN
         Goes(r, IF left = {} THEN Audit ELSE [req[r] EXCEPT !.left = left, !.written = TRUE])
    /\ IF req[r].written THEN UNCHANGED changes ELSE Changes
    /\ UNCHANGED <<admins, users, tokens, audits, faults, raced>>

\* Faulty: the audit is written although the request has failed.
FailAudited(r) ==
    /\ req[r].op # "idle" /\ faults < MaxFaults
    /\ faults' = faults + 1
    /\ audits' = audits + 1
    /\ Goes(r, Idle)
    /\ UNCHANGED <<admins, users, tokens, changes, raced>>

WriteAudit(r) ==
    /\ req[r].op = "audit"
    /\ audits' = audits + 1
    /\ Goes(r, Idle)
    /\ UNCHANGED <<admins, users, tokens, changes, faults, raced>>

\* The database fails the next statement: what was written stays.  Of a configuration all keys
\* are under way at once, and another one may be written all the same.
Fail(r) ==
    /\ req[r].op # "idle" /\ faults < MaxFaults
    /\ faults' = faults + 1
    /\ Goes(r, Idle)
    /\ \/ UNCHANGED changes
       \/ /\ req[r].op = "config" /\ ~req[r].written /\ Cardinality(req[r].left) > 1
          /\ Changes
    /\ UNCHANGED <<admins, users, tokens, audits, raced>>

----------------------------------------------------------------------------
(* Users *)

\* devLogin and wxLogin: the upsert looks for the row before it writes.
UserLogin(r, u) ==
    /\ Begins(r, [op |-> "upsert", user |-> u, found |-> users[u] # "NONE"])
    /\ UNCHANGED <<admins, users, tokens, changes, audits, faults, raced>>

\* The status is the one of the row just written; a second insert fails.
UpsertUser(r) ==
    /\ req[r].op = "upsert"
    /\ LET u == req[r].user
           enters == Goes(r, [op |-> "sign", token |-> UserClaims(u)]) IN
       \/ req[r].found /\ users[u] # "BANNED" /\ enters /\ UNCHANGED users
       \/ req[r].found /\ users[u] = "BANNED" /\ Goes(r, Idle) /\ UNCHANGED users
       \/ ~req[r].found /\ users[u] # "NONE" /\ Goes(r, Idle) /\ UNCHANGED users
       \/ /\ ~req[r].found /\ users[u] = "NONE" /\ enters
          /\ users' = [users EXCEPT ![u] = "NORMAL"]
    /\ UNCHANGED <<admins, tokens, changes, audits, faults, raced>>

----------------------------------------------------------------------------
AccountsNext ==
    \/ \E r \in Requests :
         \/ BootstrapAdmin(r) \/ Sign(r) \/ InsertAdmin(r) \/ CountSuperAdmins(r)
         \/ SetAdminStatus(r) \/ UpsertKey(r) \/ WriteAudit(r) \/ UpsertUser(r) \/ Fail(r)
         \/ \E a \in Admins : Login(r, a)
         \/ \E u \in Users : UserLogin(r, u)
         \/ \E t \in tokens :
              \/ \E a \in Admins, role \in Role : CreateAdmin(r, t, a, role)
              \/ \E a \in Admins : ResetAdminPassword(r, t, a)
              \/ \E a \in Admins, status \in AdminStatus : UpdateAdminStatus(r, t, a, status)
              \/ \E u \in Users, status \in UserStatus : UpdateUserStatus(r, t, u, status)
              \/ \E keys \in SUBSET Keys : UpdateSystemConfig(r, t, keys)
              \/ CloseRoom(r, t)
    \/ \E t \in tokens : Expire(t)

\* Tokens expire.
ExpireFor(s) == \E t \in tokens : t.sub = s /\ Expire(t)
AccountsFairness == \A s \in Admins \cup Users : WF_accountsVars(ExpireFor(s))

----------------------------------------------------------------------------
(* Properties *)

AccountsTypeOK ==
    /\ admins \in [Admins -> AdminRow \cup {NoAdmin}]
    /\ users \in [Users -> UserStatus \cup {"NONE"}]
    /\ tokens \subseteq Token
    /\ changes \in 0 .. MaxChanges
    /\ audits \in Nat
    /\ req \in [Requests -> Request]
    /\ faults \in 0 .. MaxFaults
    /\ raced \in BOOLEAN

\* "Prevent disabling the last SUPER_ADMIN" (admin.service.ts): once there are
\* administrators, one of them may manage the others.
ASuperAdminRemains == (\E a \in Admins : Registered(a)) => SuperAdmins # {}

\* It takes two requests that both counted before either wrote; everything else, tokens of
\* disabled administrators included, leaves a super administrator.
OnlyARaceRemovesTheLast == ~raced => ASuperAdminRemains

\* The audit tells of no other requests but those that changed something and the updates of the
\* configuration that named no key, which are audited like any other; and once all requests
\* are answered each of these has its row, except those that failed.
Written == {r \in Requests : req[r].op = "audit" \/ (req[r].op = "config" /\ req[r].written)}
ChangesAreAudited ==
    /\ audits + Cardinality(Written) <= changes
    /\ changes <= audits + Cardinality(Written) + faults

\* Whoever stays banned or disabled is shut out in the end, although no guard looks at
\* the row: logins are refused and tokens expire.
OutcastsRunOut ==
    /\ \A a \in Admins : <>[](admins[a].status = "DISABLED")
                           => <>[](\A t \in tokens : t.sub = a => ~JwtAdminGuard(t))
    /\ \A u \in Users : <>[](users[u] = "BANNED")
                           => <>[](\A t \in tokens : t.sub = u => ~JwtUserGuard(t))
=============================================================================
