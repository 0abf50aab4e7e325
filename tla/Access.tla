------------------------------- MODULE Access -------------------------------
(***************************************************************************)
(* Who may do what: the users module (users.service.ts), the sign-in       *)
(* (auth.service.ts) and the two guards in front of every admin endpoint   *)
(* (jwt.strategy.ts, permissions.guard.ts).                                *)
(*                                                                         *)
(* A request is served in the steps that its awaits cut it into: the       *)
(* strategy reads the caller's row, the guard decides on it, the handler   *)
(* reads the row it works on, and only then writes.  Nothing holds the     *)
(* rows still in between.                                                  *)
(*                                                                         *)
(* A user is named by the id that tokens carry; its e-mail, which is       *)
(* unique and never changes, is the same name.  Of a password nothing is   *)
(* left: it may match or not.  No row is ever deleted.                     *)
(***************************************************************************)
EXTENDS Naturals

CONSTANTS
    Callers,        \* who has requests served, one at a time
    UserIds,        \* ids, or e-mail addresses, of users
    Permissions,    \* ALL_PERMISSIONS
    Scope,          \* ROLE_PERMISSION_SCOPE
    Defaults,       \* ROLE_DEFAULT_PERMISSIONS
    Needs,          \* what @Permissions demands of an operation
    Calls,          \* operations with the user and the body they are sent for
    Tokens,         \* whose tokens scripts have; Null is none
    Seed,           \* the users table to begin with
    Absent,         \* a field that a body does not have
    Null            \* no row, no request, no token

VARIABLES
    users,          \* the users table
    request,        \* what is left to do for a caller
    roleless        \* history: users whose permissions a body without a role set

accessVars == <<users, request, roleless>>

Roles == {"ADMIN", "EDITOR", "VIEWER"}
Writes == {"create", "update", "deactivate"}

\* What pages read: "list" is what the users module shows, the others stand for
\* the GETs of other modules, and "snapshot" for those of the dashboard, which
\* are sent at once and fail as one.
Reads == {"snapshot", "channels", "assets", "schedules", "list"}

\* "work" stands for the writes of channels and assets, "plan" for those of
\* schedules.
TokenOps == Reads \cup {"work", "plan"} \cup Writes

UserRow == [role : Roles, permissions : SUBSET Permissions, active : BOOLEAN]
Profile == [id : UserIds, role : Roles, permissions : SUBSET Permissions,
            active : BOOLEAN]
Body == [role : Roles \cup {Absent}, permissions : {Absent} \cup SUBSET Permissions,
         active : BOOLEAN \cup {Absent}]

Statuses == {200, 401, 403, 404, 409, 500}

Request ==
    [step : {"findUser"}, op : {"login"}, id : UserIds]
    \cup [step : {"compare"}, op : {"login"}, user : Profile]
    \cup [step : {"authenticate"}, op : TokenOps, sub : UserIds \cup {Null},
          id : UserIds, body : Body]
    \cup [step : {"handle"}, op : TokenOps, principal : Profile, id : UserIds, body : Body]
    \cup [step : {"write"}, op : Writes, principal : Profile, id : UserIds, data : Body]
    \cup [step : {"answered"}, op : TokenOps \cup {"login"}, status : Statuses,
          user : Profile \cup {Null}]

ASSUME TablesAssumption ==
    /\ Scope \in [Roles -> SUBSET Permissions]
    /\ Defaults \in [Roles -> SUBSET Permissions]
    /\ Needs \in [TokenOps -> SUBSET Permissions]
    /\ \A r \in Roles : Defaults[r] # {} /\ Defaults[r] \subseteq Scope[r]
    /\ Scope["ADMIN"] = Permissions

\* "EDITOR: operational write scope (no user management)", "VIEWER: read-only".
ASSUME ManagementAssumption ==
    \A op \in Writes, r \in Roles \ {"ADMIN"} : ~(Needs[op] \subseteq Scope[r])

ASSUME CallsAssumption ==
    /\ Calls \subseteq [op : TokenOps, id : UserIds, body : Body]
    /\ \A call \in Calls : call.op = "create" => call.body.role # Absent
    /\ Tokens \subseteq UserIds \cup {Null}
    /\ Seed \in [UserIds -> UserRow \cup {Null}]
    /\ \A u \in UserIds : Seed[u] # Null => Seed[u].permissions \subseteq Scope[Seed[u].role]
    /\ Null \notin UserRow /\ Null \notin UserIds /\ Null \notin Request /\ Null \notin Profile
    /\ \A p \in SUBSET Permissions : p # Absent

-----------------------------------------------------------------------------
(* The rules. *)

\* resolvePermissionsForRole: given permissions are cut down to the role's
\* scope; if nothing is given or nothing is left, the role's defaults hold.
Resolve(role, given) ==
    IF given \in {Absent, {}} \/ given \cap Scope[role] = {}
    THEN Defaults[role]
    ELSE given \cap Scope[role]

\* Mutant: the stored permissions are trusted.
StoredPermissions(role, stored) == IF stored = {} THEN Defaults[role] ELSE stored

\* The strategy and the sign-in resolve again what is stored.
Effective(role, stored) == Resolve(role, stored)

Active(u) == users[u] # Null /\ users[u].active

\* toAuthUser, and RequestUser of the strategy.
AuthUser(u) ==
    [id |-> u, role |-> users[u].role, active |-> users[u].active,
     permissions |-> Effective(users[u].role, users[u].permissions)]

\* canActivate
Permits(principal, op) ==
    principal.role = "ADMIN" \/ Needs[op] \subseteq principal.permissions

\* Mutant: a body without a role leaves the permissions it has as they are.
GivenPermissions(row, body) == body.permissions

\* update: permissions are resolved for the role of the body or, without one,
\* for the role that was read.
PermissionsToWrite(row, body) ==
    IF body.permissions = Absent /\ body.role = Absent THEN Absent
    ELSE Resolve(IF body.role = Absent THEN row.role ELSE body.role, body.permissions)

\* Mutant: what data has not is not kept.
RowAsGiven(row, data) == data

\* UPDATE ... SET of the columns that data has.
RowAfter(row, data) ==
    [role |-> IF data.role = Absent THEN row.role ELSE data.role,
     permissions |-> IF data.permissions = Absent THEN row.permissions
                     ELSE data.permissions,
     active |-> IF data.active = Absent THEN row.active ELSE data.active]

\* A new row; isActive is true unless the body says otherwise.
NewRow(data) ==
    [role |-> data.role, permissions |-> data.permissions,
     active |-> IF data.active = Absent THEN TRUE ELSE data.active]

-----------------------------------------------------------------------------
(* A request is served. *)

Init ==
    /\ users = Seed
    /\ request = [c \in Callers |-> Null]
    /\ roleless = {}

At(c, step) == request[c] # Null /\ request[c].step = step
Continue(c, r) == request' = [request EXCEPT ![c] = r]
Answer(c, status, user) ==
    Continue(c, [step |-> "answered", op |-> request[c].op, status |-> status, user |-> user])

SendLogin(c) ==
    /\ request[c] = Null
    /\ \E u \in UserIds : Continue(c, [step |-> "findUser", op |-> "login", id |-> u])
    /\ UNCHANGED <<users, roleless>>

\* A request with the token of sub, which is Null without a token.
Send(c, op, sub, u, body) ==
    /\ request[c] = Null
    /\ Continue(c, [step |-> "authenticate", op |-> op, sub |-> sub, id |-> u, body |-> body])
    /\ UNCHANGED <<users, roleless>>

\* login, validateUser: the row is read ...
FindUser(c) ==
    /\ At(c, "findUser")
    /\ LET r == request[c] IN
         IF Active(r.id)
         THEN Continue(c, [step |-> "compare", op |-> "login", user |-> AuthUser(r.id)])
         ELSE Answer(c, 401, Null)
    /\ UNCHANGED <<users, roleless>>

\* ... and the answer is made of it when bcrypt is done and finds a match.
Compare(c) ==
    /\ At(c, "compare")
    /\ Answer(c, 200, request[c].user) \/ Answer(c, 401, Null)
    /\ UNCHANGED <<users, roleless>>

\* passport-jwt: no token, or one that has expired.
RefuseToken(c) ==
    /\ At(c, "authenticate")
    /\ Answer(c, 401, Null)
    /\ UNCHANGED <<users, roleless>>

\* JwtStrategy.validate reads the caller's row, PermissionsGuard decides on it.
\* The user of a 403 is history: whom the guard refused.
Authenticate(c) ==
    /\ At(c, "authenticate")
    /\ LET r == request[c] IN
         IF r.sub = Null \/ ~Active(r.sub) THEN Answer(c, 401, Null)
         ELSE IF ~Permits(AuthUser(r.sub), r.op) THEN Answer(c, 403, AuthUser(r.sub))
         ELSE Continue(c, [step |-> "handle", op |-> r.op, principal |-> AuthUser(r.sub),
                           id |-> r.id, body |-> r.body])
    /\ UNCHANGED <<users, roleless>>

\* The endpoints that leave the users alone.
Serve(c) ==
    /\ At(c, "handle")
    /\ request[c].op \in Reads \cup {"work", "plan"}
    /\ Answer(c, 200, Null)
    /\ UNCHANGED <<users, roleless>>

GoWrite(c, data) ==
    LET r == request[c] IN
    Continue(c, [step |-> "write", op |-> r.op, principal |-> r.principal, id |-> r.id,
                 data |-> data])

\* create up to the INSERT: the e-mail is free, bcrypt, permissions resolved.
\* The role is required.
Create(c) ==
    /\ At(c, "handle")
    /\ request[c].op = "create"
    /\ LET r == request[c] IN
         /\ r.body.role # Absent
         /\ IF users[r.id] # Null THEN Answer(c, 409, Null)
            ELSE GoWrite(c, [r.body EXCEPT !.permissions = Resolve(r.body.role, @)])
    /\ UNCHANGED <<users, roleless>>

\* update up to the UPDATE.
Update(c) ==
    /\ At(c, "handle")
    /\ request[c].op = "update"
    /\ LET r == request[c] IN
         IF users[r.id] = Null THEN Answer(c, 404, Null)
         ELSE GoWrite(c, [r.body EXCEPT !.permissions = PermissionsToWrite(users[r.id], r.body)])
    /\ UNCHANGED <<users, roleless>>

\* deactivate up to the UPDATE.
Deactivate(c) ==
    /\ At(c, "handle")
    /\ request[c].op = "deactivate"
    /\ LET r == request[c] IN
         IF users[r.id] = Null THEN Answer(c, 404, Null)
         ELSE GoWrite(c, [role |-> Absent, permissions |-> Absent, active |-> FALSE])
    /\ UNCHANGED <<users, roleless>>

\* Mutant: an INSERT that does not mind the unique index.
PlainIndex(u) == TRUE

\* users.email is unique.
UniqueIndex(u) == users[u] = Null

\* create, prisma.user.create
InsertUser(c) ==
    /\ At(c, "write")
    /\ request[c].op = "create"
    /\ LET r == request[c] IN
         IF UniqueIndex(r.id)
         THEN users' = [users EXCEPT ![r.id] = NewRow(r.data)] /\ Answer(c, 200, Null)
         ELSE Answer(c, 500, Null) /\ UNCHANGED users
    /\ UNCHANGED roleless

\* update and deactivate, prisma.user.update
UpdateUser(c) ==
    /\ At(c, "write")
    /\ request[c].op \in {"update", "deactivate"}
    /\ LET r == request[c] IN
         /\ users' = [users EXCEPT ![r.id] = RowAfter(users[r.id], r.data)]
         /\ roleless' = IF r.data.role = Absent /\ r.data.permissions # Absent
                        THEN roleless \cup {r.id} ELSE roleless
    /\ Answer(c, 200, Null)

\* The answer has arrived, or there is nobody to hear it.
Done(c) ==
    /\ At(c, "answered")
    /\ Continue(c, Null)
    /\ UNCHANGED <<users, roleless>>

Service(c) ==
    \/ FindUser(c) \/ Compare(c) \/ Authenticate(c)
    \/ Serve(c) \/ Create(c) \/ Update(c) \/ Deactivate(c)
    \/ InsertUser(c) \/ UpdateUser(c)

\* A script sends any of the calls with any of the tokens.
Arrive(c) ==
    \/ SendLogin(c)
    \/ \E call \in Calls, sub \in Tokens :
         Send(c, call.op, sub, call.id, call.body)

Next == \E c \in Callers : Arrive(c) \/ Service(c) \/ RefuseToken(c) \/ Done(c)

Spec == Init /\ [][Next]_accessVars

-----------------------------------------------------------------------------
(* Properties. *)

AccessTypeOK ==
    /\ users \in [UserIds -> UserRow \cup {Null}]
    /\ request \in [Callers -> Request \cup {Null}]
    /\ roleless \subseteq UserIds

\* Who got past the guard may, by the role the guard read, do what was asked,
\* even if the stored permissions are wider than the role's scope.
GuardWithinRole ==
    \A c \in Callers :
        At(c, "handle") \/ At(c, "write") =>
            Needs[request[c].op] \subseteq Scope[request[c].principal.role]

\* The users table changes only by requests of a user who was an active admin
\* when the guard looked; a creation never takes an account that is there,
\* although it looks for one long before it writes.
UsersWrittenByAdmins ==
    [][\A u \in UserIds : users'[u] # users[u] =>
         \E c \in Callers :
            /\ At(c, "write") /\ request[c].id = u
            /\ request[c].principal.role = "ADMIN" /\ request[c].principal.active
            /\ request[c].op = "create" <=> users[u] = Null]_accessVars

\* The stored permissions of a user leave the scope of the role only after a
\* body without a role set them, which may run into a change of the role.
\* Bodies that name the role, as the users page's do, cannot do that together,
\* whatever the rows were when they were filled in.
StoredWithinScope ==
    \A u \in UserIds \ roleless :
        users[u] # Null => users[u].permissions \subseteq Scope[users[u].role]
=============================================================================
