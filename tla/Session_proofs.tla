--------------------------- MODULE Session_proofs ---------------------------
(***************************************************************************)
(* Access, for any callers, users, permissions and tables: its type, what  *)
(* the guards guarantee of whoever gets past them, who writes the users    *)
(* table, and what is stored in it.  Then Session, for any number of tabs: *)
(* it is Access with requests of a particular kind, its type, that what    *)
(* the web application checked is refused only when the page is behind,    *)
(* and that a token is never left in the browser for nobody.               *)
(***************************************************************************)
EXTENDS Session, TLAPS

-----------------------------------------------------------------------------
(* The accounts and the guards of the API.                                 *)

\* What is left to do for a caller, by the step it is at.
LEMMA RequestFields ==
    ASSUME NEW r \in Request
    PROVE  /\ r.step = "findUser" => r.op = "login" /\ r.id \in UserIds
           /\ r.step = "compare" => r.op = "login" /\ r.user \in Profile
           /\ r.step = "authenticate" =>
                /\ r.op \in TokenOps /\ r.sub \in UserIds \cup {Null}
                /\ r.id \in UserIds /\ r.body \in Body
           /\ r.step = "handle" =>
                /\ r.op \in TokenOps /\ r.principal \in Profile
                /\ r.id \in UserIds /\ r.body \in Body
           /\ r.step = "write" =>
                /\ r.op \in Writes /\ r.principal \in Profile
                /\ r.id \in UserIds /\ r.data \in Body
           /\ r.step = "answered" =>
                /\ r.op \in TokenOps \cup {"login"} /\ r.status \in Statuses
                /\ r.user \in Profile \cup {Null}
BY SMTT(30) DEF Request

\* Whatever is given, a role resolves to permissions of its scope.
LEMMA ResolvesWithinScope ==
    ASSUME NEW role \in Roles, NEW given
    PROVE  /\ Resolve(role, given) \in SUBSET Permissions
           /\ Resolve(role, given) \subseteq Scope[role]
           /\ Resolve(role, given) # Absent
<1>1. Resolve(role, given) \subseteq Scope[role]
  BY TablesAssumption DEF Resolve
<1>2. Scope[role] \subseteq Permissions
  BY TablesAssumption
<1> QED BY <1>1, <1>2, CallsAssumption

\* The user that the strategy or the sign-in makes of an active row.
LEMMA AuthUserType ==
    ASSUME AccessTypeOK, NEW u \in UserIds, Active(u)
    PROVE  /\ AuthUser(u) \in Profile
           /\ AuthUser(u).active = TRUE
           /\ AuthUser(u).permissions \subseteq Scope[AuthUser(u).role]
<1>1. users[u] \in UserRow /\ users[u].active = TRUE
  BY DEF AccessTypeOK, Active, UserRow
<1>2. users[u].role \in Roles
  BY <1>1 DEF UserRow
<1> QED BY <1>1, <1>2, ResolvesWithinScope DEF AuthUser, Effective, Profile

\* Rows stay rows.
LEMMA RowTypes ==
    ASSUME NEW data \in Body
    PROVE  /\ \A row \in UserRow : RowAfter(row, data) \in UserRow
           /\ data.role # Absent /\ data.permissions # Absent => NewRow(data) \in UserRow
BY DEF RowAfter, NewRow, UserRow, Body

-----------------------------------------------------------------------------
(* What holds of a request while the guard, the handler and the database   *)
(* pass it on.                                                             *)

\* Past the guard: the user it looked at was active and may do it.
Guarded(r) ==
    r.step \in {"handle", "write"} =>
        /\ r.principal.active = TRUE
        /\ r.principal.permissions \subseteq Scope[r.principal.role]
        /\ Permits(r.principal, r.op)

\* Before the UPDATE the row is there, and it stays; before a write that sets
\* the role, the permissions that it sets are of this role.
Prepared(r) ==
    r.step = "write" =>
        /\ r.op # "create" => users[r.id] # Null
        /\ r.op = "create" => r.data.role # Absent
        /\ r.data.role # Absent =>
             r.data.permissions # Absent /\ r.data.permissions \subseteq Scope[r.data.role]

Sound ==
    /\ AccessTypeOK
    /\ \A c \in Callers : request[c] # Null => Guarded(request[c]) /\ Prepared(request[c])

\* A caller goes on and no row changes.
LEMMA SoundContinue ==
    ASSUME Sound, NEW c \in Callers, NEW r \in Request \cup {Null}, Continue(c, r),
           r # Null => Guarded(r) /\ Prepared(r), UNCHANGED <<users, roleless>>
    PROVE  Sound'
<1>1. AccessTypeOK'
  BY DEF Sound, AccessTypeOK, Continue
<1>2. ASSUME NEW d \in Callers, request'[d] # Null
      PROVE  Guarded(request'[d]) /\ Prepared(request'[d])
  BY <1>2 DEF Sound, AccessTypeOK, Continue
<1> QED BY <1>1, <1>2 DEF Sound, Guarded, Prepared

\* Answers promise nothing.
LEMMA SoundAnswer ==
    ASSUME Sound, NEW c \in Callers, request[c] # Null, NEW status \in Statuses,
           NEW user \in Profile \cup {Null}, Answer(c, status, user),
           UNCHANGED <<users, roleless>>
    PROVE  Sound'
<1> DEFINE r == [step |-> "answered", op |-> request[c].op, status |-> status, user |-> user]
<1>1. request[c].op \in TokenOps \cup {"login"}
  <2>1. request[c] \in Request
    BY DEF Sound, AccessTypeOK
  <2> QED BY <2>1, RequestFields DEF Request, Writes, TokenOps, Reads
<1>2. r \in Request
  BY <1>1 DEF Request
<1>3. Continue(c, r)
  BY DEF Answer
<1>4. Guarded(r) /\ Prepared(r)
  BY DEF Guarded, Prepared
<1> HIDE DEF r
<1> QED BY <1>2, <1>3, <1>4, SoundContinue

\* Sending, signing in and the guard.
LEMMA SoundGuard ==
    ASSUME Sound, NEW c \in Callers,
           \/ SendLogin(c)
           \/ \E call \in Calls, sub \in Tokens : Send(c, call.op, sub, call.id, call.body)
           \/ FindUser(c) \/ Compare(c) \/ RefuseToken(c) \/ Authenticate(c)
    PROVE  Sound'
<1>0. request[c] # Null => request[c] \in Request
  BY DEF Sound, AccessTypeOK
<1>1. CASE SendLogin(c)
  <2>1. PICK u \in UserIds : Continue(c, [step |-> "findUser", op |-> "login", id |-> u])
    BY <1>1 DEF SendLogin
  <2> DEFINE r == [step |-> "findUser", op |-> "login", id |-> u]
  <2>2. r \in Request /\ Guarded(r) /\ Prepared(r)
    BY DEF Request, Guarded, Prepared
  <2> HIDE DEF r
  <2> QED BY <1>1, <2>1, <2>2, SoundContinue DEF SendLogin, r
<1>2. CASE \E call \in Calls, sub \in Tokens : Send(c, call.op, sub, call.id, call.body)
  <2>1. PICK call \in Calls, sub \in Tokens : Send(c, call.op, sub, call.id, call.body)
    BY <1>2
  <2> DEFINE r == [step |-> "authenticate", op |-> call.op, sub |-> sub, id |-> call.id,
                   body |-> call.body]
  <2>2. r \in Request
    BY CallsAssumption DEF Request
  <2>3. Guarded(r) /\ Prepared(r)
    BY DEF Guarded, Prepared
  <2>4. Continue(c, r) /\ UNCHANGED <<users, roleless>>
    BY <2>1 DEF Send
  <2> HIDE DEF r
  <2> QED BY <2>2, <2>3, <2>4, SoundContinue
<1>3. CASE FindUser(c)
  <2> DEFINE u == request[c].id
             r == [step |-> "compare", op |-> "login", user |-> AuthUser(u)]
  <2>1. u \in UserIds
    BY <1>0, <1>3, RequestFields DEF FindUser, At
  <2>2. CASE Active(u)
    <3>1. r \in Request /\ Guarded(r) /\ Prepared(r)
      BY <2>1, <2>2, AuthUserType DEF Sound, Request, Guarded, Prepared
    <3>2. Continue(c, r) /\ UNCHANGED <<users, roleless>>
      BY <1>3, <2>2 DEF FindUser
    <3> HIDE DEF r
    <3> QED BY <3>1, <3>2, SoundContinue
  <2>3. CASE ~Active(u)
    BY <1>3, <2>3, SoundAnswer DEF FindUser, At, Statuses
  <2> QED BY <2>2, <2>3
<1>4. CASE Compare(c)
  <2>1. request[c].user \in Profile
    BY <1>0, <1>4, RequestFields DEF Compare, At
  <2> QED BY <1>4, <2>1, SoundAnswer DEF Compare, At, Statuses
<1>5. CASE RefuseToken(c)
  BY <1>5, SoundAnswer DEF RefuseToken, At, Statuses
<1>6. CASE Authenticate(c)
  <2> DEFINE sub == request[c].sub
             r == [step |-> "handle", op |-> request[c].op, principal |-> AuthUser(sub),
                   id |-> request[c].id, body |-> request[c].body]
  <2>1. /\ request[c].op \in TokenOps /\ sub \in UserIds \cup {Null}
        /\ request[c].id \in UserIds /\ request[c].body \in Body
    BY <1>0, <1>6, RequestFields DEF Authenticate, At
  <2>2. CASE sub = Null \/ ~Active(sub)
    BY <1>6, <2>2, SoundAnswer DEF Authenticate, At, Statuses
  <2>3. CASE sub # Null /\ Active(sub)
    <3>1. /\ AuthUser(sub) \in Profile /\ AuthUser(sub).active = TRUE
          /\ AuthUser(sub).permissions \subseteq Scope[AuthUser(sub).role]
      BY <2>1, <2>3, AuthUserType DEF Sound
    <3>2. CASE ~Permits(AuthUser(sub), request[c].op)
      BY <1>6, <2>3, <3>1, <3>2, SoundAnswer DEF Authenticate, At, Statuses
    <3>3. CASE Permits(AuthUser(sub), request[c].op)
      <4>1. r \in Request
        BY <2>1, <3>1 DEF Request
      <4>2. Guarded(r) /\ Prepared(r)
        BY <3>1, <3>3 DEF Guarded, Prepared
      <4>3. Continue(c, r) /\ UNCHANGED <<users, roleless>>
        BY <1>6, <2>3, <3>3 DEF Authenticate
      <4> HIDE DEF r
      <4> QED BY <4>1, <4>2, <4>3, SoundContinue
    <3> QED BY <3>2, <3>3
  <2> QED BY <2>2, <2>3
<1> QED BY <1>1, <1>2, <1>3, <1>4, <1>5, <1>6

\* A handler goes on to its write.
LEMMA SoundGoWrite ==
    ASSUME Sound, NEW c \in Callers, At(c, "handle"), NEW data \in Body,
           request[c].op \in Writes, GoWrite(c, data), UNCHANGED <<users, roleless>>,
           request[c].op # "create" => users[request[c].id] # Null,
           request[c].op = "create" => data.role # Absent,
           data.role # Absent =>
             data.permissions # Absent /\ data.permissions \subseteq Scope[data.role]
    PROVE  Sound'
<1> DEFINE r == [step |-> "write", op |-> request[c].op, principal |-> request[c].principal,
                 id |-> request[c].id, data |-> data]
<1>1. request[c] \in Request /\ Guarded(request[c])
  BY DEF Sound, AccessTypeOK, At
<1>2. request[c].principal \in Profile /\ request[c].id \in UserIds
  BY <1>1, RequestFields DEF At
<1>3. r \in Request
  BY <1>2 DEF Request
<1>4. Guarded(r)
  BY <1>1 DEF Guarded, At
<1>5. Prepared(r)
  BY DEF Prepared
<1>6. Continue(c, r)
  BY DEF GoWrite
<1> HIDE DEF r
<1> QED BY <1>3, <1>4, <1>5, <1>6, SoundContinue

\* The handlers up to their writes.
LEMMA SoundHandle ==
    ASSUME Sound, NEW c \in Callers,
           Serve(c) \/ Create(c) \/ Update(c) \/ Deactivate(c) \/ Done(c)
    PROVE  Sound'
<1> DEFINE r == request[c]
<1>1. CASE Serve(c)
  BY <1>1, SoundAnswer DEF Serve, At, Statuses
<1>2. CASE Done(c)
  BY <1>2, SoundContinue DEF Done
<1>3. ASSUME At(c, "handle") PROVE r \in Request /\ r.id \in UserIds /\ r.body \in Body
  BY <1>3, RequestFields DEF Sound, AccessTypeOK, At
<1>4. CASE Create(c)
  <2> DEFINE data == [r.body EXCEPT !.permissions = Resolve(r.body.role, @)]
  <2>1. CASE users[r.id] # Null
    BY <1>4, <2>1, SoundAnswer DEF Create, At, Statuses
  <2>2. CASE users[r.id] = Null
    <3>1. r.body \in Body /\ r.body.role \in Roles /\ r.body.role # Absent
      BY <1>3, <1>4 DEF Create, Body
    <3>2. /\ Resolve(r.body.role, r.body.permissions) \in SUBSET Permissions
          /\ Resolve(r.body.role, r.body.permissions) \subseteq Scope[r.body.role]
          /\ Resolve(r.body.role, r.body.permissions) # Absent
      BY <3>1, ResolvesWithinScope
    <3>3. /\ data \in Body /\ data.role = r.body.role
          /\ data.permissions = Resolve(r.body.role, r.body.permissions)
      BY <3>1, <3>2 DEF Body
    <3>4. /\ GoWrite(c, data) /\ UNCHANGED <<users, roleless>> /\ At(c, "handle")
          /\ r.op = "create"
      BY <1>4, <2>2 DEF Create
    <3> HIDE DEF data
    <3> QED BY <3>1, <3>2, <3>3, <3>4, SoundGoWrite DEF Writes
  <2> QED BY <2>1, <2>2
<1>5. CASE Update(c)
  <2> DEFINE given == PermissionsToWrite(users[r.id], r.body)
             data == [r.body EXCEPT !.permissions = given]
  <2>1. CASE users[r.id] = Null
    BY <1>5, <2>1, SoundAnswer DEF Update, At, Statuses
  <2>2. CASE users[r.id] # Null
    <3>1. r.body \in Body /\ users[r.id].role \in Roles
      BY <1>3, <1>5, <2>2 DEF Update, Sound, AccessTypeOK, UserRow
    <3>2. /\ given \in {Absent} \cup SUBSET Permissions
          /\ r.body.role # Absent => given # Absent /\ given \subseteq Scope[r.body.role]
      BY <3>1, ResolvesWithinScope DEF PermissionsToWrite, Body
    <3>3. data \in Body /\ data.role = r.body.role /\ data.permissions = given
      BY <3>1, <3>2 DEF Body
    <3>4. /\ GoWrite(c, data) /\ UNCHANGED <<users, roleless>> /\ At(c, "handle")
          /\ r.op = "update"
      BY <1>5, <2>2 DEF Update
    <3> HIDE DEF data, given
    <3> QED BY <2>2, <3>2, <3>3, <3>4, SoundGoWrite DEF Writes
  <2> QED BY <2>1, <2>2
<1>6. CASE Deactivate(c)
  <2> DEFINE data == [role |-> Absent, permissions |-> Absent, active |-> FALSE]
  <2>1. CASE users[r.id] = Null
    BY <1>6, <2>1, SoundAnswer DEF Deactivate, At, Statuses
  <2>2. CASE users[r.id] # Null
    <3>1. data \in Body /\ data.role = Absent
      BY DEF Body
    <3>2. /\ GoWrite(c, data) /\ UNCHANGED <<users, roleless>> /\ At(c, "handle")
          /\ r.op = "deactivate"
      BY <1>6, <2>2 DEF Deactivate
    <3> HIDE DEF data
    <3> QED BY <2>2, <3>1, <3>2, SoundGoWrite DEF Writes
  <2> QED BY <2>1, <2>2
<1> QED BY <1>1, <1>2, <1>4, <1>5, <1>6

\* An answer after a write: the rows that were there are there.
LEMMA SoundWritten ==
    ASSUME Sound, NEW c \in Callers, At(c, "write"), NEW status \in Statuses,
           Answer(c, status, Null),
           users' \in [UserIds -> UserRow \cup {Null}], roleless' \subseteq UserIds,
           \A u \in UserIds : users[u] # Null => users'[u] # Null
    PROVE  Sound'
<1> DEFINE r == [step |-> "answered", op |-> request[c].op, status |-> status, user |-> Null]
<1>1. request[c] \in Request
  BY DEF Sound, AccessTypeOK, At
<1>2. r \in Request
  BY <1>1, RequestFields DEF Request, At, TokenOps
<1>3. request' = [request EXCEPT ![c] = r]
  BY DEF Answer, Continue
<1>4. AccessTypeOK'
  BY <1>2, <1>3 DEF Sound, AccessTypeOK
<1>5. ASSUME NEW d \in Callers, request'[d] # Null
      PROVE  (Guarded(request[d]) /\ Prepared(request[d]))'
  <2>1. CASE d = c
    BY <1>3, <2>1 DEF Sound, AccessTypeOK, Guarded, Prepared
  <2>2. CASE d # c
    <3>1. request'[d] = request[d] /\ request[d] \in Request
      BY <1>3, <1>5, <2>2 DEF Sound, AccessTypeOK
    <3>2. Guarded(request[d]) /\ Prepared(request[d])
      BY <1>5, <3>1 DEF Sound
    <3>3. request[d].step = "write" => request[d].id \in UserIds
      BY <3>1, RequestFields
    <3> QED BY <3>1, <3>2, <3>3 DEF Guarded, Prepared, Permits
  <2> QED BY <2>1, <2>2
<1> QED BY <1>4, <1>5 DEF Sound

\* What the two writes do to the table.
LEMMA InsertEffect ==
    ASSUME Sound, NEW c \in Callers, InsertUser(c)
    PROVE  LET r == request[c] IN
           /\ At(c, "write") /\ r.op = "create" /\ r.id \in UserIds /\ r.data \in Body
           /\ r.data.role # Absent /\ r.data.permissions # Absent
           /\ r.data.permissions \subseteq Scope[r.data.role]
           /\ \/ users[r.id] = Null /\ users' = [users EXCEPT ![r.id] = NewRow(r.data)]
              \/ users' = users
           /\ NewRow(r.data) \in UserRow /\ roleless' = roleless
<1>1. At(c, "write") /\ request[c] \in Request /\ request[c].op = "create"
  BY DEF InsertUser, Sound, AccessTypeOK, At
<1>2. request[c].id \in UserIds /\ request[c].data \in Body
  BY <1>1, RequestFields DEF At
<1>3. Prepared(request[c])
  BY <1>1 DEF Sound, At
<1> QED BY <1>1, <1>2, <1>3, RowTypes DEF InsertUser, UniqueIndex, Prepared, At

LEMMA UpdateEffect ==
    ASSUME Sound, NEW c \in Callers, UpdateUser(c)
    PROVE  LET r == request[c] IN
           /\ At(c, "write") /\ r.op # "create" /\ r.id \in UserIds /\ r.data \in Body
           /\ users[r.id] \in UserRow /\ RowAfter(users[r.id], r.data) \in UserRow
           /\ users' = [users EXCEPT ![r.id] = RowAfter(users[r.id], r.data)]
           /\ r.data.role # Absent =>
                r.data.permissions # Absent /\ r.data.permissions \subseteq Scope[r.data.role]
<1>1. At(c, "write") /\ request[c] \in Request /\ request[c].op \in {"update", "deactivate"}
  BY DEF UpdateUser, Sound, AccessTypeOK, At
<1>2. request[c].id \in UserIds /\ request[c].data \in Body
  BY <1>1, RequestFields DEF At
<1>3. Prepared(request[c])
  BY <1>1 DEF Sound, At
<1>4. users[request[c].id] \in UserRow
  BY <1>1, <1>2, <1>3 DEF Prepared, At, Sound, AccessTypeOK
<1> QED BY <1>1, <1>2, <1>3, <1>4, RowTypes DEF UpdateUser, Prepared, At

LEMMA SoundWrites ==
    ASSUME Sound, NEW c \in Callers, InsertUser(c) \/ UpdateUser(c)
    PROVE  Sound'
<1>1. CASE InsertUser(c)
  <2>1. users' \in [UserIds -> UserRow \cup {Null}]
    BY <1>1, InsertEffect DEF Sound, AccessTypeOK
  <2>2. \A u \in UserIds : users[u] # Null => users'[u] # Null
    BY <1>1, InsertEffect DEF Sound, AccessTypeOK
  <2>3. PICK status \in Statuses : Answer(c, status, Null)
    BY <1>1 DEF InsertUser, Statuses
  <2>4. At(c, "write") /\ roleless' \subseteq UserIds
    BY <1>1 DEF InsertUser, Sound, AccessTypeOK
  <2> QED BY <2>1, <2>2, <2>3, <2>4, SoundWritten
<1>2. CASE UpdateUser(c)
  <2>1. users' \in [UserIds -> UserRow \cup {Null}]
    BY <1>2, UpdateEffect DEF Sound, AccessTypeOK
  <2>2. \A u \in UserIds : users[u] # Null => users'[u] # Null
    BY <1>2, UpdateEffect, CallsAssumption DEF Sound, AccessTypeOK
  <2>3. At(c, "write") /\ Answer(c, 200, Null)
    BY <1>2 DEF UpdateUser
  <2>4. roleless' \subseteq UserIds
    <3>1. request[c].id \in UserIds /\ roleless \subseteq UserIds
      BY <1>2, UpdateEffect DEF Sound, AccessTypeOK
    <3> QED BY <1>2, <3>1 DEF UpdateUser
  <2> QED BY <2>1, <2>2, <2>3, <2>4, SoundWritten DEF Statuses
<1> QED BY <1>1, <1>2

LEMMA SoundInit == Init => Sound
BY CallsAssumption DEF Init, Sound, AccessTypeOK

LEMMA SoundNext == Sound /\ [Next]_accessVars => Sound'
<1> SUFFICES ASSUME Sound, [Next]_accessVars PROVE Sound'
  OBVIOUS
<1>1. CASE UNCHANGED accessVars
  BY <1>1 DEF Sound, AccessTypeOK, Guarded, Prepared, Permits, accessVars
<1>2. ASSUME NEW c \in Callers, Arrive(c) \/ Service(c) \/ RefuseToken(c) \/ Done(c)
      PROVE  Sound'
  BY <1>2, SoundGuard, SoundHandle, SoundWrites DEF Arrive, Service
<1> QED BY <1>1, <1>2 DEF Next

\* Requests, rows and history have their types, and what was found out about a
\* request before its write still holds when it writes, whoever wrote in between.
THEOREM AccessSound == Spec => []Sound
BY SoundInit, SoundNext, PTL DEF Spec

\* Requests, rows and history have their types.
THEOREM AccessTypeCorrect == Spec => []AccessTypeOK
<1>1. Sound => AccessTypeOK
  BY DEF Sound
<1> QED BY <1>1, AccessSound, PTL

-----------------------------------------------------------------------------
(* The properties. *)

LEMMA SoundGuardsRole == Sound => GuardWithinRole
<1> SUFFICES ASSUME Sound, NEW c \in Callers, At(c, "handle") \/ At(c, "write")
             PROVE  Needs[request[c].op] \subseteq Scope[request[c].principal.role]
  BY DEF GuardWithinRole
<1>1. request[c] \in Request /\ Guarded(request[c])
  BY DEF Sound, AccessTypeOK, At
<1>2. request[c].op \in TokenOps
  BY <1>1, RequestFields DEF At, TokenOps
<1>3. Needs[request[c].op] \subseteq Permissions
  BY <1>2, TablesAssumption
<1>4. /\ request[c].principal.permissions \subseteq Scope[request[c].principal.role]
      /\ Permits(request[c].principal, request[c].op)
  BY <1>1 DEF Guarded, At
<1> QED BY <1>3, <1>4, TablesAssumption DEF Permits

\* Nobody gets past the guard with more than the role allows, whatever is
\* stored in the row that the guard read.
THEOREM GuardStaysWithinRole == Spec => []GuardWithinRole
BY AccessSound, SoundGuardsRole, PTL

\* Only requests of active admins, as the guard saw them, change the users
\* table, and no creation overwrites an account.
THEOREM OnlyAdminsWriteUsers == Spec => UsersWrittenByAdmins
<1> DEFINE Admins(u) == users'[u] # users[u] =>
         \E c \in Callers :
            /\ At(c, "write") /\ request[c].id = u
            /\ request[c].principal.role = "ADMIN" /\ request[c].principal.active
            /\ request[c].op = "create" <=> users[u] = Null
<1>1. ASSUME Sound, [Next]_accessVars, NEW u \in UserIds, users'[u] # users[u]
      PROVE  \E c \in Callers :
                /\ At(c, "write") /\ request[c].id = u
                /\ request[c].principal.role = "ADMIN" /\ request[c].principal.active
                /\ request[c].op = "create" <=> users[u] = Null
  <2>1. PICK c \in Callers : InsertUser(c) \/ UpdateUser(c)
    BY <1>1 DEF Next, Arrive, Service, SendLogin, Send, FindUser, Compare, RefuseToken,
                Authenticate, Serve, Create, Update, Deactivate, Done, accessVars
  <2>2. /\ At(c, "write") /\ request[c].id = u
        /\ request[c].op = "create" <=> users[u] = Null
    <3>1. CASE InsertUser(c)
      BY <1>1, <3>1, InsertEffect DEF Sound, AccessTypeOK
    <3>2. CASE UpdateUser(c)
      BY <1>1, <3>2, UpdateEffect, CallsAssumption DEF Sound, AccessTypeOK
    <3> QED BY <2>1, <3>1, <3>2
  <2>3. request[c] \in Request /\ Guarded(request[c])
    BY <1>1, <2>2 DEF Sound, AccessTypeOK, At
  <2>4. request[c].op \in Writes /\ request[c].principal.role \in Roles
    BY <2>2, <2>3, RequestFields DEF At, Profile
  <2>5. Needs[request[c].op] \subseteq Scope[request[c].principal.role]
    BY <1>1, <2>2, SoundGuardsRole DEF GuardWithinRole
  <2>6. request[c].principal.role = "ADMIN"
    BY <2>4, <2>5, ManagementAssumption
  <2>7. request[c].principal.active
    BY <2>2, <2>3 DEF Guarded, At
  <2> QED BY <2>2, <2>6, <2>7
<1>2. Sound /\ [Next]_accessVars => [\A u \in UserIds : Admins(u)]_accessVars
  BY <1>1
<1> QED BY <1>2, AccessSound, PTL DEF Spec, UsersWrittenByAdmins

LEMMA StoredWithinScopeNext ==
    ASSUME Sound, StoredWithinScope, [Next]_accessVars PROVE StoredWithinScope'
<1> SUFFICES ASSUME NEW u \in UserIds \ roleless', users'[u] # Null
             PROVE  users'[u].permissions \subseteq Scope[users'[u].role]
  BY DEF StoredWithinScope
<1>1. ASSUME NEW c \in Callers, InsertUser(c)
      PROVE  users'[u].permissions \subseteq Scope[users'[u].role]
  <2>1. CASE users' = users
    BY <1>1, <2>1, InsertEffect DEF StoredWithinScope
  <2>2. CASE u # request[c].id
    BY <1>1, <2>2, InsertEffect DEF StoredWithinScope, Sound, AccessTypeOK
  <2>3. CASE u = request[c].id /\ users' = [users EXCEPT ![request[c].id] = NewRow(request[c].data)]
    <3>1. users'[u] = NewRow(request[c].data)
      BY <2>3 DEF Sound, AccessTypeOK
    <3>2. request[c].data.permissions \subseteq Scope[request[c].data.role]
      BY <1>1, InsertEffect
    <3> QED BY <3>1, <3>2 DEF NewRow
  <2>4. users' = users \/ users' = [users EXCEPT ![request[c].id] = NewRow(request[c].data)]
    BY <1>1, InsertEffect
  <2> QED BY <2>1, <2>2, <2>3, <2>4
<1>2. ASSUME NEW c \in Callers, UpdateUser(c)
      PROVE  users'[u].permissions \subseteq Scope[users'[u].role]
  <2> DEFINE r == request[c]
  <2>1. u \notin roleless /\ ~(u = r.id /\ r.data.role = Absent /\ r.data.permissions # Absent)
    BY <1>2 DEF UpdateUser
  <2>2. CASE u # r.id
    BY <1>2, <2>1, <2>2, UpdateEffect DEF StoredWithinScope, Sound, AccessTypeOK
  <2>3. CASE u = r.id
    <3>1. users'[u] = RowAfter(users[u], r.data) /\ users[u] # Null
      BY <1>2, <2>3, UpdateEffect, CallsAssumption DEF Sound, AccessTypeOK
    <3>2. users[u].permissions \subseteq Scope[users[u].role]
      BY <2>1, <3>1 DEF StoredWithinScope
    <3>3. r.data.role # Absent =>
            r.data.permissions # Absent /\ r.data.permissions \subseteq Scope[r.data.role]
      BY <1>2, UpdateEffect
    <3> QED BY <2>1, <2>3, <3>1, <3>2, <3>3 DEF RowAfter
  <2> QED BY <2>2, <2>3
<1>3. CASE UNCHANGED <<users, roleless>>
  BY <1>3 DEF StoredWithinScope
<1> QED BY <1>1, <1>2, <1>3
    DEF Next, Arrive, Service, SendLogin, Send, FindUser, Compare, RefuseToken,
        Authenticate, Serve, Create, Update, Deactivate, Done, accessVars

\* Stored permissions leave the scope of the role only by a body that set
\* permissions without a role.
THEOREM StoredStaysWithinScope == Spec => []StoredWithinScope
<1>1. Init => StoredWithinScope
  BY CallsAssumption DEF Init, StoredWithinScope
<1>2. Sound /\ StoredWithinScope /\ [Next]_accessVars => StoredWithinScope'
  BY StoredWithinScopeNext
<1> QED BY <1>1, <1>2, AccessSound, PTL DEF Spec

-----------------------------------------------------------------------------
(* The browser.                                                            *)

\* What is true of an answer: a sign-in names the user, and who is refused
\* may not do what was asked.
Truthful(r) ==
    r.step = "answered" =>
        /\ r.op = "login" /\ r.status = 200 => r.user \in Profile
        /\ r.status = 403 =>
             /\ r.op # "login" /\ r.user \in Profile
             /\ r.user.permissions # {} /\ ~Permits(r.user, r.op)

\* A user let into a page and to a button of it.
Let(user, page, op) ==
    page \in Pages /\ Opens(user, page) /\ Has(user, Buttons[op])

\* The tab has a user exactly when it is in the application, waits only for
\* requests of its own, and those some page that its user was let into sent.
Consistent(t) ==
    /\ tab[t].page \in Pages <=> tab[t].user # Null
    /\ tab[t].page = "loading" => tab[t].waiting = "nothing"
    /\ (/\ tab[t].waiting # "nothing" /\ tab[t].page \in Pages
        /\ request[t] # Null /\ request[t].op # "login")
         => Let(tab[t].user, tab[t].waiting, request[t].op)

SessionSound ==
    /\ Sound
    /\ SessionTypeOK
    /\ \A t \in Callers : request[t] # Null => Truthful(request[t])
    /\ \A t \in Callers : Consistent(t)

-----------------------------------------------------------------------------
(* A session is a history of requests to the API. *)

LEMMA TokenType == SessionTypeOK => Token \in Tokens
BY FormsAssumption DEF SessionTypeOK, Token, Profile

\* Whatever a page asks is one of the calls of the API.
LEMMA AskingSends ==
    ASSUME NEW t \in Callers, Asking(t)
    PROVE  \/ SignIn(t)
           \/ \E call \in Calls :
                /\ Ask(t, call.op, call.id, call.body)
                /\ Send(t, call.op, Token, call.id, call.body) /\ call.op \in TokenOps
<1> DEFINE Asks(call) == Ask(t, call.op, call.id, call.body)
<1>1. SUFFICES ASSUME NEW call \in Calls, Asks(call)
               PROVE  Send(t, call.op, Token, call.id, call.body) /\ call.op \in TokenOps
  <2>1. ASSUME NEW op \in Reads \cup {"work", "plan"}, Ask(t, op, Nobody, Nothing)
        PROVE  \E call \in Calls : Asks(call)
    <3>1. [op |-> op, id |-> Nobody, body |-> Nothing] \in Calls
      BY FormsAssumption
    <3> QED BY <2>1, <3>1
  <2>2. CASE Fetch(t) \/ Poll(t) \/ Click(t)
    <3>1. \A page \in Pages :
            Fetches[page] \cup Polls[page] \cup Clicks[page] \subseteq Reads \cup {"work", "plan"}
      BY DEF Pages, Fetches, Polls, Clicks, Reads
    <3> QED BY <2>1, <2>2, <3>1 DEF Fetch, Poll, Click
  <2>3. CASE SubmitNew(t)
    <3>1. PICK u \in Edited, form \in Forms : Ask(t, "create", u, form)
      BY <2>3 DEF SubmitNew
    <3>2. [op |-> "create", id |-> u, body |-> form] \in Calls
      BY FormsAssumption
    <3> QED BY <3>1, <3>2
  <2>4. CASE SubmitEdit(t)
    <3>1. PICK u \in Edited, form \in Forms : Ask(t, "update", u, form)
      BY <2>4 DEF SubmitEdit
    <3>2. [op |-> "update", id |-> u, body |-> form] \in Calls
      BY FormsAssumption
    <3> QED BY <3>1, <3>2
  <2>5. CASE SubmitDeactivate(t)
    <3>1. PICK u \in Edited : Ask(t, "deactivate", u, Nothing)
      BY <2>5 DEF SubmitDeactivate
    <3>2. [op |-> "deactivate", id |-> u, body |-> Nothing] \in Calls
      BY FormsAssumption
    <3> QED BY <3>1, <3>2
  <2> QED BY <2>2, <2>3, <2>4, <2>5 DEF Asking
<1> QED BY <1>1, CallsAssumption DEF Ask

\* Every step of a session is a step of Access, or leaves it alone.
LEMMA SessionStep == SessionSound /\ [SessionNext]_vars => [Next]_accessVars
<1> SUFFICES ASSUME SessionSound, [SessionNext]_vars PROVE [Next]_accessVars
  OBVIOUS
<1>1. CASE UNCHANGED vars
  BY <1>1 DEF vars, accessVars
<1>2. ASSUME NEW t \in Callers, Asking(t) PROVE Next
  <2>1. CASE SignIn(t)
    BY <2>1 DEF SignIn, Next, Arrive
  <2>2. ASSUME NEW call \in Calls, Send(t, call.op, Token, call.id, call.body) PROVE Next
    BY <2>2, TokenType DEF Next, Arrive, SessionSound
  <2> QED BY <1>2, <2>1, <2>2, AskingSends
<1>3. ASSUME NEW t \in Callers, Serving(t) \/ Expiry(t) \/ Hearing(t) PROVE Next
  BY <1>3 DEF Serving, Expiry, Hearing, HearRefusal, HearSignIn, HearOther, Unheard, Next
<1>4. ASSUME NEW t \in Callers, Logout(t) \/ Reload(t) \/ Restore(t) \/ Navigate(t)
      PROVE  UNCHANGED accessVars
  BY <1>4 DEF Logout, Reload, Restore, Navigate
<1> QED BY <1>1, <1>2, <1>3, <1>4 DEF SessionNext

-----------------------------------------------------------------------------
(* The invariant. *)

\* What the strategy makes of an active row is never without permissions.
LEMMA AuthUserHasPermissions ==
    ASSUME AccessTypeOK, NEW u \in UserIds, Active(u)
    PROVE  AuthUser(u).permissions # {}
<1>1. users[u].role \in Roles
  BY DEF AccessTypeOK, Active, UserRow
<1> QED BY <1>1, TablesAssumption DEF AuthUser, Effective, Resolve

\* The API serves: it is the same operation, and its answer is truthful.
LEMMA Served ==
    ASSUME SessionSound, NEW t \in Callers, Service(t) \/ RefuseToken(t)
    PROVE  /\ \A u \in Callers \ {t} : request'[u] = request[u]
           /\ request[t] # Null /\ request'[t].op = request[t].op
           /\ Truthful(request'[t])
<1>0. request \in [Callers -> Request \cup {Null}]
  BY DEF SessionSound, Sound, AccessTypeOK
<1>1. ASSUME NEW r, Continue(t, r)
      PROVE  request'[t] = r /\ \A u \in Callers \ {t} : request'[u] = request[u]
  BY <1>0, <1>1 DEF Continue
<1>2. ASSUME NEW status, NEW user, Answer(t, status, user),
             request[t].op = "login" /\ status = 200 => user \in Profile,
             status = 403 =>
                request[t].op # "login" /\ user \in Profile
                /\ user.permissions # {} /\ ~Permits(user, request[t].op),
             request[t] # Null
      PROVE  /\ \A u \in Callers \ {t} : request'[u] = request[u]
             /\ request[t] # Null /\ request'[t].op = request[t].op
             /\ Truthful(request'[t])
  BY <1>1, <1>2 DEF Answer, Truthful
<1>3. CASE FindUser(t)
  <2>1. CASE Active(request[t].id)
    BY <1>1, <1>3, <2>1, RequestFields, <1>0 DEF FindUser, At, Truthful
  <2>2. CASE ~Active(request[t].id)
    BY <1>2, <1>3, <2>2 DEF FindUser, At
  <2> QED BY <2>1, <2>2
<1>4. CASE Compare(t)
  <2>1. request[t].user \in Profile
    BY <1>0, <1>4, RequestFields DEF Compare, At
  <2> QED BY <1>2, <1>4, <2>1 DEF Compare, At
<1>5. CASE Authenticate(t)
  <2> DEFINE sub == request[t].sub
  <2>1. request[t].op \in TokenOps /\ sub \in UserIds \cup {Null}
    BY <1>0, <1>5, RequestFields DEF Authenticate, At
  <2>2. CASE sub = Null \/ ~Active(sub)
    BY <1>2, <1>5, <2>2 DEF Authenticate, At
  <2>3. CASE sub # Null /\ Active(sub) /\ ~Permits(AuthUser(sub), request[t].op)
    <3>1. AuthUser(sub) \in Profile /\ AuthUser(sub).permissions # {}
      BY <2>1, <2>3, AuthUserType, AuthUserHasPermissions DEF SessionSound, Sound
    <3>2. request[t].op # "login"
      BY <2>1 DEF TokenOps, Reads, Writes
    <3> QED BY <1>2, <1>5, <2>3, <3>1, <3>2 DEF Authenticate, At
  <2>4. CASE sub # Null /\ Active(sub) /\ Permits(AuthUser(sub), request[t].op)
    BY <1>1, <1>5, <2>4 DEF Authenticate, At, Truthful
  <2> QED BY <2>2, <2>3, <2>4
<1>6. CASE Serve(t)
  BY <1>2, <1>6 DEF Serve, At, Reads
<1>7. CASE Create(t) \/ Update(t) \/ Deactivate(t)
  <2>1. CASE Answer(t, 409, Null) \/ Answer(t, 404, Null)
    BY <1>2, <1>7, <2>1 DEF Create, Update, Deactivate, At
  <2>2. ASSUME NEW data, GoWrite(t, data)
        PROVE  /\ \A u \in Callers \ {t} : request'[u] = request[u]
               /\ request'[t].op = request[t].op /\ Truthful(request'[t])
    BY <1>1, <2>2 DEF GoWrite, Truthful
  <2> QED BY <1>7, <2>1, <2>2 DEF Create, Update, Deactivate, At
<1>8. CASE InsertUser(t) \/ UpdateUser(t)
  <2>1. request[t] # Null /\ request[t].op # "login"
    BY <1>8 DEF InsertUser, UpdateUser, At
  <2>2. Answer(t, 200, Null) \/ Answer(t, 500, Null)
    BY <1>8 DEF InsertUser, UpdateUser
  <2> QED BY <1>2, <2>1, <2>2
<1>9. CASE RefuseToken(t)
  BY <1>2, <1>9 DEF RefuseToken, At
<1> QED BY <1>3, <1>4, <1>5, <1>6, <1>7, <1>8, <1>9 DEF Service

\* What a tab does: one tab changes, the others and their requests stay.
LEMMA TabAlone ==
    ASSUME SessionSound, Sound', NEW t \in Callers, NEW new \in Tab,
           tab' = [tab EXCEPT ![t] = new], storage' \in Profile \cup {Null},
           \A u \in Callers \ {t} : request'[u] = request[u],
           request'[t] # Null => Truthful(request'[t]),
           new.page \in Pages <=> new.user # Null,
           new.page = "loading" => new.waiting = "nothing",
           (/\ new.waiting # "nothing" /\ new.page \in Pages
            /\ request'[t] # Null /\ request'[t].op # "login")
              => Let(new.user, new.waiting, request'[t].op)
    PROVE  SessionSound'
<1>1. SessionTypeOK'
  BY DEF SessionSound, SessionTypeOK, Sound
<1>2. ASSUME NEW u \in Callers, request'[u] # Null PROVE Truthful(request'[u])
  BY <1>2 DEF SessionSound
<1>3. ASSUME NEW u \in Callers PROVE Consistent(u)'
  <2>1. CASE u = t
    BY <2>1 DEF SessionSound, SessionTypeOK, Consistent, Let, Opens, Has, PagePermissions
  <2>2. CASE u # t
    BY <2>2 DEF SessionSound, SessionTypeOK, Consistent, Let, Opens, Has, PagePermissions
  <2> QED BY <2>1, <2>2
<1> QED BY <1>1, <1>2, <1>3 DEF SessionSound, Truthful, Permits

LEMMA SessionSoundInit == SessionInit => SessionSound
<1> SUFFICES ASSUME SessionInit PROVE SessionSound
  OBVIOUS
<1>1. Sound
  BY SoundInit DEF SessionInit
<1>2. SessionTypeOK
  BY <1>1 DEF Sound, SessionInit, SessionTypeOK, Tab, Loading
<1>3. \A t \in Callers : Consistent(t)
  BY DEF SessionInit, Consistent, Loading, Pages
<1> QED BY <1>1, <1>2, <1>3 DEF SessionSound, SessionInit, Init

LEMMA SessionSoundAsking ==
    ASSUME SessionSound, Sound', NEW t \in Callers, Asking(t)
    PROVE  SessionSound'
<1>0. tab[t] \in Tab /\ request \in [Callers -> Request \cup {Null}]
  BY DEF SessionSound, SessionTypeOK, Sound, AccessTypeOK
<1>1. ASSUME NEW waiting \in {"login"} \cup Pages
      PROVE  LET new == [tab[t] EXCEPT !.waiting = waiting] IN
             /\ new \in Tab /\ new.page = tab[t].page /\ new.user = tab[t].user
             /\ new.waiting = waiting /\ storage \in Profile \cup {Null}
  BY <1>0 DEF Tab, SessionSound, SessionTypeOK
<1>2. CASE SignIn(t)
  <2> DEFINE new == [tab[t] EXCEPT !.waiting = "login"]
  <2>1. PICK u \in UserIds : Continue(t, [step |-> "findUser", op |-> "login", id |-> u])
    BY <1>2 DEF SignIn, SendLogin
  <2>2. /\ request'[t] = [step |-> "findUser", op |-> "login", id |-> u]
        /\ \A v \in Callers \ {t} : request'[v] = request[v]
    BY <1>0, <2>1 DEF Continue
  <2>3. Truthful(request'[t]) /\ request'[t].op = "login"
    BY <2>2 DEF Truthful
  <2>4. new.page = "login" /\ new.user = Null
    BY <1>1, <1>2 DEF SignIn, SessionSound, Consistent, Pages
  <2>5. tab' = [tab EXCEPT ![t] = new] /\ storage' = storage
    BY <1>2 DEF SignIn
  <2>6. new \in Tab /\ storage \in Profile \cup {Null} /\ new.page \notin Pages
    BY <1>1, <2>4 DEF Pages
  <2> HIDE DEF new
  <2> QED BY <2>2, <2>3, <2>4, <2>5, <2>6, TabAlone
<1>3. ASSUME NEW call \in Calls, Ask(t, call.op, call.id, call.body),
             Send(t, call.op, Token, call.id, call.body), call.op \in TokenOps
      PROVE  SessionSound'
  <2> DEFINE r == [step |-> "authenticate", op |-> call.op, sub |-> Token, id |-> call.id,
                   body |-> call.body]
             new == [tab[t] EXCEPT !.waiting = tab[t].page]
  <2>1. request'[t] = r /\ \A v \in Callers \ {t} : request'[v] = request[v]
    BY <1>0, <1>3 DEF Send, Continue
  <2>2. Truthful(request'[t]) /\ request'[t].op = call.op
    BY <2>1 DEF Truthful
  <2>3. /\ new.page \in Pages /\ new.waiting \in Pages /\ new.user # Null
        /\ Let(new.user, new.waiting, call.op)
    BY <1>1, <1>3 DEF Ask, SessionSound, Consistent, Let
  <2>4. tab' = [tab EXCEPT ![t] = new] /\ storage' = storage
    BY <1>3 DEF Ask
  <2>5. new \in Tab /\ storage \in Profile \cup {Null} /\ new.page # "loading"
    BY <1>1, <1>3, <2>3 DEF Ask, Pages
  <2> HIDE DEF new, r
  <2> QED BY <2>1, <2>2, <2>3, <2>4, <2>5, TabAlone
<1> QED BY <1>2, <1>3, AskingSends

LEMMA SessionSoundHearing ==
    ASSUME SessionSound, Sound', NEW t \in Callers,
           Hearing(t) \/ Logout(t) \/ Reload(t) \/ Restore(t) \/ Navigate(t)
    PROVE  SessionSound'
<1>0. /\ tab[t] \in Tab /\ request \in [Callers -> Request \cup {Null}]
      /\ tab \in [Callers -> Tab] /\ storage \in Profile \cup {Null} /\ Consistent(t)
  BY DEF SessionSound, SessionTypeOK, Sound, AccessTypeOK
<1>1. ASSUME Done(t)
      PROVE  request'[t] = Null /\ \A u \in Callers \ {t} : request'[u] = request[u]
  BY <1>0, <1>1 DEF Done, Continue
<1> DEFINE quiet == [tab[t] EXCEPT !.waiting = "nothing"]
<1>2. /\ quiet \in Tab /\ quiet.page = tab[t].page /\ quiet.user = tab[t].user
      /\ quiet.waiting = "nothing"
  BY <1>0 DEF Tab
<1>3. /\ Loading \in Tab /\ Loading.page \notin Pages /\ Loading.user = Null
      /\ Loading.waiting = "nothing"
      /\ SignedOut \in Tab /\ SignedOut.page \notin Pages /\ SignedOut.user = Null
      /\ SignedOut.waiting = "nothing" /\ SignedOut.page # "loading"
  BY DEF Loading, SignedOut, Tab, Pages
<1>4. ASSUME NEW user \in Profile, NEW page \in Pages
      PROVE  /\ SignedIn(user, page) \in Tab /\ SignedIn(user, page).page \in Pages
             /\ SignedIn(user, page).page # "loading" /\ SignedIn(user, page).user # Null
             /\ SignedIn(user, page).waiting = "nothing"
  BY CallsAssumption DEF SignedIn, Tab, Pages
<1>5. CASE HearRefusal(t)
  <2>1. storage' = Null /\ Done(t)
    BY <1>5 DEF HearRefusal, StoredAfter401
  <2>2. CASE tab[t].page = "login"
    <3>1. tab' = [tab EXCEPT ![t] = quiet]
      BY <1>0, <1>5, <2>2 DEF HearRefusal
    <3> HIDE DEF quiet
    <3> QED BY <1>0, <1>1, <1>2, <2>1, <3>1, TabAlone DEF Consistent
  <2>3. CASE tab[t].page # "login"
    <3>1. tab' = [tab EXCEPT ![t] = Loading]
      BY <1>0, <1>5, <2>3 DEF HearRefusal
    <3> QED BY <1>1, <1>3, <2>1, <3>1, TabAlone
  <2> QED BY <2>2, <2>3
<1>6. CASE HearSignIn(t)
  <2>1. request[t] # Null /\ request[t].user \in Profile
    BY <1>6 DEF HearSignIn, Heard, At, SessionSound, Truthful
  <2>2. /\ tab' = [tab EXCEPT ![t] = SignedIn(request[t].user, "dashboard")]
        /\ storage' = request[t].user /\ Done(t)
    BY <1>6 DEF HearSignIn
  <2>3. "dashboard" \in Pages
    BY DEF Pages
  <2> QED BY <1>1, <1>4, <2>1, <2>2, <2>3, TabAlone
<1>7. CASE HearOther(t)
  <2>1. tab' = [tab EXCEPT ![t] = quiet] /\ storage' = storage /\ Done(t)
    BY <1>0, <1>7 DEF HearOther
  <2> HIDE DEF quiet
  <2> QED BY <1>0, <1>1, <1>2, <2>1, TabAlone DEF Consistent
<1>8. CASE Unheard(t)
  <2>1. /\ tab' = [tab EXCEPT ![t] = tab[t]] /\ storage' = storage /\ Done(t)
        /\ tab[t].waiting = "nothing"
    BY <1>0, <1>8 DEF Unheard, web
  <2> QED BY <1>0, <1>1, <2>1, TabAlone DEF Consistent
<1>9. CASE Logout(t)
  <2> DEFINE out == [SignedOut EXCEPT !.waiting = tab[t].waiting]
  <2>1. out \in Tab /\ out.page \notin Pages /\ out.page # "loading" /\ out.user = Null
    BY <1>0 DEF SignedOut, Tab, Pages
  <2>2. /\ tab' = [tab EXCEPT ![t] = out] /\ storage' = Null
        /\ request' = request
    BY <1>9 DEF Logout, StoredAfterLogout, accessVars
  <2>3. request'[t] # Null => Truthful(request'[t])
    BY <2>2 DEF SessionSound
  <2> HIDE DEF out
  <2> QED BY <2>1, <2>2, <2>3, TabAlone
<1>10. CASE Reload(t)
  <2>1. tab' = [tab EXCEPT ![t] = Loading] /\ storage' = storage /\ request' = request
    BY <1>10 DEF Reload, accessVars
  <2>2. request'[t] # Null => Truthful(request'[t])
    BY <2>1 DEF SessionSound
  <2> QED BY <1>0, <1>3, <2>1, <2>2, TabAlone
<1>11. CASE Restore(t)
  <2>1. storage' = storage /\ request' = request
    BY <1>11 DEF Restore, accessVars
  <2>2. request'[t] # Null => Truthful(request'[t])
    BY <2>1 DEF SessionSound
  <2>3. CASE storage = Null
    <3>1. tab' = [tab EXCEPT ![t] = SignedOut]
      BY <1>11, <2>3 DEF Restore
    <3> QED BY <1>0, <1>3, <2>1, <2>2, <3>1, TabAlone
  <2>4. CASE storage # Null
    <3>1. PICK page \in Opened[t] : tab' = [tab EXCEPT ![t] = SignedIn(storage, page)]
      BY <1>11, <2>4 DEF Restore
    <3>2. page \in Pages /\ storage \in Profile
      BY <1>0, <2>4, PagesAssumption
    <3> QED BY <1>0, <1>4, <2>1, <2>2, <3>1, <3>2, TabAlone
  <2> QED BY <2>3, <2>4
<1>12. CASE Navigate(t)
  <2>1. PICK page \in Opened[t] : tab' = [tab EXCEPT ![t].page = page]
    BY <1>12 DEF Navigate
  <2> DEFINE new == [tab[t] EXCEPT !.page = page]
  <2>2. page \in Pages /\ tab[t].page \in Pages
    BY <1>12, PagesAssumption DEF Navigate
  <2>3. /\ new \in Tab /\ new.page = page /\ new.user = tab[t].user
        /\ new.waiting = tab[t].waiting /\ page # "loading"
    BY <1>0, <2>2 DEF Tab, Pages
  <2>4. tab' = [tab EXCEPT ![t] = new] /\ storage' = storage /\ request' = request
    BY <1>12, <2>1 DEF Navigate, accessVars
  <2>5. request'[t] # Null => Truthful(request'[t])
    BY <2>4 DEF SessionSound
  <2> HIDE DEF new
  <2> QED BY <1>0, <2>2, <2>3, <2>4, <2>5, TabAlone DEF Consistent
<1> QED BY <1>5, <1>6, <1>7, <1>8, <1>9, <1>10, <1>11, <1>12 DEF Hearing

LEMMA SessionSoundNext == SessionSound /\ [SessionNext]_vars => SessionSound'
<1> SUFFICES ASSUME SessionSound, [SessionNext]_vars PROVE SessionSound'
  OBVIOUS
<1>1. Sound'
  BY SessionStep, SoundNext DEF SessionSound
<1>2. CASE UNCHANGED vars
  <2>1. SessionTypeOK'
    BY <1>1, <1>2 DEF SessionSound, SessionTypeOK, Sound, vars
  <2>2. \A t \in Callers : Consistent(t)'
    BY <1>2 DEF SessionSound, Consistent, Let, Opens, Has, PagePermissions, vars
  <2>3. \A t \in Callers : (request[t] # Null => Truthful(request[t]))'
    BY <1>2 DEF SessionSound, Truthful, Permits, vars
  <2> QED BY <1>1, <2>1, <2>2, <2>3 DEF SessionSound
<1>3. ASSUME NEW t \in Callers, Serving(t) \/ Expiry(t) PROVE SessionSound'
  <2>1. /\ \A u \in Callers \ {t} : request'[u] = request[u]
        /\ request[t] # Null /\ request'[t].op = request[t].op /\ Truthful(request'[t])
    BY <1>3, Served DEF Serving, Expiry
  <2>2. tab' = [tab EXCEPT ![t] = tab[t]] /\ storage' = storage /\ tab[t] \in Tab
    BY <1>3 DEF Serving, Expiry, web, SessionSound, SessionTypeOK
  <2> QED BY <1>1, <2>1, <2>2, TabAlone DEF SessionSound, SessionTypeOK, Consistent
<1>4. ASSUME NEW t \in Callers, Asking(t) PROVE SessionSound'
  BY <1>1, <1>4, SessionSoundAsking
<1>5. ASSUME NEW t \in Callers,
             Hearing(t) \/ Logout(t) \/ Reload(t) \/ Restore(t) \/ Navigate(t)
      PROVE  SessionSound'
  BY <1>1, <1>5, SessionSoundHearing
<1> QED BY <1>2, <1>3, <1>4, <1>5 DEF SessionNext

-----------------------------------------------------------------------------
(* The theorems. *)

\* The invariant of the API, the tabs and their requests.
THEOREM SessionIsSound == SessionSpec => []SessionSound
BY SessionSoundInit, SessionSoundNext, PTL DEF SessionSpec

\* Whatever the tabs do, the API sees a history of requests as in Access: its
\* properties hold of sessions too.
THEOREM SessionImplementsAccess == SessionSpec => Spec
<1>1. SessionInit => Init
  BY DEF SessionInit
<1> QED BY <1>1, SessionIsSound, SessionStep, PTL DEF SessionSpec, Spec

\* Tabs, the stored token and requests have their types.
THEOREM SessionTypeCorrect == SessionSpec => []SessionTypeOK
<1>1. SessionSound => SessionTypeOK
  BY DEF SessionSound
<1> QED BY <1>1, SessionIsSound, PTL

\* If the guard refuses what the web application checked, it did not look at the
\* user that the page shows: somebody else signed in, or the row has changed.
\* Nothing is said of the schedule page's writes, which have no checks, nor of
\* what a page fetches beyond what its route demands.
THEOREM RefusalsStayNews == SessionSpec => []RefusalsAreNews
<1>1. ASSUME SessionSound, NEW t \in Callers, Heard(t), tab[t].page \in Pages,
             request[t].status = 403, Covered(tab[t].waiting, request[t].op),
             request[t].user = tab[t].user
      PROVE  FALSE
  <2>1. /\ request[t] # Null /\ request[t].op # "login"
        /\ request[t].user.permissions # {} /\ ~Permits(request[t].user, request[t].op)
    BY <1>1 DEF SessionSound, Truthful, Heard, At
  <2>2. Let(tab[t].user, tab[t].waiting, request[t].op)
    BY <1>1, <2>1 DEF SessionSound, Consistent, Heard
  <2>3. \/ tab[t].user.role = "ADMIN"
        \/ Routes[tab[t].waiting] \cup Buttons[request[t].op] \subseteq tab[t].user.permissions
    BY <1>1, <2>1, <2>2 DEF Let, Opens, Has, PagePermissions
  <2> QED BY <1>1, <2>1, <2>3 DEF Covered, Permits
<1>2. SessionSound => RefusalsAreNews
  BY <1>1 DEF RefusalsAreNews
<1> QED BY <1>2, SessionIsSound, PTL

LEMMA TokenIsShownNext == SessionSound /\ TokenIsShown /\ [SessionNext]_vars => TokenIsShown'
<1> SUFFICES ASSUME SessionSound, TokenIsShown, [SessionNext]_vars, storage' # Null
             PROVE  \E t \in Callers : tab'[t].user = storage' \/ tab'[t].page = "loading"
  BY DEF TokenIsShown
<1>0. tab \in [Callers -> Tab]
  BY DEF SessionSound, SessionTypeOK
<1>1. ASSUME storage' = storage,
             \A t \in Callers : tab'[t].user = tab[t].user /\ tab'[t].page = tab[t].page
      PROVE  \E t \in Callers : tab'[t].user = storage' \/ tab'[t].page = "loading"
  BY <1>1 DEF TokenIsShown
<1>2. CASE UNCHANGED vars
  BY <1>1, <1>2 DEF vars
<1>3. ASSUME NEW t \in Callers, Serving(t) \/ Expiry(t) \/ Unheard(t)
      PROVE  \E u \in Callers : tab'[u].user = storage' \/ tab'[u].page = "loading"
  BY <1>1, <1>3 DEF Serving, Expiry, Unheard, web
<1>4. ASSUME NEW t \in Callers, Asking(t) \/ HearOther(t)
      PROVE  \E u \in Callers : tab'[u].user = storage' \/ tab'[u].page = "loading"
  <2>1. PICK waiting : tab' = [tab EXCEPT ![t].waiting = waiting]
    BY <1>4 DEF Asking, SignIn, Fetch, Poll, Click, SubmitNew, SubmitEdit, SubmitDeactivate,
                Ask, HearOther
  <2>2. storage' = storage
    BY <1>4 DEF Asking, SignIn, Fetch, Poll, Click, SubmitNew, SubmitEdit, SubmitDeactivate,
                Ask, HearOther
  <2>3. \A u \in Callers : tab'[u].user = tab[u].user /\ tab'[u].page = tab[u].page
    BY <1>0, <2>1 DEF Tab
  <2> QED BY <1>1, <2>2, <2>3
<1>5. ASSUME NEW t \in Callers, HearSignIn(t) \/ Reload(t) \/ Restore(t)
      PROVE  tab'[t].user = storage' \/ tab'[t].page = "loading"
  BY <1>0, <1>5 DEF HearSignIn, Reload, Restore, SignedIn, Loading
<1>6. ASSUME NEW t \in Callers, Navigate(t)
      PROVE  \E u \in Callers : tab'[u].user = storage' \/ tab'[u].page = "loading"
  <2>1. PICK page : tab[t].page \in Pages /\ tab' = [tab EXCEPT ![t].page = page]
    BY <1>6 DEF Navigate
  <2>2. /\ storage' = storage /\ \A u \in Callers : tab'[u].user = tab[u].user
        /\ \A u \in Callers : tab[u].page = "loading" => tab'[u].page = "loading"
    BY <1>0, <1>6, <2>1 DEF Navigate, Tab, Pages
  <2> QED BY <2>2 DEF TokenIsShown
<1>7. ASSUME NEW t \in Callers, HearRefusal(t) \/ Logout(t) PROVE FALSE
  BY <1>7 DEF HearRefusal, StoredAfter401, Logout, StoredAfterLogout
<1> QED BY <1>2, <1>3, <1>4, <1>5, <1>6, <1>7 DEF SessionNext, Hearing

\* No token stays in the browser that no tab shows the user of, or will.
THEOREM TokenStaysShown == SessionSpec => []TokenIsShown
<1>1. SessionInit => TokenIsShown
  BY DEF SessionInit, TokenIsShown
<1> QED BY <1>1, SessionIsSound, TokenIsShownNext, PTL DEF SessionSpec
=============================================================================
