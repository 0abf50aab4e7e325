------------------------------ MODULE MCAccess ------------------------------
(***************************************************************************)
(* Instances of Access: an administrator and a user to be managed, and     *)
(* three permissions, to look, to edit and to manage users.                *)
(***************************************************************************)
EXTENDS Access, TLC

CONSTANTS t1, t2, admin, other, see, edit, manage

RoleTable == ("ADMIN" :> {see, edit, manage}) @@ ("EDITOR" :> {see, edit}) @@ ("VIEWER" :> {see})

NeedsTable ==
    [op \in TokenOps |-> CASE op \in Reads \ {"list"} -> {see}
                           [] op \in {"work", "plan"} -> {edit}
                           [] OTHER -> {manage}]

SeedTable ==
    (admin :> [role |-> "ADMIN", permissions |-> {see, edit, manage}, active |-> TRUE])
    @@ (other :> Null)

AnyToken == {admin, other, Null}

Plain == [role |-> Absent, permissions |-> Absent, active |-> Absent]
Form(role, permissions) == [role |-> role, permissions |-> permissions, active |-> TRUE]

\* Scripts create and deactivate, send what the users page would send, and
\* bodies without a role or without anything else.
ScriptCalls ==
    [op : {"create", "update"}, id : {other},
     body : {Form("EDITOR", {edit}), Form("ADMIN", {see, manage})}]
    \cup [op : {"update"}, id : {admin, other},
          body : {[Plain EXCEPT !.permissions = {see, manage}], [Plain EXCEPT !.role = "VIEWER"]}]
    \cup [op : {"deactivate"}, id : {admin, other}, body : {Plain}]
    \cup [op : {"schedules"}, id : {other}, body : {Plain}]

Symmetry == Permutations({t1, t2})
=============================================================================
