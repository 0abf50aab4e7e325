----------------------------- MODULE MCSession -----------------------------
(***************************************************************************)
(* An instance of Session with two tabs, over the tables of MCAccess: one  *)
(* more permission, to see assets, sets the pages apart.  The user to be   *)
(* managed lacks it, and may not edit: the schedule page opens for them,   *)
(* fetches assets and offers to write schedules all the same.              *)
(***************************************************************************)
EXTENDS Session, MCAccess

CONSTANT look

SessionRoles ==
    ("ADMIN" :> {see, look, edit, manage}) @@ ("EDITOR" :> {see, look, edit})
    @@ ("VIEWER" :> {see, look})

SessionNeeds ==
    [op \in TokenOps |-> CASE op = "snapshot" -> {see, look}
                           [] op = "assets" -> {look}
                           [] OTHER -> NeedsTable[op]]

SessionSeed ==
    (admin :> [role |-> "ADMIN", permissions |-> {see, look, edit, manage}, active |-> TRUE])
    @@ (other :> [role |-> "EDITOR", permissions |-> {see}, active |-> TRUE])

RoutesTable ==
    [dashboard |-> {see, look}, channels |-> {see}, assets |-> {look},
     schedules |-> {see}, users |-> {manage}]

ButtonsTable ==
    [op \in TokenOps |-> IF op \in Reads \cup {"plan"} THEN {} ELSE NeedsTable[op]]

TabPages == (t1 :> {"dashboard", "channels", "schedules"}) @@ (t2 :> {"dashboard", "users"})

EditorForms == {Form("EDITOR", {see})}

\* What the pages send.
PageCalls ==
    [op : {"create", "update"}, id : {other}, body : EditorForms]
    \cup [op : {"deactivate"}, id : {other}, body : {Plain}]
    \cup [op : Reads \cup {"work", "plan"}, id : {Nobody}, body : {Plain}]
=============================================================================
