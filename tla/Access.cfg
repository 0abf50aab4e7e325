SPECIFICATION Spec
CONSTANTS
    t1 = t1
    t2 = t2
    admin = admin
    other = other
    see = see
    edit = edit
    manage = manage
    Callers = {t1, t2}
    UserIds = {admin, other}
    Permissions = {see, edit, manage}
    Scope <- RoleTable
    Defaults <- RoleTable
    Needs <- NeedsTable
    Calls <- ScriptCalls
    Seed <- SeedTable
    Tokens <- AnyToken
    Absent = Absent
    Null = Null
SYMMETRY Symmetry
INVARIANTS
    AccessTypeOK
    GuardWithinRole
    StoredWithinScope
PROPERTIES
    UsersWrittenByAdmins
