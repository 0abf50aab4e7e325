SPECIFICATION FairSessionSpec
CONSTANTS
    t1 = t1
    t2 = t2
    admin = admin
    other = other
    see = see
    edit = edit
    manage = manage
    look = look
    Callers = {t1, t2}
    UserIds = {admin, other}
    Permissions = {see, look, edit, manage}
    Scope <- SessionRoles
    Defaults <- SessionRoles
    Needs <- SessionNeeds
    Calls <- PageCalls
    Seed <- SessionSeed
    Routes <- RoutesTable
    Buttons <- ButtonsTable
    Opened <- TabPages
    InFront = {t1}
    Edited = {other}
    Tokens <- AnyToken
    Forms <- EditorForms
    Absent = Absent
    Null = Null
INVARIANTS
    SessionTypeOK
    RefusalsAreNews
    TokenIsShown
PROPERTIES
    DeactivatedSignedOut
