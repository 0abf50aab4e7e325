------------------------------ MODULE Session ------------------------------
(***************************************************************************)
(* The admin web in the tabs of one browser (apps/admin-web/src): signing  *)
(* in and out, the token that all tabs share through localStorage, the     *)
(* user that each tab remembers for itself, the guards of pages and        *)
(* buttons, and the users page, on top of the API of Access.               *)
(*                                                                         *)
(* The callers of Access are the tabs, each with one request at a time.    *)
(***************************************************************************)
EXTENDS Access

CONSTANTS
    Routes,         \* what the router demands of who opens a page
    Buttons,        \* what a page demands of who clicks, by the operation it sends
    Opened,         \* the pages that each tab is used for
    InFront,        \* the tabs in windows that are never hidden
    Edited,         \* the users that the users page is opened for
    Forms           \* what the form of the users page may hold

VARIABLES
    storage,        \* localStorage: the user whose token and data it holds
    tab             \* what each tab shows and waits for

web == <<storage, tab>>
vars == <<users, request, roleless, storage, tab>>

Pages == {"dashboard", "channels", "assets", "schedules", "users"}

\* What a page asks for by itself, whatever its user may do.
Fetches ==
    [dashboard |-> {"snapshot"},
     channels |-> {"channels", "schedules"},
     assets |-> {"assets"},
     schedules |-> {"channels", "assets", "schedules"},
     users |-> {"list"}]

\* What it asks for again every 30 seconds (refetchInterval), while its tab is
\* not hidden.
Polls ==
    [dashboard |-> {"snapshot"}, channels |-> {"schedules"},
     assets |-> {}, schedules |-> {}, users |-> {}]

\* What can be clicked on a page, but for the forms of the users page.
Clicks ==
    [dashboard |-> {}, channels |-> {"work"}, assets |-> {"work"},
     schedules |-> {"plan"}, users |-> {}]

\* page: "loading" until the saved sign-in is restored.  user: the zustand
\* store.  waiting: the page that sent the request the tab listens for.
Tab == [page : {"loading", "login"} \cup Pages, user : Profile \cup {Null},
        waiting : {"nothing", "login"} \cup Pages]

\* The token is the user's whose data lies beside it: both are set and both
\* are removed in one go.
Token == IF storage = Null THEN Null ELSE storage.id

Loading == [page |-> "loading", user |-> Null, waiting |-> "nothing"]
SignedOut == [page |-> "login", user |-> Null, waiting |-> "nothing"]
SignedIn(user, page) == [page |-> page, user |-> user, waiting |-> "nothing"]

\* The body, and the user, of a request that is about no user.
Nothing == [role |-> Absent, permissions |-> Absent, active |-> Absent]
Nobody == CHOOSE u \in UserIds : TRUE

\* The router, and the buttons: only the schedule page and the pages' own
\* fetches ask for no permission.
ASSUME PagesAssumption ==
    /\ Routes \in [Pages -> SUBSET Permissions]
    /\ Buttons \in [TokenOps -> SUBSET Permissions]
    /\ \A op \in Reads \cup {"plan"} : Buttons[op] = {}
    /\ Opened \in [Callers -> SUBSET Pages] /\ \A t \in Callers : "dashboard" \in Opened[t]
    /\ InFront \subseteq Callers

\* What the pages send is among the calls that the API gets; the form has a
\* role and insists on a permission.
ASSUME FormsAssumption ==
    /\ Edited \subseteq UserIds /\ Tokens = UserIds \cup {Null}
    /\ Forms \subseteq [role : Roles, permissions : SUBSET Permissions \ {{}}, active : BOOLEAN]
    /\ \A op \in Reads \cup {"work", "plan"} :
          [op |-> op, id |-> Nobody, body |-> Nothing] \in Calls
    /\ \A u \in Edited :
         /\ [op |-> "deactivate", id |-> u, body |-> Nothing] \in Calls
         /\ \A op \in {"create", "update"}, form \in Forms :
              [op |-> op, id |-> u, body |-> form] \in Calls

\* Mutant: the web application trusts the role alone.
RolePermissions(user) == Defaults[user.role]

\* resolveEffectivePermissions of the web application
PagePermissions(user) ==
    IF user.permissions # {} THEN user.permissions ELSE Defaults[user.role]

\* hasPermission, hasAllPermissions
Has(user, needed) == user.role = "ADMIN" \/ needed \subseteq PagePermissions(user)

\* PermissionRoute
Opens(user, page) == Has(user, Routes[page])

SessionInit ==
    /\ Init
    /\ storage = Null
    /\ tab = [t \in Callers |-> Loading]

-----------------------------------------------------------------------------
(* A tab sends. *)

SignIn(t) ==
    /\ tab[t].page = "login"
    /\ SendLogin(t)
    /\ tab' = [tab EXCEPT ![t].waiting = "login"]
    /\ UNCHANGED storage

\* The page is there if the router lets its user in, and the button if the page
\* does.  The interceptor takes the token from localStorage, whoever the tab shows.
Ask(t, op, u, body) ==
    /\ tab[t].page \in Pages
    /\ Opens(tab[t].user, tab[t].page)
    /\ Has(tab[t].user, Buttons[op])
    /\ Send(t, op, Token, u, body)
    /\ tab' = [tab EXCEPT ![t].waiting = tab[t].page]
    /\ UNCHANGED storage

\* A page fetches when it is opened, comes to the front or has written.
Fetch(t) ==
    /\ tab[t].page \in Pages
    /\ \E op \in Fetches[tab[t].page] : Ask(t, op, Nobody, Nothing)

Poll(t) ==
    /\ tab[t].page \in Pages
    /\ \E op \in Polls[tab[t].page] : Ask(t, op, Nobody, Nothing)

Click(t) ==
    /\ tab[t].page \in Pages
    /\ \E op \in Clicks[tab[t].page] : Ask(t, op, Nobody, Nothing)

\* handleSubmit sends every field of the form, touched or not.  The form was
\* filled from a row as it was listed, the operator may have changed it, and
\* the row may have changed any number of times since: it may hold anything.
SubmitNew(t) ==
    /\ tab[t].page = "users"
    /\ \E u \in Edited, form \in Forms : Ask(t, "create", u, form)

SubmitEdit(t) ==
    /\ tab[t].page = "users"
    /\ \E u \in Edited, form \in Forms : Ask(t, "update", u, form)

\* Nobody gets the button for themselves.
SubmitDeactivate(t) ==
    /\ tab[t].page = "users"
    /\ \E u \in Edited \ {tab[t].user.id} : Ask(t, "deactivate", u, Nothing)

-----------------------------------------------------------------------------
(* A tab hears, or does not. *)

Heard(t) == At(t, "answered") /\ tab[t].waiting # "nothing"

\* Mutant: the interceptor redirects and leaves the token where it is.
KeepStoredAuth == storage

\* clearStoredAuth of the response interceptor
StoredAfter401 == Null

\* A 401 takes the token from all tabs, whoever it was meant for, and this
\* tab loads the sign-in page unless it is there.
HearRefusal(t) ==
    /\ Heard(t) /\ Done(t)
    /\ request[t].status = 401
    /\ storage' = StoredAfter401
    /\ tab' = [tab EXCEPT ![t] = IF @.page = "login" THEN [@ EXCEPT !.waiting = "nothing"]
                                 ELSE Loading]

\* login of the auth store; the dashboard opens.
HearSignIn(t) ==
    /\ Heard(t) /\ Done(t)
    /\ request[t].op = "login" /\ request[t].status = 200
    /\ storage' = request[t].user
    /\ tab' = [tab EXCEPT ![t] = SignedIn(request[t].user, "dashboard")]

\* Data or an error is shown.
HearOther(t) ==
    /\ Heard(t) /\ Done(t)
    /\ request[t].status # 401
    /\ request[t].op = "login" => request[t].status # 200
    /\ tab' = [tab EXCEPT ![t].waiting = "nothing"]
    /\ UNCHANGED storage

\* The page that asked is gone.
Unheard(t) ==
    /\ tab[t].waiting = "nothing"
    /\ Done(t)
    /\ UNCHANGED web

\* Mutant: signing out leaves the token where it is.
KeepAtLogout == storage

\* clearStoredAuth of the auth store
StoredAfterLogout == Null

\* Header, handleLogout; requests under way stay under way.
Logout(t) ==
    /\ tab[t].page \in Pages
    /\ storage' = StoredAfterLogout
    /\ tab' = [tab EXCEPT ![t] = [SignedOut EXCEPT !.waiting = tab[t].waiting]]
    /\ UNCHANGED accessVars

\* The operator loads the page again, or closes the tab and opens it later.
Reload(t) ==
    /\ tab[t].page # "loading"
    /\ tab' = [tab EXCEPT ![t] = Loading]
    /\ UNCHANGED <<accessVars, storage>>

\* restoreAuth.  The page is that of the address, for which the sign-in page
\* puts the dashboard.
Restore(t) ==
    /\ tab[t].page = "loading"
    /\ \/ storage = Null /\ tab' = [tab EXCEPT ![t] = SignedOut]
       \/ /\ storage # Null
          /\ \E page \in Opened[t] : tab' = [tab EXCEPT ![t] = SignedIn(storage, page)]
    /\ UNCHANGED <<accessVars, storage>>

\* The menu.  Requests under way stay under way, and the tab hears them.
Navigate(t) ==
    /\ tab[t].page \in Pages
    /\ \E page \in Opened[t] \ {tab[t].page} : tab' = [tab EXCEPT ![t].page = page]
    /\ UNCHANGED <<accessVars, storage>>

-----------------------------------------------------------------------------

Serving(c) == Service(c) /\ UNCHANGED web

Expiry(c) == RefuseToken(c) /\ UNCHANGED web

Asking(t) ==
    \/ SignIn(t) \/ Fetch(t) \/ Poll(t) \/ Click(t)
    \/ SubmitNew(t) \/ SubmitEdit(t) \/ SubmitDeactivate(t)

Hearing(t) == HearRefusal(t) \/ HearSignIn(t) \/ HearOther(t) \/ Unheard(t)

SessionNext ==
    \E t \in Callers :
        \/ Serving(t) \/ Expiry(t)
        \/ Asking(t) \/ Hearing(t)
        \/ Logout(t) \/ Reload(t) \/ Restore(t) \/ Navigate(t)

SessionSpec == SessionInit /\ [][SessionNext]_vars

\* What happens by itself: the server serves, answers arrive, a loading page
\* loads.
Running(t) == Serving(t) \/ Hearing(t) \/ Restore(t)

\* Only a page with an interval asks by itself, and only in a tab that is not
\* hidden.  Nobody has to sign in, click, change the page or send a script.
FairSessionSpec ==
    /\ SessionSpec
    /\ \A t \in Callers : WF_vars(Running(t))
    /\ \A t \in InFront : WF_vars(Poll(t))

-----------------------------------------------------------------------------
(* Properties. *)

SessionTypeOK ==
    /\ AccessTypeOK
    /\ storage \in Profile \cup {Null}
    /\ tab \in [Callers -> Tab]

\* The router and the buttons ask for what the API will ask for.
Covered(page, op) == Needs[op] \subseteq Routes[page] \cup Buttons[op]

\* What the web application checked and the guard refuses is news to the page:
\* the row that the guard read, or the user of the token, is not what the tab
\* shows.  This says nothing of what is not covered: every write of the schedule
\* page, which has no checks, and what a page fetches beside its own list.
RefusalsAreNews ==
    \A t \in Callers :
        (/\ Heard(t) /\ tab[t].page \in Pages /\ request[t].status = 403
         /\ Covered(tab[t].waiting, request[t].op))
            => request[t].user # tab[t].user

\* While a token is stored, some tab shows its user or is about to: the token
\* is never left to nobody, whatever other tabs sign in, out or are refused.
TokenIsShown ==
    storage # Null => \E t \in Callers : tab[t].user = storage \/ tab[t].page = "loading"

\* A user who stays deactivated loses the token in the browser, if a tab left
\* in front on a page that polls, and may open it.  A tab on a page that does
\* not poll, or behind others, keeps the token until somebody clicks.
DeactivatedSignedOut ==
    \A u \in UserIds :
        (/\ <>[](users[u] # Null /\ ~users[u].active)
         /\ <>[][\A t \in InFront : ~Reload(t) /\ ~Navigate(t)]_vars)
            => <>[](Token = u =>
                      \A t \in InFront :
                        tab[t].page \in Pages /\ Polls[tab[t].page] # {}
                            => ~Opens(tab[t].user, tab[t].page))
=============================================================================
