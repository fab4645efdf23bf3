------------------------------ MODULE Session ------------------------------
(***************************************************************************)
(* Who is logged in to the dashboard.  Each browser tab runs AuthProvider   *)
(* (contexts/AuthContext.jsx) with a token in its state; the tabs share     *)
(* localStorage.  Pages call the server in two ways: authFetch sends the    *)
(* token of the tab's state, the axios instance of services/api.js the one  *)
(* in localStorage; each reacts to a 401 in its own way.                    *)
(***************************************************************************)
EXTENDS Naturals, FiniteSets

CONSTANTS Tabs, Tokens, None,
          MaxCalls  \* bound on the requests one tab has under way

ASSUME SessionAssumption == None \notin Tokens /\ MaxCalls \in Nat

VARIABLES
    auth,     \* per tab: the state of AuthProvider and of the login form
    storage,  \* localStorage: authToken and authUser
    calls,    \* the pages' requests under way
    logins,   \* the tabs whose POST /auth/login is under way
    valid,    \* tokens the server accepts
    issued,   \* tokens the server ever gave
    refused   \* history: tokens a tab was told are refused

vars == <<auth, storage, calls, logins, valid, issued, refused>>

TokenOrNone == Tokens \cup {None}
Empty == [token |-> None, user |-> None]

\* user is what authUser holds: JSON with isRoot, other JSON, or no JSON.
Stored == {Empty} \cup [token : Tokens, user : {"root", "other", "garbage"}]

Screens == {"loading", "login", "redirect", "pages"}
Calls == [tab : Tabs, via : {"authFetch", "axios"}, token : TokenOrNone,
          status : {"sent", "ok", "401"}]

TypeOK ==
    /\ auth \in [Tabs -> [loading : BOOLEAN, token : TokenOrNone,
                          path : {"/login", "/page"}, submitting : BOOLEAN,
                          error : BOOLEAN]]
    /\ storage \in Stored
    /\ calls \subseteq Calls
    /\ logins \subseteq Tabs
    /\ valid \subseteq issued /\ issued \subseteq Tokens
    /\ refused \subseteq Tokens

\* A component's first render; isAuthenticated is that token is not None.
Mounted(path) == [loading |-> TRUE, token |-> None, path |-> path,
                  submitting |-> FALSE, error |-> FALSE]

Init ==
    /\ auth \in [Tabs -> {Mounted(p) : p \in {"/login", "/page"}}]
    /\ storage \in Stored
    /\ calls = {} /\ logins = {} /\ refused = {}
    /\ issued = {storage.token} \ {None}
    /\ valid \in SUBSET issued

IsAuthenticated(tab) == auth[tab].token # None

\* What App renders.
Screen(tab) ==
    IF auth[tab].loading THEN "loading"
    ELSE IF ~IsAuthenticated(tab) THEN "login"
    ELSE IF auth[tab].path = "/login" THEN "redirect" ELSE "pages"

---------------------------------------------------------------------------
(* AuthProvider *)

(* The effect of the first render: a root user's token is restored; what    *)
(* is there but cannot be used is cleared (checkAuth).                      *)
Restore(tab) ==
    /\ auth[tab].loading
    /\ IF storage.user = "root"
         THEN /\ auth' = [auth EXCEPT ![tab].token = storage.token,
                                      ![tab].loading = FALSE]
              /\ UNCHANGED storage
         ELSE /\ storage' = Empty
              /\ auth' = [auth EXCEPT ![tab].loading = FALSE]
    /\ UNCHANGED <<calls, logins, valid, issued, refused>>

\* Mutant: only the state of the tab is cleared.
Forget_State(tab) ==
    /\ auth' = [auth EXCEPT ![tab].token = None]
    /\ UNCHANGED storage

\* The token goes from the tab's state and from localStorage.
Forget(tab) ==
    /\ auth' = [auth EXCEPT ![tab].token = None]
    /\ storage' = Empty

\* handleLogout: logout(), then navigate('/login').
Logout(tab) ==
    /\ Screen(tab) = "pages"
    /\ auth' = [auth EXCEPT ![tab].token = None, ![tab].path = "/login"]
    /\ storage' = Empty
    /\ UNCHANGED <<calls, logins, valid, issued, refused>>

---------------------------------------------------------------------------
(* The login page *)

\* Login.handleLogin: the button is disabled while a request is under way.
SubmitLogin(tab) ==
    /\ Screen(tab) = "login" /\ ~auth[tab].submitting
    /\ auth' = [auth EXCEPT ![tab].submitting = TRUE, ![tab].error = FALSE]
    /\ logins' = logins \cup {tab}
    /\ UNCHANGED <<storage, calls, valid, issued, refused>>

\* Mutant: the token of the answer is not looked at.
LoginAccepted_NoToken(tab, t) ==
    /\ tab \in logins /\ t \notin issued
    /\ auth' = [auth EXCEPT ![tab] = [@ EXCEPT !.path = "/page",
                                               !.submitting = FALSE]]
    /\ storage' = [token |-> None, user |-> "root"]
    /\ logins' = logins \ {tab}
    /\ UNCHANGED <<calls, valid, issued, refused>>

(* The answer to login(): a root token is kept in both places, and App      *)
(* navigates to the start page; anything else becomes an error.             *)
LoginAccepted(tab, t) ==
    /\ tab \in logins /\ t \notin issued
    /\ issued' = issued \cup {t} /\ valid' = valid \cup {t}
    /\ auth' = [auth EXCEPT ![tab] = [@ EXCEPT !.token = t, !.path = "/page",
                                               !.submitting = FALSE]]
    /\ storage' = [token |-> t, user |-> "root"]
    /\ logins' = logins \ {tab}
    /\ UNCHANGED <<calls, refused>>

LoginRefused(tab) ==
    /\ tab \in logins
    /\ auth' = [auth EXCEPT ![tab].submitting = FALSE, ![tab].error = TRUE]
    /\ logins' = logins \ {tab}
    /\ UNCHANGED <<storage, calls, valid, issued, refused>>

---------------------------------------------------------------------------
(* Requests of the pages *)

CallsOf(tab) == {c \in calls : c.tab = tab}

\* authFetch sends the token of the state it was made with.
AuthFetch(tab) ==
    /\ Screen(tab) = "pages" /\ Cardinality(CallsOf(tab)) < MaxCalls
    /\ calls' = calls \cup {[tab |-> tab, via |-> "authFetch",
                             token |-> auth[tab].token, status |-> "sent"]}
    /\ UNCHANGED <<auth, storage, logins, valid, issued, refused>>

\* The request interceptor reads localStorage.
Axios(tab) ==
    /\ Screen(tab) = "pages" /\ Cardinality(CallsOf(tab)) < MaxCalls
    /\ calls' = calls \cup {[tab |-> tab, via |-> "axios",
                             token |-> storage.token, status |-> "sent"]}
    /\ UNCHANGED <<auth, storage, logins, valid, issued, refused>>

Serve(c) ==
    /\ c \in calls /\ c.status = "sent"
    /\ calls' = (calls \ {c}) \cup
         {[c EXCEPT !.status = IF c.token \in valid THEN "ok" ELSE "401"]}
    /\ UNCHANGED <<auth, storage, logins, valid, issued, refused>>

Answered(c) ==
    /\ c \in calls /\ c.status = "ok"
    /\ calls' = calls \ {c}
    /\ UNCHANGED <<auth, storage, logins, valid, issued, refused>>

\* A page that is loaded anew: its requests are cancelled.
Load(tab, path) ==
    /\ auth' = [auth EXCEPT ![tab] = Mounted(path)]
    /\ logins' = logins \ {tab}

(* A 401.  authFetch forgets the token; the user is shown the login page.   *)
UnauthorizedFetch(c) ==
    /\ c \in calls /\ c.status = "401" /\ c.via = "authFetch"
    /\ Forget(c.tab)
    /\ calls' = calls \ {c}
    /\ refused' = refused \cup ({c.token} \ {None})
    /\ UNCHANGED <<logins, valid, issued>>

\* The response interceptor clears localStorage and loads the login page.
UnauthorizedAxios(c) ==
    /\ c \in calls /\ c.status = "401" /\ c.via = "axios"
    /\ storage' = Empty
    /\ Load(c.tab, "/login")
    /\ calls' = calls \ CallsOf(c.tab)
    /\ refused' = refused \cup ({c.token} \ {None})
    /\ UNCHANGED <<valid, issued>>

---------------------------------------------------------------------------

\* App's replacing navigation when a user who is logged in is at /login.
Redirect(tab) ==
    /\ Screen(tab) = "redirect"
    /\ auth' = [auth EXCEPT ![tab].path = "/page"]
    /\ UNCHANGED <<storage, calls, logins, valid, issued, refused>>

\* The user reloads the tab.
Reload(tab) ==
    /\ Load(tab, auth[tab].path)
    /\ calls' = calls \ CallsOf(tab)
    /\ UNCHANGED <<storage, valid, issued, refused>>

\* A token expires, or the server's secret changes.
Expire(t) ==
    /\ t \in valid
    /\ valid' = valid \ {t}
    /\ UNCHANGED <<auth, storage, calls, logins, issued, refused>>

Next ==
    \/ \E tab \in Tabs :
         \/ Restore(tab) \/ Logout(tab) \/ SubmitLogin(tab)
         \/ \E t \in Tokens : LoginAccepted(tab, t)
         \/ LoginRefused(tab) \/ AuthFetch(tab) \/ Axios(tab)
         \/ Redirect(tab) \/ Reload(tab)
    \/ \E c \in calls : Serve(c) \/ Answered(c) \/ UnauthorizedFetch(c)
                          \/ UnauthorizedAxios(c)
    \/ \E t \in Tokens : Expire(t)

Spec == Init /\ [][Next]_vars

---------------------------------------------------------------------------
(* A token one tab was told is refused is in localStorage no more, and no   *)
(* tab puts it back: whatever is restored by a later reload, it is not a    *)
(* session that already ended with a 401 (AuthContext.jsx:104, api.js:38).  *)
RefusedNotStored == storage.token \notin refused
=============================================================================
