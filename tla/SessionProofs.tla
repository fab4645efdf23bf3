--------------------------- MODULE SessionProofs ---------------------------
(***************************************************************************)
(* Proofs about the sessions of the dashboard, for any set of tabs and      *)
(* tokens and any number of requests.                                       *)
(***************************************************************************)
EXTENDS Session, TLAPS

(* Every token that is kept or sent was issued by the server, so a token    *)
(* that a login brings is none of those that were refused.                  *)
OriginInv ==
    /\ refused \subseteq issued
    /\ storage.token \in issued \cup {None}
    /\ \A tab \in Tabs : auth[tab].token \in issued \cup {None}
    /\ \A c \in calls : c.token \in issued \cup {None}

SessionInv == TypeOK /\ OriginInv /\ RefusedNotStored

(* The conjuncts of TypeOK. *)
TabState == [loading : BOOLEAN, token : TokenOrNone, path : {"/login", "/page"},
             submitting : BOOLEAN, error : BOOLEAN]
AuthOK == auth \in [Tabs -> TabState]
StorageOK == storage \in Stored
CallsOK == calls \subseteq Calls
ServerOK == valid \subseteq issued /\ issued \subseteq Tokens

LEMMA TypeParts ==
    /\ TypeOK <=> AuthOK /\ StorageOK /\ CallsOK /\ logins \subseteq Tabs
                    /\ ServerOK /\ refused \subseteq Tokens
    /\ TypeOK' <=> AuthOK' /\ StorageOK' /\ CallsOK' /\ logins' \subseteq Tabs
                    /\ ServerOK' /\ refused' \subseteq Tokens
BY DEF TypeOK, AuthOK, TabState, StorageOK, CallsOK, ServerOK

LEMMA StoredToken ==
    /\ Empty.token = None
    /\ Empty \in Stored
    /\ \A s \in Stored : s.token \in TokenOrNone
    /\ \A t \in Tokens : [token |-> t, user |-> "root"] \in Stored
BY DEF Empty, Stored, TokenOrNone

LEMMA MountedTab ==
    ASSUME NEW path \in {"/login", "/page"}
    PROVE  Mounted(path) \in TabState /\ Mounted(path).token = None
BY DEF Mounted, TabState, TokenOrNone

---------------------------------------------------------------------------

LEMMA InitHolds == SessionAssumption /\ Init => SessionInv
<1> SUFFICES ASSUME SessionAssumption, Init PROVE SessionInv
  OBVIOUS
<1>1. storage \in Stored /\ storage.token \in TokenOrNone
  BY StoredToken DEF Init
<1>2. issued = {storage.token} \ {None} /\ issued \subseteq Tokens
  BY <1>1 DEF Init, TokenOrNone
<1>3. PICK p \in [Tabs -> {"/login", "/page"}] :
        \A tab \in Tabs : auth[tab] = Mounted(p[tab])
  <2> DEFINE P(tab) == CHOOSE q \in {"/login", "/page"} : auth[tab] = Mounted(q)
  <2>1. \A tab \in Tabs : \E q \in {"/login", "/page"} : auth[tab] = Mounted(q)
    BY DEF Init
  <2>2. \A tab \in Tabs : P(tab) \in {"/login", "/page"} /\ auth[tab] = Mounted(P(tab))
    BY <2>1
  <2>3. [tab \in Tabs |-> P(tab)] \in [Tabs -> {"/login", "/page"}]
    BY <2>2
  <2> QED BY <2>2, <2>3
<1>4. \A tab \in Tabs : auth[tab] \in TabState /\ auth[tab].token = None
  BY <1>3, MountedTab
<1>5. AuthOK
  BY <1>4 DEF Init, AuthOK
<1>6. TypeOK
  BY <1>1, <1>2, <1>5, TypeParts DEF Init, StorageOK, CallsOK, ServerOK
<1>7. OriginInv
  BY <1>1, <1>2, <1>4 DEF Init, OriginInv, TokenOrNone
<1>8. RefusedNotStored
  BY DEF Init, RefusedNotStored
<1> QED BY <1>6, <1>7, <1>8 DEF SessionInv

(* A request of a page that is shown: its token comes from the tab or from  *)
(* localStorage.                                                            *)
LEMMA CallStep ==
    ASSUME SessionInv, NEW tab \in Tabs, AuthFetch(tab) \/ Axios(tab)
    PROVE  SessionInv'
<1> USE DEF SessionInv, TypeOK, OriginInv, RefusedNotStored, AuthFetch, Axios,
            Calls, TokenOrNone, Stored, Empty
<1>1. TypeOK'
  OBVIOUS
<1>2. OriginInv' /\ RefusedNotStored'
  OBVIOUS
<1> QED BY <1>1, <1>2

(* What a step does to one tab: its new state is that of a tab, and its     *)
(* token is an issued one.                                                  *)
LEMMA OneTab ==
    ASSUME SessionInv, NEW tab \in Tabs, NEW s \in TabState,
           s.token \in issued' \cup {None}, issued \subseteq issued',
           auth' = [auth EXCEPT ![tab] = s]
    PROVE  AuthOK' /\ \A u \in Tabs : auth'[u].token \in issued' \cup {None}
<1>1. AuthOK
  BY TypeParts DEF SessionInv
<1>2. \A u \in Tabs : auth'[u] = IF u = tab THEN s ELSE auth[u]
  BY <1>1 DEF AuthOK
<1> QED BY <1>1, <1>2 DEF AuthOK, SessionInv, OriginInv

(* The steps of a tab that leave the requests and the server alone: the tab *)
(* and localStorage hold tokens they held before, or none.                  *)
LEMMA Kept ==
    ASSUME SessionInv, NEW tab \in Tabs, NEW s \in TabState,
           auth' = [auth EXCEPT ![tab] = s],
           s.token \in {None, auth[tab].token, storage.token},
           storage' \in {storage, Empty},
           logins' \subseteq Tabs, calls' \subseteq calls,
           UNCHANGED <<issued, refused>>, valid' \subseteq valid,
           None \notin refused
    PROVE  SessionInv'
<1>1. s.token \in issued' \cup {None}
  BY DEF SessionInv, OriginInv
<1>2. AuthOK' /\ \A u \in Tabs : auth'[u].token \in issued' \cup {None}
  BY <1>1, OneTab
<1>3. StorageOK' /\ storage'.token \in {storage.token, None}
  BY StoredToken, TypeParts DEF SessionInv, StorageOK
<1>4. TypeOK'
  BY <1>2, <1>3, TypeParts DEF SessionInv, CallsOK, ServerOK
<1>5. OriginInv'
  BY <1>2, <1>3 DEF SessionInv, OriginInv
<1>6. RefusedNotStored'
  BY <1>3 DEF SessionInv, RefusedNotStored
<1> QED BY <1>4, <1>5, <1>6 DEF SessionInv

LEMMA NoneNotRefused ==
    ASSUME SessionAssumption, SessionInv PROVE None \notin refused
BY DEF SessionAssumption, SessionInv, TypeOK

(* The steps that change what a tab or localStorage keeps, no request.      *)
LEMMA TabStep ==
    ASSUME SessionAssumption, SessionInv, NEW tab \in Tabs,
           \/ Restore(tab) \/ Logout(tab) \/ SubmitLogin(tab)
           \/ LoginRefused(tab) \/ Redirect(tab) \/ Reload(tab)
    PROVE  SessionInv'
<1> DEFINE old == auth[tab]
<1>1. /\ AuthOK /\ old \in TabState /\ logins \subseteq Tabs
      /\ storage.token \in TokenOrNone /\ None \notin refused
  BY TypeParts, StoredToken, NoneNotRefused DEF SessionInv, AuthOK, StorageOK
<1>2. CASE Restore(tab)
  <2>1. CASE storage.user = "root"
    <3> DEFINE s == [old EXCEPT !.token = storage.token, !.loading = FALSE]
    <3>1. s \in TabState /\ s.token = storage.token
      BY <1>1 DEF TabState
    <3>2. auth' = [auth EXCEPT ![tab] = s]
      BY <1>1, <1>2, <2>1 DEF Restore, AuthOK
    <3>3. UNCHANGED <<storage, logins, calls, valid, issued, refused>>
      BY <1>2, <2>1 DEF Restore
    <3> QED BY <1>1, <3>1, <3>2, <3>3, Kept
  <2>2. CASE storage.user # "root"
    <3> DEFINE s == [old EXCEPT !.loading = FALSE]
    <3>1. s \in TabState /\ s.token = old.token
      BY <1>1 DEF TabState
    <3>2. auth' = [auth EXCEPT ![tab] = s] /\ storage' = Empty
      BY <1>1, <1>2, <2>2 DEF Restore, AuthOK
    <3>3. UNCHANGED <<logins, calls, valid, issued, refused>>
      BY <1>2 DEF Restore
    <3> QED BY <1>1, <3>1, <3>2, <3>3, Kept
  <2> QED BY <2>1, <2>2
<1>3. CASE Logout(tab)
  <2> DEFINE s == [old EXCEPT !.token = None, !.path = "/login"]
  <2>1. s \in TabState /\ s.token = None
    BY <1>1 DEF TabState, TokenOrNone
  <2>2. auth' = [auth EXCEPT ![tab] = s] /\ storage' = Empty
    BY <1>1, <1>3 DEF Logout, AuthOK
  <2>3. UNCHANGED <<logins, calls, valid, issued, refused>>
    BY <1>3 DEF Logout
  <2> QED BY <1>1, <2>1, <2>2, <2>3, Kept
<1>4. CASE SubmitLogin(tab)
  <2> DEFINE s == [old EXCEPT !.submitting = TRUE, !.error = FALSE]
  <2>1. s \in TabState /\ s.token = old.token
    BY <1>1 DEF TabState
  <2>2. auth' = [auth EXCEPT ![tab] = s] /\ logins' \subseteq Tabs
    BY <1>1, <1>4 DEF SubmitLogin, AuthOK
  <2>3. UNCHANGED <<storage, calls, valid, issued, refused>>
    BY <1>4 DEF SubmitLogin
  <2> QED BY <1>1, <2>1, <2>2, <2>3, Kept
<1>5. CASE LoginRefused(tab)
  <2> DEFINE s == [old EXCEPT !.submitting = FALSE, !.error = TRUE]
  <2>1. s \in TabState /\ s.token = old.token
    BY <1>1 DEF TabState
  <2>2. auth' = [auth EXCEPT ![tab] = s] /\ logins' \subseteq Tabs
    BY <1>1, <1>5 DEF LoginRefused, AuthOK
  <2>3. UNCHANGED <<storage, calls, valid, issued, refused>>
    BY <1>5 DEF LoginRefused
  <2> QED BY <1>1, <2>1, <2>2, <2>3, Kept
<1>6. CASE Redirect(tab)
  <2> DEFINE s == [old EXCEPT !.path = "/page"]
  <2>1. s \in TabState /\ s.token = old.token
    BY <1>1 DEF TabState
  <2>2. auth' = [auth EXCEPT ![tab] = s]
    BY <1>1, <1>6 DEF Redirect, AuthOK
  <2>3. UNCHANGED <<storage, calls, logins, valid, issued, refused>>
    BY <1>6 DEF Redirect
  <2> QED BY <1>1, <2>1, <2>2, <2>3, Kept
<1>7. CASE Reload(tab)
  <2>1. old.path \in {"/login", "/page"}
    BY <1>1 DEF TabState
  <2> DEFINE s == Mounted(old.path)
  <2>2. s \in TabState /\ s.token = None
    BY <2>1, MountedTab
  <2>3. auth' = [auth EXCEPT ![tab] = s] /\ logins' \subseteq Tabs
    BY <1>1, <1>7 DEF Reload, Load
  <2>4. calls' \subseteq calls /\ UNCHANGED <<storage, valid, issued, refused>>
    BY <1>7 DEF Reload
  <2> QED BY <1>1, <2>2, <2>3, <2>4, Kept
<1> QED BY <1>2, <1>3, <1>4, <1>5, <1>6, <1>7

(* A login brings a token that was never issued, so never refused.          *)
LEMMA LoginStep ==
    ASSUME SessionAssumption, SessionInv, NEW tab \in Tabs, NEW t \in Tokens,
           LoginAccepted(tab, t)
    PROVE  SessionInv'
<1> DEFINE s == [auth[tab] EXCEPT !.token = t, !.path = "/page",
                                  !.submitting = FALSE]
<1>1. s \in TabState /\ s.token = t
  BY TypeParts DEF SessionInv, AuthOK, TabState, TokenOrNone
<1>2. /\ auth' = [auth EXCEPT ![tab] = s]
      /\ issued' = issued \cup {t} /\ valid' = valid \cup {t}
      /\ storage' = [token |-> t, user |-> "root"]
      /\ logins' = logins \ {tab} /\ UNCHANGED <<calls, refused>>
      /\ t \notin issued
  BY DEF LoginAccepted
<1>3. AuthOK' /\ \A u \in Tabs : auth'[u].token \in issued' \cup {None}
  <2>1. s.token \in issued' \cup {None} /\ issued \subseteq issued'
    BY <1>1, <1>2
  <2>2. auth' = [auth EXCEPT ![tab] = s] /\ s \in TabState
    BY <1>1, <1>2
  <2> HIDE DEF s
  <2> QED BY <2>1, <2>2, OneTab
<1>4. StorageOK' /\ storage'.token = t
  BY <1>2, StoredToken DEF StorageOK
<1>5. TypeOK'
  BY <1>2, <1>3, <1>4, TypeParts DEF SessionInv, CallsOK, ServerOK
<1>6. OriginInv'
  BY <1>2, <1>3, <1>4 DEF SessionInv, OriginInv
<1>7. RefusedNotStored'
  BY <1>2, <1>4 DEF SessionInv, OriginInv, RefusedNotStored
<1> QED BY <1>5, <1>6, <1>7 DEF SessionInv

(* The steps of a request under way; a 401 clears localStorage.             *)
LEMMA AnswerStep ==
    ASSUME SessionAssumption, SessionInv, NEW c \in calls,
           \/ Serve(c) \/ Answered(c)
           \/ UnauthorizedFetch(c) \/ UnauthorizedAxios(c)
    PROVE  SessionInv'
<1>1. CASE Serve(c)
  BY <1>1 DEF Serve, SessionInv, TypeOK, OriginInv, RefusedNotStored, Calls
<1>2. CASE Answered(c)
  BY <1>2 DEF Answered, SessionInv, TypeOK, OriginInv, RefusedNotStored
<1>3. ASSUME NEW s \in TabState, s.token = None,
             auth' = [auth EXCEPT ![c.tab] = s],
             storage' = Empty, calls' \subseteq calls, logins' \subseteq logins,
             refused' = refused \cup ({c.token} \ {None}),
             UNCHANGED <<valid, issued>>
      PROVE  SessionInv'
  <2>1. c.tab \in Tabs /\ c.token \in issued \cup {None}
    BY TypeParts DEF SessionInv, CallsOK, Calls, OriginInv
  <2>2. AuthOK' /\ \A u \in Tabs : auth'[u].token \in issued' \cup {None}
    BY <1>3, <2>1, OneTab
  <2>3. StorageOK' /\ storage'.token = None
    BY <1>3, StoredToken DEF StorageOK
  <2>4. refused' \subseteq issued /\ None \notin refused'
    BY <1>3, <2>1, NoneNotRefused DEF SessionInv, OriginInv
  <2>5. TypeOK'
    BY <1>3, <2>2, <2>3, <2>4, TypeParts DEF SessionInv, CallsOK, ServerOK
  <2>6. OriginInv'
    BY <1>3, <2>2, <2>3, <2>4 DEF SessionInv, OriginInv
  <2>7. RefusedNotStored'
    BY <2>3, <2>4 DEF RefusedNotStored
  <2> QED BY <2>5, <2>6, <2>7 DEF SessionInv
<1>4. CASE UnauthorizedFetch(c)
  <2> DEFINE s == [auth[c.tab] EXCEPT !.token = None]
  <2>1. s \in TabState /\ s.token = None
    BY TypeParts DEF SessionInv, AuthOK, TabState, TokenOrNone, CallsOK, Calls
  <2>2. auth' = [auth EXCEPT ![c.tab] = s]
    BY <1>4, TypeParts DEF UnauthorizedFetch, Forget, SessionInv, AuthOK
  <2>3. /\ storage' = Empty /\ calls' \subseteq calls /\ logins' \subseteq logins
        /\ refused' = refused \cup ({c.token} \ {None})
        /\ UNCHANGED <<valid, issued>>
    BY <1>4 DEF UnauthorizedFetch, Forget
  <2> QED BY <1>3, <2>1, <2>2, <2>3
<1>5. CASE UnauthorizedAxios(c)
  <2>1. /\ auth' = [auth EXCEPT ![c.tab] = Mounted("/login")]
        /\ storage' = Empty /\ calls' \subseteq calls /\ logins' \subseteq logins
        /\ refused' = refused \cup ({c.token} \ {None})
        /\ UNCHANGED <<valid, issued>>
    BY <1>5 DEF UnauthorizedAxios, Load
  <2> QED BY <1>3, <2>1, MountedTab
<1> QED BY <1>1, <1>2, <1>4, <1>5

LEMMA NextHolds ==
    ASSUME SessionAssumption, SessionInv, [Next]_vars PROVE SessionInv'
<1>1. CASE UNCHANGED vars
  BY <1>1 DEF vars, SessionInv, TypeOK, OriginInv, RefusedNotStored
<1>2. ASSUME NEW t \in Tokens, Expire(t) PROVE SessionInv'
  BY <1>2 DEF Expire, SessionInv, TypeOK, OriginInv, RefusedNotStored
<1> QED BY <1>1, <1>2, CallStep, TabStep, LoginStep, AnswerStep DEF Next

LEMMA Invariance == Spec => []SessionInv
<1>1. Init => SessionInv
  BY InitHolds, SessionAssumption
<1>2. SessionInv /\ [Next]_vars => SessionInv'
  BY NextHolds, SessionAssumption
<1> QED BY <1>1, <1>2, PTL DEF Spec

---------------------------------------------------------------------------
(* Every variable keeps its type; tokens are accepted only if they were     *)
(* issued (AuthContext.jsx:13, api.js:13).                                  *)
THEOREM TypeCorrect == Spec => []TypeOK
<1>1. SessionInv => TypeOK
  BY DEF SessionInv
<1> QED BY <1>1, Invariance, PTL

(* A token that was answered with 401 is never in localStorage again, for   *)
(* any number of tabs, logins and requests (AuthContext.jsx:104, api.js:38).*)
THEOREM RefusedStaysOut == Spec => []RefusedNotStored
<1>1. SessionInv => RefusedNotStored
  BY DEF SessionInv
<1> QED BY <1>1, Invariance, PTL
=============================================================================
