-------------------------- MODULE DashboardProofs --------------------------
(***************************************************************************)
(* Proofs about the pages of the dashboard, for any set of users, settings  *)
(* and slots, and whatever pages are opened in whatever order.              *)
(***************************************************************************)
EXTENDS PagesProofs

(* The page of the users: types.                                            *)
Tasked == [op : UserAdmin!Dialogs \cup {"load", "schema"}, user : Users \cup {None},
           form : UserAdmin!Owners, at : {"change", "list", "schema"},
           status : {"sent", "ok", "failed"}, data : SUBSET Users]
PageState == [users : SUBSET Users, loading : BOOLEAN, schemaLoading : BOOLEAN,
              schema : BOOLEAN, selected : Users \cup {None}, form : UserAdmin!Owners,
              open : SUBSET UserAdmin!Dialogs]

UiOK == ui \in PageState
TasksOK == tasks \in [Slots -> {UserAdmin!T!Idle} \cup Tasked]
ServerOK == server \in [of : [Users -> UserAdmin!Owners]]

(* Until the schema is there, nothing is drawn and no dialog is open; only  *)
(* the first handler brings it.                                             *)
SchemaInv ==
    /\ ui.schema = ~ui.schemaLoading
    /\ ui.schemaLoading => ui.open = {}
    /\ \A s \in Slots : tasks[s] # UserAdmin!T!Idle /\ tasks[s].at = "schema" =>
           s = 1 /\ ui.schemaLoading

(* The form of an open dialog is of the user who is selected.               *)
FormInv ==
    /\ "create" \in ui.open => ui.form = Blank
    /\ "edit" \in ui.open /\ ui.selected # None => ui.form = ui.selected

(* What a request brings is what its form was of.                           *)
Own(t) == /\ t.op = "create" => t.user \in Users /\ t.form = Blank
          /\ t.op = "edit" => t.user \in Users /\ t.form = t.user
          /\ t.op = "delete" => t.user \in Users
          /\ t.at = "change" => t.op \in UserAdmin!Dialogs
RequestInv == \A s \in Slots : tasks[s] # UserAdmin!T!Idle => Own(tasks[s])

UsersInv ==
    UiOK /\ TasksOK /\ ServerOK /\ SchemaInv /\ FormInv /\ RequestInv /\ UserAdmin!NoForeignData

LEMMA NotIdle == UserAdmin!T!Idle \notin Tasked /\ \A t \in Tasked : t # UserAdmin!T!Idle
BY DEF UserAdmin!T!Idle, Tasked

LEMMA TaskedTask ==
    ASSUME NEW op \in UserAdmin!Dialogs \cup {"load", "schema"}, NEW user \in Users \cup {None},
           NEW form \in UserAdmin!Owners, NEW at \in {"change", "list", "schema"}
    PROVE  UserAdmin!Task(op, user, form, at) \in Tasked
BY DEF UserAdmin!Task, Tasked

---------------------------------------------------------------------------

(* A page of the users as it is mounted.                                    *)
LEMMA StartFacts ==
    ASSUME UserAdmin!UsersAssumption, NEW st \in UserAdmin!Starts
    PROVE  /\ st[1] = UserAdmin!First /\ UserAdmin!First \in PageState
           /\ \A s \in Slots : \/ st[2][s] = UserAdmin!T!Idle
                             \/ /\ st[2][s] \in Tasked /\ Own(st[2][s])
                                /\ st[2][s].at = "schema" => s = 1
           /\ DOMAIN st[2] = Slots /\ st[2] = [s \in Slots |-> st[2][s]]
           /\ st[3] \in [of : [Users -> UserAdmin!Owners]]
           /\ \A u \in Users : st[3].of[u] \in {u, None}
<1> DEFINE a == UserAdmin!Task("schema", None, None, "schema")
           b == UserAdmin!Task("load", None, None, "list")
<1>1. PICK S \in SUBSET Users :
        /\ st[1] = UserAdmin!First
        /\ st[2] = [UserAdmin!T!AllIdle EXCEPT ![1] = a, ![2] = b]
        /\ st[3] = [of |-> [u \in Users |-> IF u \in S THEN u ELSE None]]
  BY DEF UserAdmin!Starts, UserAdmin!Mount
<1>2. a \in Tasked /\ b \in Tasked
  BY TaskedTask DEF UserAdmin!Owners
<1>3. a.at = "schema" /\ b.at = "list" /\ Own(a) /\ Own(b)
  BY <1>2 DEF UserAdmin!Task, Own, UserAdmin!Dialogs
<1>4. \A s \in Slots : st[2][s] = IF s = 2 THEN b ELSE IF s = 1 THEN a
                                 ELSE UserAdmin!T!Idle
  BY <1>1 DEF UserAdmin!T!AllIdle
<1>5. DOMAIN st[2] = Slots /\ st[2] = [s \in Slots |-> st[2][s]]
  BY <1>1 DEF UserAdmin!T!AllIdle
<1>6. UserAdmin!First \in PageState
  BY DEF UserAdmin!First, PageState, UserAdmin!Owners, UserAdmin!Dialogs
<1>7. /\ st[3] \in [of : [Users -> UserAdmin!Owners]]
      /\ \A u \in Users : st[3].of[u] \in {u, None}
  BY <1>1 DEF UserAdmin!Owners
<1> HIDE DEF a, b
<1> QED BY <1>1, <1>2, <1>3, <1>4, <1>5, <1>6, <1>7

LEMMA OpenHolds ==
    ASSUME UserAdmin!UsersAssumption, Open("users") PROVE UsersInv'
<1>1. PICK st \in UserAdmin!Starts :
        ui' = st[1] /\ tasks' = st[2] /\ server' = st[3]
  BY DEF Open, Starts
<1>2. UiOK' /\ FormInv' /\ ui'.schemaLoading = TRUE
      /\ ui'.schema = FALSE /\ ui'.open = {}
  <2>1. ui' = UserAdmin!First /\ ui' \in PageState
    BY <1>1, StartFacts
  <2> QED BY <2>1 DEF UiOK, FormInv, UserAdmin!First
<1>3. TasksOK' /\ RequestInv'
  <2>1. \A s \in Slots : tasks'[s] \in {UserAdmin!T!Idle} \cup Tasked
    BY <1>1, StartFacts
  <2> QED BY <1>1, <2>1, StartFacts DEF TasksOK, RequestInv
<1>4. SchemaInv'
  BY <1>1, <1>2, StartFacts DEF SchemaInv
<1>5. ServerOK' /\ UserAdmin!NoForeignData'
  BY <1>1, StartFacts DEF ServerOK, UserAdmin!NoForeignData
<1> QED BY <1>2, <1>3, <1>4, <1>5 DEF UsersInv

---------------------------------------------------------------------------
(* Steps that change the tasks: each is idle, as it was or a given one.     *)

LEMMA TaskChange ==
    ASSUME TasksOK, RequestInv, NEW t, t = UserAdmin!T!Idle \/ (t \in Tasked /\ Own(t)),
           DOMAIN tasks' = Slots, tasks' = [s \in Slots |-> tasks'[s]],
           \A s \in Slots : tasks'[s] \in {tasks[s], t}
    PROVE  TasksOK' /\ RequestInv'
<1>1. \A s \in Slots : tasks'[s] \in {UserAdmin!T!Idle} \cup Tasked
  BY DEF TasksOK
<1>2. TasksOK'
  BY <1>1 DEF TasksOK
<1> QED BY <1>2 DEF RequestInv, TasksOK

LEMMA RunChange ==
    ASSUME TasksOK, NEW t, UserAdmin!T!Run(t)
    PROVE  /\ DOMAIN tasks' = Slots /\ tasks' = [s \in Slots |-> tasks'[s]]
           /\ \A s \in Slots : tasks'[s] \in {tasks[s], t}
<1> DEFINE free == Slots \ UserAdmin!T!Running
           n == CHOOSE s \in free : \A r \in free : s <= r
<1>1. tasks' = [tasks EXCEPT ![n] = t]
  BY DEF UserAdmin!T!Run
<1> HIDE DEF n
<1> QED BY <1>1 DEF TasksOK

LEMMA SetChange ==
    ASSUME TasksOK, NEW n \in Slots, NEW t, UserAdmin!T!Set(n, t)
    PROVE  /\ DOMAIN tasks' = Slots /\ tasks' = [s \in Slots |-> tasks'[s]]
           /\ \A s \in Slots : tasks'[s] = IF s = n THEN t ELSE tasks[s]
BY DEF TasksOK, UserAdmin!T!Set

---------------------------------------------------------------------------
(* The user opens and cancels dialogs, and sends changes.                   *)

LEMMA OpenStep ==
    ASSUME UserAdmin!UsersAssumption, UsersInv,
           \/ UserAdmin!OpenCreate
           \/ \E u \in Users : UserAdmin!OpenEdit(u) \/ UserAdmin!OpenDelete(u)
           \/ \E d \in UserAdmin!Dialogs : UserAdmin!Cancel(d)
    PROVE  UsersInv'
<1> USE DEF UsersInv
<1>1. UNCHANGED <<tasks, server>>
  BY DEF UserAdmin!OpenCreate, UserAdmin!OpenEdit, UserAdmin!OpenDelete,
     UserAdmin!Cancel
<1>2. TasksOK' /\ ServerOK' /\ RequestInv' /\ UserAdmin!NoForeignData'
  BY <1>1 DEF TasksOK, ServerOK, RequestInv, UserAdmin!NoForeignData
<1>3. ui.schemaLoading = FALSE /\ ui.schema = TRUE
  <2>1. ui.schemaLoading = FALSE
    BY DEF UserAdmin!OpenCreate, UserAdmin!OpenEdit, UserAdmin!OpenDelete,
       UserAdmin!Cancel, UserAdmin!Rows, UserAdmin!PageIsUsed,
           UserAdmin!DialogIsUsed, UserAdmin!Drawn, UiOK, PageState
  <2> QED BY <2>1 DEF SchemaInv
<1> DEFINE Kept == /\ UiOK' /\ FormInv'
                   /\ ui'.schemaLoading = ui.schemaLoading /\ ui'.schema = ui.schema
<1>4. Kept
  <2> USE <1>3 DEF UiOK, PageState, FormInv, UserAdmin!FillForm, UserAdmin!Opened, UserAdmin!Closed, UserAdmin!Dialogs, UserAdmin!Owners,
                   UserAdmin!UsersAssumption
  <2>1. CASE UserAdmin!OpenCreate
    BY <2>1 DEF UserAdmin!OpenCreate, UserAdmin!PageIsUsed
  <2>2. ASSUME NEW u \in Users, UserAdmin!OpenEdit(u) PROVE Kept
    BY <2>2 DEF UserAdmin!OpenEdit, UserAdmin!Rows, UserAdmin!PageIsUsed
  <2>3. ASSUME NEW u \in Users, UserAdmin!OpenDelete(u) PROVE Kept
    BY <2>3 DEF UserAdmin!OpenDelete, UserAdmin!Rows, UserAdmin!PageIsUsed
  <2>4. ASSUME NEW d \in UserAdmin!Dialogs, UserAdmin!Cancel(d) PROVE Kept
    BY <2>4 DEF UserAdmin!Cancel
  <2> QED BY <2>1, <2>2, <2>3, <2>4
<1>5. SchemaInv'
  BY <1>1, <1>3, <1>4 DEF SchemaInv
<1> QED BY <1>2, <1>4, <1>5

LEMMA SendStep ==
    ASSUME UserAdmin!UsersAssumption, UsersInv,
           \/ UserAdmin!HandleCreate \/ UserAdmin!HandleEdit
           \/ UserAdmin!HandleDelete
    PROVE  UsersInv'
<1> USE DEF UsersInv
<1>1. UNCHANGED <<ui, server>>
  BY DEF UserAdmin!HandleCreate, UserAdmin!HandleEdit, UserAdmin!HandleDelete
<1>2. PICK t \in Tasked : Own(t) /\ t.at = "change" /\ UserAdmin!T!Run(t)
  <2> USE DEF FormInv, UiOK, PageState
  <2>1. ui.form \in UserAdmin!Owners /\ None \in UserAdmin!Owners
    BY DEF UserAdmin!Owners
  <2>2. CASE UserAdmin!HandleCreate
    <3>1. PICK u \in Users : UserAdmin!T!Run(UserAdmin!Task("create", u, ui.form, "change"))
      BY <2>2 DEF UserAdmin!HandleCreate
    <3>2. UserAdmin!Task("create", u, ui.form, "change") \in Tasked
      BY <2>1, TaskedTask DEF UserAdmin!Dialogs
    <3>3. Own(UserAdmin!Task("create", u, ui.form, "change"))
      BY <2>2 DEF UserAdmin!HandleCreate, UserAdmin!DialogIsUsed, Own,
         UserAdmin!Task, UserAdmin!Dialogs
    <3> QED BY <3>1, <3>2, <3>3 DEF UserAdmin!Task
  <2>3. CASE UserAdmin!HandleEdit
    <3>1. ui.selected \in Users /\ ui.form = ui.selected
      BY <2>3 DEF UserAdmin!HandleEdit, UserAdmin!DialogIsUsed
    <3>2. UserAdmin!Task("edit", ui.selected, ui.form, "change") \in Tasked
      BY <2>1, <3>1, TaskedTask DEF UserAdmin!Dialogs
    <3>3. Own(UserAdmin!Task("edit", ui.selected, ui.form, "change"))
      BY <3>1 DEF Own, UserAdmin!Task, UserAdmin!Dialogs
    <3> QED BY <2>3, <3>2, <3>3 DEF UserAdmin!Task, UserAdmin!HandleEdit
  <2>4. CASE UserAdmin!HandleDelete
    <3>1. ui.selected \in Users
      BY <2>4 DEF UserAdmin!HandleDelete
    <3>2. UserAdmin!Task("delete", ui.selected, None, "change") \in Tasked
      BY <2>1, <3>1, TaskedTask DEF UserAdmin!Dialogs
    <3>3. Own(UserAdmin!Task("delete", ui.selected, None, "change"))
      BY <3>1 DEF Own, UserAdmin!Task, UserAdmin!Dialogs
    <3> QED BY <2>4, <3>2, <3>3 DEF UserAdmin!Task, UserAdmin!HandleDelete
  <2> QED BY <2>2, <2>3, <2>4
<1>3. TasksOK' /\ RequestInv'
  BY <1>2, RunChange, TaskChange
<1>4. SchemaInv'
  BY <1>1, <1>2, RunChange DEF SchemaInv
<1> QED BY <1>1, <1>3, <1>4 DEF UiOK, ServerOK, FormInv, UserAdmin!NoForeignData

---------------------------------------------------------------------------
(* The server serves a request, or others use it.                           *)

LEMMA ServeStep ==
    ASSUME UserAdmin!UsersAssumption, UsersInv, NEW s \in Slots, UserAdmin!Serve(s)
    PROVE  UsersInv'
<1> USE DEF UsersInv
<1>1. UNCHANGED ui /\ tasks[s] # UserAdmin!T!Idle /\ tasks[s] \in Tasked
  BY DEF UserAdmin!Serve, UserAdmin!T!Waits, TasksOK
<1> DEFINE Same(t) == /\ t \in Tasked /\ t.at = tasks[s].at /\ t.op = tasks[s].op
                      /\ t.user = tasks[s].user /\ t.form = tasks[s].form
<1>2. PICK t : UserAdmin!T!Set(s, t) /\ Same(t)
  <2>1. ASSUME NEW data \in SUBSET Users
        PROVE  Same([tasks[s] EXCEPT !.status = "ok", !.data = data])
    BY <1>1 DEF Tasked
  <2>2. Same([tasks[s] EXCEPT !.status = "failed"])
    BY <1>1 DEF Tasked
  <2>3. UserAdmin!T!Fail(s) \/ \E data \in SUBSET Users : UserAdmin!T!Reply(s, data)
    BY DEF UserAdmin!Serve, UserAdmin!Exist
  <2>4. CASE UserAdmin!T!Fail(s)
    BY <2>2, <2>4 DEF UserAdmin!T!Fail
  <2>5. ASSUME NEW data \in SUBSET Users, UserAdmin!T!Reply(s, data)
        PROVE  \E t : UserAdmin!T!Set(s, t) /\ Same(t)
    BY <2>1, <2>5 DEF UserAdmin!T!Reply
  <2> QED BY <2>3, <2>4, <2>5
<1>3. Own(t)
  BY <1>1, <1>2 DEF RequestInv, Own
<1>4. TasksOK' /\ RequestInv'
  BY <1>2, <1>3, SetChange, TaskChange
<1>5. SchemaInv'
  BY <1>1, <1>2, SetChange DEF SchemaInv
<1>6. ServerOK' /\ UserAdmin!NoForeignData'
  <2>1. CASE UNCHANGED server
    BY <2>1 DEF ServerOK, UserAdmin!NoForeignData
  <2>2. CASE server' = UserAdmin!Stored(tasks[s]) /\ UserAdmin!T!Waits(s, "change")
    <3>1. Own(tasks[s]) /\ tasks[s].op \in UserAdmin!Dialogs /\ tasks[s].user \in Users
      BY <1>1, <2>2 DEF RequestInv, Own, UserAdmin!T!Waits, UserAdmin!Dialogs
    <3>2. PICK v \in {tasks[s].user, None} :
             server' = [server EXCEPT !.of[tasks[s].user] = v]
      BY <2>2, <3>1 DEF UserAdmin!Stored, Own, UserAdmin!Dialogs
    <3> QED BY <3>1, <3>2 DEF ServerOK, UserAdmin!NoForeignData, UserAdmin!Owners
  <2> QED BY <2>1, <2>2 DEF UserAdmin!Serve
<1> QED BY <1>1, <1>4, <1>5, <1>6 DEF UiOK, FormInv

LEMMA OthersStep ==
    ASSUME UsersInv, NEW u \in Users, UserAdmin!Others(u) PROVE UsersInv'
<1>1. UNCHANGED <<ui, tasks>>
  BY DEF UserAdmin!Others
<1>2. ServerOK' /\ UserAdmin!NoForeignData'
  BY DEF UserAdmin!Others, UsersInv, ServerOK, UserAdmin!NoForeignData,
     UserAdmin!Owners
<1> QED BY <1>1, <1>2 DEF UsersInv, UiOK, TasksOK, SchemaInv, FormInv, RequestInv

---------------------------------------------------------------------------
(* A handler runs on after its request was answered.                        *)

LEMMA AfterStep ==
    ASSUME UserAdmin!UsersAssumption, UsersInv, NEW s \in Slots,
           UserAdmin!AfterSchema(s) \/ UserAdmin!AfterList(s) \/ UserAdmin!AfterChange(s)
    PROVE  UsersInv'
<1> USE DEF UsersInv
<1>1. UNCHANGED server /\ tasks[s] # UserAdmin!T!Idle /\ tasks[s] \in Tasked /\ Own(tasks[s])
  BY DEF UserAdmin!AfterSchema, UserAdmin!AfterList, UserAdmin!AfterChange,
     UserAdmin!T!Back, TasksOK, RequestInv
<1>2. PICK t : /\ UserAdmin!T!Set(s, t)
               /\ t = UserAdmin!T!Idle \/ (t \in Tasked /\ Own(t) /\ t.at = "list")
  <2> DEFINE again == UserAdmin!Task("load", None, None, "list")
  <2>1. again \in Tasked /\ Own(again) /\ again.at = "list"
    <3>1. again \in Tasked
      BY TaskedTask DEF UserAdmin!Owners
    <3> QED BY <3>1 DEF UserAdmin!Task, Own, UserAdmin!Dialogs
  <2>2. UserAdmin!T!Set(s, UserAdmin!T!Idle) \/ UserAdmin!T!Set(s, again)
    BY DEF UserAdmin!AfterSchema, UserAdmin!AfterList, UserAdmin!AfterChange,
       UserAdmin!T!End
  <2> QED BY <2>1, <2>2
<1>3. TasksOK' /\ RequestInv'
  BY <1>2, SetChange, TaskChange
<1>4. /\ UiOK' /\ FormInv' /\ ui'.schema = ~ui'.schemaLoading
      /\ ui'.schemaLoading => ui'.open = {}
      /\ ui'.schemaLoading # ui.schemaLoading => s = 1 /\ tasks[s].at = "schema"
  <2> USE DEF UiOK, PageState, FormInv, SchemaInv
  <2>1. CASE UserAdmin!AfterSchema(s)
    BY <1>1, <2>1 DEF UserAdmin!AfterSchema, UserAdmin!T!Back, UserAdmin!Owners
  <2>2. CASE UserAdmin!AfterList(s)
    BY <1>1, <2>2 DEF UserAdmin!AfterList, Tasked
  <2>3. CASE UserAdmin!AfterChange(s)
    <3> DEFINE op == tasks[s].op
               closed == [ui EXCEPT !.loading = TRUE, !.open = @ \ {op}]
    <3>1. closed \in PageState /\ closed.schema \in BOOLEAN
      BY DEF UserAdmin!Dialogs
    <3>2. CASE ~UserAdmin!T!Ok(s)
      BY <2>3, <3>2 DEF UserAdmin!AfterChange
    <3>3. CASE UserAdmin!T!Ok(s) /\ op = "delete"
      <4>1. ui' = [closed EXCEPT !.selected = None]
        BY <2>3, <3>3 DEF UserAdmin!AfterChange, UserAdmin!Closed
      <4> QED BY <3>1, <4>1
    <3>4. CASE UserAdmin!T!Ok(s) /\ op # "delete"
      <4>1. ui' = [closed EXCEPT !.form = IF ui.schema THEN Blank ELSE ui.form,
                                 !.selected = None]
        BY <2>3, <3>4 DEF UserAdmin!AfterChange, UserAdmin!Closed,
           UserAdmin!ResetForm, UserAdmin!FillForm
      <4> QED BY <3>1, <4>1 DEF UserAdmin!Owners
    <3> QED BY <3>2, <3>3, <3>4
  <2> QED BY <2>1, <2>2, <2>3
<1>5. SchemaInv'
  BY <1>2, <1>4, SetChange DEF SchemaInv
<1> QED BY <1>1, <1>3, <1>4, <1>5 DEF ServerOK, UserAdmin!NoForeignData

LEMMA UsersStep ==
    ASSUME UserAdmin!UsersAssumption, UsersInv,
           \/ UserAdmin!User
           \/ \E u \in Users : UserAdmin!Others(u)
           \/ \E s \in Slots : UserAdmin!Runs(s)
    PROVE  UsersInv'
BY OpenStep, SendStep, ServeStep, OthersStep, AfterStep DEF UserAdmin!User,
   UserAdmin!Runs

---------------------------------------------------------------------------
(* The dashboard: the page of the users is opened and used.                 *)

UsersShown == shown = "users" => UsersInv

LEMMA PageAssumptions == UserAdmin!UsersAssumption
BY DashboardAssumption DEF DashboardAssumption

LEMMA NextHolds ==
    ASSUME UsersShown, [Next]_vars PROVE UsersShown'
<1> USE PageAssumptions
<1> SUFFICES ASSUME shown' = "users" PROVE UsersInv'
  BY DEF UsersShown
<1>1. CASE UNCHANGED vars
  BY <1>1 DEF vars, UsersShown, UsersInv, UiOK, TasksOK, ServerOK, SchemaInv,
              FormInv, RequestInv, UserAdmin!NoForeignData
<1>2. CASE Leave
  BY <1>2 DEF Leave
<1>3. ASSUME NEW p \in Offered, Open(p) PROVE UsersInv'
  <2>1. p = "users"
    BY <1>3 DEF Open
  <2> QED BY <1>3, <2>1, OpenHolds
<1>4. CASE User /\ UNCHANGED shown
  <2>1. UserAdmin!User
    BY <1>4 DEF User
  <2> QED BY <1>4, <2>1, UsersStep DEF UsersShown
<1>5. CASE Others /\ UNCHANGED shown
  <2>1. \E u \in Users : UserAdmin!Others(u)
    BY <1>5 DEF Others
  <2> QED BY <1>5, <2>1, UsersStep DEF UsersShown
<1>6. ASSUME NEW s \in Slots \cup LoadSlots, Runs(s) PROVE UsersInv'
  <2>1. UNCHANGED shown /\ s \in Slots /\ UserAdmin!Runs(s)
    BY <1>6 DEF Runs
  <2> QED BY <2>1, UsersStep DEF UsersShown
<1> QED BY <1>1, <1>2, <1>3, <1>4, <1>5, <1>6 DEF Next

(* No user's record ever gets the data of another user or the schema's      *)
(* defaults, however pages are opened and left, and answers, dialogs and    *)
(* the use by others interleave, for any set of users (Users.jsx:189).      *)
THEOREM OwnDataOnly == Spec => []NoForeignData
<1>1. Init => UsersShown
  BY DEF Init, UsersShown
<1>2. UsersShown /\ [Next]_vars => UsersShown'
  BY NextHolds
<1>3. UsersShown => NoForeignData
  BY DEF UsersShown, UsersInv, NoForeignData
<1> QED BY <1>1, <1>2, <1>3, PTL DEF Spec

---------------------------------------------------------------------------
(* The settings.                                                            *)

SettingsShown ==
    shown = "settings" => DOMAIN server = {"security", "email", "password"}

(* A step of the page keeps the record of the server's settings whole.      *)
Kept == /\ Settings!KeepsPassword
        /\ DOMAIN server' = {"security", "email", "password"}

LEMMA PasswordStep ==
    ASSUME DOMAIN server = {"security", "email", "password"},
           Settings!User \/ \E s \in LoadSlots : Settings!Runs(s)
    PROVE  Kept
<1>1. CASE UNCHANGED server
  BY <1>1 DEF Kept, Settings!KeepsPassword
<1>2. CASE Settings!User
  <2>1. UNCHANGED server
    BY <1>2 DEF Settings!User, Settings!Change, Settings!TypePassword,
       Settings!Refresh, Settings!Saving, Settings!SaveSettings,
       Settings!SaveSecurity, Settings!SaveEmail, Settings!SendTest
  <2> QED BY <1>1, <2>1
<1>3. ASSUME NEW s \in LoadSlots, Settings!Serve(s) PROVE Kept
  <2>1. CASE server' = Settings!Stored(tasks[s])
    <3> DEFINE sent == tasks[s].sent
               p == Settings!PasswordAfter(sent[2])
    <3>1. p # server.password => p # None /\ p = sent[2]
      BY DEF Settings!PasswordAfter
    <3>2. server' \in {server, [server EXCEPT !.security = sent[1]],
                       [server EXCEPT !.email = sent[1], !.password = p]}
      BY <2>1 DEF Settings!Stored
    <3>3. server'.password # server.password => tasks[s].op = "saveEmail"
      BY <2>1 DEF Settings!Stored
    <3>4. s \in Settings!T!Running
      BY <1>3 DEF Settings!Serve, Settings!T!Waits, Settings!T!Running
    <3> HIDE DEF p
    <3> QED BY <3>1, <3>2, <3>3, <3>4 DEF Kept, Settings!KeepsPassword
  <2> QED BY <1>1, <1>3, <2>1 DEF Settings!Serve
<1>4. ASSUME NEW s \in LoadSlots,
             \/ Settings!AfterInfo(s) \/ Settings!AfterLoad(s)
             \/ Settings!AfterSave(s) \/ Settings!AfterTest(s)
      PROVE Kept
  <2>1. UNCHANGED server
    BY <1>4 DEF Settings!AfterInfo, Settings!AfterLoad, Settings!AfterSave,
                Settings!AfterTest
  <2> QED BY <1>1, <2>1
<1> QED BY <1>2, <1>3, <1>4 DEF Settings!Runs

KeepsPassword ==
    shown = "settings" /\ shown' = "settings" => Settings!KeepsPassword

LEMMA SettingsStep ==
    ASSUME SettingsShown, [Next]_vars
    PROVE  SettingsShown' /\ [KeepsPassword]_vars
<1>1. CASE UNCHANGED vars
  BY <1>1 DEF vars, SettingsShown
<1>2. CASE shown' # "settings" /\ Next
  BY <1>2 DEF SettingsShown, KeepsPassword
<1>3. ASSUME NEW p \in Offered, Open(p), shown' = "settings"
      PROVE  SettingsShown' /\ [KeepsPassword]_vars
  <2>1. p = "settings" /\ shown = "none"
    BY <1>3 DEF Open
  <2>2. DOMAIN server' = {"security", "email", "password"}
    BY <1>3, <2>1 DEF Open, Starts, Settings!Starts, Settings!Mount
  <2> QED BY <2>1, <2>2 DEF SettingsShown, KeepsPassword
<1>4. ASSUME UNCHANGED shown, shown' = "settings",
             Settings!User \/ \E s \in LoadSlots : Settings!Runs(s)
      PROVE  SettingsShown' /\ [KeepsPassword]_vars
  <2>1. Kept
    BY <1>4, PasswordStep DEF SettingsShown
  <2> QED BY <2>1 DEF Kept, SettingsShown, KeepsPassword
<1>5. ASSUME Next, shown' = "settings"
      PROVE  SettingsShown' /\ [KeepsPassword]_vars
  <2>1. CASE Leave
    BY <1>5, <2>1 DEF Leave
  <2>2. CASE User /\ UNCHANGED shown
    <3>1. Settings!User
      BY <1>5, <2>2 DEF User
    <3> QED BY <1>4, <1>5, <2>2, <3>1
  <2>3. CASE Others /\ UNCHANGED shown
    BY <1>5, <2>3 DEF Others
  <2>4. ASSUME NEW s \in Slots \cup LoadSlots, Runs(s)
        PROVE  SettingsShown' /\ [KeepsPassword]_vars
    <3>1. UNCHANGED shown /\ s \in LoadSlots /\ Settings!Runs(s)
      BY <1>5, <2>4 DEF Runs
    <3> QED BY <1>4, <1>5, <3>1
  <2> QED BY <1>3, <1>5, <2>1, <2>2, <2>3, <2>4 DEF Next
<1> QED BY <1>1, <1>2, <1>5

(* While the settings page is shown, whatever the forms hold, however many  *)
(* handlers run and whatever fails, the server's mail password changes only *)
(* to a password, never a blank one, that a save of the e-mail settings     *)
(* under way has sent (Settings.jsx:841).                                   *)
THEOREM PasswordIsKept == Spec => PasswordKept
<1>1. Init => SettingsShown
  BY DEF Init, SettingsShown
<1>2. SettingsShown /\ [Next]_vars => SettingsShown' /\ [KeepsPassword]_vars
  BY SettingsStep
<1>3. Spec => [][KeepsPassword]_vars
  BY <1>1, <1>2, PTL DEF Spec
<1> QED BY <1>3 DEF KeepsPassword, PasswordKept

---------------------------------------------------------------------------
(* The users' spinners *)

UsersLoad ==
    /\ ui.loading => At(Slots, "list") # {}
    /\ ui.schemaLoading => At(Slots, "schema") # {}

OnUsers == shown = "users" => UsersInv /\ UsersLoad

USE DEF UserAdmin!T!Idle, UserAdmin!T!Running, UserAdmin!T!CanRun, UserAdmin!T!Run,
        UserAdmin!T!Set, UserAdmin!T!End, UserAdmin!T!At, UserAdmin!T!Waits,
        UserAdmin!T!Back, UserAdmin!T!Ok, UserAdmin!T!Reply, UserAdmin!T!Fail

LEMMA UsersTable == UsersInv => Table(Slots)
  BY DEF UsersInv, TasksOK, Table

LEMMA UsersMounts == Mounts("users") => UsersLoad'
  <1> SUFFICES ASSUME Mounts("users") PROVE UsersLoad'
    OBVIOUS
  <1>1. tasks' = [UserAdmin!T!AllIdle EXCEPT
                    ![1] = UserAdmin!Task("schema", None, None, "schema"),
                    ![2] = UserAdmin!Task("load", None, None, "list")]
    BY DEF Mounts, Starts, UserAdmin!Starts, UserAdmin!Mount
  <1>2. /\ tasks'[1] = UserAdmin!Task("schema", None, None, "schema")
        /\ tasks'[2] = UserAdmin!Task("load", None, None, "list")
    BY <1>1, DashboardAssumption DEF UserAdmin!T!AllIdle
  <1>3. 1 \in At(Slots, "schema")' /\ 2 \in At(Slots, "list")'
    BY <1>2, DashboardAssumption DEF At, UserAdmin!Task, Idle
  <1>4. QED
    BY <1>3 DEF UsersLoad

LEMMA UsersLoadSteps == UsersInv /\ UsersLoad /\ Acts("users") => UsersLoad'
  <1> SUFFICES ASSUME UsersInv, UsersLoad, Acts("users") PROVE UsersLoad'
    OBVIOUS
  <1>1. ASSUME UNCHANGED tasks, ui'.loading = ui.loading,
               ui'.schemaLoading = ui.schemaLoading
        PROVE  UsersLoad'
    BY <1>1 DEF UsersLoad, At
  <1>2. ui \in PageState
    BY DEF UsersInv, UiOK
  <1>3. CASE \/ UserAdmin!OpenCreate
             \/ \E u \in Users : UserAdmin!OpenEdit(u) \/ UserAdmin!OpenDelete(u)
             \/ \E d \in UserAdmin!Dialogs : UserAdmin!Cancel(d)
    <2>1. UNCHANGED tasks
      BY <1>3 DEF UserAdmin!OpenCreate, UserAdmin!OpenEdit, UserAdmin!OpenDelete,
         UserAdmin!Cancel
    <2>2. ui'.loading = ui.loading /\ ui'.schemaLoading = ui.schemaLoading
      BY <1>2, <1>3 DEF PageState, UserAdmin!OpenCreate, UserAdmin!OpenEdit,
         UserAdmin!OpenDelete, UserAdmin!Cancel, UserAdmin!Opened, UserAdmin!Closed,
         UserAdmin!FillForm
    <2>3. QED
      BY <1>1, <2>1, <2>2
  <1>4. ASSUME NEW t, UserAdmin!T!CanRun, UserAdmin!T!Run(t), UNCHANGED ui PROVE UsersLoad'
    <2>1. Busy(Slots) # Slots /\ tasks' = [tasks EXCEPT ![Least(Slots \ Busy(Slots))] = t]
      BY <1>4 DEF Least, Busy, Idle
    <2>2. PICK n \in Slots \ Busy(Slots) : Puts(Slots, n, t)
      BY <2>1, RunPuts, UsersTable, DashboardAssumption
    <2>3. ASSUME NEW w PROVE At(Slots, w) \subseteq At(Slots, w)'
      BY <2>2 DEF At, Busy, Puts
    <2>4. QED
      BY <1>4, <2>3 DEF UsersLoad
  <1>5. CASE UserAdmin!HandleCreate \/ UserAdmin!HandleEdit \/ UserAdmin!HandleDelete
    BY <1>4, <1>5 DEF UserAdmin!HandleCreate, UserAdmin!HandleEdit, UserAdmin!HandleDelete
  <1>6. ASSUME NEW u \in Users, UserAdmin!Others(u) PROVE UsersLoad'
    BY <1>1, <1>6 DEF UserAdmin!Others
  <1>7. ASSUME NEW s \in Slots, UserAdmin!Serve(s) PROVE UsersLoad'
    <2>1. tasks[s] \in Tasked /\ UNCHANGED ui
      BY <1>7 DEF UserAdmin!Serve, UsersInv, TasksOK
    <2>2. PICK v : tasks' = [tasks EXCEPT ![s] = v] /\ v # Idle /\ v.at = tasks[s].at
      <3> DEFINE w(d) == [tasks[s] EXCEPT !.status = "ok", !.data = d]
                 l == [tasks[s] EXCEPT !.status = "failed"]
      <3>1. /\ \A d : w(d) # Idle /\ w(d).at = tasks[s].at
            /\ l # Idle /\ l.at = tasks[s].at
        BY <2>1 DEF Tasked, Idle
      <3>2. \/ \E d : tasks' = [tasks EXCEPT ![s] = w(d)]
            \/ tasks' = [tasks EXCEPT ![s] = l]
        BY <1>7 DEF UserAdmin!Serve
      <3> HIDE DEF w, l
      <3>3. QED
        BY <3>1, <3>2
    <2>3. Puts(Slots, s, v)
      BY <2>2, SetPuts, UsersTable
    <2>4. ASSUME NEW w PROVE At(Slots, w) \subseteq At(Slots, w)'
      BY <2>2, <2>3 DEF At, Puts
    <2>5. QED
      BY <2>1, <2>4 DEF UsersLoad
  <1>8. ASSUME NEW s \in Slots, UserAdmin!AfterSchema(s) \/ UserAdmin!AfterList(s)
        PROVE  UsersLoad'
    <2>1. Puts(Slots, s, Idle)
      BY <1>8, SetPuts, UsersTable DEF UserAdmin!AfterSchema, UserAdmin!AfterList, Idle
    <2>2. \A w : w # tasks[s].at => At(Slots, w)' = At(Slots, w)
      BY <2>1 DEF At, Puts
    <2>3. CASE UserAdmin!AfterSchema(s)
      BY <1>2, <2>2, <2>3 DEF UserAdmin!AfterSchema, PageState, UsersLoad
    <2>4. CASE UserAdmin!AfterList(s)
      BY <1>2, <2>2, <2>4 DEF UserAdmin!AfterList, PageState, UsersLoad
    <2>5. QED
      BY <1>8, <2>3, <2>4
  <1>9. ASSUME NEW s \in Slots, UserAdmin!AfterChange(s) PROVE UsersLoad'
    <2>1. tasks[s] # Idle /\ tasks[s].at = "change"
      BY <1>9 DEF UserAdmin!AfterChange, Idle
    <2>2. PICK v : /\ tasks' = [tasks EXCEPT ![s] = v]
                   /\ (v = Idle /\ UNCHANGED ui) \/ (v # Idle /\ v.at = "list")
      <3> DEFINE again == UserAdmin!Task("load", None, None, "list")
      <3>1. again # Idle /\ again.at = "list"
        BY DEF UserAdmin!Task, Idle
      <3>2. \/ tasks' = [tasks EXCEPT ![s] = Idle] /\ UNCHANGED ui
            \/ tasks' = [tasks EXCEPT ![s] = again]
        BY <1>9 DEF UserAdmin!AfterChange, Idle
      <3> HIDE DEF again
      <3>3. QED
        BY <3>1, <3>2
    <2>3. Puts(Slots, s, v)
      BY <2>2, SetPuts, UsersTable
    <2>4. \A w : w # "change" => At(Slots, w) \subseteq At(Slots, w)'
      BY <2>1, <2>3 DEF At, Puts
    <2>5. v # Idle => s \in At(Slots, "list")'
      BY <2>2, <2>3 DEF At, Puts
    <2>6. ui'.schemaLoading = ui.schemaLoading
      BY <1>2, <1>9 DEF PageState, UserAdmin!AfterChange, UserAdmin!Closed,
         UserAdmin!ResetForm, UserAdmin!FillForm
    <2>7. QED
      BY <2>2, <2>4, <2>5, <2>6 DEF UsersLoad
  <1>10. QED
    BY <1>3, <1>5, <1>6, <1>7, <1>8, <1>9
       DEF Acts, User, Others, Runs, UserAdmin!User, UserAdmin!Runs

LEMMA UsersHold == Spec => []OnUsers
  <1>1. Init => UsersShown /\ OnUsers
    BY DEF Init, UsersShown, OnUsers
  <1>2. UsersShown /\ [Next]_vars => UsersShown'
    BY NextHolds
  <1>3. UsersLoad /\ UNCHANGED vars => UsersLoad'
    BY DEF vars, UsersLoad, At
  <1>4. UsersShown /\ OnUsers /\ [Next]_vars => OnUsers'
    BY <1>2, <1>3, PageSteps, UsersMounts, UsersLoadSteps DEF OnUsers, UsersShown, Acts, vars
  <1>5. QED
    BY <1>1, <1>2, <1>4, PTL DEF Spec

---------------------------------------------------------------------------
(* The documents *)

Docs == UNION {[S -> Contents] : S \in SUBSET Ids}

DocumentsState == [documents : Docs, loading : BOOLEAN, editing : Ids \cup {None},
                   form : Contents \cup {None}, open : BOOLEAN,
                   filter : Contents \cup {None}, page : 1..(Cardinality(Ids) + 1),
                   stale : BOOLEAN, updates : 0..MaxChanges]
DocumentsTask ==
    {t \in [op : Documents!Ops, id : Ids \cup {None}, form : Contents \cup {None},
            documents : Docs, page : 1..(Cardinality(Ids) + 1), at : {"request"},
            status : {"sent", "ok", "failed"}, data : Docs] :
       t.op \in {"create", "update"} => t.form \in Contents}
DocumentsServer == [documents : Docs]

\* What the table will show when the handler t, which has been answered, ends.
Outcome(t) ==
    IF t.op = "load" THEN t.data
    ELSE IF t.op = "delete" THEN Documents!Less(t.documents, t.id)
    ELSE Documents!SavedIn(t)

(* One handler at a time: it captured what the server has, and when it has been
   answered its outcome is what the server has. *)
DocumentsFresh ==
    /\ \A r, s \in Busy(Slots) : r = s
    /\ Busy(Slots) = {} => ui.documents = server.documents
    /\ \A s \in Busy(Slots) :
         /\ tasks[s].op # "load" /\ tasks[s].status = "sent" =>
              tasks[s].documents = server.documents
         /\ tasks[s].status = "ok" => server.documents = Outcome(tasks[s])

DocumentsInv ==
    /\ \E v : v \in Contents
    /\ ui \in DocumentsState /\ Handles(Slots, DocumentsTask) /\ server \in DocumentsServer
    /\ ui.loading => Doing(Slots, {"load"}) # {}
    /\ ~ui.stale => DocumentsFresh

OnDocuments == shown = "documents" => DocumentsInv

USE DEF Documents!T!Idle, Documents!T!Running, Documents!T!CanRun, Documents!T!Run,
        Documents!T!Set, Documents!T!End, Documents!T!Doing, Documents!T!Quiet,
        Documents!T!Waits, Documents!T!Back, Documents!T!Ok, Documents!T!Reply,
        Documents!T!Fail

LEMMA NoDocs == Documents!NoDocuments \in Docs
  <1>1. Documents!NoDocuments \in [{} -> Contents] /\ {} \in SUBSET Ids
    BY DEF Documents!NoDocuments
  <1>2. QED
    BY <1>1 DEF Docs

LEMMA DocsTypes ==
    ASSUME NEW d \in Docs
    PROVE  /\ d = [i \in DOMAIN d |-> d[i]] /\ DOMAIN d \subseteq Ids
           /\ \A i \in DOMAIN d : d[i] \in Contents
  BY DEF Docs

LEMMA DocsMade ==
    ASSUME NEW S \in SUBSET Ids, NEW d, d \in [S -> Contents] PROVE d \in Docs
  BY DEF Docs

LEMMA DocsWith ==
    ASSUME NEW d \in Docs, NEW i \in Ids, NEW v \in Contents
    PROVE  Documents!With(d, i, v) \in Docs
  <1>1. Documents!With(d, i, v) \in [DOMAIN d \cup {i} -> Contents]
    BY DocsTypes DEF Documents!With
  <1>2. DOMAIN d \cup {i} \in SUBSET Ids
    BY DocsTypes
  <1>3. QED
    BY <1>1, <1>2, DocsMade

LEMMA AnswerType ==
    ASSUME NEW i \in Ids, NEW v \in Contents, NEW a \in [{i} -> {v}] PROVE a \in Docs
  <1>1. a \in [{i} -> Contents] /\ {i} \in SUBSET Ids
    OBVIOUS
  <1>2. QED
    BY <1>1, DocsMade

(* The document that was created is added, the one that was changed, if it
   is listed, is put in. *)
LEMMA SavedWith ==
    ASSUME NEW t, NEW i, NEW v, t.data \in [{i} -> {v}],
           t.op = "create" \/ i \in DOMAIN t.documents
    PROVE  Documents!SavedIn(t) = Documents!With(t.documents, i, v)
  <1>1. DOMAIN t.data = {i} /\ t.data[i] = v
    OBVIOUS
  <1>2. QED
    BY <1>1 DEF Documents!With, Documents!SavedIn

LEMMA DocsLess ==
    ASSUME NEW d \in Docs, NEW i PROVE Documents!Less(d, i) \in Docs
  <1>1. Documents!Less(d, i) \in [DOMAIN d \ {i} -> Contents]
    BY DocsTypes DEF Documents!Less
  <1>2. DOMAIN d \ {i} \in SUBSET Ids
    BY DocsTypes
  <1>3. QED
    BY <1>1, <1>2, DocsMade

LEMMA DocsSaved ==
    ASSUME NEW t, t.documents \in Docs, t.data \in Docs
    PROVE  Documents!SavedIn(t) \in Docs
  <1> DEFINE listed == DOMAIN t.documents \cup
                         (IF t.op = "create" THEN DOMAIN t.data ELSE {})
  <1>1. Documents!SavedIn(t) \in [listed -> Contents]
    BY DocsTypes DEF Documents!SavedIn
  <1>2. listed \in SUBSET Ids
    BY DocsTypes
  <1>3. QED
    BY <1>1, <1>2, DocsMade

LEMMA PageNumbers ==
    /\ IsFiniteSet(Ids) /\ Cardinality(Ids) \in Nat
    /\ 1 \in 1..(Cardinality(Ids) + 1)
    /\ \A p \in 1..Cardinality(Ids) : p \in 1..(Cardinality(Ids) + 1)
  <1>1. IsFiniteSet(Ids)
    BY DashboardAssumption DEF Documents!DocumentsAssumption, Documents!IsFiniteSet,
       IsFiniteSet
  <1>2. Cardinality(Ids) \in Nat
    BY <1>1, FS_CardinalityType
  <1>3. QED
    BY <1>1, <1>2

LEMMA PageAfterType ==
    ASSUME NEW d \in Docs, NEW c \in 1..(Cardinality(Ids) + 1),
           NEW p \in 1..(Cardinality(Ids) + 1)
    PROVE  Documents!PageAfter(c, Documents!Pages(Cardinality(DOMAIN d)), p)
              \in 1..(Cardinality(Ids) + 1)
  <1> DEFINE total == Documents!Pages(Cardinality(DOMAIN d))
  <1>1. Cardinality(DOMAIN d) \in Nat
    BY PageNumbers, DocsTypes, FS_Subset, FS_CardinalityType
  <1>2. total \in Int
    BY <1>1, DashboardAssumption DEF Documents!DocumentsAssumption, Documents!Pages
  <1> HIDE DEF total
  <1>3. Documents!PageAfter(c, total, p) \in 1..(Cardinality(Ids) + 1)
    BY <1>2, PageNumbers DEF Documents!PageAfter
  <1>4. QED
    BY <1>3 DEF total

LEMMA DocumentsTaskType ==
    ASSUME NEW op \in Documents!Ops, NEW id \in Ids \cup {None},
           NEW form \in Contents \cup {None}, NEW u \in DocumentsState,
           op \in {"create", "update"} => form \in Contents
    PROVE  /\ Documents!Task(op, id, form, u) \in DocumentsTask
           /\ Documents!Task(op, id, form, u).op = op
           /\ Documents!Task(op, id, form, u).documents = u.documents
           /\ Documents!Task(op, id, form, u).status = "sent"
           /\ Documents!Task(op, id, form, u) # Idle
  BY NoDocs DEF Documents!Task, DocumentsTask, DocumentsState, Idle

LEMMA DocumentsMounts == Mounts("documents") => DocumentsInv'
  <1> SUFFICES ASSUME Mounts("documents") PROVE DocumentsInv'
    OBVIOUS
  <1> DEFINE t == Documents!Task("load", None, None, Documents!First)
  <1>1. PICK d \in Docs :
           /\ ui' = Documents!First /\ server' = [documents |-> d]
           /\ tasks' = [Documents!T!AllIdle EXCEPT ![1] = t]
    <2>1. PICK st \in Documents!Starts :
             ui' = st[1] /\ tasks' = st[2] /\ server' = st[3]
      BY DEF Mounts, Starts
    <2>2. PICK d \in Docs :
             st = <<Documents!First, [Documents!T!AllIdle EXCEPT ![1] = t],
                    [documents |-> d]>>
      BY <2>1 DEF Documents!Starts, Docs
    <2>3. QED
      BY <2>1, <2>2
  <1>2. tasks' = [s \in Slots |-> IF s = 1 THEN t ELSE Idle]
    BY <1>1 DEF Documents!T!AllIdle, Idle
  <1>3. Documents!First \in DocumentsState
    BY NoDocs, PageNumbers, DashboardAssumption
       DEF Documents!First, DocumentsState, Documents!DocumentsAssumption
  <1>4. t \in DocumentsTask /\ t.op = "load" /\ t.status = "sent" /\ t # Idle
    <2>1. "load" \in Documents!Ops /\ ~("load" \in {"create", "update"})
      BY DEF Documents!Ops
    <2>2. QED
      BY <1>3, <2>1, DocumentsTaskType
  <1>5. server' \in DocumentsServer
    BY <1>1 DEF DocumentsServer
  <1> HIDE DEF t
  <1>6. Handles(Slots, DocumentsTask)' /\ Busy(Slots)' = {1} /\ Doing(Slots, {"load"})' = {1}
    BY <1>2, <1>4, DashboardAssumption DEF Handles, Table, Busy, Doing
  <1>7. DocumentsFresh'
    <2>1. tasks'[1].op = "load" /\ tasks'[1].status = "sent"
      BY <1>2, <1>4, DashboardAssumption
    <2>2. QED
      BY <1>6, <2>1 DEF DocumentsFresh
  <1>8. \E v : v \in Contents
    BY DashboardAssumption DEF Documents!DocumentsAssumption
  <1>9. QED
    BY <1>1, <1>3, <1>5, <1>6, <1>7, <1>8 DEF DocumentsInv

\* A handler starts.
LEMMA DocumentsRun ==
    ASSUME DocumentsInv, NEW t \in DocumentsTask, t # Idle, t.status = "sent",
           Documents!T!CanRun, Documents!T!Run(t), UNCHANGED server,
           ui' \in DocumentsState, ui'.documents = ui.documents,
           ui'.loading => t.op = "load" \/ ui.loading,
           ~ui'.stale => Busy(Slots) = {},
           ~ui'.stale /\ t.op # "load" => ~ui.stale /\ t.documents = ui.documents
    PROVE  DocumentsInv'
  <1>1. Busy(Slots) # Slots /\ tasks' = [tasks EXCEPT ![Least(Slots \ Busy(Slots))] = t]
    BY DEF Least, Busy, Idle
  <1>2. PICK n \in Slots \ Busy(Slots) : Puts(Slots, n, t) /\ Handles(Slots, DocumentsTask)'
    BY <1>1, RunHandles, DashboardAssumption DEF DocumentsInv
  <1>3. n \in Slots /\ n \notin Busy(Slots) /\ tasks'[n] = t
    BY <1>2 DEF Busy, Puts
  <1>4. Busy(Slots)' = Busy(Slots) \cup {n}
    BY <1>2, <1>3, BusyPuts
  <1>5. ~ui'.stale => DocumentsFresh'
    BY <1>3, <1>4 DEF DocumentsInv, DocumentsFresh
  <1>6. ui'.loading => Doing(Slots, {"load"})' # {}
    <2>1. t.op = "load" => n \in Doing(Slots, {"load"})'
      BY <1>3 DEF Doing
    <2>2. Doing(Slots, {"load"}) \subseteq Doing(Slots, {"load"})'
      BY <1>2 DEF Doing, Busy, Puts
    <2>3. QED
      BY <2>1, <2>2 DEF DocumentsInv
  <1>7. QED
    BY <1>2, <1>5, <1>6 DEF DocumentsInv

LEMMA DocumentsServe ==
    ASSUME DocumentsInv, NEW s \in Slots, Documents!Serve(s) PROVE DocumentsInv'
  <1> DEFINE t == tasks[s]
  <1>1. t \in DocumentsTask /\ t # Idle /\ t.status = "sent" /\ UNCHANGED ui
    BY DEF Documents!Serve, DocumentsInv, Handles, Idle
  <1>2. server.documents \in Docs
    BY DEF DocumentsInv, DocumentsServer
  <1> DEFINE Answered(st, d) ==
               /\ tasks' = [tasks EXCEPT ![s] = [t EXCEPT !.status = st, !.data = d]]
               /\ st = "ok" /\ (t.op # "load" => t.documents = server.documents) =>
                    server'.documents = Outcome([t EXCEPT !.status = st, !.data = d])
  <1>3. server' \in DocumentsServer
        /\ \E d \in Docs, st \in {"ok", "failed"} : Answered(st, d)
    <2>1. t.data \in Docs /\ server \in DocumentsServer /\ t.op \in Documents!Ops
      BY <1>1 DEF DocumentsTask, DocumentsInv
    <2>2. [t EXCEPT !.status = "failed"] = [t EXCEPT !.status = "failed", !.data = t.data]
      BY <1>1 DEF DocumentsTask
    <2>3. ASSUME Documents!T!Fail(s) PROVE \E d \in Docs, st \in {"ok", "failed"} : Answered(st, d)
      <3>1. Answered("failed", t.data)
        BY <2>2, <2>3
      <3> HIDE DEF Answered
      <3>2. QED
        BY <2>1, <3>1
    <2>4. t.op = "load" => \A d : Outcome([t EXCEPT !.status = "ok", !.data = d]) = d
      BY <1>1 DEF Outcome, DocumentsTask
    <2>5. ASSUME t.op = "load", Documents!T!Reply(s, server.documents), UNCHANGED server
          PROVE  Answered("ok", server.documents)
      BY <2>4, <2>5
    <2>6. ASSUME t.op # "load", NEW i \in Ids, server' = Documents!Changed(t, i),
                 t.op = "create" \/ i = t.id
          PROVE  /\ server' \in DocumentsServer
                 /\ t.op = "delete" => server'.documents = Documents!Less(server.documents, i)
                 /\ t.op # "delete" =>
                      /\ t.form \in Contents
                      /\ server'.documents = Documents!With(server.documents, i, t.form)
      <3>1. t.op # "delete" => t.form \in Contents
        BY <1>1, <2>6 DEF DocumentsTask, Documents!Ops
      <3>2. QED
        BY <1>2, <2>6, <3>1, DocsLess, DocsWith DEF Documents!Changed, DocumentsServer
    <2>7. ASSUME t.op # "load", NEW i \in Ids, server' = Documents!Changed(t, i),
                 t.op = "create" \/ i = t.id, t.op = "update" => Documents!Exists(i),
                 Documents!T!Reply(s, IF t.op = "delete" THEN Documents!NoDocuments
                                      ELSE [j \in {i} |-> t.form])
          PROVE  \E d \in Docs : Answered("ok", d)
      <3>1. CASE t.op = "delete"
        <4>1. Outcome([t EXCEPT !.status = "ok", !.data = Documents!NoDocuments])
                 = Documents!Less(t.documents, t.id)
          BY <1>1, <3>1 DEF Outcome, DocumentsTask
        <4>2. Answered("ok", Documents!NoDocuments)
          BY <2>6, <2>7, <3>1, <4>1
        <4> HIDE DEF Answered
        <4>3. QED
          BY <4>2, NoDocs
      <3>2. CASE t.op # "delete"
        <4> DEFINE d == [j \in {i} |-> t.form]
             v == [t EXCEPT !.status = "ok", !.data = d]
        <4>1. /\ v.op = t.op /\ v.documents = t.documents /\ v.data = d
              /\ Outcome(v) = Documents!SavedIn(v)
          BY <1>1, <2>7, <3>2 DEF Outcome, DocumentsTask
        <4>2. t.form \in Contents /\ t.documents \in Docs
          BY <1>1, <2>6, <2>7, <3>2 DEF DocumentsTask
        <4>3. d \in [{i} -> {t.form}]
          OBVIOUS
        <4>4. server'.documents = Documents!With(server.documents, i, t.form)
          BY <2>6, <2>7, <3>2
        <4>5. tasks' = [tasks EXCEPT ![s] = [t EXCEPT !.status = "ok", !.data = d]]
          BY <2>7, <3>2
        <4>a. t.op = "create" \/ (t.op = "update" /\ Documents!Exists(i))
          BY <1>1, <2>7, <3>2 DEF DocumentsTask, Documents!Ops
        <4> HIDE DEF d, t, v
        <4>6. d \in Docs
          BY <2>7, <4>2, <4>3, AnswerType
        <4>7. ASSUME t.documents = server.documents PROVE server'.documents = Outcome(v)
          <5>1. t.op = "create" \/ i \in DOMAIN t.documents
            BY <4>7, <4>a DEF Documents!Exists
          <5>2. Documents!SavedIn(v) = Documents!With(t.documents, i, t.form)
            BY <4>1, <4>3, <5>1, SavedWith
          <5>3. QED
            BY <4>1, <4>4, <4>7, <5>2
        <4>8. Answered("ok", d)
          BY <2>7, <4>5, <4>7 DEF v
        <4> HIDE DEF Answered
        <4>9. QED
          BY <4>6, <4>8
      <3>3. QED
        BY <3>1, <3>2
    <2>8. server' \in DocumentsServer
      BY <2>1, <2>6 DEF Documents!Serve
    <2> HIDE DEF Answered
    <2>9. QED
      BY <1>2, <2>3, <2>5, <2>7, <2>8 DEF Documents!Serve
  <1> HIDE DEF Answered
  <1>a. PICK d \in Docs, st \in {"ok", "failed"} : Answered(st, d)
    BY <1>3
  <1> DEFINE v == [t EXCEPT !.status = st, !.data = d]
  <1>4. v \in DocumentsTask /\ v.op = t.op /\ v # Idle /\ v.status = st
    BY <1>1 DEF DocumentsTask, Idle
  <1> HIDE DEF v
  <1>5. Puts(Slots, s, v) /\ Handles(Slots, DocumentsTask)'
    BY <1>4, <1>a, SetHandles DEF DocumentsInv, v, Answered
  <1>6. Busy(Slots)' = Busy(Slots) /\ Doing(Slots, {"load"})' = Doing(Slots, {"load"})
    BY <1>1, <1>4, <1>5 DEF Busy, Doing, Puts
  <1>7. ASSUME DocumentsFresh PROVE DocumentsFresh'
    <2>1. s \in Busy(Slots)
      BY <1>1 DEF Busy
    <2>2. t.op # "load" => t.documents = server.documents
      BY <1>1, <1>7, <2>1 DEF DocumentsFresh
    <2>3. v.status = "ok" => server'.documents = Outcome(v)
      BY <1>4, <1>a, <2>2 DEF v, Answered
    <2>4. tasks'[s] = v /\ v.status # "sent"
      BY <1>4, <1>5 DEF Puts
    <2>5. QED
      BY <1>6, <1>7, <2>1, <2>3, <2>4 DEF DocumentsFresh
  <1>8. QED
    BY <1>1, <1>3, <1>5, <1>6, <1>7 DEF DocumentsInv

\* A handler ends; the page shows its outcome if it was answered well.
LEMMA DocumentsEnd ==
    ASSUME DocumentsInv, NEW s \in Slots, tasks[s] # Idle, Documents!T!End(s),
           UNCHANGED server, ui' \in DocumentsState,
           ui'.loading => tasks[s].op # "load" /\ ui.loading,
           ~ui'.stale => /\ ~ui.stale /\ tasks[s].status = "ok"
                         /\ ui'.documents = Outcome(tasks[s])
    PROVE  DocumentsInv'
  <1>1. Puts(Slots, s, Idle) /\ Handles(Slots, DocumentsTask)'
    BY SetHandles DEF DocumentsInv, Idle
  <1>2. Busy(Slots)' = Busy(Slots) \ {s} /\ s \in Busy(Slots)
    BY <1>1, BusyPuts DEF Busy
  <1>3. ui'.loading => Doing(Slots, {"load"})' # {}
    <2>1. tasks[s].op # "load" => s \notin Doing(Slots, {"load"})
      BY DEF Doing
    <2>2. Doing(Slots, {"load"})' = Doing(Slots, {"load"}) \ {s}
      BY <1>1, EndDoing
    <2>3. QED
      BY <2>1, <2>2 DEF DocumentsInv
  <1>4. ASSUME ~ui'.stale PROVE DocumentsFresh'
    <2>1. DocumentsFresh /\ server.documents = Outcome(tasks[s])
      BY <1>2, <1>4 DEF DocumentsInv, DocumentsFresh
    <2>2. Busy(Slots)' = {}
      BY <1>2, <2>1 DEF DocumentsFresh
    <2>3. QED
      BY <1>4, <2>1, <2>2 DEF DocumentsFresh
  <1>5. QED
    BY <1>1, <1>3, <1>4 DEF DocumentsInv

LEMMA DocumentsSteps == DocumentsInv /\ Acts("documents") => DocumentsInv'
  <1> SUFFICES ASSUME DocumentsInv, Acts("documents") PROVE DocumentsInv'
    OBVIOUS
  <1> DEFINE u == ui
  <1>1. ui \in DocumentsState
    BY DEF DocumentsInv
  <1>2. ASSUME UNCHANGED <<tasks, server>>, ui' \in DocumentsState,
               ui'.loading = ui.loading, ui'.stale = ui.stale, ui'.documents = ui.documents
        PROVE  DocumentsInv'
    BY <1>2 DEF DocumentsInv, DocumentsFresh, Handles, Table, Busy, Doing
  <1>3. CASE Documents!CreateDocument \/ Documents!Close
    BY <1>1, <1>2, <1>3 DEF Documents!CreateDocument, Documents!Close, Documents!Closed,
       DocumentsState
  <1>4. ASSUME NEW v \in Contents \cup {None}, Documents!FieldChange(v) PROVE DocumentsInv'
    BY <1>1, <1>2, <1>4 DEF Documents!FieldChange, DocumentsState
  <1>5. ASSUME NEW v \in Filters \cup {None}, Documents!Search(v) PROVE DocumentsInv'
    <2>1. v \in Contents \cup {None}
      BY DashboardAssumption DEF Documents!DocumentsAssumption
    <2>2. QED
      BY <1>1, <1>2, <1>5, <2>1 DEF Documents!Search, DocumentsState
  <1>6. ASSUME NEW p \in 1..Cardinality(Ids), Documents!PageChange(p) PROVE DocumentsInv'
    <2>1. p \in 1..(Cardinality(Ids) + 1)
      BY PageNumbers
    <2>2. QED
      BY <1>1, <1>2, <1>6, <2>1 DEF Documents!PageChange, DocumentsState
  <1>7. ASSUME NEW i \in Ids, Documents!EditDocument(i) PROVE DocumentsInv'
    <2>1. ui.documents[i] \in Contents
      <3>1. i \in DOMAIN ui.documents
        BY <1>7 DEF Documents!EditDocument, Documents!Rows, Documents!Filtered
      <3>2. ui.documents \in Docs
        BY <1>1 DEF DocumentsState
      <3>3. QED
        BY <3>1, <3>2, DocsTypes
    <2>2. QED
      BY <1>1, <1>2, <1>7, <2>1 DEF Documents!EditDocument, DocumentsState
  <1>8. CASE Documents!Refresh
    <2> DEFINE t == Documents!Task("load", None, None, ui)
    <2>1. t \in DocumentsTask /\ t.op = "load" /\ t.status = "sent" /\ t # Idle
      BY <1>1, DocumentsTaskType DEF Documents!Ops
    <2>2. /\ ui' = [ui EXCEPT !.loading = TRUE, !.stale = Busy(Slots) # {},
                              !.updates = ui.updates + 1]
          /\ ui.updates < MaxChanges
          /\ Documents!T!CanRun /\ Documents!T!Run(t) /\ UNCHANGED server
      BY <1>8 DEF Documents!Refresh, Busy, Idle
    <2>3. /\ ui' \in DocumentsState /\ ui'.documents = ui.documents
          /\ ui'.stale = (Busy(Slots) # {})
      <3>1. ui.updates + 1 \in 0..MaxChanges
        BY <1>1, <2>2, DashboardAssumption DEF DocumentsState, Documents!DocumentsAssumption
      <3>2. QED
        BY <1>1, <2>2, <3>1 DEF DocumentsState
    <2> HIDE DEF t
    <2>4. QED
      BY <2>1, <2>2, <2>3, DocumentsRun
  <1>9. ASSUME NEW op \in {"create", "update", "delete"}, NEW id \in Ids \cup {None},
               NEW form \in Contents \cup {None},
               op \in {"create", "update"} => form \in Contents,
               Documents!Sends(Documents!Task(op, id, form, ui))
        PROVE  DocumentsInv'
    <2> DEFINE t == Documents!Task(op, id, form, ui)
    <2>1. /\ t \in DocumentsTask /\ t.op = op /\ t.status = "sent" /\ t # Idle
          /\ t.documents = ui.documents
      BY <1>1, <1>9, DocumentsTaskType DEF Documents!Ops
    <2>2. /\ ui' = [ui EXCEPT !.stale = ui.stale \/ Busy(Slots) # {},
                              !.updates = ui.updates + 1]
          /\ ui.updates < MaxChanges
          /\ Documents!T!CanRun /\ Documents!T!Run(t) /\ UNCHANGED server
      BY <1>9 DEF Documents!Sends, Busy, Idle
    <2>3. /\ ui' \in DocumentsState /\ ui'.documents = ui.documents
          /\ ui'.loading = ui.loading /\ ui'.stale = (ui.stale \/ Busy(Slots) # {})
      <3>1. ui.updates + 1 \in 0..MaxChanges
        BY <1>1, <2>2, DashboardAssumption DEF DocumentsState, Documents!DocumentsAssumption
      <3>2. QED
        BY <1>1, <2>2, <3>1 DEF DocumentsState
    <2> HIDE DEF t
    <2>4. QED
      BY <2>1, <2>2, <2>3, DocumentsRun
  <1>10. CASE Documents!SaveDocument
    <2>1. ui.form \in Contents /\ ui.editing \in Ids \cup {None}
      BY <1>1, <1>10 DEF Documents!SaveDocument, DocumentsState
    <2>2. QED
      BY <1>9, <1>10, <2>1 DEF Documents!SaveDocument
  <1>11. ASSUME NEW i \in Ids, Documents!DeleteDocument(i) PROVE DocumentsInv'
    BY <1>9, <1>11 DEF Documents!DeleteDocument
  <1>12. ASSUME NEW i \in Ids, Documents!Others(i) PROVE DocumentsInv'
    <2>1. server' \in DocumentsServer
      <3>1. (CHOOSE v \in Contents : TRUE) \in Contents
        BY DEF DocumentsInv
      <3>2. server.documents \in Docs
        BY DEF DocumentsInv, DocumentsServer
      <3>3. QED
        BY <1>12, <3>1, <3>2, DocsWith, DocsLess DEF Documents!Others, DocumentsServer
    <2>2. ui' \in DocumentsState /\ ui'.loading = ui.loading /\ ui'.stale
      BY <1>1, <1>12 DEF Documents!Others, DocumentsState
    <2>3. QED
      BY <1>12, <2>1, <2>2 DEF Documents!Others, DocumentsInv, Handles, Table, Doing
  <1>13. ASSUME NEW s \in Slots, Documents!Serve(s) PROVE DocumentsInv'
    BY <1>13, DocumentsServe
  <1>14. ASSUME NEW s \in Slots,
                \/ Documents!AfterLoad(s) \/ Documents!AfterSave(s)
                \/ Documents!AfterDelete(s)
         PROVE  DocumentsInv'
    <2>1. /\ tasks[s] \in DocumentsTask /\ tasks[s] # Idle /\ tasks[s].documents \in Docs
          /\ tasks[s].data \in Docs /\ Documents!T!End(s) /\ UNCHANGED server
      BY <1>14 DEF Documents!AfterLoad, Documents!AfterSave, Documents!AfterDelete,
         DocumentsInv, Handles, Idle, DocumentsTask
    <2>2. CASE Documents!AfterLoad(s)
      <3>1. tasks[s].op = "load" /\ Outcome(tasks[s]) = tasks[s].data
        BY <2>2 DEF Documents!AfterLoad, Outcome
      <3>2. /\ ui' \in DocumentsState /\ ~ui'.loading
            /\ ui'.stale = (ui.stale \/ tasks[s].status # "ok")
            /\ ui'.documents = tasks[s].data
        BY <1>1, <2>1, <2>2 DEF Documents!AfterLoad, DocumentsState
      <3>3. QED
        BY <1>1, <2>1, <3>1, <3>2, DocumentsEnd DEF DocumentsState
    <2>3. CASE Documents!AfterSave(s)
      <3> DEFINE d == Documents!SavedIn(tasks[s])
      <3>1. tasks[s].op \notin {"load", "delete"} /\ Outcome(tasks[s]) = d
        BY <2>3 DEF Documents!AfterSave, Outcome
      <3>2. d \in Docs
        BY <2>1, DocsSaved
      <3>3. ui' = IF tasks[s].status = "ok"
                    THEN [ui EXCEPT !.open = FALSE, !.editing = None, !.form = None,
                                    !.documents = d]
                    ELSE [ui EXCEPT !.stale = TRUE]
        BY <2>3 DEF Documents!AfterSave, Documents!Closed
      <3> HIDE DEF d
      <3>4. /\ ui' \in DocumentsState /\ ui'.loading = ui.loading
            /\ ~ui'.stale => ~ui.stale /\ tasks[s].status = "ok" /\ ui'.documents = d
        BY <1>1, <3>2, <3>3 DEF DocumentsState
      <3>5. QED
        BY <2>1, <3>1, <3>4, DocumentsEnd
    <2>4. CASE Documents!AfterDelete(s)
      <3> DEFINE d == Documents!Less(tasks[s].documents, tasks[s].id)
                 p == Documents!PageAfter(tasks[s].page,
                                          Documents!Pages(Cardinality(DOMAIN d)), ui.page)
      <3>1. tasks[s].op = "delete" /\ Outcome(tasks[s]) = d
        BY <2>4 DEF Documents!AfterDelete, Outcome
      <3>2. d \in Docs
        BY <2>1, DocsLess
      <3>3. p \in 1..(Cardinality(Ids) + 1)
        <4>1. /\ tasks[s].page \in 1..(Cardinality(Ids) + 1)
              /\ ui.page \in 1..(Cardinality(Ids) + 1)
          BY <1>1, <2>1 DEF DocumentsTask, DocumentsState
        <4> HIDE DEF d
        <4>2. QED
          BY <3>2, <4>1, PageAfterType
      <3>4. ui' = IF tasks[s].status = "ok"
                    THEN [ui EXCEPT !.documents = d, !.page = p]
                    ELSE [ui EXCEPT !.stale = TRUE]
        BY <2>4 DEF Documents!AfterDelete, Documents!Cardinality, Cardinality
      <3> HIDE DEF d, p
      <3>5. /\ ui' \in DocumentsState /\ ui'.loading = ui.loading
            /\ ~ui'.stale => ~ui.stale /\ tasks[s].status = "ok" /\ ui'.documents = d
        BY <1>1, <3>2, <3>3, <3>4 DEF DocumentsState
      <3>6. QED
        BY <2>1, <3>1, <3>5, DocumentsEnd
    <2>5. QED
      BY <1>14, <2>2, <2>3, <2>4
  <1>15. QED
    BY <1>3, <1>4, <1>5, <1>6, <1>7, <1>8, <1>10, <1>11, <1>12, <1>13, <1>14
       DEF Acts, User, Others, Runs, Documents!User, Documents!Runs,
           Documents!Cardinality, Cardinality

LEMMA DocumentsHold == Spec => []OnDocuments
  <1>1. Init => OnDocuments
    BY DEF Init, OnDocuments
  <1>2. DocumentsInv /\ UNCHANGED vars => DocumentsInv'
    BY DEF vars, DocumentsInv, DocumentsFresh, Handles, Table, Busy, Doing
  <1>3. OnDocuments /\ [Next]_vars => OnDocuments'
    BY <1>2, PageSteps, DocumentsMounts, DocumentsSteps DEF OnDocuments, Acts, vars
  <1>4. QED
    BY <1>1, <1>3, PTL DEF Spec

---------------------------------------------------------------------------
(* The properties: the table *)

Tables == UNION {[S -> Schema!Property] : S \in SUBSET Properties}

\* The rows that stand before row n.
Ahead(p, n) == {m \in Schema!Moveable(p) : Schema!Before(p, m, n)}

LEMMA TablesAre == \A p : Schema!IsSchema(p) <=> p \in Tables
  BY DEF Schema!IsSchema, Tables

LEMMA TableTypes ==
    ASSUME NEW p \in Tables
    PROVE  /\ DOMAIN p \subseteq Properties /\ p = [n \in DOMAIN p |-> p[n]]
           /\ \A n \in DOMAIN p : p[n] \in Schema!Property
           /\ \A n \in DOMAIN p : p[n].order \in Nat /\ n \in Nat
           /\ Schema!Moveable(p) \subseteq DOMAIN p /\ IsFiniteSet(Schema!Moveable(p))
  <1>1. /\ DOMAIN p \subseteq Properties /\ p = [n \in DOMAIN p |-> p[n]]
        /\ \A n \in DOMAIN p : p[n] \in Schema!Property
    BY DEF Tables
  <1>2. \A n \in DOMAIN p : p[n].order \in Nat
    BY <1>1 DEF Schema!Property
  <1>3. Properties \subseteq Nat /\ IsFiniteSet(Properties)
    BY DashboardAssumption DEF Schema!PropertiesAssumption, Schema!IsFiniteSet, IsFiniteSet
  <1>4. Schema!Moveable(p) \subseteq DOMAIN p
    BY DEF Schema!Moveable
  <1>5. IsFiniteSet(Schema!Moveable(p))
    BY <1>1, <1>3, <1>4, FS_Subset
  <1>6. QED
    BY <1>1, <1>2, <1>3, <1>4, <1>5

LEMMA TableMade ==
    ASSUME NEW S \in SUBSET Properties, NEW p, p \in [S -> Schema!Property]
    PROVE  p \in Tables
  BY DEF Tables

LEMMA PlaceIs == \A p, n : Schema!Place(p, n) = Cardinality(Ahead(p, n)) + 1
  BY DEF Schema!Place, Ahead, Schema!Cardinality, Cardinality

LEMMA PlaceType ==
    ASSUME NEW p \in Tables, NEW n
    PROVE  /\ IsFiniteSet(Ahead(p, n)) /\ Cardinality(Ahead(p, n)) \in Nat
           /\ Schema!Place(p, n) \in Nat /\ Schema!Place(p, n) > 0
  <1>1. Ahead(p, n) \subseteq Schema!Moveable(p)
    BY DEF Ahead
  <1>2. IsFiniteSet(Ahead(p, n)) /\ Cardinality(Ahead(p, n)) \in Nat
    BY <1>1, TableTypes, FS_Subset, FS_CardinalityType
  <1>3. QED
    BY <1>2, PlaceIs

LEMMA PlaceLess ==
    ASSUME NEW p \in Tables, NEW m \in Schema!Moveable(p), NEW n \in Schema!Moveable(p),
           Schema!Before(p, m, n)
    PROVE  Schema!Place(p, m) < Schema!Place(p, n)
  <1>1. \A k \in Schema!Moveable(p) : k \in Nat /\ p[k].order \in Nat
    BY TableTypes
  <1>2. Ahead(p, m) \subseteq Ahead(p, n) \ {m} /\ m \in Ahead(p, n)
    BY <1>1 DEF Ahead, Schema!Before
  <1>3. /\ IsFiniteSet(Ahead(p, n) \ {m})
        /\ Cardinality(Ahead(p, n) \ {m}) = Cardinality(Ahead(p, n)) - 1
    BY <1>2, PlaceType, FS_RemoveElement
  <1>4. Cardinality(Ahead(p, m)) <= Cardinality(Ahead(p, n) \ {m})
    BY <1>2, <1>3, FS_Subset
  <1>5. QED
    BY <1>3, <1>4, PlaceIs, PlaceType

\* Places are the order of the rows, and no two rows have the same.
LEMMA PlaceOrder ==
    ASSUME NEW p \in Tables, NEW m \in Schema!Moveable(p), NEW n \in Schema!Moveable(p)
    PROVE  /\ Schema!Before(p, m, n) <=> Schema!Place(p, m) < Schema!Place(p, n)
           /\ m # n => Schema!Place(p, m) # Schema!Place(p, n)
  <1>1. /\ m \in Nat /\ n \in Nat /\ p[m].order \in Nat /\ p[n].order \in Nat
        /\ Schema!Place(p, m) \in Nat /\ Schema!Place(p, n) \in Nat
    BY TableTypes, PlaceType
  <1>2. /\ Schema!Before(p, m, n) => Schema!Place(p, m) < Schema!Place(p, n)
        /\ Schema!Before(p, n, m) => Schema!Place(p, n) < Schema!Place(p, m)
    BY PlaceLess
  <1>3. m # n => Schema!Before(p, m, n) \/ Schema!Before(p, n, m)
    BY <1>1 DEF Schema!Before
  <1>4. m = n => ~Schema!Before(p, m, n)
    BY <1>1 DEF Schema!Before
  <1>5. QED
    BY <1>1, <1>2, <1>3, <1>4

---------------------------------------------------------------------------
(* A row is dropped *)

\* The new place of the row at place i, when the row at a is dropped on b.
Slid(a, b, i) ==
    IF i = a THEN b
    ELSE IF a < i /\ i <= b THEN i - 1
    ELSE IF b <= i /\ i < a THEN i + 1
    ELSE i

LEMMA SlidOrder ==
    ASSUME NEW a \in Nat, NEW b \in Nat, a > 0, b > 0, a # b
    PROVE  /\ \A i \in Nat : i > 0 => Slid(a, b, i) \in Nat
           /\ \A i, j \in Nat : i # a /\ j # a => (Slid(a, b, i) < Slid(a, b, j) <=> i < j)
           /\ \A i \in Nat : i # a =>
                /\ Slid(a, b, i) # b
                /\ Slid(a, b, i) < b <=> IF a < b THEN i <= b ELSE i < b
  BY DEF Slid

LEMMA ReorderedRows ==
    ASSUME NEW p \in Tables, NEW what \in Schema!Moveable(p), NEW where \in Schema!Moveable(p),
           what # where
    PROVE  LET q == Schema!Reordered(p, what, where) IN
           /\ q \in Tables /\ DOMAIN q = DOMAIN p /\ Schema!Moveable(q) = Schema!Moveable(p)
           /\ \A n \in Schema!Moveable(p) :
                q[n].order = Slid(Schema!Place(p, what), Schema!Place(p, where), Schema!Place(p, n))
  <1> DEFINE a == Schema!Place(p, what)
             b == Schema!Place(p, where)
             q == Schema!Reordered(p, what, where)
             r(n) == [order |-> Slid(a, b, Schema!Place(p, n)), system |-> FALSE]
  <1>1. a \in Nat /\ b \in Nat /\ a > 0 /\ b > 0 /\ a # b
    BY PlaceType, PlaceOrder
  <1>2. \A n : Schema!Place(p, n) \in Nat /\ Schema!Place(p, n) > 0
    BY PlaceType
  <1>3. \A n \in Schema!Moveable(p) : n # what => Schema!Place(p, n) # a
    BY PlaceOrder
  <1>4. q = [n \in DOMAIN p |-> IF p[n].system THEN p[n] ELSE r(n)]
    <2>1. ASSUME NEW n \in DOMAIN p, ~p[n].system
          PROVE  (CASE n = what -> b
                    [] a < Schema!Place(p, n) /\ Schema!Place(p, n) <= b -> Schema!Place(p, n) - 1
                    [] b <= Schema!Place(p, n) /\ Schema!Place(p, n) < a -> Schema!Place(p, n) + 1
                    [] OTHER -> Schema!Place(p, n))
                 = Slid(a, b, Schema!Place(p, n))
      <3>1. n \in Schema!Moveable(p)
        BY <2>1 DEF Schema!Moveable
      <3>2. n # what => Schema!Place(p, n) # a
        BY <1>3, <3>1
      <3>3. n = what => Schema!Place(p, n) = a
        OBVIOUS
      <3> DEFINE i == Schema!Place(p, n)
      <3>4. i \in Nat
        BY <1>2
      <3> HIDE DEF a, b, i
      <3>5. QED
        BY <1>1, <3>2, <3>3, <3>4 DEF Slid, i
    <2> HIDE DEF a, b
    <2>2. QED
      BY <2>1 DEF Schema!Reordered, a, b
  <1> HIDE DEF a, b, q
  <1>5. \A n \in DOMAIN p : r(n) \in Schema!Property
    BY <1>1, <1>2, SlidOrder DEF Schema!Property
  <1>6. q \in [DOMAIN p -> Schema!Property]
    BY <1>4, <1>5, TableTypes
  <1>7. q \in Tables /\ DOMAIN q = DOMAIN p
    BY <1>6, TableMade, TableTypes
  <1>8. \A n \in DOMAIN p : q[n].system = p[n].system
    BY <1>4, TableTypes DEF Schema!Property
  <1>9. Schema!Moveable(q) = Schema!Moveable(p)
    BY <1>7, <1>8 DEF Schema!Moveable
  <1>10. \A n \in Schema!Moveable(p) : q[n].order = Slid(a, b, Schema!Place(p, n))
    BY <1>4 DEF Schema!Moveable
  <1>11. QED
    BY <1>7, <1>9, <1>10 DEF a, b, q

\* The other rows keep their order; the row takes the place its target had.
LEMMA DropArranges ==
    ASSUME NEW p \in Tables, NEW what \in Schema!Moveable(p), NEW where \in Schema!Moveable(p),
           what # where, NEW q, q = Schema!Reordered(p, what, where)
    PROVE  /\ q \in Tables /\ DOMAIN q = DOMAIN p
           /\ Schema!Place(q, what) = Schema!Place(p, where)
           /\ \A m, n \in Schema!Moveable(p) \ {what} :
                Schema!Before(q, m, n) = Schema!Before(p, m, n)
  <1> DEFINE M == Schema!Moveable(p)
             P(n) == Schema!Place(p, n)
             a == P(what)
             b == P(where)
  <1>1. /\ q \in Tables /\ DOMAIN q = DOMAIN p /\ Schema!Moveable(q) = M
        /\ \A n \in M : q[n].order = Slid(a, b, P(n))
    BY ReorderedRows
  <1>2. a \in Nat /\ b \in Nat /\ a > 0 /\ b > 0 /\ a # b
    BY PlaceType, PlaceOrder
  <1>3. \A n \in M : P(n) \in Nat /\ n \in Nat /\ (n # what => P(n) # a)
    BY PlaceType, PlaceOrder, TableTypes
  <1>4. \A m, n \in M : Schema!Before(p, m, n) <=> P(m) < P(n)
    BY PlaceOrder
  <1>5. \A m, n \in M : m # n => P(m) # P(n)
    BY PlaceOrder
  <1> HIDE DEF M, P
  <1>6. ASSUME NEW m \in M \ {what}, NEW n \in M \ {what}
        PROVE  Schema!Before(q, m, n) = Schema!Before(p, m, n)
    <2>1. Slid(a, b, P(m)) < Slid(a, b, P(n)) <=> P(m) < P(n)
      BY <1>2, <1>3, SlidOrder
    <2>2. Slid(a, b, P(n)) < Slid(a, b, P(m)) <=> P(n) < P(m)
      BY <1>2, <1>3, SlidOrder
    <2>3. Slid(a, b, P(m)) = Slid(a, b, P(n)) => m = n
      BY <1>3, <1>5, <2>1, <2>2
    <2>4. m \in Nat /\ q[m].order = Slid(a, b, P(m)) /\ q[n].order = Slid(a, b, P(n))
      BY <1>1, <1>3
    <2>5. Schema!Before(q, m, n) <=> P(m) < P(n)
      BY <2>1, <2>3, <2>4 DEF Schema!Before
    <2>6. Schema!Before(q, m, n) <=> Schema!Before(p, m, n)
      BY <1>4, <2>5
    <2>7. Schema!Before(q, m, n) \in BOOLEAN /\ Schema!Before(p, m, n) \in BOOLEAN
      BY DEF Schema!Before
    <2>8. QED
      BY <2>6, <2>7
  <1>7. Ahead(q, what) = {m \in M : m # what /\ Slid(a, b, P(m)) < b}
    <2>1. ~Schema!Before(q, what, what)
      <3>1. what \in M /\ what \in Nat
        BY <1>3 DEF M
      <3>2. q[what].order \in Nat
        BY <1>1, <3>1, TableTypes DEF M
      <3>3. QED
        BY <3>1, <3>2 DEF Schema!Before
    <2>2. ASSUME NEW m \in M, m # what
          PROVE  Schema!Before(q, m, what) <=> Slid(a, b, P(m)) < b
      <3>1. q[m].order = Slid(a, b, P(m)) /\ q[what].order = b
        <4>1. what \in M /\ Slid(a, b, a) = b
          BY DEF M, Slid
        <4>2. QED
          BY <1>1, <4>1
      <3>2. Slid(a, b, P(m)) # b
        BY <1>2, <1>3, <2>2, SlidOrder
      <3>3. QED
        BY <3>1, <3>2 DEF Schema!Before
    <2>3. QED
      BY <1>1, <2>1, <2>2 DEF Ahead
  <1>8. Ahead(p, where) = {m \in M : P(m) < b}
    <2>1. where \in M
      BY DEF M
    <2>2. QED
      BY <1>4, <2>1 DEF Ahead, M
  <1>9. \A m \in M : m # what => (Slid(a, b, P(m)) < b <=> IF a < b THEN P(m) <= b ELSE P(m) < b)
    BY <1>2, <1>3, SlidOrder
  <1>10. Cardinality(Ahead(q, what)) = Cardinality(Ahead(p, where))
    <2> DEFINE A == Ahead(p, where)
    <2>1. what \in M /\ where \in M
      BY DEF M
    <2>2. IsFiniteSet(A) /\ Cardinality(A) \in Nat
      BY PlaceType
    <2>3. CASE a < b
      <3>1. what \in A /\ where \notin A \ {what}
        BY <1>2, <1>8, <2>1, <2>3
      <3>2. Ahead(q, what) = (A \ {what}) \cup {where}
        <4>1. \A m \in M : P(m) <= b <=> P(m) < b \/ m = where
          BY <1>2, <1>3, <1>5, <2>1
        <4>2. QED
          BY <1>7, <1>8, <1>9, <2>1, <2>3, <4>1
      <3>3. IsFiniteSet(A \ {what}) /\ Cardinality(A \ {what}) = Cardinality(A) - 1
        BY <2>2, <3>1, FS_RemoveElement
      <3>4. Cardinality((A \ {what}) \cup {where}) = Cardinality(A \ {what}) + 1
        BY <3>1, <3>3, FS_AddElement
      <3>5. QED
        BY <2>2, <3>2, <3>3, <3>4
    <2>4. CASE ~(a < b)
      <3>1. what \notin A
        BY <1>2, <1>8, <2>4
      <3>2. Ahead(q, what) = A
        BY <1>7, <1>8, <1>9, <2>4, <3>1
      <3>3. QED
        BY <3>2
    <2>5. QED
      BY <2>3, <2>4
  <1>11. Schema!Place(q, what) = Schema!Place(p, where)
    BY <1>10, PlaceIs
  <1>12. QED
    BY <1>1, <1>6, <1>11 DEF M

LEMMA NextOrderAbove ==
    ASSUME NEW p \in Tables
    PROVE  /\ Schema!NextOrder(p) \in Nat
           /\ \A n \in DOMAIN p : p[n].order < 9000 => p[n].order < Schema!NextOrder(p)
  <1> DEFINE orders == {p[n].order : n \in DOMAIN p}
             used == orders \cap 1..8999
  <1>1. \A n \in DOMAIN p : p[n].order \in Nat /\ p[n].order \in orders
    BY TableTypes
  <1> HIDE DEF orders
  <1>2. \A n \in DOMAIN p : p[n].order < 9000 => p[n].order = 0 \/ p[n].order \in used
    <2>1. \A o \in Nat : o \in orders /\ o < 9000 => o = 0 \/ o \in used
      OBVIOUS
    <2> HIDE DEF used
    <2>2. QED
      BY <1>1, <2>1
  <1>3. used \subseteq Nat /\ \A o \in used : o <= 8999
    <2>1. used \subseteq 1..8999
      OBVIOUS
    <2> HIDE DEF used
    <2>2. ASSUME NEW o \in used PROVE o \in Nat /\ o <= 8999
      <3>1. o \in 1..8999
        BY <2>1
      <3>2. QED
        BY <3>1
    <2>3. QED
      BY <2>2
  <1>4. Schema!NextOrder(p) =
          IF used = {} THEN 1 ELSE (CHOOSE o \in used : \A x \in used : x <= o) + 1
    BY DEF Schema!NextOrder, orders
  <1> HIDE DEF used
  <1>5. CASE used = {}
    BY <1>1, <1>2, <1>4, <1>5
  <1>6. CASE used # {}
    <2> DEFINE left == {9000 - o : o \in used}
    <2>1. left \in SUBSET Nat /\ left # {}
      <3>1. \A o \in used : 9000 - o \in Nat
        BY <1>3
      <3>2. QED
        BY <1>6, <3>1
    <2> HIDE DEF left
    <2>2. PICK l \in left : \A r \in left : l <= r
      BY <2>1, LeastNumber
    <2>3. \E o \in used : \A x \in used : x <= o
      <3>1. PICK o \in used : l = 9000 - o
        BY <2>2 DEF left
      <3>2. \A x \in used : 9000 - o <= 9000 - x
        BY <2>2, <3>1 DEF left
      <3>3. QED
        BY <1>3, <3>2
    <2> DEFINE top == CHOOSE o \in used : \A x \in used : x <= o
    <2>4. top \in used /\ \A x \in used : x <= top
      BY <2>3
    <2>5. Schema!NextOrder(p) = top + 1
      BY <1>4, <1>6
    <2> HIDE DEF top
    <2>6. QED
      BY <1>1, <1>2, <1>3, <2>4, <2>5
  <1>7. QED
    BY <1>5, <1>6

LEMMA WithoutTable == ASSUME NEW p \in Tables, NEW N PROVE Schema!Without(p, N) \in Tables
  <1>1. Schema!Without(p, N) \in [DOMAIN p \ N -> Schema!Property]
    BY TableTypes DEF Schema!Without
  <1>2. DOMAIN p \ N \in SUBSET Properties
    BY TableTypes
  <1>3. QED
    BY <1>1, <1>2, TableMade

LEMMA SavedTable ==
    ASSUME NEW p \in Tables, NEW editing \in Properties \cup {None}, NEW name \in Properties
    PROVE  Schema!Saved(p, editing, name) \in Tables
  <1> DEFINE rest == IF editing = name THEN p ELSE Schema!Without(p, {editing})
             row == [order |-> Schema!Order(p, editing), system |-> FALSE]
  <1>1. rest \in Tables
    BY WithoutTable
  <1>2. row \in Schema!Property
    <2>1. Schema!Order(p, editing) \in Nat
      BY NextOrderAbove, TableTypes DEF Schema!Order
    <2>2. QED
      BY <2>1 DEF Schema!Property
  <1>3. Schema!Saved(p, editing, name) =
          [n \in DOMAIN rest \cup {name} |-> IF n = name THEN row ELSE rest[n]]
    BY DEF Schema!Saved
  <1> HIDE DEF rest, row
  <1>4. Schema!Saved(p, editing, name) \in [DOMAIN rest \cup {name} -> Schema!Property]
    BY <1>1, <1>2, <1>3, TableTypes
  <1>5. DOMAIN rest \cup {name} \in SUBSET Properties
    BY <1>1, TableTypes
  <1>6. QED
    BY <1>4, <1>5, TableMade

\* A new property stands last of the rows that can be moved.
LEMMA SavedLast ==
    ASSUME NEW p \in Tables, NEW name \in Properties, NEW q,
           q = Schema!Saved(p, None, name)
    PROVE  \A n \in Schema!Moveable(q) \ {name} :
              q[n].order < 9000 => Schema!Before(q, n, name)
  <1>1. None \notin Properties
    BY DashboardAssumption DEF Schema!PropertiesAssumption
  <1>2. Schema!Without(p, {None}) = p
    <2>1. DOMAIN p \ {None} = DOMAIN p
      BY <1>1, TableTypes
    <2>2. QED
      BY <2>1, TableTypes DEF Schema!Without
  <1>3. q = [n \in DOMAIN p \cup {name} |->
               IF n = name THEN [order |-> Schema!NextOrder(p), system |-> FALSE] ELSE p[n]]
    BY <1>1, <1>2 DEF Schema!Saved, Schema!Order
  <1>4. q[name].order = Schema!NextOrder(p)
    BY <1>3
  <1>5. \A n \in Schema!Moveable(q) \ {name} : n \in DOMAIN p /\ q[n] = p[n]
    BY <1>3 DEF Schema!Moveable
  <1>6. QED
    BY <1>4, <1>5, NextOrderAbove DEF Schema!Before

---------------------------------------------------------------------------
(* The page *)

PropertiesState == [known : Tables, editing : Properties \cup {None},
                    name : Properties \cup {None}, open : BOOLEAN,
                    dragged : Properties \cup {None}, stale : BOOLEAN,
                    updates : 0..MaxUpdates]
PropertiesTask ==
    {t \in [op : {"save", "delete", "drop"}, what : Properties \cup {None},
            where : Properties \cup {None}, from : Tables, sent : Tables,
            at : {"update"}, status : {"sent", "ok", "failed"}, data : {None}] :
       /\ t.op = "drop" =>
            /\ {t.what, t.where} \subseteq Schema!Moveable(t.from) /\ t.what # t.where
            /\ t.sent = Schema!Reordered(t.from, t.what, t.where)
       /\ t.op = "save" =>
            t.what \in Properties /\ t.sent = Schema!Saved(t.from, t.where, t.what)}
PropertiesServer == [properties : Tables]

\* One change at a time: once it is answered, what was sent is what the server has.
PropertiesFresh ==
    /\ \A r, s \in Busy(Slots) : r = s
    /\ Busy(Slots) = {} => ui.known = server.properties
    /\ \A s \in Busy(Slots) : tasks[s].status = "ok" => tasks[s].sent = server.properties

PropertiesInv ==
    /\ ui \in PropertiesState /\ Handles(Slots, PropertiesTask)
    /\ server \in PropertiesServer
    /\ ~ui.stale => PropertiesFresh

OnProperties == shown = "properties" => PropertiesInv

USE DEF Schema!T!Idle, Schema!T!Running, Schema!T!CanRun, Schema!T!Run, Schema!T!Set,
        Schema!T!End, Schema!T!Quiet, Schema!T!Waits, Schema!T!Back, Schema!T!Ok,
        Schema!T!Reply, Schema!T!Fail

LEMMA PropertiesMounts == Mounts("properties") => PropertiesInv'
  <1> SUFFICES ASSUME Mounts("properties") PROVE PropertiesInv'
    OBVIOUS
  <1>1. PICK st \in Schema!Starts : ui' = st[1] /\ tasks' = st[2] /\ server' = st[3]
    BY DEF Mounts, Starts
  <1>2. PICK p \in Schemas :
           \/ st = <<Schema!First(p, FALSE), Schema!T!AllIdle, [properties |-> p]>>
           \/ st = <<Schema!First(Sample, TRUE), Schema!T!AllIdle, [properties |-> p]>>
    BY <1>1 DEF Schema!Starts
  <1>3. p \in Tables /\ Sample \in Tables /\ MaxUpdates \in Nat
    BY TablesAre, DashboardAssumption DEF Schema!PropertiesAssumption
  <1>4. /\ tasks' = [s \in Slots |-> Idle] /\ server' = [properties |-> p]
        /\ ui' = Schema!First(p, FALSE) \/ ui' = Schema!First(Sample, TRUE)
    <2>1. CASE st = <<Schema!First(p, FALSE), Schema!T!AllIdle, [properties |-> p]>>
      BY <1>1, <2>1 DEF Schema!T!AllIdle, Idle
    <2>2. CASE st = <<Schema!First(Sample, TRUE), Schema!T!AllIdle, [properties |-> p]>>
      BY <1>1, <2>2 DEF Schema!T!AllIdle, Idle
    <2>3. QED
      BY <1>2, <2>1, <2>2
  <1>5. /\ ui' \in PropertiesState /\ (~ui'.stale => ui'.known = p)
    <2>1. /\ Schema!First(p, FALSE) \in PropertiesState /\ Schema!First(p, FALSE).known = p
          /\ Schema!First(Sample, TRUE) \in PropertiesState /\ Schema!First(Sample, TRUE).stale
      BY <1>3 DEF Schema!First, PropertiesState
    <2>2. QED
      BY <1>4, <2>1
  <1>6. Handles(Slots, PropertiesTask)' /\ Busy(Slots)' = {}
    BY <1>4 DEF Handles, Table, Busy
  <1>7. server' \in PropertiesServer /\ server'.properties = p
    BY <1>3, <1>4 DEF PropertiesServer
  <1>8. QED
    BY <1>5, <1>6, <1>7 DEF PropertiesInv, PropertiesFresh

\* A change is sent.
LEMMA PropertiesRun ==
    ASSUME PropertiesInv, NEW t \in PropertiesTask, t.status = "sent", Schema!Sends(t)
    PROVE  PropertiesInv'
  <1>1. t # Idle
    BY DEF PropertiesTask, Idle
  <1>2. /\ Busy(Slots) # Slots /\ tasks' = [tasks EXCEPT ![Least(Slots \ Busy(Slots))] = t]
        /\ ui' = [ui EXCEPT !.stale = Busy(Slots) # {}, !.dragged = None,
                            !.updates = ui.updates + 1]
        /\ ui.updates < MaxUpdates /\ UNCHANGED server
    BY DEF Schema!Sends, Least, Busy, Idle
  <1>3. PICK n \in Slots \ Busy(Slots) : Puts(Slots, n, t) /\ Handles(Slots, PropertiesTask)'
    BY <1>2, RunHandles, DashboardAssumption DEF PropertiesInv
  <1>4. n \in Slots /\ tasks'[n].status = "sent"
    BY <1>3 DEF Busy, Puts
  <1>5. Busy(Slots)' = Busy(Slots) \cup {n}
    BY <1>1, <1>3, <1>4, BusyPuts
  <1>6. ui' \in PropertiesState /\ ui'.stale = (Busy(Slots) # {})
    <2>1. ui \in PropertiesState
      BY DEF PropertiesInv
    <2>2. ui.updates + 1 \in 0..MaxUpdates
      BY <1>2, <2>1, DashboardAssumption DEF PropertiesState, Schema!PropertiesAssumption
    <2>3. QED
      BY <1>2, <2>1, <2>2 DEF PropertiesState
  <1>7. ~ui'.stale => PropertiesFresh'
    BY <1>4, <1>5, <1>6 DEF PropertiesFresh
  <1>8. QED
    BY <1>2, <1>3, <1>6, <1>7 DEF PropertiesInv

LEMMA PropertiesServe ==
    ASSUME PropertiesInv, NEW s \in Slots, Schema!Serve(s) PROVE PropertiesInv'
  <1> DEFINE t == tasks[s]
  <1>1. t \in PropertiesTask /\ t # Idle /\ t.sent \in Tables /\ UNCHANGED ui
    BY DEF Schema!Serve, PropertiesInv, Handles, Idle, PropertiesTask
  <1>2. PICK st \in {"ok", "failed"} :
           /\ tasks' = [tasks EXCEPT ![s] = [t EXCEPT !.status = st, !.data = None]]
           /\ server' \in {server, [properties |-> t.sent]}
           /\ st = "ok" => server' = [properties |-> t.sent]
    <2>1. [t EXCEPT !.status = "failed"] = [t EXCEPT !.status = "failed", !.data = None]
      BY <1>1 DEF PropertiesTask
    <2>2. QED
      BY <2>1 DEF Schema!Serve
  <1> DEFINE v == [t EXCEPT !.status = st, !.data = None]
  <1>3. v \in PropertiesTask /\ v # Idle /\ v.status = st /\ v.sent = t.sent
    BY <1>1 DEF PropertiesTask, Idle
  <1> HIDE DEF v
  <1>4. Puts(Slots, s, v) /\ Handles(Slots, PropertiesTask)'
    BY <1>2, <1>3, SetHandles DEF PropertiesInv, v
  <1>5. s \in Busy(Slots) /\ Busy(Slots)' = Busy(Slots)
    BY <1>1, <1>3, <1>4 DEF Busy, Puts
  <1>6. server' \in PropertiesServer
    BY <1>1, <1>2 DEF PropertiesInv, PropertiesServer
  <1>7. ASSUME PropertiesFresh PROVE PropertiesFresh'
    <2>1. tasks'[s] = v /\ (v.status = "ok" => v.sent = server'.properties)
      BY <1>2, <1>3, <1>4 DEF Puts
    <2>2. QED
      BY <1>5, <1>7, <2>1 DEF PropertiesFresh
  <1>8. QED
    BY <1>1, <1>4, <1>6, <1>7 DEF PropertiesInv

LEMMA PropertiesAfter ==
    ASSUME PropertiesInv, NEW s \in Slots, Schema!AfterUpdate(s) PROVE PropertiesInv'
  <1> DEFINE t == tasks[s]
  <1>1. t \in PropertiesTask /\ t # Idle /\ t.sent \in Tables /\ UNCHANGED server
    BY DEF Schema!AfterUpdate, PropertiesInv, Handles, Idle, PropertiesTask
  <1>2. Puts(Slots, s, Idle) /\ Handles(Slots, PropertiesTask)'
    BY SetHandles DEF Schema!AfterUpdate, PropertiesInv, Idle
  <1>3. Busy(Slots)' = Busy(Slots) \ {s} /\ s \in Busy(Slots)
    BY <1>1, <1>2, BusyPuts DEF Busy
  <1>4. /\ ui' \in PropertiesState
        /\ ui'.stale = (ui.stale \/ t.status # "ok")
        /\ t.status = "ok" => ui'.known = t.sent
    <2> DEFINE closed == IF t.op = "save" /\ t.status = "ok" THEN Schema!Closed(ui) ELSE ui
    <2>1. closed \in PropertiesState /\ closed.stale = ui.stale /\ closed.known = ui.known
      BY DEF PropertiesInv, PropertiesState, Schema!Closed
    <2>2. ui' = [closed EXCEPT !.dragged = IF t.op = "drop" THEN None ELSE @,
                               !.stale = @ \/ ~(t.status = "ok"),
                               !.known = IF t.status = "ok" THEN t.sent ELSE ui.known]
      <3>1. ui' = [Schema!Ended(ui, t.op, t.status = "ok") EXCEPT
                     !.known = IF t.status = "ok" THEN t.sent ELSE @]
        BY DEF Schema!AfterUpdate
      <3>2. Schema!Ended(ui, t.op, t.status = "ok") =
              [closed EXCEPT !.dragged = IF t.op = "drop" THEN None ELSE @,
                             !.stale = @ \/ ~(t.status = "ok")]
        BY DEF Schema!Ended
      <3> HIDE DEF closed
      <3>3. QED
        BY <2>1, <3>1, <3>2 DEF PropertiesState
    <2> HIDE DEF closed, t
    <2>3. ui.known \in Tables
      BY DEF PropertiesInv, PropertiesState
    <2>4. QED
      BY <1>1, <2>1, <2>2, <2>3 DEF PropertiesState
  <1>5. ASSUME ~ui'.stale PROVE PropertiesFresh'
    <2>1. PropertiesFresh /\ t.status = "ok" /\ ui'.known = t.sent
      BY <1>4, <1>5 DEF PropertiesInv, PropertiesState
    <2>2. t.sent = server.properties /\ Busy(Slots)' = {}
      BY <1>3, <2>1 DEF PropertiesFresh
    <2>3. QED
      BY <1>1, <2>1, <2>2 DEF PropertiesFresh
  <1>6. QED
    BY <1>1, <1>2, <1>4, <1>5 DEF PropertiesInv

LEMMA PropertiesSteps == PropertiesInv /\ Acts("properties") => PropertiesInv'
  <1> SUFFICES ASSUME PropertiesInv, Acts("properties") PROVE PropertiesInv'
    OBVIOUS
  <1>1. ui \in PropertiesState /\ ui.known \in Tables
    BY DEF PropertiesInv, PropertiesState
  <1>2. Schema!Moveable(ui.known) \subseteq Properties
    BY <1>1, TableTypes
  <1>3. ASSUME UNCHANGED <<tasks, server>>, ui' \in PropertiesState,
               ui'.stale = ui.stale, ui'.known = ui.known
        PROVE  PropertiesInv'
    BY <1>3 DEF PropertiesInv, PropertiesFresh, Handles, Table, Busy
  <1>4. CASE Schema!AddProperty \/ Schema!CloseDialog \/ Schema!DragEnd
    BY <1>1, <1>3, <1>4 DEF Schema!AddProperty, Schema!CloseDialog, Schema!DragEnd,
       Schema!Closed, PropertiesState
  <1>5. ASSUME NEW n \in Properties,
               Schema!EditProperty(n) \/ Schema!TypeName(n) \/ Schema!DragStart(n)
        PROVE  PropertiesInv'
    BY <1>1, <1>3, <1>5 DEF Schema!EditProperty, Schema!TypeName, Schema!DragStart,
       PropertiesState
  <1>6. CASE Schema!SaveProperty
    <2> DEFINE q == Schema!Saved(ui.known, ui.editing, ui.name)
               t == Schema!Task("save", ui.name, ui.editing, q)
    <2>1. ui.name \in Properties /\ ui.editing \in Properties \cup {None}
      BY <1>1, <1>6 DEF Schema!SaveProperty, PropertiesState
    <2>2. q \in Tables
      BY <1>1, <2>1, SavedTable
    <2> HIDE DEF q
    <2>3. t \in PropertiesTask /\ t.status = "sent"
      BY <1>1, <2>1, <2>2 DEF Schema!Task, PropertiesTask, q
    <2>4. Schema!Sends(t)
      BY <1>6 DEF Schema!SaveProperty, q
    <2> HIDE DEF t
    <2>5. QED
      BY <2>3, <2>4, PropertiesRun
  <1>7. ASSUME NEW n \in Properties, Schema!DeleteProperty(n) PROVE PropertiesInv'
    <2> DEFINE q == Schema!Without(ui.known, {n})
               t == Schema!Task("delete", n, None, q)
    <2>1. q \in Tables
      BY <1>1, WithoutTable
    <2> HIDE DEF q
    <2>2. t \in PropertiesTask /\ t.status = "sent"
      BY <1>1, <2>1 DEF Schema!Task, PropertiesTask
    <2>3. Schema!Sends(t)
      BY <1>7 DEF Schema!DeleteProperty, q
    <2> HIDE DEF t
    <2>4. QED
      BY <2>2, <2>3, PropertiesRun
  <1>8. ASSUME NEW n \in Properties, Schema!Drop(n) PROVE PropertiesInv'
    <2> DEFINE q == Schema!Reordered(ui.known, ui.dragged, n)
               t == Schema!Task("drop", ui.dragged, n, q)
    <2>1. /\ ui.dragged \in Schema!Moveable(ui.known) /\ n \in Schema!Moveable(ui.known)
          /\ ui.dragged # n
      BY <1>8 DEF Schema!Drop
    <2>2. q \in Tables
      BY <1>1, <2>1, ReorderedRows
    <2> HIDE DEF q
    <2>3. t \in PropertiesTask /\ t.status = "sent"
      BY <1>1, <1>2, <2>1, <2>2 DEF Schema!Task, PropertiesTask, q
    <2>4. Schema!Sends(t)
      BY <1>8 DEF Schema!Drop, q
    <2> HIDE DEF t
    <2>5. QED
      BY <2>3, <2>4, PropertiesRun
  <1>9. ASSUME NEW s \in Slots, Schema!Runs(s) PROVE PropertiesInv'
    BY <1>9, PropertiesServe, PropertiesAfter DEF Schema!Runs
  <1>10. QED
    BY <1>4, <1>5, <1>6, <1>7, <1>8, <1>9 DEF Acts, User, Others, Runs, Schema!User

LEMMA PropertiesHold == Spec => []OnProperties
  <1>1. Init => OnProperties
    BY DEF Init, OnProperties
  <1>2. PropertiesInv /\ UNCHANGED vars => PropertiesInv'
    BY DEF vars, PropertiesInv, PropertiesFresh, Handles, Table, Busy
  <1>3. OnProperties /\ [Next]_vars => OnProperties'
    BY <1>2, PageSteps, PropertiesMounts, PropertiesSteps DEF OnProperties, Acts, vars
  <1>4. QED
    BY <1>1, <1>3, PTL DEF Spec

(* Whatever orders, gaps and equal orders the properties had, however many   *)
(* there are: a row that is dropped takes the place its target had and the   *)
(* others keep their order around it, and a new property is the last of the  *)
(* rows that can be moved, those aside that took over one of the orders of   *)
(* the system, from 9000 (PropertiesEditor.jsx:156, 212).                    *)
THEOREM DropsAsArranged == Spec => []RowsAsArranged
  <1>1. OnProperties => RowsAsArranged
    <2> SUFFICES ASSUME PropertiesInv, shown = "properties" PROVE Schema!RowsAsArranged
      BY DEF OnProperties, RowsAsArranged
    <2> SUFFICES ASSUME NEW s \in Slots, tasks[s] # Idle
                 PROVE  LET t == tasks[s] IN
                        /\ t.op = "drop" =>
                             /\ DOMAIN t.sent = DOMAIN t.from
                             /\ Schema!Place(t.sent, t.what) = Schema!Place(t.from, t.where)
                             /\ \A m, n \in Schema!Moveable(t.from) \ {t.what} :
                                  Schema!Before(t.sent, m, n) = Schema!Before(t.from, m, n)
                        /\ t.op = "save" /\ t.where = None =>
                             \A n \in Schema!Moveable(t.sent) \ {t.what} :
                               t.sent[n].order < 9000 => Schema!Before(t.sent, n, t.what)
      BY DEF Schema!RowsAsArranged, Idle
    <2> DEFINE t == tasks[s]
    <2>1. t \in PropertiesTask /\ t.from \in Tables
      BY DEF PropertiesInv, Handles, PropertiesTask
    <2> HIDE DEF t
    <2>2. t.op = "drop" =>
            /\ t.what \in Schema!Moveable(t.from) /\ t.where \in Schema!Moveable(t.from)
            /\ t.what # t.where /\ t.sent = Schema!Reordered(t.from, t.what, t.where)
      BY <2>1 DEF PropertiesTask
    <2>3. t.op = "save" =>
            t.what \in Properties /\ t.sent = Schema!Saved(t.from, t.where, t.what)
      BY <2>1 DEF PropertiesTask
    <2>4. t.op = "drop" =>
            /\ DOMAIN t.sent = DOMAIN t.from
            /\ Schema!Place(t.sent, t.what) = Schema!Place(t.from, t.where)
            /\ \A m, n \in Schema!Moveable(t.from) \ {t.what} :
                 Schema!Before(t.sent, m, n) = Schema!Before(t.from, m, n)
      BY <2>1, <2>2, DropArranges
    <2>5. t.op = "save" /\ t.where = None =>
            \A n \in Schema!Moveable(t.sent) \ {t.what} :
              t.sent[n].order < 9000 => Schema!Before(t.sent, n, t.what)
      BY <2>1, <2>3, SavedLast
    <2>6. QED
      BY <2>4, <2>5 DEF t
  <1>2. QED
    BY <1>1, PropertiesHold, PTL

---------------------------------------------------------------------------
(* The event scripts *)

Texted == [Events -> Scripts!Script]
EventsState == [scripts : Texted, loading : BOOLEAN, saving : SUBSET Events,
                edited : SUBSET Events, unsure : SUBSET Events, updates : 0..MaxSaves]
EventsTask ==
    {t \in [op : {"load", "save"}, event : Events \cup {None}, saving : SUBSET Events,
            sent : Scripts!Script, at : {"request"}, status : {"sent", "ok", "failed"},
            data : Texted] : t.op = "save" => t.event \in Events}
EventsServer == [scripts : Texted]

Loads == Doing(Slots, {"load"})
SavesFor(e) == {s \in Slots : tasks[s] # Idle /\ tasks[s].op = "save" /\ tasks[s].event = e}

\* The same text, and the same type as far as it is shown.
Agree(a, b) == a.text = b.text /\ Scripts!TypeOf(a) = Scripts!TypeOf(b)

(* What is known of an event none of whose requests failed or overlapped. *)
ScriptFresh(e) ==
    /\ ui.loading => SavesFor(e) = {}
    /\ \A s \in Loads : tasks[s].status = "ok" => tasks[s].data[e] = server.scripts[e]
    /\ \A r, s \in SavesFor(e) : r = s
    /\ \A s \in SavesFor(e) :
         /\ e \notin ui.edited => Agree(ui.scripts[e], tasks[s].sent)
         /\ tasks[s].status = "ok" => server.scripts[e] = tasks[s].sent
    /\ e \notin ui.edited /\ ~ui.loading /\ SavesFor(e) = {} =>
         Agree(ui.scripts[e], server.scripts[e])

EventsInv ==
    /\ ui \in EventsState /\ Handles(Slots, EventsTask) /\ server \in EventsServer
    /\ OneIff(Loads, ui.loading)
    /\ \A e \in Events \ ui.unsure : ScriptFresh(e)

OnEvents == shown = "events" => EventsInv

USE DEF Scripts!T!Idle, Scripts!T!Running, Scripts!T!CanRun, Scripts!T!Run, Scripts!T!Set,
        Scripts!T!End, Scripts!T!Waits, Scripts!T!Back, Scripts!T!Ok, Scripts!T!Reply,
        Scripts!T!Fail, Scripts!T!Doing

LEMMA ScriptTypes ==
    /\ Scripts!Nothing \in Texted /\ Scripts!Missing \in Scripts!Script
    /\ \A type \in Scripts!Types : Template[type] \in Texts
    /\ \A a \in Scripts!Script : Scripts!TypeOf(a) \in Scripts!Types
    /\ MaxSaves \in Nat
  BY DashboardAssumption DEF Scripts!Nothing, Scripts!Missing, Scripts!Script, Texted,
     Scripts!EventsAssumption, Scripts!TypeOf, Scripts!Types

LEMMA EventsTaskType ==
    ASSUME NEW op \in {"load", "save"}, NEW e \in Events \cup {None}, NEW saving \in SUBSET Events,
           NEW sent \in Scripts!Script, op = "save" => e \in Events
    PROVE  LET t == Scripts!Task(op, e, saving, sent) IN
           /\ t \in EventsTask /\ t # Idle /\ t.op = op /\ t.event = e /\ t.sent = sent
           /\ t.status = "sent"
  BY ScriptTypes DEF Scripts!Task, EventsTask, Idle

\* The page counts the handlers that save an event, or load, as the lemmas do.
LEMMA CountedHandlers ==
    ASSUME Handles(Slots, EventsTask)
    PROVE  /\ Scripts!T!Doing("load") = Loads
           /\ \A e : Scripts!SavesOf(e) = SavesFor(e)
  <1>1. \A s \in Slots : tasks[s] = Idle => tasks[s].op = "none"
    BY DEF Idle
  <1>2. QED
    BY <1>1 DEF Handles, Loads, Doing, SavesFor, Scripts!SavesOf

LEMMA EventsMounts == Mounts("events") => EventsInv'
  <1> SUFFICES ASSUME Mounts("events") PROVE EventsInv'
    OBVIOUS
  <1>1. PICK st \in Scripts!Starts : ui' = st[1] /\ tasks' = st[2] /\ server' = st[3]
    BY DEF Mounts, Starts
  <1>2. PICK S \in SUBSET Events, text \in Texts :
          st = <<Scripts!First, [Scripts!T!AllIdle EXCEPT ![1] = Scripts!Load],
                 [scripts |-> [e \in Events |-> IF e \in S THEN [text |-> text, type |-> "js"]
                                                ELSE Scripts!Missing]]>>
    BY <1>1 DEF Scripts!Starts
  <1>3. /\ ui' = Scripts!First
        /\ tasks' = [s \in Slots |-> IF s = 1 THEN Scripts!Load ELSE Idle]
    BY <1>1, <1>2 DEF Scripts!T!AllIdle, Idle
  <1>4. server' \in EventsServer
    <2> DEFINE f == [e \in Events |-> IF e \in S THEN [text |-> text, type |-> "js"]
                                      ELSE Scripts!Missing]
    <2>1. [text |-> text, type |-> "js"] \in Scripts!Script
      BY DEF Scripts!Script, Scripts!Types
    <2>2. f \in Texted
      BY <2>1, ScriptTypes DEF Texted
    <2>3. server' = [scripts |-> f]
      BY <1>1, <1>2
    <2> HIDE DEF f
    <2>4. QED
      BY <2>2, <2>3 DEF EventsServer
  <1>5. ui' \in EventsState /\ ui'.loading
    BY <1>3, ScriptTypes DEF Scripts!First, EventsState
  <1>6. /\ Scripts!Load \in EventsTask /\ Scripts!Load # Idle /\ Scripts!Load.op = "load"
        /\ Scripts!Load.status = "sent"
    BY EventsTaskType, ScriptTypes DEF Scripts!Load
  <1>7. Handles(Slots, EventsTask)' /\ Loads' = {1} /\ \A e : SavesFor(e)' = {}
    BY <1>3, <1>6, DashboardAssumption DEF Handles, Table, Loads, Doing, SavesFor
  <1>8. ASSUME NEW e \in Events PROVE ScriptFresh(e)'
    <2>1. tasks'[1].status = "sent"
      BY <1>3, <1>6, DashboardAssumption
    <2>2. QED
      BY <1>5, <1>7, <2>1 DEF ScriptFresh
  <1>9. QED
    BY <1>4, <1>5, <1>7, <1>8 DEF EventsInv, OneIff

\* The user edits event e: what is known of the others stays.
LEMMA EventsEdit ==
    ASSUME EventsInv, UNCHANGED <<tasks, server>>, NEW e \in Events, ui' \in EventsState,
           ui'.loading = ui.loading, ui'.unsure = ui.unsure,
           ui'.edited = ui.edited \cup {e},
           \A d \in Events \ {e} : ui'.scripts[d] = ui.scripts[d]
    PROVE  EventsInv'
  <1>1. Handles(Slots, EventsTask)' /\ Loads' = Loads /\ \A d : SavesFor(d)' = SavesFor(d)
    BY DEF EventsInv, Handles, Table, Loads, Doing, SavesFor
  <1>2. ASSUME NEW d \in Events, ScriptFresh(d) PROVE ScriptFresh(d)'
    BY <1>1, <1>2 DEF ScriptFresh
  <1>3. QED
    BY <1>1, <1>2 DEF EventsInv, OneIff

LEMMA EventsReload == ASSUME EventsInv, Scripts!Reload PROVE EventsInv'
  <1>1. /\ Busy(Slots) # Slots
        /\ tasks' = [tasks EXCEPT ![Least(Slots \ Busy(Slots))] = Scripts!Load]
    BY DEF Scripts!Reload, Least, Busy, Idle
  <1>2. /\ Scripts!Load \in EventsTask /\ Scripts!Load # Idle /\ Scripts!Load.op = "load"
        /\ Scripts!Load.status = "sent"
    BY EventsTaskType, ScriptTypes DEF Scripts!Load
  <1>3. PICK n \in Slots \ Busy(Slots) :
           Puts(Slots, n, Scripts!Load) /\ Handles(Slots, EventsTask)'
    BY <1>1, <1>2, RunHandles, DashboardAssumption DEF EventsInv
  <1>4. n \in Slots /\ tasks'[n] = Scripts!Load
    BY <1>3 DEF Busy, Puts
  <1>5. Loads' = {n}
    <2>1. Loads = {}
      BY DEF EventsInv, OneIff, Scripts!Reload, Scripts!PageIsUsed
    <2>2. QED
      BY <1>2, <1>3, <1>4, <2>1, DoingPuts DEF Loads
  <1>6. \A e : SavesFor(e)' = SavesFor(e)
    BY <1>2, <1>3, <1>4 DEF SavesFor, Puts, Busy
  <1>7. /\ ui' \in EventsState /\ ui'.loading
        /\ \A e \in Events \ ui'.unsure : SavesFor(e) = {}
    <2> DEFINE S == {e \in Events : SavesFor(e) # {}}
    <2>1. /\ ui' = [ui EXCEPT !.loading = TRUE, !.updates = ui.updates + 1, !.edited = {},
                              !.unsure = S]
          /\ ui.updates < MaxSaves
      BY CountedHandlers DEF Scripts!Reload, EventsInv
    <2>2. ui \in EventsState
      BY DEF EventsInv
    <2>3. ui.updates + 1 \in 0..MaxSaves
      BY <2>1, <2>2, ScriptTypes DEF EventsState
    <2>4. \A e \in Events \ S : SavesFor(e) = {}
      OBVIOUS
    <2>5. S \in SUBSET Events
      OBVIOUS
    <2> HIDE DEF S
    <2>6. QED
      BY <2>1, <2>2, <2>3, <2>4, <2>5 DEF EventsState
  <1>8. ASSUME NEW e \in Events \ ui'.unsure PROVE ScriptFresh(e)'
    BY <1>2, <1>4, <1>5, <1>6, <1>7 DEF ScriptFresh
  <1>9. QED
    BY <1>3, <1>5, <1>7, <1>8 DEF EventsInv, OneIff, Scripts!Reload

LEMMA EventsSave ==
    ASSUME EventsInv, NEW e \in Events, Scripts!SaveEvent(e) PROVE EventsInv'
  <1> DEFINE sent == [text |-> ui.scripts[e].text, type |-> Scripts!TypeOf(ui.scripts[e])]
             t == Scripts!Task("save", e, ui.saving, sent)
  <1>1. ui \in EventsState /\ ui.scripts[e] \in Scripts!Script /\ ui.saving \in SUBSET Events
    BY DEF EventsInv, EventsState, Texted
  <1>2. sent \in Scripts!Script /\ Agree(ui.scripts[e], sent)
    <2>1. Scripts!TypeOf(ui.scripts[e]) \in Scripts!Types
      BY <1>1, ScriptTypes
    <2>2. QED
      BY <1>1, <2>1 DEF Scripts!Script, Agree, Scripts!TypeOf
  <1> HIDE DEF sent
  <1>3. /\ t \in EventsTask /\ t # Idle /\ t.op = "save" /\ t.event = e /\ t.sent = sent
        /\ t.status = "sent"
    BY <1>1, <1>2, EventsTaskType
  <1>4. Busy(Slots) # Slots /\ tasks' = [tasks EXCEPT ![Least(Slots \ Busy(Slots))] = t]
    BY DEF Scripts!SaveEvent, Least, Busy, Idle, sent
  <1> HIDE DEF t
  <1>5. PICK n \in Slots \ Busy(Slots) : Puts(Slots, n, t) /\ Handles(Slots, EventsTask)'
    BY <1>3, <1>4, RunHandles, DashboardAssumption DEF EventsInv
  <1>6. n \in Slots /\ tasks'[n] = t /\ n \notin Busy(Slots)
    BY <1>5 DEF Busy, Puts
  <1>7. Loads = {} /\ Loads' = {}
    <2>1. Loads = {}
      BY DEF EventsInv, OneIff, Scripts!SaveEvent, Scripts!PageIsUsed
    <2>2. ~(t # Idle /\ t.op \in {"load"})
      BY <1>3
    <2>3. Loads' = Loads \ {n}
      <3>1. Puts(Slots, n, t) /\ n \in Slots
        BY <1>5, <1>6
      <3>2. \A s : s \in Loads' <=> s \in Loads /\ s # n
        BY <2>2, <3>1 DEF Loads, Puts, Doing
      <3>3. QED
        BY <3>2
    <2>4. QED
      BY <2>1, <2>3
  <1>8. SavesFor(e)' = SavesFor(e) \cup {n}
    BY <1>3, <1>5, <1>6 DEF SavesFor, Puts
  <1>9. \A d : d # e => SavesFor(d)' = SavesFor(d)
    BY <1>3, <1>5, <1>6 DEF SavesFor, Puts, Busy
  <1>10. /\ ui' \in EventsState /\ ~ui.loading /\ ~ui'.loading /\ ui'.scripts = ui.scripts
         /\ ui'.edited = ui.edited \ {e}
         /\ ui'.unsure = IF SavesFor(e) # {} THEN ui.unsure \cup {e} ELSE ui.unsure \ {e}
    <2>1. /\ ui' = [ui EXCEPT !.saving = ui.saving \cup {e}, !.updates = ui.updates + 1,
                      !.edited = ui.edited \ {e},
                      !.unsure = IF SavesFor(e) # {} THEN ui.unsure \cup {e}
                                 ELSE ui.unsure \ {e}]
          /\ ui.updates < MaxSaves /\ ~ui.loading
      <3>1. Scripts!SavesOf(e) = SavesFor(e) /\ Scripts!T!Doing("load") = {}
        BY <1>7, CountedHandlers DEF EventsInv
      <3>2. QED
        BY <3>1 DEF Scripts!SaveEvent, Scripts!PageIsUsed
    <2>2. ui.updates + 1 \in 0..MaxSaves
      BY <1>1, <2>1, ScriptTypes DEF EventsState
    <2>3. QED
      BY <1>1, <2>1, <2>2 DEF EventsState
  <1>11. ASSUME NEW d \in Events \ ui'.unsure PROVE ScriptFresh(d)'
    <2>1. CASE d = e
      <3>1. SavesFor(e)' = {n}
        BY <1>8, <1>10, <1>11, <2>1
      <3>2. QED
        BY <1>2, <1>3, <1>6, <1>7, <1>10, <2>1, <3>1 DEF ScriptFresh
    <2>2. CASE d # e
      <3>1. ScriptFresh(d) /\ SavesFor(d)' = SavesFor(d)
        BY <1>9, <1>10, <1>11, <2>2 DEF EventsInv
      <3>2. \A s \in SavesFor(d) : tasks'[s] = tasks[s]
        BY <1>5, <1>6 DEF SavesFor, Puts, Busy
      <3>3. UNCHANGED server
        BY DEF Scripts!SaveEvent
      <3>4. QED
        BY <1>7, <1>10, <2>2, <3>1, <3>2, <3>3 DEF ScriptFresh
    <2>3. QED
      BY <2>1, <2>2
  <1>12. QED
    BY <1>5, <1>7, <1>10, <1>11 DEF EventsInv, OneIff, Scripts!SaveEvent

LEMMA EventsServe ==
    ASSUME EventsInv, NEW s \in Slots, Scripts!Serve(s) PROVE EventsInv'
  <1> DEFINE t == tasks[s]
  <1>1. /\ t \in EventsTask /\ t # Idle /\ t.sent \in Scripts!Script /\ UNCHANGED ui
        /\ server.scripts \in Texted
        /\ t.op = "save" => t.event \in Events
    BY DEF Scripts!Serve, EventsInv, Handles, Idle, EventsTask, EventsServer
  <1>2. PICK st \in {"ok", "failed"}, d \in Texted :
           /\ tasks' = [tasks EXCEPT ![s] = [t EXCEPT !.status = st, !.data = d]]
           /\ t.op = "load" => UNCHANGED server /\ (st = "ok" => d = server.scripts)
           /\ t.op = "save" =>
                /\ server' \in {server, Scripts!Removed(t), Scripts!Stored(t)}
                /\ st = "ok" => server' = Scripts!Stored(t)
    <2>1. t.data \in Texted /\ Scripts!Nothing \in Texted /\ t.op \in {"load", "save"}
      BY <1>1, ScriptTypes DEF EventsTask
    <2>2. [t EXCEPT !.status = "failed"] = [t EXCEPT !.status = "failed", !.data = t.data]
      BY <1>1 DEF EventsTask
    <2>3. CASE t.op = "load"
      <3>1. UNCHANGED server /\ (Scripts!T!Reply(s, server.scripts) \/ Scripts!T!Fail(s))
        BY <2>3 DEF Scripts!Serve
      <3>2. CASE Scripts!T!Reply(s, server.scripts)
        BY <1>1, <2>3, <3>1, <3>2
      <3>3. CASE Scripts!T!Fail(s)
        BY <2>1, <2>2, <2>3, <3>1, <3>3
      <3>4. QED
        BY <3>1, <3>2, <3>3
    <2>4. CASE t.op = "save"
      <3>1. \/ server' = Scripts!Stored(t) /\ Scripts!T!Reply(s, Scripts!Nothing)
            \/ /\ server' \in {server, Scripts!Removed(t), Scripts!Stored(t)}
               /\ Scripts!T!Fail(s)
        BY <2>4 DEF Scripts!Serve
      <3>2. CASE server' = Scripts!Stored(t) /\ Scripts!T!Reply(s, Scripts!Nothing)
        BY <2>1, <2>4, <3>2
      <3>3. CASE /\ server' \in {server, Scripts!Removed(t), Scripts!Stored(t)}
                 /\ Scripts!T!Fail(s)
        BY <2>1, <2>2, <2>4, <3>3
      <3>4. QED
        BY <3>1, <3>2, <3>3
    <2>5. QED
      BY <2>1, <2>3, <2>4
  <1> DEFINE v == [t EXCEPT !.status = st, !.data = d]
  <1>3. /\ v \in EventsTask /\ v # Idle /\ v.status = st /\ v.data = d /\ v.op = t.op
        /\ v.event = t.event /\ v.sent = t.sent
    BY <1>1 DEF EventsTask, Idle
  <1> HIDE DEF v
  <1>4. Puts(Slots, s, v) /\ Handles(Slots, EventsTask)'
    BY <1>2, <1>3, SetHandles DEF EventsInv, v
  <1>5. Loads' = Loads /\ \A e : SavesFor(e)' = SavesFor(e)
    BY <1>1, <1>3, <1>4 DEF Loads, Doing, SavesFor, Puts
  <1>6. /\ server' \in EventsServer
        /\ \A e \in Events : t.op = "load" \/ e # t.event => server'.scripts[e] = server.scripts[e]
        /\ t.op = "save" /\ st = "ok" => server'.scripts[t.event] = t.sent
    <2>1. CASE t.op = "load"
      BY <1>2, <2>1 DEF EventsInv
    <2>2. CASE t.op = "save"
      <3>1. \A w \in Scripts!Script :
              LET f == [server.scripts EXCEPT ![t.event] = w] IN
              /\ f \in Texted /\ f[t.event] = w
              /\ \A e \in Events \ {t.event} : f[e] = server.scripts[e]
        BY <1>1, <2>2 DEF Texted
      <3> DEFINE F(w) == [server.scripts EXCEPT ![t.event] = w]
      <3>2. /\ Scripts!Stored(t) = [scripts |-> F(t.sent)]
            /\ Scripts!Removed(t) = [scripts |-> F(Scripts!Missing)]
        BY DEF Scripts!Stored, Scripts!Removed
      <3>3. /\ F(t.sent) \in Texted /\ F(t.sent)[t.event] = t.sent
            /\ F(Scripts!Missing) \in Texted
            /\ \A e \in Events \ {t.event} :
                 /\ F(t.sent)[e] = server.scripts[e]
                 /\ F(Scripts!Missing)[e] = server.scripts[e]
        BY <1>1, <3>1, ScriptTypes
      <3> HIDE DEF F
      <3>4. server \in EventsServer
        BY DEF EventsInv
      <3>5. QED
        BY <1>2, <2>2, <3>2, <3>3, <3>4 DEF EventsServer
    <2>3. QED
      BY <1>1, <2>1, <2>2 DEF EventsTask
  <1>7. ASSUME NEW e \in Events, ScriptFresh(e) PROVE ScriptFresh(e)'
    <2>1. tasks'[s] = v /\ \A r \in Slots \ {s} : tasks'[r] = tasks[r]
      BY <1>4 DEF Puts
    <2>2. CASE t.op = "load"
      <3>1. s \in Loads /\ s \notin SavesFor(e)
        BY <1>1, <2>2 DEF Loads, Doing, SavesFor
      <3>2. \A r \in SavesFor(e) : tasks'[r] = tasks[r]
        BY <2>1, <3>1 DEF SavesFor
      <3>3. v.status = "ok" => v.data[e] = server.scripts[e]
        BY <1>2, <1>3, <2>2
      <3>4. \A r \in Loads : r = s \/ tasks'[r] = tasks[r]
        BY <2>1 DEF Loads, Doing
      <3>5. QED
        BY <1>1, <1>2, <1>5, <1>7, <2>1, <2>2, <3>2, <3>3, <3>4 DEF ScriptFresh
    <2>3. CASE t.op = "save" /\ t.event # e
      <3>1. s \notin Loads /\ s \notin SavesFor(e)
        BY <2>3 DEF Loads, Doing, SavesFor
      <3>2. \A r \in SavesFor(e) \cup Loads : tasks'[r] = tasks[r]
        BY <2>1, <3>1 DEF SavesFor, Loads, Doing
      <3>3. server'.scripts[e] = server.scripts[e]
        BY <1>6, <2>3
      <3>4. QED
        BY <1>1, <1>5, <1>7, <3>2, <3>3 DEF ScriptFresh
    <2>4. CASE t.op = "save" /\ t.event = e
      <3>1. s \in SavesFor(e)
        BY <1>1, <2>4 DEF SavesFor
      <3>2. ~ui.loading /\ Loads = {}
        BY <1>7, <3>1 DEF ScriptFresh, EventsInv, OneIff
      <3>3. v.sent = t.sent /\ (v.status = "ok" => server'.scripts[e] = v.sent)
        BY <1>3, <1>6, <2>4
      <3>4. \A r \in SavesFor(e) : r = s
        BY <1>7, <3>1 DEF ScriptFresh
      <3>5. QED
        BY <1>1, <1>5, <1>7, <2>1, <3>1, <3>2, <3>3, <3>4 DEF ScriptFresh
    <2>5. QED
      BY <1>1, <2>2, <2>3, <2>4 DEF EventsTask
  <1>8. QED
    BY <1>1, <1>4, <1>5, <1>6, <1>7 DEF EventsInv, OneIff

LEMMA EventsAfterLoad ==
    ASSUME EventsInv, NEW s \in Slots, Scripts!AfterLoad(s) PROVE EventsInv'
  <1> DEFINE t == tasks[s]
  <1>1. /\ t \in EventsTask /\ t # Idle /\ t.op = "load" /\ t.data \in Texted
        /\ UNCHANGED server
    BY DEF Scripts!AfterLoad, EventsInv, Handles, Idle, EventsTask
  <1>2. Puts(Slots, s, Idle) /\ Handles(Slots, EventsTask)'
    BY SetHandles DEF Scripts!AfterLoad, EventsInv, Idle
  <1>3. Loads = {s} /\ Loads' = {} /\ ui.loading
    <2>1. s \in Loads
      BY <1>1 DEF Loads, Doing
    <2>2. Loads' = Loads \ {s}
      BY <1>2, EndDoing DEF Loads
    <2>3. QED
      BY <2>1, <2>2 DEF EventsInv, OneIff
  <1>4. \A e : SavesFor(e)' = SavesFor(e)
    BY <1>1, <1>2 DEF SavesFor, Puts
  <1>5. ui \in EventsState /\ ui.scripts \in Texted
    BY DEF EventsInv, EventsState
  <1>6. CASE t.status = "ok"
    <2>1. ui' = [ui EXCEPT !.scripts = t.data, !.loading = FALSE, !.unsure = ui.unsure]
      BY <1>6 DEF Scripts!AfterLoad
    <2>2. ui' \in EventsState /\ ui'.scripts = t.data /\ ~ui'.loading
          /\ ui'.unsure = ui.unsure
      BY <1>1, <1>5, <2>1 DEF EventsState
    <2>3. ASSUME NEW e \in Events \ ui.unsure PROVE ScriptFresh(e)'
      <3>1. ScriptFresh(e)
        BY DEF EventsInv
      <3>2. SavesFor(e) = {} /\ t.data[e] = server.scripts[e]
        BY <1>3, <1>6, <3>1 DEF ScriptFresh
      <3>3. QED
        BY <1>1, <1>3, <1>4, <2>2, <3>2 DEF ScriptFresh, Agree
    <2>4. QED
      BY <1>1, <1>2, <1>3, <2>2, <2>3 DEF EventsInv, OneIff
  <1>7. CASE t.status # "ok"
    <2> DEFINE f == [e \in Events |-> [ui.scripts[e] EXCEPT !.text = None]]
    <2>1. ui' = [ui EXCEPT !.scripts = f, !.loading = FALSE, !.unsure = Events]
      BY <1>7 DEF Scripts!AfterLoad
    <2>2. f \in Texted
      BY <1>5 DEF Texted, Scripts!Script
    <2> HIDE DEF f
    <2>3. ui' \in EventsState /\ ~ui'.loading /\ ui'.unsure = Events
      BY <1>5, <2>1, <2>2 DEF EventsState
    <2>4. QED
      BY <1>1, <1>2, <1>3, <2>3 DEF EventsInv, OneIff
  <1>8. QED
    BY <1>6, <1>7

LEMMA EventsAfterSave ==
    ASSUME EventsInv, NEW s \in Slots, Scripts!AfterSave(s) PROVE EventsInv'
  <1> DEFINE t == tasks[s]
             e == t.event
  <1>1. /\ t \in EventsTask /\ t # Idle /\ t.op = "save" /\ e \in Events
        /\ t.saving \in SUBSET Events /\ UNCHANGED server
    BY DEF Scripts!AfterSave, EventsInv, Handles, Idle, EventsTask
  <1>2. Puts(Slots, s, Idle) /\ Handles(Slots, EventsTask)'
    BY SetHandles DEF Scripts!AfterSave, EventsInv, Idle
  <1>3. Loads' = Loads
    <2>1. s \notin Loads
      BY <1>1 DEF Loads, Doing
    <2>2. Loads' = Loads \ {s}
      BY <1>2, EndDoing DEF Loads
    <2>3. QED
      BY <2>1, <2>2
  <1>4. \A d : SavesFor(d)' = SavesFor(d) \ {s}
    BY <1>2 DEF SavesFor, Puts
  <1>5. s \in SavesFor(e) /\ \A d : d # e => s \notin SavesFor(d)
    BY <1>1 DEF SavesFor
  <1>6. /\ ui' \in EventsState /\ ui'.loading = ui.loading /\ ui'.scripts = ui.scripts
        /\ ui'.edited = ui.edited /\ ui.unsure \subseteq ui'.unsure
        /\ e \notin ui'.unsure => t.status = "ok"
    <2>1. ui \in EventsState
      BY DEF EventsInv
    <2>2. ui' = [ui EXCEPT !.saving = t.saving \ {e},
                           !.unsure = IF t.status = "ok" THEN ui.unsure ELSE ui.unsure \cup {e}]
      BY DEF Scripts!AfterSave
    <2> HIDE DEF t, e
    <2>3. QED
      BY <1>1, <2>1, <2>2 DEF EventsState
  <1>7. ASSUME NEW d \in Events \ ui'.unsure PROVE ScriptFresh(d)'
    <2>1. ScriptFresh(d)
      BY <1>6, <1>7 DEF EventsInv
    <2>2. \A r \in Loads : tasks'[r] = tasks[r]
      BY <1>1, <1>2 DEF Puts, Loads, Doing
    <2>3. \A r \in SavesFor(d)' : tasks'[r] = tasks[r]
      BY <1>2, <1>4 DEF Puts, SavesFor
    <2>4. CASE d = e
      <3>1. SavesFor(d)' = {}
        BY <1>4, <1>5, <2>1, <2>4 DEF ScriptFresh
      <3>2. /\ server.scripts[d] = t.sent
            /\ d \notin ui.edited => Agree(ui.scripts[d], t.sent)
        BY <1>5, <1>6, <1>7, <2>1, <2>4 DEF ScriptFresh
      <3>3. QED
        BY <1>1, <1>3, <1>6, <2>1, <2>2, <3>1, <3>2 DEF ScriptFresh
    <2>5. CASE d # e
      <3>1. SavesFor(d)' = SavesFor(d)
        BY <1>4, <1>5, <2>5
      <3>2. QED
        BY <1>1, <1>3, <1>6, <2>1, <2>2, <2>3, <3>1 DEF ScriptFresh
    <2>6. QED
      BY <2>4, <2>5
  <1>8. QED
    BY <1>1, <1>2, <1>3, <1>6, <1>7 DEF EventsInv, OneIff

LEMMA EventsSteps == EventsInv /\ Acts("events") => EventsInv'
  <1> SUFFICES ASSUME EventsInv, Acts("events") PROVE EventsInv'
    OBVIOUS
  <1>1. ui \in EventsState /\ ui.scripts \in Texted
    BY DEF EventsInv, EventsState
  <1>2. ASSUME NEW e \in Events, NEW w \in Scripts!Script, UNCHANGED <<tasks, server>>,
               ui' = [ui EXCEPT !.scripts = [ui.scripts EXCEPT ![e] = w],
                                !.edited = ui.edited \cup {e}]
        PROVE  EventsInv'
    <2> DEFINE f == [ui.scripts EXCEPT ![e] = w]
    <2>1. f \in Texted /\ \A d \in Events \ {e} : f[d] = ui.scripts[d]
      BY <1>1 DEF Texted
    <2> HIDE DEF f
    <2>2. ui' = [ui EXCEPT !.scripts = f, !.edited = ui.edited \cup {e}]
      BY <1>2 DEF f
    <2>3. /\ ui' \in EventsState /\ ui'.loading = ui.loading /\ ui'.unsure = ui.unsure
          /\ ui'.edited = ui.edited \cup {e} /\ ui'.scripts = f
      BY <1>1, <2>1, <2>2 DEF EventsState
    <2>4. QED
      BY <1>2, <2>1, <2>3, EventsEdit
  <1>3. ASSUME NEW e \in Events, NEW type \in Scripts!Types, Scripts!ScriptTypeChange(e, type)
        PROVE  EventsInv'
    <2> DEFINE w == [text |-> IF ui.scripts[e].text = None THEN Template[type]
                                                       ELSE ui.scripts[e].text,
                     type |-> type]
    <2>1. w \in Scripts!Script
      BY <1>1, ScriptTypes DEF Texted, Scripts!Script
    <2>2. ui' = [ui EXCEPT !.scripts = [ui.scripts EXCEPT ![e] = w],
                           !.edited = ui.edited \cup {e}]
      BY <1>1, <1>3 DEF Scripts!ScriptTypeChange, Texted
    <2> HIDE DEF w
    <2>3. QED
      BY <1>2, <1>3, <2>1, <2>2 DEF Scripts!ScriptTypeChange
  <1>4. ASSUME NEW e \in Events, NEW text \in Texts \cup {None}, ui' = Scripts!Typed(e, text),
               UNCHANGED <<tasks, server>>
        PROVE  EventsInv'
    <2> DEFINE w == [ui.scripts[e] EXCEPT !.text = text]
    <2>1. w \in Scripts!Script
      BY <1>1 DEF Texted, Scripts!Script
    <2>2. ui' = [ui EXCEPT !.scripts = [ui.scripts EXCEPT ![e] = w],
                           !.edited = ui.edited \cup {e}]
      BY <1>1, <1>4 DEF Scripts!Typed, Texted
    <2> HIDE DEF w
    <2>3. QED
      BY <1>2, <1>4, <2>1, <2>2
  <1>5. ASSUME NEW e \in Events, Scripts!InsertTemplate(e) PROVE EventsInv'
    <2>1. Template[Scripts!TypeOf(ui.scripts[e])] \in Texts \cup {None}
      BY <1>1, ScriptTypes DEF Texted
    <2>2. QED
      BY <1>4, <1>5, <2>1 DEF Scripts!InsertTemplate
  <1>6. ASSUME NEW e \in Events, NEW text \in Texts \cup {None}, Scripts!TypeText(e, text)
        PROVE  EventsInv'
    BY <1>4, <1>6 DEF Scripts!TypeText
  <1>7. ASSUME NEW s \in Slots, Scripts!Runs(s) PROVE EventsInv'
    BY <1>7, EventsServe, EventsAfterLoad, EventsAfterSave DEF Scripts!Runs
  <1>8. QED
    BY <1>3, <1>5, <1>6, <1>7, EventsReload, EventsSave
       DEF Acts, User, Others, Runs, Scripts!User

LEMMA EventsHold == Spec => []OnEvents
  <1>1. Init => OnEvents
    BY DEF Init, OnEvents
  <1>2. ASSUME EventsInv, UNCHANGED vars PROVE EventsInv'
    <2>1. UNCHANGED <<ui, tasks, server>>
      BY <1>2 DEF vars
    <2>2. Handles(Slots, EventsTask)' /\ Loads' = Loads /\ \A d : SavesFor(d)' = SavesFor(d)
      BY <1>2, <2>1 DEF EventsInv, Handles, Table, Loads, Doing, SavesFor
    <2>3. \A d \in Events : ScriptFresh(d) => ScriptFresh(d)'
      BY <2>1, <2>2 DEF ScriptFresh
    <2>4. QED
      BY <1>2, <2>1, <2>2, <2>3 DEF EventsInv, OneIff
  <1>3. OnEvents /\ [Next]_vars => OnEvents'
    BY <1>2, PageSteps, EventsMounts, EventsSteps DEF OnEvents, Acts, vars
  <1>4. QED
    BY <1>1, <1>3, PTL DEF Spec

---------------------------------------------------------------------------
(* The dashboard *)

USE DEF Home!T!Idle, Home!T!Running, Home!T!Quiet, Listing!T!Idle, Listing!T!Running,
        Listing!T!At, Listing!T!Quiet, Settings!T!Idle, Settings!T!Running, Settings!T!Doing,
        Metrics!T!Idle, Metrics!T!Running, Metrics!T!Quiet, Logs!T!Idle, Logs!T!Running,
        Logs!T!Doing, Queries!T!Idle, Queries!T!Running, Queries!T!Doing,
        Tester!T!Idle, Tester!T!Running

USE DEF Home!SpinnerEnds, Logs!SpinnerEnds, Metrics!SpinnerEnds, Settings!SpinnerEnds,
        Documents!SpinnerEnds, Queries!SpinnerEnds, Scripts!SpinnerEnds

LEMMA TesterSpins == TesterInv => Tester!SpinnerEnds
  <1> SUFFICES ASSUME TesterInv PROVE Tester!SpinnerEnds
    OBVIOUS
  <1>1. Tester!T!Running = Busy(Slots)
    BY DEF Busy, Idle
  <1>2. Cardinality(Busy(Slots)) = IF ui.testing THEN 1 ELSE 0
    BY OneCounted DEF TesterInv
  <1>3. Tester!SpinnerEnds <=> Cardinality(Tester!T!Running) = IF ui.testing THEN 1 ELSE 0
    BY DEF Tester!SpinnerEnds, Tester!Cardinality, Cardinality
  <1>4. QED
    BY <1>1, <1>2, <1>3

(* No page keeps its spinner for ever, whatever fails, however loads overlap *)
(* and whatever was opened before: while it turns, a load that takes it away *)
(* is under way (Collections.jsx:105, CollectionDetail.jsx:123,              *)
(* EventsEditor.jsx:261, Settings.jsx:93).                                   *)
THEOREM SpinnersEnd == Spec => []SpinnerEnds
  <1>1. OnHome => (shown = "home" => Home!SpinnerEnds)
    BY DEF OnHome, HomeInv, Busy, Idle
  <1>2. OnListing => (shown = "collections" => Listing!SpinnerEnds)
    BY DEF OnListing, ListingInv, Lists, At, Idle, Listing!SpinnerEnds
  <1>3. OnUsers => (shown = "users" => UserAdmin!SpinnerEnds)
    BY DEF OnUsers, UsersLoad, At, Idle, UserAdmin!SpinnerEnds
  <1>4. OnSettings => (shown = "settings" => Settings!SpinnerEnds)
    BY DEF OnSettings, SettingsInv, Doing, Idle
  <1>5. OnMetrics => (shown = "metrics" => Metrics!SpinnerEnds)
    BY DEF OnMetrics, MetricsInv, Busy, Idle
  <1>6. OnLogs => (shown = "logs" => Logs!SpinnerEnds)
    BY DEF OnLogs, LogsInv, Doing, Idle
  <1>7. OnDocuments => (shown = "documents" => Documents!SpinnerEnds)
    BY DEF OnDocuments, DocumentsInv, Doing, Idle
  <1>8. OnQuery => (shown = "query" => Queries!SpinnerEnds)
    BY DEF OnQuery, QueryInv, Doing, Idle
  <1>9. OnEvents => (shown = "events" => Scripts!SpinnerEnds)
    BY CountedHandlers DEF OnEvents, EventsInv, OneIff
  <1>10. OnTester => (shown = "tester" => Tester!SpinnerEnds)
    BY TesterSpins DEF OnTester
  <1>11. /\ OnHome /\ OnListing /\ OnUsers /\ OnSettings /\ OnMetrics /\ OnLogs /\ OnDocuments
         /\ OnQuery /\ OnEvents /\ OnTester
         => SpinnerEnds
    BY <1>1, <1>2, <1>3, <1>4, <1>5, <1>6, <1>7, <1>8, <1>9, <1>10 DEF SpinnerEnds
  <1>12. QED
    BY <1>11, HomeHolds, ListingHolds, UsersHold, SettingsHolds, MetricsHolds, LogsHolds,
       DocumentsHold, QueryHolds, EventsHold, TesterHolds, PTL

(* Whatever is done on a page and whatever others do meanwhile: the          *)
(* collections, the documents, the properties and the scripts that are shown *)
(* are those of the server once the handlers have ended, if no answer came   *)
(* too late and none was an error (Collections.jsx:90,                       *)
(* CollectionDetail.jsx:225, PropertiesEditor.jsx:162, EventsEditor.jsx:247).*)
THEOREM PagesInStep == Spec => []InStep
  <1>1. OnListing => (shown = "collections" => Listing!ListInStep)
    <2> SUFFICES ASSUME ListingInv, Listing!T!Quiet, ~ui.stale
                 PROVE  ui.all = server.collections
      BY DEF OnListing, Listing!ListInStep
    <2>1. Lists = {} /\ Changes = {}
      BY DEF Lists, Changes, At, Idle
    <2>2. QED
      BY <2>1 DEF ListingInv, ListFresh
  <1>2. OnDocuments => (shown = "documents" => Documents!DocumentsInStep)
    BY DEF OnDocuments, DocumentsInv, DocumentsFresh, Busy, Idle, Documents!DocumentsInStep
  <1>3. OnProperties => (shown = "properties" => Schema!SchemaInStep)
    BY DEF OnProperties, PropertiesInv, PropertiesFresh, Busy, Idle, Schema!SchemaInStep
  <1>4. OnEvents => (shown = "events" => Scripts!ScriptsInStep)
    BY CountedHandlers DEF OnEvents, EventsInv, ScriptFresh, Agree, Scripts!ScriptsInStep
  <1>5. OnListing /\ OnDocuments /\ OnProperties /\ OnEvents => InStep
    BY <1>1, <1>2, <1>3, <1>4 DEF InStep
  <1>6. QED
    BY <1>5, ListingHolds, DocumentsHold, PropertiesHold, EventsHold, PTL

(* The types of the pages.                                                  *)
LEMMA HomeTyped == HomeInv => Home!TypeOK
  BY DEF HomeInv, HomeState, HomeServer, HomeTask, Handles, Idle, Home!TypeOK

LEMMA ListingTyped == ListingInv => Listing!TypeOK
  <1>1. Listing!Cardinality(Numbers) = Cardinality(Numbers)
    BY DEF Listing!Cardinality, Cardinality
  <1>2. QED
    BY <1>1 DEF ListingInv, ListingState, ListingServer, ListingTask, Handles, Idle, Listing!TypeOK

LEMMA UsersTyped == UsersInv => UserAdmin!TypeOK
  BY DEF UsersInv, UiOK, TasksOK, ServerOK, PageState, Tasked, UserAdmin!TypeOK

LEMMA SettingsTyped == SettingsInv => Settings!TypeOK
  BY DEF SettingsInv, SettingsState, SettingsServer, SettingsTask, SettingsKinds, Handles, Idle,
     Settings!TypeOK

LEMMA MetricsTyped == MetricsInv => Metrics!TypeOK
  BY DEF MetricsInv, MetricsState, MetricsServer, MetricsTask, Handles, Idle,
     Metrics!TypeOK, Metrics!Selections

LEMMA LogsTyped == LogsInv => Logs!TypeOK
  BY DEF LogsInv, LogsState, LogsServer, LogsTask, Handles, Idle, Logs!TypeOK

LEMMA DocumentsTyped == DocumentsInv => Documents!TypeOK
  <1> SUFFICES ASSUME DocumentsInv PROVE Documents!TypeOK
    OBVIOUS
  <1>1. Documents!Cardinality(Ids) = Cardinality(Ids)
    BY DEF Documents!Cardinality, Cardinality
  <1>2. \A d \in Docs : Documents!IsDocuments(d)
    BY DEF Docs, Documents!IsDocuments
  <1>3. /\ ui.documents \in Docs /\ server.documents \in Docs
        /\ {ui.loading, ui.open, ui.stale} \subseteq BOOLEAN
        /\ ui.editing \in Ids \cup {None}
        /\ {ui.form, ui.filter} \subseteq Contents \cup {None}
        /\ ui.page \in 1..(Cardinality(Ids) + 1) /\ ui.updates \in 0..MaxChanges
    BY DEF DocumentsInv, DocumentsState, DocumentsServer
  <1>4. ASSUME NEW s \in Documents!T!Running PROVE tasks[s] \in DocumentsTask
    BY DEF DocumentsInv, Handles, Idle
  <1>5. ASSUME NEW s \in Documents!T!Running
        PROVE  /\ tasks[s].op \in Documents!Ops /\ tasks[s].at = "request"
               /\ tasks[s].id \in Ids \cup {None}
               /\ tasks[s].form \in Contents \cup {None}
               /\ tasks[s].documents \in Docs /\ tasks[s].data \in Docs
               /\ tasks[s].page \in 1..(Cardinality(Ids) + 1)
    BY <1>4 DEF DocumentsTask
  <1>6. QED
    BY <1>1, <1>2, <1>3, <1>5 DEF Documents!TypeOK

LEMMA QueryTyped == QueryInv => Queries!TypeOK
  <1> SUFFICES ASSUME QueryInv PROVE Queries!TypeOK
    OBVIOUS
  <1>1. /\ ui.rows \in Rows /\ ui.logical \in {"$and", "$or"}
        /\ {ui.raw, ui.read, ui.error, ui.loading, ui.results} \subseteq BOOLEAN
    BY DEF QueryInv, QueryState
  <1>2. Len(ui.rows) <= MaxRows /\ \A i \in DOMAIN ui.rows : ui.rows[i] \in Queries!ProperRows
    BY <1>1 DEF Rows
  <1>3. \A s \in Queries!T!Running : tasks[s].op \in {"query", "load"} /\ tasks[s].at = "request"
    BY DEF QueryInv, Handles, QueryTask, Idle
  <1>4. QED
    BY <1>1, <1>2, <1>3 DEF Queries!TypeOK

LEMMA PropertiesTyped == PropertiesInv => Schema!TypeOK
  <1> SUFFICES ASSUME PropertiesInv PROVE Schema!TypeOK
    OBVIOUS
  <1>1. /\ ui.known \in Tables /\ server.properties \in Tables
        /\ {ui.editing, ui.name, ui.dragged} \subseteq Properties \cup {None}
        /\ {ui.open, ui.stale} \subseteq BOOLEAN /\ ui.updates \in 0..MaxUpdates
    BY DEF PropertiesInv, PropertiesState, PropertiesServer
  <1>2. ASSUME NEW s \in Schema!T!Running PROVE tasks[s] \in PropertiesTask
    BY DEF PropertiesInv, Handles, Idle
  <1>3. ASSUME NEW s \in Schema!T!Running
        PROVE  /\ tasks[s].op \in {"save", "delete", "drop"} /\ tasks[s].at = "update"
               /\ {tasks[s].what, tasks[s].where} \subseteq Properties \cup {None}
               /\ tasks[s].from \in Tables /\ tasks[s].sent \in Tables
    BY <1>2 DEF PropertiesTask
  <1>4. QED
    BY <1>1, <1>3, TablesAre DEF Schema!TypeOK

LEMMA EventsTyped == EventsInv => Scripts!TypeOK
  <1> SUFFICES ASSUME EventsInv PROVE Scripts!TypeOK
    OBVIOUS
  <1>1. /\ ui.scripts \in Texted /\ ui.loading \in BOOLEAN /\ server.scripts \in Texted
        /\ {ui.saving, ui.edited, ui.unsure} \subseteq SUBSET Events
        /\ ui.updates \in 0..MaxSaves
    BY DEF EventsInv, EventsState, EventsServer
  <1>2. ASSUME NEW s \in Scripts!T!Running PROVE tasks[s] \in EventsTask
    BY DEF EventsInv, Handles, Idle
  <1>3. QED
    BY <1>1, <1>2 DEF Scripts!TypeOK, EventsTask, Texted

LEMMA TesterTyped == TesterInv => Tester!TypeOK
  <1> SUFFICES ASSUME TesterInv PROVE Tester!TypeOK
    OBVIOUS
  <1>1. \A d \in Mocks : Tester!IsData(d)
    BY DEF Mocks, Tester!IsData
  <1>2. /\ ui \in TesterState
        /\ \A s \in Tester!T!Running : tasks[s] \in TesterTask
    BY DEF TesterInv, Handles, Idle
  <1>3. QED
    BY <1>1, <1>2 DEF TesterState, TesterTask, Tester!TypeOK

OnOffered == shown \in Offered \cup {"none"}

LEMMA OfferedHolds == Spec => []OnOffered
  <1>1. Init => OnOffered
    BY DEF Init, OnOffered
  <1>2. OnOffered /\ [Next]_vars => OnOffered'
    BY DEF OnOffered, Next, vars, Open, Leave, Runs
  <1>3. QED
    BY <1>1, <1>2, PTL DEF Spec

(* The state is always of the type of the page that is shown: no page finds *)
(* the state or the handlers of another one.                                *)
THEOREM DashboardTypes == Spec => []TypeOK
  <1>1. /\ OnOffered
        /\ OnHome /\ OnListing /\ OnUsers /\ OnSettings /\ OnMetrics /\ OnLogs /\ OnDocuments
        /\ OnQuery /\ OnProperties /\ OnEvents /\ OnTester
        => TypeOK
    BY HomeTyped, ListingTyped, UsersTyped, SettingsTyped, MetricsTyped, LogsTyped,
       DocumentsTyped, QueryTyped, PropertiesTyped, EventsTyped, TesterTyped
       DEF TypeOK, OnOffered, OnHome, OnListing, OnUsers, OnSettings, OnMetrics, OnLogs, OnDocuments,
           OnQuery, OnProperties, OnEvents, OnTester
  <1>2. QED
    BY <1>1, OfferedHolds, HomeHolds, ListingHolds, UsersHold, SettingsHolds, MetricsHolds,
       LogsHolds, DocumentsHold, QueryHolds, PropertiesHold, EventsHold, TesterHolds, PTL
=============================================================================
