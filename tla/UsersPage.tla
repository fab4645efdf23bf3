----------------------------- MODULE UsersPage -----------------------------
(***************************************************************************)
(* The page that manages the users (dashboard pages/Users.jsx).  What       *)
(* matters of a user's fields is whose they are: a record of the server, a  *)
(* row of the list and the form hold the data of one user, or are blank:    *)
(* filled with the schema's default values.                                 *)
(***************************************************************************)
EXTENDS Naturals, FiniteSets

CONSTANTS Users, None, Blank, Slots

\* Of the constants; Dashboard assumes it.
UsersAssumption == {None, Blank} \cap Users = {} /\ None # Blank

VARIABLES ui, tasks,
          server  \* per user: whose data its record holds; None: no record

vars == <<ui, tasks, server>>

T == INSTANCE Tasks

Owners == Users \cup {None, Blank}
Dialogs == {"create", "edit", "delete"}

TypeOK ==
    /\ ui.users \subseteq Users
    /\ {ui.loading, ui.schemaLoading, ui.schema} \subseteq BOOLEAN
    /\ ui.selected \in Users \cup {None}
    /\ ui.form \in Owners
    /\ ui.open \in SUBSET Dialogs
    /\ \A s \in T!Running :
         /\ tasks[s].op \in Dialogs \cup {"load", "schema"}
         /\ tasks[s].at \in {"change", "list", "schema"}
         /\ tasks[s].data \subseteq Users
    /\ server.of \in [Users -> Owners]

Task(op, user, form, at) ==
    [op |-> op, user |-> user, form |-> form, at |-> at,
     status |-> "sent", data |-> {}]

\* The first render; its effect asks for the schema and for the users.
First == [users |-> {}, loading |-> TRUE, schemaLoading |-> TRUE,
          schema |-> FALSE, selected |-> None, form |-> None, open |-> {}]

Mount(sv) ==
    <<First, [T!AllIdle EXCEPT ![1] = Task("schema", None, None, "schema"),
                               ![2] = Task("load", None, None, "list")], sv>>
Starts == {Mount([of |-> [u \in Users |-> IF u \in S THEN u ELSE None]]) :
             S \in SUBSET Users}
Init == \E st \in Starts : ui = st[1] /\ tasks = st[2] /\ server = st[3]

Exist == {u \in Users : server.of[u] # None}

---------------------------------------------------------------------------
(* What is drawn: a spinner, an open dialog or the table.                   *)

Drawn == ~ui.loading /\ ~ui.schemaLoading
PageIsUsed == Drawn /\ ui.open = {}
DialogIsUsed(d) == Drawn /\ d \in ui.open

\* The table shows the users' fields; a row offers Edit and Delete.
Rows == IF PageIsUsed THEN ui.users ELSE {}

\* Once there is a schema, it says what a form shows.
FillForm(u, whose) == [u EXCEPT !.form = IF u.schema THEN whose ELSE @]
Opened(u, d) == [u EXCEPT !.open = @ \cup {d}]
Closed(u, d) == [u EXCEPT !.open = @ \ {d}]

\* Mutant: the form is cleared, the selected user stays.
ResetForm_Selected(u) == FillForm(u, Blank)

ResetForm(u) == [FillForm(u, Blank) EXCEPT !.selected = None]

OpenCreate ==
    /\ PageIsUsed
    /\ ui' = Opened(FillForm(ui, Blank), "create")
    /\ UNCHANGED <<tasks, server>>

OpenEdit(u) ==
    /\ u \in Rows
    /\ ui' = Opened(FillForm([ui EXCEPT !.selected = u], u), "edit")
    /\ UNCHANGED <<tasks, server>>

OpenDelete(u) ==
    /\ u \in Rows
    /\ ui' = Opened([ui EXCEPT !.selected = u], "delete")
    /\ UNCHANGED <<tasks, server>>

Cancel(d) ==
    /\ DialogIsUsed(d)
    /\ ui' = Closed(ui, d)
    /\ UNCHANGED <<tasks, server>>

(* The three handlers send a request and leave the dialog as it is: it can  *)
(* be used again, or cancelled and another one opened, before the answer.   *)
HandleCreate ==
    /\ DialogIsUsed("create") /\ T!CanRun
    /\ \E u \in Users : T!Run(Task("create", u, ui.form, "change"))
    /\ UNCHANGED <<ui, server>>

HandleEdit ==
    /\ DialogIsUsed("edit") /\ ui.selected # None /\ T!CanRun
    /\ T!Run(Task("edit", ui.selected, ui.form, "change"))
    /\ UNCHANGED <<ui, server>>

HandleDelete ==
    /\ DialogIsUsed("delete") /\ ui.selected # None /\ T!CanRun
    /\ T!Run(Task("delete", ui.selected, None, "change"))
    /\ UNCHANGED <<ui, server>>

---------------------------------------------------------------------------

(* The server: a new user, u by name, has the data that was typed into a    *)
(* blank form; an update writes the form's data over the record.            *)
Stored(task) ==
    CASE task.op = "create" ->
           [server EXCEPT !.of[task.user] = IF task.form = Blank THEN task.user
                                                                 ELSE task.form]
      [] task.op = "edit" -> [server EXCEPT !.of[task.user] = task.form]
      [] task.op = "delete" -> [server EXCEPT !.of[task.user] = None]

CanStore(task) == (task.op = "create") = (server.of[task.user] = None)

Serve(s) ==
    \/ /\ T!Waits(s, "change")
       /\ \/ CanStore(tasks[s]) /\ server' = Stored(tasks[s]) /\ T!Reply(s, {})
          \/ CanStore(tasks[s]) /\ server' = Stored(tasks[s]) /\ T!Fail(s)
          \/ UNCHANGED server /\ T!Fail(s)
       /\ UNCHANGED ui
    \/ /\ T!Waits(s, "list") \/ T!Waits(s, "schema")
       /\ T!Reply(s, Exist) \/ T!Fail(s)
       /\ UNCHANGED <<ui, server>>

\* Users register, and are deleted by others.
Others(u) ==
    /\ server' = [server EXCEPT !.of[u] = IF @ = None THEN u ELSE None]
    /\ UNCHANGED <<ui, tasks>>

\* fetchUserSchema: a failure gives the basic schema.
AfterSchema(s) ==
    /\ T!Back(s, "schema")
    /\ ui' = [ui EXCEPT !.schema = TRUE, !.form = Blank, !.schemaLoading = FALSE]
    /\ T!End(s)
    /\ UNCHANGED server

\* Mutant: a failure leaves the spinner.
AfterList_NoEnd(s) ==
    /\ T!Back(s, "list")
    /\ ui' = [ui EXCEPT !.users = IF T!Ok(s) THEN tasks[s].data ELSE {},
                        !.loading = @ /\ ~T!Ok(s)]
    /\ T!End(s)
    /\ UNCHANGED server

\* fetchUsers: a failure empties the list.
AfterList(s) ==
    /\ T!Back(s, "list")
    /\ ui' = [ui EXCEPT !.users = IF T!Ok(s) THEN tasks[s].data ELSE {},
                        !.loading = FALSE]
    /\ T!End(s)
    /\ UNCHANGED server

(* The answer to a change closes its dialog and clears form and selection,  *)
(* whatever they are for by now; fetchUsers runs on without being awaited.  *)
AfterChange(s) ==
    /\ T!Back(s, "change")
    /\ IF ~T!Ok(s) THEN UNCHANGED ui /\ T!End(s)
       ELSE /\ LET closed == Closed([ui EXCEPT !.loading = TRUE], tasks[s].op)
               IN  ui' = IF tasks[s].op = "delete"
                           THEN [closed EXCEPT !.selected = None]
                           ELSE ResetForm(closed)
            /\ T!Set(s, Task("load", None, None, "list"))
    /\ UNCHANGED server

User ==
    \/ OpenCreate \/ HandleCreate \/ HandleEdit \/ HandleDelete
    \/ \E u \in Users : OpenEdit(u) \/ OpenDelete(u)
    \/ \E d \in Dialogs : Cancel(d)

Runs(s) == Serve(s) \/ AfterSchema(s) \/ AfterList(s) \/ AfterChange(s)

Next == User \/ (\E s \in Slots : Runs(s)) \/ \E u \in Users : Others(u)

Spec == Init /\ [][Next]_vars
---------------------------------------------------------------------------
(* No user's record ever gets the data of another user or the schema's      *)
(* defaults, in whatever order answers close dialogs and clear the form     *)
(* under the hands of someone who edits the next user (Users.jsx:189, 293). *)
NoForeignData == \A u \in Users : server.of[u] \in {u, None}

(* The page shows its spinner only while a load is under way, whose end
   takes it away (Users.jsx:100, 149). *)
SpinnerEnds ==
    /\ ui.loading => T!At("list") # {}
    /\ ui.schemaLoading => T!At("schema") # {}
=============================================================================
