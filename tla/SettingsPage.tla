---------------------------- MODULE SettingsPage ----------------------------
(***************************************************************************)
(* The settings page (dashboard pages/Settings.jsx): the server's           *)
(* description, the security and the e-mail settings, which are loaded and  *)
(* saved, and the server and database settings, whose saving only waits a   *)
(* second.  A group of settings is one value; the SMTP password is apart:   *)
(* the server never sends it.                                               *)
(***************************************************************************)
EXTENDS Naturals, FiniteSets

CONSTANTS Values, Default,  \* values of a group; those of the first render
          Passwords, None, Slots

\* Of the constants; Dashboard assumes it.
SettingsAssumption ==
    Default \in Values /\ None \notin Values \cup Passwords

VARIABLES ui, tasks, server

vars == <<ui, tasks, server>>

T == INSTANCE Tasks

Groups == {"security", "email"}
Saves == {"saveServer", "saveSecurity", "saveEmail"}
Loads == {"info", "security", "email"}

TypeOK ==
    /\ ui.info \in {None, "server", "mock"}
    /\ ui.loading \subseteq Loads
    /\ {ui.saving, ui.sendingTest} \subseteq BOOLEAN
    /\ {ui.security, ui.email} \subseteq Values
    /\ ui.password \in Passwords \cup {None}
    /\ \A s \in T!Running : /\ tasks[s].op \in Loads \cup Saves \cup {"test"}
                            /\ tasks[s].at = "request"
    /\ {server.security, server.email} \subseteq Values
    /\ server.password \in Passwords \cup {None}

\* sent is the body: a group's value and the password field.
Task(op, sent) ==
    [op |-> op, sent |-> sent, at |-> "request", status |-> "sent", data |-> None]
NoBody == <<None, None>>

\* The first render; its effect starts three loads.
First == [info |-> None, loading |-> Loads, saving |-> FALSE,
          sendingTest |-> FALSE, security |-> Default, email |-> Default,
          password |-> None]

Mount(sv) ==
    <<First, [T!AllIdle EXCEPT ![1] = Task("info", NoBody),
                               ![2] = Task("security", NoBody),
                               ![3] = Task("email", NoBody)], sv>>
Starts ==
    {Mount(sv) : sv \in [security : Values, email : Values,
                         password : Passwords \cup {None}]}
Init == \E st \in Starts : ui = st[1] /\ tasks = st[2] /\ server = st[3]

---------------------------------------------------------------------------
(* The tabs.  A group's form is drawn when its load has ended; every save   *)
(* button is disabled while any of them saves.                              *)

Drawn(group) == group \notin ui.loading

Change(group, v) ==
    /\ Drawn(group) /\ v # ui[group]
    /\ ui' = [ui EXCEPT ![group] = v]
    /\ UNCHANGED <<tasks, server>>

TypePassword(p) ==
    /\ Drawn("email") /\ p # ui.password
    /\ ui' = [ui EXCEPT !.password = p]
    /\ UNCHANGED <<tasks, server>>

\* loadServerInfo again; the button is disabled while it loads.
Refresh ==
    /\ "info" \notin ui.loading /\ T!CanRun
    /\ ui' = [ui EXCEPT !.loading = @ \cup {"info"}]
    /\ T!Run(Task("info", NoBody))
    /\ UNCHANGED server

\* Mutant: the buttons are not disabled.
Saving_Enabled(op, body) ==
    /\ T!CanRun
    /\ ui' = [ui EXCEPT !.saving = TRUE]
    /\ T!Run(Task(op, body))
    /\ UNCHANGED server

Saving(op, body) ==
    /\ ~ui.saving /\ T!CanRun
    /\ ui' = [ui EXCEPT !.saving = TRUE]
    /\ T!Run(Task(op, body))
    /\ UNCHANGED server

SaveSettings == Saving("saveServer", NoBody)
SaveSecurity == Drawn("security") /\ Saving("saveSecurity", <<ui.security, None>>)
SaveEmail == Drawn("email") /\ Saving("saveEmail", <<ui.email, ui.password>>)

\* An empty address only gives a toast.
SendTest ==
    /\ Drawn("email") /\ ~ui.sendingTest /\ T!CanRun
    /\ ui' = [ui EXCEPT !.sendingTest = TRUE]
    /\ T!Run(Task("test", NoBody))
    /\ UNCHANGED server

---------------------------------------------------------------------------
(* The server (admin.go).  The settings in memory change before the file is *)
(* written: when that fails, the answer is an error.                        *)

\* Mutant: the password of the body is stored, a blank one too.
PasswordAfter_Always(p) == p

\* Only a password that is provided is stored.
PasswordAfter(p) == IF p = None THEN server.password ELSE p

Stored(task) ==
    CASE task.op = "saveSecurity" -> [server EXCEPT !.security = task.sent[1]]
      [] task.op = "saveEmail" ->
           [server EXCEPT !.email = task.sent[1],
                          !.password = PasswordAfter(task.sent[2])]
      [] OTHER -> server

Answer(op) == IF op \in Groups THEN server[op] ELSE None

Serve(s) ==
    /\ T!Waits(s, "request")
    /\ \/ server' = Stored(tasks[s]) /\ T!Reply(s, Answer(tasks[s].op))
       \/ /\ tasks[s].op # "saveServer"  \* that one asks nothing of the server
          /\ server' \in {server, Stored(tasks[s])} /\ T!Fail(s)
    /\ UNCHANGED ui

---------------------------------------------------------------------------
(* The ends of the handlers.                                                *)

\* loadServerInfo: a failure shows made-up values.
AfterInfo(s) ==
    /\ T!Back(s, "request") /\ tasks[s].op = "info"
    /\ ui' = [ui EXCEPT !.info = IF T!Ok(s) THEN "server" ELSE "mock",
                        !.loading = @ \ {"info"}]
    /\ T!End(s)
    /\ UNCHANGED server

(* loadSecuritySettings, loadEmailSettings: a failure leaves the default    *)
(* values in the form, which can be saved.  What the server sends of the    *)
(* e-mail settings has no password: the field is blank.                     *)
AfterLoad(s) ==
    /\ T!Back(s, "request") /\ tasks[s].op \in Groups
    /\ LET group == tasks[s].op
           done == [ui EXCEPT !.loading = @ \ {group}]
       IN  ui' = IF ~T!Ok(s) THEN done
                 ELSE IF group = "security"
                        THEN [done EXCEPT !.security = tasks[s].data]
                        ELSE [done EXCEPT !.email = tasks[s].data,
                                          !.password = None]
    /\ T!End(s)
    /\ UNCHANGED server

AfterSave(s) ==
    /\ T!Back(s, "request") /\ tasks[s].op \in Saves
    /\ ui' = [ui EXCEPT !.saving = FALSE]
    /\ T!End(s)
    /\ UNCHANGED server

AfterTest(s) ==
    /\ T!Back(s, "request") /\ tasks[s].op = "test"
    /\ ui' = [ui EXCEPT !.sendingTest = FALSE]
    /\ T!End(s)
    /\ UNCHANGED server

User ==
    \/ \E g \in Groups, v \in Values : Change(g, v)
    \/ \E p \in Passwords \cup {None} : TypePassword(p)
    \/ Refresh \/ SaveSettings \/ SaveSecurity \/ SaveEmail \/ SendTest

Runs(s) == Serve(s) \/ AfterInfo(s) \/ AfterLoad(s) \/ AfterSave(s) \/ AfterTest(s)

Next == User \/ \E s \in Slots : Runs(s)

Spec == Init /\ [][Next]_vars
---------------------------------------------------------------------------
(* Saving the e-mail settings with a blank password, twice, or from a form  *)
(* whose load failed, changes the server's password to nothing but what was *)
(* typed for that save: "Leave blank to keep current password"              *)
(* (Settings.jsx:841).                                                      *)
KeepsPassword ==
    server'.password # server.password =>
      /\ server'.password # None
      /\ \E s \in T!Running :
           tasks[s].op = "saveEmail" /\ tasks[s].sent[2] = server'.password
PasswordKept == [][KeepsPassword]_vars

(* Four buttons and one flag: at most one save is under way, and the flag   *)
(* that disables the buttons is set just while it is (Settings.jsx:153).    *)
SavesOneByOne ==
    LET saves == {s \in T!Running : tasks[s].op \in Saves}
    IN  Cardinality(saves) = IF ui.saving THEN 1 ELSE 0

(* The page shows its spinner only while the load of that group is under    *)
(* way, whose end takes it away (Settings.jsx:123, 147, 244).               *)
SpinnerEnds == \A g \in ui.loading : T!Doing(g) # {}
=============================================================================
