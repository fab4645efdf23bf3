----------------------------- MODULE EventsPage -----------------------------
(***************************************************************************)
(* The event scripts of a collection (dashboard components/EventsEditor     *)
(* .jsx): one text and one type per event, loaded together, saved one by    *)
(* one.                                                                     *)
(***************************************************************************)
EXTENDS Naturals, FiniteSets

CONSTANTS Events, Texts, None, Slots,
          Template,   \* CODE_TEMPLATES: per type, the text of a template
          MaxUpdates  \* bound on the saves and reloads

Types == {"js", "go"}

\* Of the constants; Dashboard assumes it.
EventsAssumption ==
    None \notin Texts /\ Template \in [Types -> Texts] /\ MaxUpdates \in Nat

VARIABLES ui, tasks,
          server  \* per event the text and the type of its script

vars == <<ui, tasks, server>>

T == INSTANCE Tasks

Script == [text : Texts \cup {None}, type : Types \cup {None}]
Missing == [text |-> None, type |-> None]
Nothing == [e \in Events |-> Missing]

TypeOK ==
    /\ ui.scripts \in [Events -> Script]
    /\ ui.loading \in BOOLEAN
    /\ {ui.saving, ui.edited, ui.unsure} \subseteq SUBSET Events
    /\ ui.updates \in 0..MaxUpdates
    /\ \A s \in T!Running : /\ tasks[s].op \in {"load", "save"}
                            /\ tasks[s].at = "request"
                            /\ tasks[s].event \in Events \cup {None}
                            /\ tasks[s].saving \subseteq Events
                            /\ tasks[s].sent \in Script
                            /\ tasks[s].data \in [Events -> Script]
    /\ server.scripts \in [Events -> Script]

\* saving is what the handler captured of the flags.
Task(op, event, saving, sent) ==
    [op |-> op, event |-> event, saving |-> saving, sent |-> sent,
     at |-> "request", status |-> "sent", data |-> Nothing]
Load == Task("load", None, {}, Missing)

(* The first render and its effect.  edited and unsure are history          *)
(* variables: the events typed in since their last save or load, and those  *)
(* one of whose requests failed or overlapped; see ScriptsInStep.           *)
First ==
    [scripts |-> Nothing, loading |-> TRUE, saving |-> {}, edited |-> {},
     unsure |-> {}, updates |-> 0]

Starts ==
    {<<First, [T!AllIdle EXCEPT ![1] = Load],
       [scripts |-> [e \in Events |-> IF e \in S THEN [text |-> t, type |-> "js"]
                                      ELSE Missing]]>> :
       S \in SUBSET Events, t \in Texts}
Init == \E st \in Starts : ui = st[1] /\ tasks = st[2] /\ server = st[3]

---------------------------------------------------------------------------

PageIsUsed == ~ui.loading

\* scriptType[name] || 'go'
TypeOf(script) == IF script.type = None THEN "go" ELSE script.type

SavesOf(e) == {s \in T!Doing("save") : tasks[s].event = e}

Reload ==
    /\ PageIsUsed /\ T!CanRun /\ ui.updates < MaxUpdates
    /\ ui' = [ui EXCEPT !.loading = TRUE, !.updates = @ + 1, !.edited = {},
                        !.unsure = {e \in Events : SavesOf(e) # {}}]
    /\ T!Run(Load)
    /\ UNCHANGED server

(* A type is chosen: a blank script is filled with the type's template.     *)
ScriptTypeChange(e, type) ==
    /\ PageIsUsed /\ type # TypeOf(ui.scripts[e])
    /\ ui' = [ui EXCEPT
                !.scripts[e] = [text |-> IF @.text = None THEN Template[type]
                                                          ELSE @.text,
                                type |-> type],
                !.edited = @ \cup {e}]
    /\ UNCHANGED <<tasks, server>>

Typed(e, text) == [ui EXCEPT !.scripts[e].text = text, !.edited = @ \cup {e}]

InsertTemplate(e) ==
    /\ PageIsUsed
    /\ ui' = Typed(e, Template[TypeOf(ui.scripts[e])])
    /\ UNCHANGED <<tasks, server>>

TypeText(e, text) ==
    /\ PageIsUsed /\ text # ui.scripts[e].text
    /\ ui' = Typed(e, text)
    /\ UNCHANGED <<tasks, server>>

(* handleSaveEvent: the button of an event is disabled while its flag is    *)
(* set.                                                                     *)
SaveEvent(e) ==
    /\ PageIsUsed /\ e \notin ui.saving /\ T!CanRun /\ ui.updates < MaxUpdates
    /\ ui' = [ui EXCEPT !.saving = @ \cup {e}, !.updates = @ + 1,
                        !.edited = @ \ {e},
                        !.unsure = IF SavesOf(e) # {} \/ T!Doing("load") # {}
                                     THEN @ \cup {e} ELSE @ \ {e}]
    /\ T!Run(Task("save", e, ui.saving,
                  [text |-> ui.scripts[e].text, type |-> TypeOf(ui.scripts[e])]))
    /\ UNCHANGED server

---------------------------------------------------------------------------
(* The server (admin.go) removes the files of both types and writes one; it *)
(* may fail before, in between, and after, when the script does not load.   *)
Stored(task) == [scripts |-> [server.scripts EXCEPT ![task.event] = task.sent]]
Removed(task) == [scripts |-> [server.scripts EXCEPT ![task.event] = Missing]]

Serve(s) ==
    /\ T!Waits(s, "request")
    /\ IF tasks[s].op = "load"
         THEN /\ T!Reply(s, server.scripts) \/ T!Fail(s)
              /\ UNCHANGED server
         ELSE \/ server' = Stored(tasks[s]) /\ T!Reply(s, Nothing)
              \/ /\ server' \in {server, Removed(tasks[s]), Stored(tasks[s])}
                 /\ T!Fail(s)
    /\ UNCHANGED ui

(* loadEvents ends: a failure blanks the texts and keeps the types.         *)
AfterLoad(s) ==
    /\ T!Back(s, "request") /\ tasks[s].op = "load"
    /\ ui' = [ui EXCEPT
                !.scripts = IF T!Ok(s) THEN tasks[s].data
                            ELSE [e \in Events |-> [@[e] EXCEPT !.text = None]],
                !.loading = FALSE,
                !.unsure = IF T!Ok(s) THEN @ ELSE Events]
    /\ T!End(s)
    /\ UNCHANGED server

(* handleSaveEvent ends: it sets the flags to those it captured, but for    *)
(* its own event's.                                                         *)
AfterSave(s) ==
    /\ T!Back(s, "request") /\ tasks[s].op = "save"
    /\ ui' = [ui EXCEPT !.saving = tasks[s].saving \ {tasks[s].event},
                        !.unsure = IF T!Ok(s) THEN @ ELSE @ \cup {tasks[s].event}]
    /\ T!End(s)
    /\ UNCHANGED server

User ==
    \/ Reload
    \/ \E e \in Events :
         \/ InsertTemplate(e) \/ SaveEvent(e)
         \/ \E type \in Types : ScriptTypeChange(e, type)
         \/ \E text \in Texts \cup {None} : TypeText(e, text)

Runs(s) == Serve(s) \/ AfterLoad(s) \/ AfterSave(s)

Next == User \/ \E s \in Slots : Runs(s)

Spec == Init /\ [][Next]_vars
---------------------------------------------------------------------------
(* The editor shows of every event the script the server has, whatever is   *)
(* saved of the other events at the same time, unless the event was edited  *)
(* since, or a request for it failed or overlapped another one: a Save      *)
(* would put an old text back (EventsEditor.jsx:247, 273).                  *)
ScriptsInStep ==
    \A e \in Events \ (ui.edited \cup ui.unsure) :
      ~ui.loading /\ SavesOf(e) = {}
        => /\ ui.scripts[e].text = server.scripts[e].text
           /\ TypeOf(ui.scripts[e]) = TypeOf(server.scripts[e])

(* The editor shows "Loading" only while loadEvents is under way, whose end
   takes it away (EventsEditor.jsx:261). *)
SpinnerEnds == ui.loading => T!Doing("load") # {}
=============================================================================
