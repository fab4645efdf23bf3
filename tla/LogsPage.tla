------------------------------ MODULE LogsPage ------------------------------
(***************************************************************************)
(* The logs page (dashboard pages/Logs.jsx): the level and the file that    *)
(* are chosen load the entries again.                                       *)
(***************************************************************************)
EXTENDS Naturals, FiniteSets

CONSTANTS Levels, Files, None, Slots

VARIABLES ui, tasks,
          server  \* the log files that exist

vars == <<ui, tasks, server>>

T == INSTANCE Tasks

LevelChoices == Levels \cup {"all"}
FileChoices == Files \cup {"current"}
LogFilters == LevelChoices \X FileChoices

TypeOK ==
    /\ {ui.loading, ui.asked} \subseteq BOOLEAN
    /\ ui.level \in LevelChoices /\ ui.file \in FileChoices
    /\ ui.files \subseteq Files
    /\ ui.logs \in LogFilters \cup {None}
    /\ \A s \in T!Running : /\ tasks[s].op \in {"load", "download"}
                            /\ tasks[s].filters \in LogFilters
    /\ server.files \subseteq Files

Task(op, filters) ==
    [op |-> op, at |-> "request", status |-> "sent", filters |-> filters]

\* logs: the filters whose entries are listed; asked: loadLogFiles runs.
First == [loading |-> TRUE, logs |-> None, level |-> "all", file |-> "current",
          files |-> {}, asked |-> TRUE]
Mount(sv) ==
    <<First, [T!AllIdle EXCEPT ![1] = Task("load", <<"all", "current">>)], sv>>
Starts == {Mount(sv) : sv \in [files : SUBSET Files]}
Init == \E st \in Starts : ui = st[1] /\ tasks = st[2] /\ server = st[3]

\* The selects stay enabled during a load: loads may overlap.
Choose(level, file) ==
    /\ T!CanRun /\ <<level, file>> # <<ui.level, ui.file>>
    /\ level = ui.level \/ file = ui.file
    /\ file \in ui.files \cup {"current", ui.file}
    /\ ui' = [ui EXCEPT !.level = level, !.file = file, !.loading = TRUE,
                        !.asked = TRUE]
    /\ T!Run(Task("load", <<level, file>>))
    /\ UNCHANGED server

Refresh ==
    /\ ~ui.loading /\ T!CanRun
    /\ ui' = [ui EXCEPT !.loading = TRUE]
    /\ T!Run(Task("load", <<ui.level, ui.file>>))
    /\ UNCHANGED server

Download ==
    /\ T!CanRun
    /\ T!Run(Task("download", <<ui.level, ui.file>>))
    /\ UNCHANGED <<ui, server>>

AfterFiles ==
    /\ ui.asked
    /\ ui' \in {[ui EXCEPT !.asked = FALSE, !.files = fs] : fs \in {server.files, ui.files}}
    /\ UNCHANGED <<tasks, server>>

\* The answer; a failure leaves the entries that are listed.
AfterLoad(s) ==
    /\ s \in T!Doing("load")
    /\ \E ok \in BOOLEAN :
         ui' = [ui EXCEPT !.loading = FALSE,
                          !.logs = IF ok THEN tasks[s].filters ELSE @]
    /\ T!End(s)
    /\ UNCHANGED server

\* The browser saves the file; a failure is a toast or nothing.
AfterDownload(s) ==
    /\ s \in T!Doing("download")
    /\ T!End(s)
    /\ UNCHANGED <<ui, server>>

User ==
    \/ \E l \in LevelChoices, f \in FileChoices : Choose(l, f)
    \/ Refresh \/ Download

Runs(s) == AfterLoad(s) \/ AfterDownload(s)

Next == User \/ AfterFiles \/ \E s \in Slots : Runs(s)

Spec == Init /\ [][Next]_vars
---------------------------------------------------------------------------
(* The page shows its spinner only while loadLogs is under way, whose end
   takes it away (Logs.jsx:98). *)
SpinnerEnds == ui.loading => T!Doing("load") # {}
=============================================================================
