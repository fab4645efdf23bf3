----------------------------- MODULE Dashboard -----------------------------
(***************************************************************************)
(* The dashboard after login (dashboard App.jsx): a router that shows one   *)
(* page at a time, of those that are Offered.  React keeps the state of the *)
(* page that is shown: when another one is opened, the state is gone, the   *)
(* answers that are still on their way change nothing, and the new page     *)
(* loads what it needs from a server that others have used meanwhile.  The  *)
(* tabs of a collection's page have states of their own: one of them is     *)
(* followed at a time.                                                      *)
(***************************************************************************)
EXTENDS Naturals, FiniteSets

CONSTANTS None, Blank, Slots,
          Offered,    \* the pages that are used
          LoadSlots,  \* bound on the handlers of the settings page, which starts with three
          Numbers, Terms, Matches, PerPage,  \* the list of collections
          Names, Todos, MaxCount,            \* the start page
          Measured, Ranges,                  \* the metrics
          Users,                             \* the users
          Values, Default, Passwords,        \* the settings
          Levels, Files,                     \* the logs
          Ids, Contents, Filters, DocumentsPerPage, MaxChanges,  \* the documents
          Fields, Type, Parts, Numerals, Imports, MaxRows, MaxAsked,  \* the query builder
          Properties, Schemas, Sample, MaxUpdates,        \* the properties
          Events, Texts, Template, MaxSaves,              \* the event scripts
          Event, Mocked                                   \* an event's tester

VARIABLES shown,  \* the page; "none": the login page, or between two pages
          ui, tasks, server

vars == <<shown, ui, tasks, server>>

Home == INSTANCE HomePage
Listing == INSTANCE CollectionsPage WITH Names <- Numbers
UserAdmin == INSTANCE UsersPage
Settings == INSTANCE SettingsPage WITH Slots <- LoadSlots
Metrics == INSTANCE MetricsPage WITH Names <- Measured
Logs == INSTANCE LogsPage

Documents == INSTANCE DocumentsPage
               WITH Values <- Contents, PerPage <- DocumentsPerPage,
                    MaxUpdates <- MaxChanges
Queries == INSTANCE QueryPage
Schema == INSTANCE PropertiesPage WITH Names <- Properties
Scripts == INSTANCE EventsPage WITH MaxUpdates <- MaxSaves
Tester == INSTANCE EventTester WITH Properties <- Mocked

Pages == {"home", "collections", "users", "settings", "metrics", "logs",
          "documents", "query", "properties", "events", "tester"}

(* What the pages assume of their constants. *)
ASSUME DashboardAssumption ==
    /\ Offered \subseteq Pages
    /\ {1, 2} \subseteq Slots /\ Slots \subseteq Nat
    /\ {1, 2, 3} \subseteq LoadSlots /\ LoadSlots \subseteq Nat
    /\ Home!HomeAssumption /\ Listing!CollectionsAssumption
    /\ UserAdmin!UsersAssumption /\ Settings!SettingsAssumption
    /\ Metrics!MetricsAssumption /\ Documents!DocumentsAssumption
    /\ Queries!QueryAssumption /\ Schema!PropertiesAssumption
    /\ Scripts!EventsAssumption /\ Tester!TesterAssumption

Starts(p) ==
    CASE p = "home" -> Home!Starts
      [] p = "collections" -> Listing!Starts
      [] p = "users" -> UserAdmin!Starts
      [] p = "settings" -> Settings!Starts
      [] p = "metrics" -> Metrics!Starts
      [] p = "logs" -> Logs!Starts
      [] p = "documents" -> Documents!Starts
      [] p = "query" -> Queries!Starts
      [] p = "properties" -> Schema!Starts
      [] p = "events" -> Scripts!Starts
      [] p = "tester" -> Tester!Starts

Init ==
    /\ shown = "none"
    /\ ui = None /\ tasks = None /\ server = None

\* After login the start page, then what is asked for: the page is mounted.
Open(p) ==
    /\ shown = "none" /\ shown' = p
    /\ \E st \in Starts(p) : ui' = st[1] /\ tasks' = st[2] /\ server' = st[3]

(* The side bar, a tile, the browser's history; or the user logs out, or a  *)
(* request is answered with 401: see Session.                               *)
Leave ==
    /\ shown # "none" /\ shown' = "none"
    /\ ui' = None /\ tasks' = None /\ server' = None

User ==
    \/ shown = "home" /\ Home!User
    \/ shown = "collections" /\ Listing!User
    \/ shown = "users" /\ UserAdmin!User
    \/ shown = "settings" /\ Settings!User
    \/ shown = "metrics" /\ Metrics!User
    \/ shown = "logs" /\ Logs!User
    \/ shown = "documents" /\ Documents!User
    \/ shown = "query" /\ Queries!User
    \/ shown = "properties" /\ Schema!User
    \/ shown = "events" /\ Scripts!User
    \/ shown = "tester" /\ Tester!User

\* A handler runs on, or its request is served.
Runs(s) ==
    /\ UNCHANGED shown
    /\ \/ shown = "home" /\ s \in Slots /\ Home!Runs(s)
       \/ shown = "collections" /\ s \in Slots /\ Listing!Runs(s)
       \/ shown = "users" /\ s \in Slots /\ UserAdmin!Runs(s)
       \/ shown = "settings" /\ s \in LoadSlots /\ Settings!Runs(s)
       \/ shown = "metrics" /\ s \in Slots /\ Metrics!Runs(s)
       \/ shown = "logs" /\ s \in Slots /\ Logs!Runs(s)
       \/ shown = "documents" /\ s \in Slots /\ Documents!Runs(s)
       \/ shown = "query" /\ s \in Slots /\ Queries!Runs(s)
       \/ shown = "properties" /\ s \in Slots /\ Schema!Runs(s)
       \/ shown = "events" /\ s \in Slots /\ Scripts!Runs(s)
       \/ shown = "tester" /\ s \in Slots /\ Tester!Runs(s)

\* What others do on the server, and answers no handler waits for.
Others ==
    \/ shown = "home" /\ \E n \in Names : Home!Others(n)
    \/ shown = "collections" /\ \E n \in Numbers : Listing!Others(n)
    \/ shown = "users" /\ \E u \in Users : UserAdmin!Others(u)
    \/ shown = "metrics" /\ Metrics!AfterCollections
    \/ shown = "logs" /\ Logs!AfterFiles
    \/ shown = "documents" /\ \E i \in Ids : Documents!Others(i)
    \/ shown = "query" /\ Queries!Feedback

Next ==
    \/ Leave \/ \E p \in Offered : Open(p)
    \/ (User \/ Others) /\ UNCHANGED shown
    \/ \E s \in Slots \cup LoadSlots : Runs(s)

Spec == Init /\ [][Next]_vars

---------------------------------------------------------------------------
(* The state is the state of the page that is shown, of its type.           *)
TypeOK ==
    /\ shown \in Offered \cup {"none"}
    /\ shown = "home" => Home!TypeOK
    /\ shown = "collections" => Listing!TypeOK
    /\ shown = "users" => UserAdmin!TypeOK
    /\ shown = "settings" => Settings!TypeOK
    /\ shown = "metrics" => Metrics!TypeOK
    /\ shown = "logs" => Logs!TypeOK
    /\ shown = "documents" => Documents!TypeOK
    /\ shown = "query" => Queries!TypeOK
    /\ shown = "properties" => Schema!TypeOK
    /\ shown = "events" => Scripts!TypeOK
    /\ shown = "tester" => Tester!TypeOK

(* What a page shows is what the server has when nothing disturbed it: the  *)
(* collections, the documents, the properties and the scripts of one; see   *)
(* the pages' modules (Collections.jsx:90, CollectionDetail.jsx:225,        *)
(* PropertiesEditor.jsx:162, EventsEditor.jsx:247).                         *)
InStep ==
    /\ shown = "collections" => Listing!ListInStep
    /\ shown = "documents" => Documents!DocumentsInStep
    /\ shown = "properties" => Schema!SchemaInStep
    /\ shown = "events" => Scripts!ScriptsInStep

(* Rows that are dragged, and rows that are added, come to stand where they *)
(* should: see PropertiesPage!RowsAsArranged (PropertiesEditor.jsx:156).    *)
RowsAsArranged == shown = "properties" => Schema!RowsAsArranged

(* Builder and page pass the query on to one another without changing it,   *)
(* but for two kinds of conditions: see QueryPage!QuerySurvives             *)
(* (VisualQueryBuilder.jsx:38, 290).                                        *)
QuerySurvives == shown = "query" => Queries!QuerySurvives

(* The same of every query, which a number field's $exists refutes: see     *)
(* QueryPage!EveryQuerySurvives (VisualQueryBuilder.jsx:239).               *)
EveryQuerySurvives == shown = "query" => Queries!EveryQuerySurvives

(* "Add a new condition": see QueryPage!AddedConditionStays                 *)
(* (VisualQueryBuilder.jsx:119).                                            *)
AddedConditionStays ==
    [][shown = "query" /\ shown' = "query" => Queries!KeepsConditions]_vars

(* "Reset to first page if current page would be empty": see                *)
(* DocumentsPage!LeavesRows (CollectionDetail.jsx:228).                     *)
DeletionLeavesRows ==
    [][shown = "documents" /\ shown' = "documents" => Documents!LeavesRows]_vars

(* No user's record gets the data of another: see UsersPage!NoForeignData   *)
(* (Users.jsx:189).                                                         *)
NoForeignData == shown = "users" => UserAdmin!NoForeignData

(* The save buttons of the settings work one at a time: see                 *)
(* SettingsPage!SavesOneByOne (Settings.jsx:153).                           *)
SavesOneByOne == shown = "settings" => Settings!SavesOneByOne

(* Saving settings never takes the mail password away: see                  *)
(* SettingsPage!KeepsPassword (Settings.jsx:841).                           *)
PasswordKept ==
    [][shown = "settings" /\ shown' = "settings" => Settings!KeepsPassword]_vars

(* The charts show the periods that were asked for: see                     *)
(* MetricsPage!ChartsMatchRange (Metrics.jsx:109).                          *)
ChartsMatchRange == shown = "metrics" => Metrics!ChartsMatchRange

(* No page keeps its spinner for ever, whatever fails and however loads     *)
(* overlap: a load that will take it away is under way.                     *)
SpinnerEnds ==
    /\ shown = "home" => Home!SpinnerEnds
    /\ shown = "collections" => Listing!SpinnerEnds
    /\ shown = "users" => UserAdmin!SpinnerEnds
    /\ shown = "settings" => Settings!SpinnerEnds
    /\ shown = "metrics" => Metrics!SpinnerEnds
    /\ shown = "logs" => Logs!SpinnerEnds
    /\ shown = "documents" => Documents!SpinnerEnds
    /\ shown = "query" => Queries!SpinnerEnds
    /\ shown = "events" => Scripts!SpinnerEnds
    /\ shown = "tester" => Tester!SpinnerEnds
=============================================================================
