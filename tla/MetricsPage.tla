---------------------------- MODULE MetricsPage ----------------------------
(***************************************************************************)
(* The metrics page (dashboard pages/Metrics.jsx).  Choosing a collection   *)
(* or a time range, and every thirty seconds a timer, starts a load: four   *)
(* requests one after the other, each shown as it comes.                    *)
(***************************************************************************)
EXTENDS Naturals, FiniteSets

CONSTANTS Names,  \* collections; "overall" and "all" may be chosen as well
          Ranges, \* the time ranges that are chosen
          None, Slots

\* Of the constants; Dashboard assumes it.
MetricsAssumption ==
    /\ {"overall", "all", None} \cap Names = {}
    /\ "24h" \in Ranges /\ Ranges \subseteq {"24h", "7d", "6m", "12m"}

VARIABLES ui, tasks,
          server  \* the collections it has metrics of

vars == <<ui, tasks, server>>

T == INSTANCE Tasks

Selections == Names \cup {"overall", "all"}
Stages == {"system", "detailed", "aggregated", "events"}

(* What a request asks for.  A collection's parameter starts with "?", also *)
(* behind the period: the server then reads one period with a garbled name. *)
Filter(selected) == IF selected \in Names THEN selected ELSE None
Period(range) ==
    CASE range = "6m" -> "daily" [] range = "12m" -> "monthly" [] OTHER -> "hourly"
PeriodQuery(selected, range) ==
    IF selected \in Names THEN [period |-> "garbled", of |-> None]
                          ELSE [period |-> Period(range), of |-> None]

Queries == [period : {"hourly", "daily", "monthly", "garbled"}, of : {None}]

TypeOK ==
    /\ {ui.loading, ui.error, ui.system, ui.asked} \subseteq BOOLEAN
    /\ ui.collections \subseteq Names \cup {"overall", "all"}
    /\ ui.selected \in Selections /\ ui.range \in Ranges
    /\ ui.detailed \in Selections \cup {None}
    /\ ui.aggregated \in Queries \cup {None}
    /\ ui.events \in Selections \cup {None}
    /\ \A s \in T!Running : /\ tasks[s].at \in Stages
                            /\ tasks[s].selected \in Selections
                            /\ tasks[s].range \in Ranges
    /\ server.measured \subseteq Names

\* fetchMetrics captures the filters of the render that started it.
Fetch(selected, range) ==
    [op |-> "load", at |-> "system", status |-> "sent",
     selected |-> selected, range |-> range]

\* asked: fetchCollections is under way.
First == [loading |-> TRUE, error |-> FALSE, asked |-> TRUE, system |-> FALSE,
          collections |-> {"all"}, selected |-> "overall", range |-> "24h",
          detailed |-> None, aggregated |-> None, events |-> None]
Mount(sv) ==
    <<First, [T!AllIdle EXCEPT ![1] = Fetch("overall", "24h")], sv>>
Starts == {Mount(sv) : sv \in [measured : SUBSET Names]}
Init == \E st \in Starts : ui = st[1] /\ tasks = st[2] /\ server = st[3]

\* Until there are numbers a spinner is drawn, and after an error only that.
Drawn == ~(ui.loading /\ ~ui.system) /\ ~ui.error

\* A change of a filter runs the effect: two requests and a new timer.
Choose(selected, range) ==
    /\ Drawn /\ T!CanRun /\ <<selected, range>> # <<ui.selected, ui.range>>
    /\ selected \in ui.collections \/ selected = ui.selected
    /\ selected = ui.selected \/ range = ui.range
    /\ ui' = [ui EXCEPT !.selected = selected, !.range = range, !.asked = TRUE,
                        !.loading = TRUE, !.error = FALSE]
    /\ T!Run(Fetch(selected, range))
    /\ UNCHANGED server

\* The timer does not wait for the load before.
Tick ==
    /\ T!CanRun
    /\ ui' = [ui EXCEPT !.loading = TRUE, !.error = FALSE]
    /\ T!Run(Fetch(ui.selected, ui.range))
    /\ UNCHANGED server

\* The answer to fetchCollections; a failure is ignored.
AfterCollections ==
    /\ ui.asked
    /\ \E ok \in BOOLEAN :
         ui' = [ui EXCEPT !.asked = FALSE,
                          !.collections = IF ok THEN server.measured \cup {"overall", "all"}
                                                ELSE @]
    /\ UNCHANGED <<tasks, server>>

\* One request is answered: what it brought is shown, the next one is sent.
Shown(u, task) ==
    CASE task.at = "system" -> [u EXCEPT !.system = TRUE]
      [] task.at = "detailed" -> [u EXCEPT !.detailed = task.selected]
      [] task.at = "aggregated" ->
           [u EXCEPT !.aggregated = PeriodQuery(task.selected, task.range),
                     !.events = IF task.selected = "all" THEN None ELSE @]
      [] task.at = "events" -> [u EXCEPT !.events = task.selected]

Following(task) ==
    CASE task.at = "system" -> "detailed"
      [] task.at = "detailed" -> "aggregated"
      [] task.at = "aggregated" /\ task.selected # "all" -> "events"
      [] OTHER -> "end"

Received(s) ==
    /\ s \in T!Running
    /\ LET next == Following(tasks[s])
       IN  IF next = "end"
             THEN /\ ui' = [Shown(ui, tasks[s]) EXCEPT !.loading = FALSE]
                  /\ T!End(s)
             ELSE /\ ui' = Shown(ui, tasks[s])
                  /\ T!Set(s, [tasks[s] EXCEPT !.at = next])
    /\ UNCHANGED server

\* A request fails and ends the load; events alone may be refused quietly.
Failed(s) ==
    /\ s \in T!Running
    /\ ui' \in {[ui EXCEPT !.loading = FALSE, !.error = e] :
                  e \in IF tasks[s].at = "events" THEN BOOLEAN ELSE {TRUE}}
    /\ T!End(s)
    /\ UNCHANGED server

User == Tick \/ \E c \in Selections, r \in Ranges : Choose(c, r)

Runs(s) == Received(s) \/ Failed(s)

Next == User \/ AfterCollections \/ \E s \in Slots : Runs(s)

Spec == Init /\ [][Next]_vars
---------------------------------------------------------------------------
(* Once loaded, the charts are "based on time range" (Metrics.jsx:109):     *)
(* they show the periods that were asked for.                               *)
ChartsMatchRange ==
    T!Quiet /\ ui.aggregated # None => ui.aggregated.period # "garbled"

(* The page shows its spinner only while fetchMetrics is under way, whose end
   takes it away (Metrics.jsx:133). *)
SpinnerEnds == ui.loading => ~T!Quiet
=============================================================================
