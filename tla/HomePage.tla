------------------------------ MODULE HomePage ------------------------------
(***************************************************************************)
(* The start page (dashboard pages/Dashboard.jsx): one load asks for the    *)
(* collections, the server's description and the metrics, then counts the   *)
(* documents of each collection.  A request that fails is replaced by       *)
(* something to show, so the page never shows an error.                     *)
(***************************************************************************)
EXTENDS Naturals, FiniteSets

CONSTANTS Names, Todos,  \* collections; the one shown when there is none
          MaxCount, None, Slots

\* Of the constants; Dashboard assumes it.
HomeAssumption == Todos \in Names /\ MaxCount \in Nat

VARIABLES ui, tasks,
          server  \* the documents of each collection; None: no collection

vars == <<ui, tasks, server>>

T == INSTANCE Tasks

Counts == 0..MaxCount
Stats == UNION {[S -> Counts] : S \in SUBSET Names}
Exist == {n \in Names : server.documents[n] # None}

TypeOK ==
    /\ ui.loading \in BOOLEAN /\ ui.info \in {None, "server", "mock"}
    /\ ui.stats \in Stats /\ ui.metrics \in BOOLEAN
    /\ \A s \in T!Running :
         /\ tasks[s].at \in {"lists", "counts"}
         /\ tasks[s].pending \subseteq Names /\ tasks[s].data \in Stats
    /\ server.documents \in [Names -> Counts \cup {None}]

\* pending: the collections not counted yet; data: the counts.
Load == [op |-> "load", at |-> "lists", status |-> "sent", pending |-> {},
         data |-> << >>, info |-> None, metrics |-> FALSE]

First == [loading |-> TRUE, stats |-> << >>, info |-> None, metrics |-> FALSE]
Mount(sv) == <<First, [T!AllIdle EXCEPT ![1] = Load], sv>>
Starts == {Mount(sv) : sv \in [documents : [Names -> Counts \cup {None}]]}
Init == \E st \in Starts : ui = st[1] /\ tasks = st[2] /\ server = st[3]

\* The refresh button, which is not drawn while a load runs.
Refresh ==
    /\ ~ui.loading /\ T!CanRun
    /\ ui' = [ui EXCEPT !.loading = TRUE]
    /\ T!Run(Load)
    /\ UNCHANGED server

(* Promise.all of three requests: each that fails has its replacement; the  *)
(* page then counts the collections, or those of a made-up one.             *)
Lists(s) ==
    /\ T!Waits(s, "lists")
    /\ \E got \in {Exist, {}}, info \in {"server", "mock"}, m \in BOOLEAN :
         T!Set(s, [tasks[s] EXCEPT !.at = "counts", !.info = info, !.metrics = m,
                                   !.pending = IF got = {} THEN {Todos} ELSE got])
    /\ UNCHANGED <<ui, server>>

(* One collection is counted by the server, or by the length of the list of *)
(* its documents; when both requests fail, it has none.                     *)
Count(s, n) ==
    /\ T!Waits(s, "counts") /\ n \in tasks[s].pending
    /\ \E c \in {0, IF n \in Exist THEN server.documents[n] ELSE 0} :
         T!Set(s, [tasks[s] EXCEPT
                     !.pending = @ \ {n},
                     !.data = [m \in DOMAIN @ \cup {n} |->
                                 IF m = n THEN c ELSE @[m]]])
    /\ UNCHANGED <<ui, server>>

AfterLoad(s) ==
    /\ T!Waits(s, "counts") /\ tasks[s].pending = {}
    /\ ui' = [loading |-> FALSE, stats |-> tasks[s].data,
              info |-> tasks[s].info, metrics |-> tasks[s].metrics]
    /\ T!End(s)
    /\ UNCHANGED server

\* Documents and collections come and go.
Others(n) ==
    /\ server' \in {[server EXCEPT !.documents[n] = c] : c \in Counts \cup {None}}
    /\ UNCHANGED <<ui, tasks>>

User == Refresh

Runs(s) == Lists(s) \/ (\E n \in Names : Count(s, n)) \/ AfterLoad(s)

Next == User \/ (\E s \in Slots : Runs(s)) \/ \E n \in Names : Others(n)

Spec == Init /\ [][Next]_vars
---------------------------------------------------------------------------
(* The page shows its spinner only while loadDashboardData is under way, whose end
   takes it away (Dashboard.jsx:122). *)
SpinnerEnds == ui.loading => ~T!Quiet
=============================================================================
