-------------------------- MODULE CollectionsPage --------------------------
(***************************************************************************)
(* The page that lists the collections (dashboard pages/Collections.jsx).   *)
(* Collections are numbers: the server lists them in that order.            *)
(***************************************************************************)
EXTENDS Naturals, FiniteSets

CONSTANTS Names, None, Slots,
          Terms, Matches,  \* search terms; the names each one matches
          PerPage          \* collectionsPerPage

\* Of the constants; Dashboard assumes it.
CollectionsAssumption ==
    /\ Names \subseteq Nat /\ IsFiniteSet(Names) /\ None \notin Names \cup Terms
    /\ Matches \in [Terms -> SUBSET Names] /\ PerPage \in Nat \ {0}

VARIABLES ui, tasks,
          server  \* its collections

vars == <<ui, tasks, server>>

T == INSTANCE Tasks

Ops == {"load", "create", "delete"}
TypeOK ==
    /\ ui.all \subseteq Names /\ ui.filtered \subseteq ui.all
    /\ ui.search \in Terms \cup {None} /\ ui.page \in 1..(Cardinality(Names) + 1)
    /\ ui.newName \in Names \cup {None}
    /\ {ui.loading, ui.open, ui.stale} \subseteq BOOLEAN
    /\ \A s \in T!Running : /\ tasks[s].op \in Ops
                            /\ tasks[s].at \in {"change", "list"}
                            /\ tasks[s].data \subseteq Names
    /\ server.collections \subseteq Names

Task(op, name, at) ==
    [op |-> op, name |-> name, at |-> at, status |-> "sent", data |-> {}]

(* The first render and its effect, which loads the list.  stale is a       *)
(* history variable: see ListInStep.                                        *)
First == [loading |-> TRUE, all |-> {}, filtered |-> {}, search |-> None,
          page |-> 1, newName |-> None, open |-> FALSE, stale |-> FALSE]

Mount(sv) ==
    <<First, [T!AllIdle EXCEPT ![1] = Task("load", None, "list")], sv>>
Starts == {Mount(sv) : sv \in [collections : SUBSET Names]}
Init == \E st \in Starts : ui = st[1] /\ tasks = st[2] /\ server = st[3]

---------------------------------------------------------------------------

Filter(all, term) == IF term = None THEN all ELSE all \cap Matches[term]

TotalPages(filtered) == (Cardinality(filtered) + PerPage - 1) \div PerPage

\* filteredCollections.slice(...): the collections of the current page.
Current ==
    {n \in ui.filtered :
       LET before == Cardinality({m \in ui.filtered : m < n})
       IN  before \div PerPage = ui.page - 1}

\* The list is replaced: the effect filters it and goes to the first page.
Shows(u, list) ==
    [u EXCEPT !.all = list, !.filtered = Filter(list, u.search), !.page = 1]

\* setLoading(true) and the request of loadCollections.
Loading(u) == [u EXCEPT !.loading = TRUE, !.stale = @ \/ T!At("list") # {}]

\* What is drawn, and so what may be used: the page or its open dialog.
PageIsUsed == ~ui.loading /\ ~ui.open
DialogIsUsed == ~ui.loading /\ ui.open

---------------------------------------------------------------------------

Search(term) ==
    /\ PageIsUsed /\ term # ui.search
    /\ ui' = [ui EXCEPT !.search = term, !.filtered = Filter(ui.all, term),
                        !.page = 1]
    /\ UNCHANGED <<tasks, server>>

PageTo(p) ==
    /\ PageIsUsed /\ TotalPages(ui.filtered) > 1
    /\ p \in 1..TotalPages(ui.filtered) /\ p # ui.page
    /\ ui' = [ui EXCEPT !.page = p]
    /\ UNCHANGED <<tasks, server>>

Refresh ==
    /\ PageIsUsed /\ T!CanRun
    /\ ui' = [ui EXCEPT !.loading = TRUE,
                        !.stale = ~T!Quiet /\ (@ \/ T!At("list") # {})]
    /\ T!Run(Task("load", None, "list"))
    /\ UNCHANGED server

\* Closing the dialog keeps the name that was typed.
OpenDialog ==
    /\ PageIsUsed /\ ui' = [ui EXCEPT !.open = TRUE] /\ UNCHANGED <<tasks, server>>

CloseDialog ==
    /\ DialogIsUsed /\ ui' = [ui EXCEPT !.open = FALSE] /\ UNCHANGED <<tasks, server>>

TypeName(n) ==
    /\ DialogIsUsed /\ n # ui.newName
    /\ ui' = [ui EXCEPT !.newName = n]
    /\ UNCHANGED <<tasks, server>>

\* The button stays enabled: a second click creates once more.
Create ==
    /\ DialogIsUsed /\ ui.newName # None /\ T!CanRun
    /\ T!Run(Task("create", ui.newName, "change"))
    /\ UNCHANGED <<ui, server>>

\* The user has confirmed.
Delete(n) ==
    /\ PageIsUsed /\ n \in Current /\ T!CanRun
    /\ T!Run(Task("delete", n, "change"))
    /\ UNCHANGED <<ui, server>>

(* The server: admin.go creates over what exists and deletes what may be    *)
(* gone; the answer may be lost.                                            *)
Changed(task) ==
    [collections |-> IF task.op = "create"
                       THEN server.collections \cup {task.name}
                       ELSE server.collections \ {task.name}]

Serve(s) ==
    \/ /\ T!Waits(s, "change")
       /\ \/ server' = Changed(tasks[s]) /\ T!Reply(s, {})
          \/ server' \in {server, Changed(tasks[s])} /\ T!Fail(s)
       /\ UNCHANGED ui
    \/ /\ T!Waits(s, "list")
       /\ T!Reply(s, server.collections) \/ T!Fail(s)
       /\ UNCHANGED <<ui, server>>

\* Another administrator.
Others(n) ==
    /\ \E made \in BOOLEAN :
         server' = Changed([op |-> IF made THEN "create" ELSE "delete", name |-> n])
    /\ server' # server
    /\ ui' = [ui EXCEPT !.stale = TRUE]
    /\ UNCHANGED tasks

\* What is left of a handler that loads the list: only a creation goes on.
Reloading(op) == Task(IF op = "create" THEN op ELSE "load", None, "list")

\* After the change: the list is loaded again; an error is only a toast.
AfterChange(s) ==
    /\ T!Back(s, "change")
    /\ IF T!Ok(s)
         THEN /\ ui' = Loading(ui)
              /\ T!Set(s, Reloading(tasks[s].op))
         ELSE ui' = [ui EXCEPT !.stale = TRUE] /\ T!End(s)
    /\ UNCHANGED server

(* The end of loadCollections, an error read as an empty list, and of the   *)
(* handler that waits for it: a creation closes the dialog that is open.    *)
AfterList(s) ==
    /\ T!Back(s, "list")
    /\ LET shown == [Shows(ui, tasks[s].data) EXCEPT
                       !.loading = FALSE, !.stale = @ \/ ~T!Ok(s)]
       IN  ui' = IF tasks[s].op = "create"
                   THEN [shown EXCEPT !.newName = None, !.open = FALSE] ELSE shown
    /\ T!End(s)
    /\ UNCHANGED server

User ==
    \/ \E t \in Terms \cup {None} : Search(t)
    \/ \E p \in 1..Cardinality(Names) : PageTo(p)
    \/ Refresh \/ OpenDialog \/ CloseDialog \/ Create
    \/ \E n \in Names : TypeName(n) \/ Delete(n)

Runs(s) == Serve(s) \/ AfterChange(s) \/ AfterList(s)

Next == User \/ (\E s \in Slots : Runs(s)) \/ \E n \in Names : Others(n)

Spec == Init /\ [][Next]_vars
---------------------------------------------------------------------------
(* With nothing under way the page lists the collections that exist, after  *)
(* any sequence of creations and deletions, unless since it was last loaded *)
(* alone two list requests overlapped, one request failed, or someone else  *)
(* changed the collections (Collections.jsx:90, 124, 155).                  *)
ListInStep == T!Quiet /\ ~ui.stale => ui.all = server.collections

(* The page shows its spinner only while loadCollections is under way, whose end
   takes it away (Collections.jsx:105). *)
SpinnerEnds == ui.loading => T!At("list") # {}
=============================================================================
