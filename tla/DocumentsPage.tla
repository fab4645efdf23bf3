--------------------------- MODULE DocumentsPage ---------------------------
(***************************************************************************)
(* The documents of a collection: the Data tab of dashboard pages/          *)
(* CollectionDetail.jsx and its dialog, components/DocumentModal.jsx.       *)
(* Documents have numbers for ids and one required field.  The search text  *)
(* and the filters of the columns are one filter on that field; the table   *)
(* is sorted by id, as it is at first: another order only permutes it.  A   *)
(* handler that awaits an answer goes on with the documents and the page    *)
(* number of the render it was made in.                                     *)
(***************************************************************************)
EXTENDS Naturals, FiniteSets

CONSTANTS Ids, Values, None, Slots,
          Filters,    \* the values that are searched for
          PerPage,    \* documentsPerPage
          MaxUpdates  \* bound on the changes and reloads

\* Of the constants; Dashboard assumes it.
DocumentsAssumption ==
    /\ Ids \subseteq Nat /\ IsFiniteSet(Ids)
    /\ None \notin Ids \cup Values /\ Values # {}
    /\ Filters \subseteq Values /\ PerPage \in Nat \ {0} /\ MaxUpdates \in Nat

VARIABLES ui, tasks,
          server  \* its documents

vars == <<ui, tasks, server>>

T == INSTANCE Tasks

Ops == {"load", "create", "update", "delete"}
IsDocuments(d) == DOMAIN d \subseteq Ids /\ \A i \in DOMAIN d : d[i] \in Values
NoDocuments == [i \in {} |-> None]

TypeOK ==
    /\ IsDocuments(ui.documents) /\ IsDocuments(server.documents)
    /\ {ui.loading, ui.open, ui.stale} \subseteq BOOLEAN
    /\ ui.editing \in Ids \cup {None}
    /\ {ui.form, ui.filter} \subseteq Values \cup {None}
    /\ ui.page \in 1..(Cardinality(Ids) + 1) /\ ui.updates \in 0..MaxUpdates
    /\ \A s \in T!Running :
         /\ tasks[s].op \in Ops /\ tasks[s].at = "request"
         /\ tasks[s].id \in Ids \cup {None}
         /\ tasks[s].form \in Values \cup {None}
         /\ IsDocuments(tasks[s].documents) /\ IsDocuments(tasks[s].data)
         /\ tasks[s].page \in 1..(Cardinality(Ids) + 1)

\* documents and page are what the handler captured.
Task(op, id, form, u) ==
    [op |-> op, id |-> id, form |-> form, documents |-> u.documents, page |-> u.page,
     at |-> "request", status |-> "sent", data |-> NoDocuments]

(* The first render and its effect; stale is a history variable: see        *)
(* DocumentsInStep.                                                         *)
First ==
    [documents |-> NoDocuments, loading |-> TRUE, editing |-> None, form |-> None,
     open |-> FALSE, filter |-> None, page |-> 1, stale |-> FALSE,
     updates |-> 0]

Starts ==
    {<<First, [T!AllIdle EXCEPT ![1] = Task("load", None, None, First)],
       [documents |-> d]>> : d \in UNION {[S -> Values] : S \in SUBSET Ids}}
Init == \E st \in Starts : ui = st[1] /\ tasks = st[2] /\ server = st[3]

---------------------------------------------------------------------------
(* What is drawn.                                                           *)

PageIsUsed == ~ui.loading /\ ~ui.open
DialogIsUsed == ~ui.loading /\ ui.open

Filtered ==
    {i \in DOMAIN ui.documents : ui.filter = None \/ ui.documents[i] = ui.filter}

Pages(n) == (n + PerPage - 1) \div PerPage

\* getSortedDocuments: the rows of the current page.
Rows ==
    {i \in Filtered :
       LET before == Cardinality({j \in Filtered : j < i})
       IN  before \div PerPage = ui.page - 1}

---------------------------------------------------------------------------

Refresh ==
    /\ PageIsUsed /\ T!CanRun /\ ui.updates < MaxUpdates
    /\ ui' = [ui EXCEPT !.loading = TRUE, !.stale = ~T!Quiet, !.updates = @ + 1]
    /\ T!Run(Task("load", None, None, ui))
    /\ UNCHANGED server

\* The page number stays, also when the filter leaves fewer pages.
Search(v) ==
    /\ PageIsUsed /\ v # ui.filter
    /\ ui' = [ui EXCEPT !.filter = v]
    /\ UNCHANGED <<tasks, server>>

PageChange(p) ==
    /\ PageIsUsed /\ p # ui.page
    /\ Pages(Cardinality(Filtered)) > 1 /\ p \in 1..Pages(Cardinality(Filtered))
    /\ ui' = [ui EXCEPT !.page = p]
    /\ UNCHANGED <<tasks, server>>

(* The dialog opens: its effect fills the form in, with the document, or    *)
(* with default values, which the required field has none of.               *)
CreateDocument ==
    /\ PageIsUsed
    /\ ui' = [ui EXCEPT !.editing = None, !.form = None, !.open = TRUE]
    /\ UNCHANGED <<tasks, server>>

EditDocument(i) ==
    /\ PageIsUsed /\ i \in Rows
    /\ ui' = [ui EXCEPT !.editing = i, !.form = ui.documents[i], !.open = TRUE]
    /\ UNCHANGED <<tasks, server>>

FieldChange(v) ==
    /\ DialogIsUsed /\ v # ui.form
    /\ ui' = [ui EXCEPT !.form = v]
    /\ UNCHANGED <<tasks, server>>

\* What is left in the form does not matter: the next opening fills it in.
Closed(u) == [u EXCEPT !.open = FALSE, !.editing = None, !.form = None]

Close ==
    /\ DialogIsUsed /\ ui' = Closed(ui) /\ UNCHANGED <<tasks, server>>

Sends(task) ==
    /\ T!CanRun /\ ui.updates < MaxUpdates
    /\ T!Run(task)
    /\ ui' = [ui EXCEPT !.stale = @ \/ ~T!Quiet, !.updates = @ + 1]
    /\ UNCHANGED server

(* handleSave: the required field must be there.  The dialog stays open and *)
(* its button enabled while the answer is awaited.                          *)
SaveDocument ==
    /\ DialogIsUsed /\ ui.form # None
    /\ Sends(Task(IF ui.editing = None THEN "create" ELSE "update",
                  ui.editing, ui.form, ui))

\* The user has confirmed.
DeleteDocument(i) ==
    /\ PageIsUsed /\ i \in Rows
    /\ Sends(Task("delete", i, None, ui))

---------------------------------------------------------------------------
(* The server: a new document gets an id; what is gone cannot be changed or *)
(* deleted; an answer may be lost.                                          *)

With(documents, i, v) ==
    [j \in DOMAIN documents \cup {i} |-> IF j = i THEN v ELSE documents[j]]
Less(documents, i) == [j \in DOMAIN documents \ {i} |-> documents[j]]

Exists(i) == i \in DOMAIN server.documents

Changed(task, i) ==
    [documents |-> IF task.op = "delete" THEN Less(server.documents, i)
                                         ELSE With(server.documents, i, task.form)]

Serve(s) ==
    /\ T!Waits(s, "request")
    /\ LET t == tasks[s] IN
       IF t.op = "load"
         THEN (T!Reply(s, server.documents) \/ T!Fail(s)) /\ UNCHANGED server
         ELSE \/ \E i \in Ids :
                   /\ IF t.op = "create" THEN ~Exists(i) ELSE Exists(i) /\ i = t.id
                   /\ server' = Changed(t, i)
                   /\ \/ T!Reply(s, IF t.op = "delete" THEN NoDocuments
                                    ELSE [j \in {i} |-> t.form])
                      \/ T!Fail(s)
              \/ T!Fail(s) /\ UNCHANGED server
    /\ UNCHANGED ui

\* Other clients of the collection.
Others(i) ==
    /\ server' = [documents |-> IF Exists(i) THEN Less(server.documents, i)
                                ELSE With(server.documents, i, CHOOSE v \in Values : TRUE)]
    /\ ~ui.stale /\ ui' = [ui EXCEPT !.stale = TRUE]
    /\ UNCHANGED tasks

---------------------------------------------------------------------------

\* loadCollectionData ends: a failure is read as no documents.
AfterLoad(s) ==
    /\ T!Back(s, "request") /\ tasks[s].op = "load"
    /\ ui' = [ui EXCEPT !.documents = tasks[s].data, !.loading = FALSE,
                        !.stale = @ \/ ~T!Ok(s)]
    /\ T!End(s)
    /\ UNCHANGED server

\* Mutant: the answer to a creation is not added.
SavedIn_EditsOnly(task) ==
    [i \in DOMAIN task.documents |->
       IF i \in DOMAIN task.data THEN task.data[i] ELSE task.documents[i]]

(* The captured documents with the one that was answered: it is added when  *)
(* it was created; an update changes it if it is there.                     *)
SavedIn(task) ==
    LET added == IF task.op = "create" THEN DOMAIN task.data ELSE {}
    IN  [i \in DOMAIN task.documents \cup added |->
           IF i \in DOMAIN task.data THEN task.data[i] ELSE task.documents[i]]

\* handleSaveDocument ends: it closes the dialog that is open now.
AfterSave(s) ==
    /\ T!Back(s, "request") /\ tasks[s].op \in {"create", "update"}
    /\ ui' = IF T!Ok(s)
               THEN [Closed(ui) EXCEPT
                       !.documents = SavedIn(tasks[s])]
               ELSE [ui EXCEPT !.stale = TRUE]
    /\ T!End(s)
    /\ UNCHANGED server

\* Mutant: also without any page left.
PageAfter_Zero(captured, total, page) == IF captured > total THEN total ELSE page

(* The page number after a deletion: captured is the one when it began, and *)
(* total counts the pages without looking at the filter.                    *)
PageAfter(captured, total, page) ==
    IF captured > total /\ total > 0 THEN total ELSE page

\* handleDeleteDocument ends.
AfterDelete(s) ==
    /\ T!Back(s, "request") /\ tasks[s].op = "delete"
    /\ LET left == Less(tasks[s].documents, tasks[s].id)
           total == Pages(Cardinality(DOMAIN left))
       IN  ui' = IF ~T!Ok(s) THEN [ui EXCEPT !.stale = TRUE]
                 ELSE [ui EXCEPT !.documents = left,
                                 !.page = PageAfter(tasks[s].page, total, @)]
    /\ T!End(s)
    /\ UNCHANGED server

User ==
    \/ Refresh \/ CreateDocument \/ Close \/ SaveDocument
    \/ \E v \in Values \cup {None} : FieldChange(v)
    \/ \E v \in Filters \cup {None} : Search(v)
    \/ \E p \in 1..Cardinality(Ids) : PageChange(p)
    \/ \E i \in Ids : EditDocument(i) \/ DeleteDocument(i)

Runs(s) == Serve(s) \/ AfterLoad(s) \/ AfterSave(s) \/ AfterDelete(s)

Next == User \/ (\E s \in Slots : Runs(s)) \/ \E i \in Ids : Others(i)

Spec == Init /\ [][Next]_vars
---------------------------------------------------------------------------
(* With nothing under way the table has the documents of the collection,    *)
(* as they are, after any changes made one after the other, unless since    *)
(* the last load a request failed or overlapped another one, or another     *)
(* client changed the collection (CollectionDetail.jsx:225, 256, 269).      *)
DocumentsInStep == T!Quiet /\ ~ui.stale => ui.documents = server.documents

(* "Reset to first page if current page would be empty": when a deletion    *)
(* ends on the page where it began, and a document passes the filter, there *)
(* is a row (CollectionDetail.jsx:228).                                     *)
LeavesRows ==
    \A s \in Slots :
      AfterDelete(s) /\ tasks[s].page = ui.page /\ Rows # {} /\ Filtered' # {} => Rows' # {}
DeletionLeavesRows == [][LeavesRows]_vars

(* The page shows its spinner only while loadCollectionData is under way,
   whose end takes it away (CollectionDetail.jsx:123). *)
SpinnerEnds == ui.loading => T!Doing("load") # {}
=============================================================================
