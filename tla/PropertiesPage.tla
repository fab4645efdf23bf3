--------------------------- MODULE PropertiesPage ---------------------------
(***************************************************************************)
(* The properties of a collection (dashboard components/PropertiesEditor    *)
(* .jsx, and what CollectionDetail.jsx does with the result).  Names are    *)
(* numbers, compared as localeCompare compares them; of a property its      *)
(* place and whether the system owns it matter.  Every change sends the     *)
(* whole set of properties as this page knows it.                           *)
(***************************************************************************)
EXTENDS Naturals, FiniteSets

CONSTANTS Names, None, Slots,
          Schemas,   \* what the server may have at the start
          Sample,    \* mockCollection: what is shown when the load failed
          MaxUpdates \* bound on the updates sent

Property == [order : Nat, system : BOOLEAN]
IsSchema(p) == DOMAIN p \subseteq Names /\ p \in [DOMAIN p -> Property]

\* Of the constants; Dashboard assumes it.
PropertiesAssumption ==
    /\ Names \subseteq Nat /\ IsFiniteSet(Names) /\ None \notin Names
    /\ MaxUpdates \in Nat
    /\ \A p \in Schemas \cup {Sample} : IsSchema(p)

VARIABLES ui, tasks,
          server  \* its properties

vars == <<ui, tasks, server>>

T == INSTANCE Tasks

TypeOK ==
    /\ IsSchema(ui.known) /\ IsSchema(server.properties)
    /\ {ui.editing, ui.name, ui.dragged} \subseteq Names \cup {None}
    /\ {ui.open, ui.stale} \subseteq BOOLEAN /\ ui.updates \in 0..MaxUpdates
    /\ \A s \in T!Running : /\ tasks[s].op \in {"save", "delete", "drop"}
                            /\ tasks[s].at = "update"
                            /\ {tasks[s].what, tasks[s].where} \subseteq Names \cup {None}
                            /\ IsSchema(tasks[s].from) /\ IsSchema(tasks[s].sent)

(* from is the set of properties the handler started from.                  *)
Task(op, what, where, sent) ==
    [op |-> op, what |-> what, where |-> where, from |-> ui.known, sent |-> sent,
     at |-> "update", status |-> "sent", data |-> None]

(* The collection has been loaded, or not.  stale is a history variable:    *)
(* see SchemaInStep.                                                        *)
First(known, stale) ==
    [known |-> known, editing |-> None, name |-> None, open |-> FALSE,
     dragged |-> None, stale |-> stale, updates |-> 0]

Starts ==
    UNION {{<<First(p, FALSE), T!AllIdle, [properties |-> p]>>,
            <<First(Sample, TRUE), T!AllIdle, [properties |-> p]>>} : p \in Schemas}
Init == \E st \in Starts : ui = st[1] /\ tasks = st[2] /\ server = st[3]

---------------------------------------------------------------------------
(* The table: rows by order, then by name; those of the system cannot be    *)
(* dragged, edited or deleted.                                              *)

Before(p, m, n) ==
    \/ p[m].order < p[n].order
    \/ p[m].order = p[n].order /\ m < n

Moveable(p) == {n \in DOMAIN p : ~p[n].system}

\* Where a row stands among the rows that can be moved, from 1.
Place(p, n) == Cardinality({m \in Moveable(p) : Before(p, m, n)}) + 1

Without(p, names) == [n \in DOMAIN p \ names |-> p[n]]

\* Mutant: the place of the target is looked up when the row is out.
Reordered_After(p, what, where) ==
    LET rest == Without(p, {what})
        to == Place(rest, where)
    IN  [n \in DOMAIN p |->
           IF p[n].system THEN p[n]
           ELSE [order |-> IF n = what THEN to
                           ELSE IF Place(rest, n) < to THEN Place(rest, n)
                           ELSE Place(rest, n) + 1, system |-> FALSE]]

\* handleDrop: the row is taken out and put back where the target was.
Reordered(p, what, where) ==
    LET from == Place(p, what)
        to == Place(p, where)
        Shifted(n) ==
            CASE n = what -> to
              [] from < Place(p, n) /\ Place(p, n) <= to -> Place(p, n) - 1
              [] to <= Place(p, n) /\ Place(p, n) < from -> Place(p, n) + 1
              [] OTHER -> Place(p, n)
    IN  [n \in DOMAIN p |->
           IF p[n].system THEN p[n] ELSE [order |-> Shifted(n), system |-> FALSE]]

\* The order of a new property: after all that are not at the end.
NextOrder(p) ==
    LET used == {p[n].order : n \in DOMAIN p} \cap 1..8999
    IN  IF used = {} THEN 1 ELSE (CHOOSE o \in used : \A x \in used : x <= o) + 1

(* handleSaveProperty: an edited property that gets another name is taken   *)
(* out first, and what had the new name is overwritten.                     *)
Order(p, editing) ==
    IF editing = None THEN NextOrder(p)
    ELSE IF editing \notin DOMAIN p \/ p[editing].order = 0 THEN 1
    ELSE p[editing].order

Saved(p, editing, name) ==
    LET rest == IF editing = name THEN p ELSE Without(p, {editing})
    IN  [n \in DOMAIN rest \cup {name} |->
           IF n = name THEN [order |-> Order(p, editing), system |-> FALSE]
                       ELSE rest[n]]

---------------------------------------------------------------------------

PageIsUsed == ~ui.open /\ ui.dragged = None

\* What was in the form does not matter: opening the dialog fills it in.
Closed(u) == [u EXCEPT !.open = FALSE, !.editing = None, !.name = None]

Sends(task) ==
    /\ ui.updates < MaxUpdates /\ T!CanRun /\ T!Run(task)
    /\ ui' = [ui EXCEPT !.stale = ~T!Quiet, !.dragged = None, !.updates = @ + 1]
    /\ UNCHANGED server

AddProperty ==
    /\ PageIsUsed
    /\ ui' = [ui EXCEPT !.editing = None, !.name = None, !.open = TRUE]
    /\ UNCHANGED <<tasks, server>>

EditProperty(n) ==
    /\ PageIsUsed /\ n \in Moveable(ui.known)
    /\ ui' = [ui EXCEPT !.editing = n, !.name = n, !.open = TRUE]
    /\ UNCHANGED <<tasks, server>>

TypeName(n) ==
    /\ ui.open /\ n # ui.name
    /\ ui' = [ui EXCEPT !.name = n]
    /\ UNCHANGED <<tasks, server>>

CloseDialog ==
    /\ ui.open /\ ui' = Closed(ui) /\ UNCHANGED <<tasks, server>>

\* The button stays enabled while the answer is awaited.
SaveProperty ==
    /\ ui.open /\ ui.name # None
    /\ Sends(Task("save", ui.name, ui.editing,
                  Saved(ui.known, ui.editing, ui.name)))

\* The user has confirmed.
DeleteProperty(n) ==
    /\ PageIsUsed /\ n \in Moveable(ui.known)
    /\ Sends(Task("delete", n, None, Without(ui.known, {n})))

DragStart(n) ==
    /\ PageIsUsed /\ n \in Moveable(ui.known)
    /\ ui' = [ui EXCEPT !.dragged = n]
    /\ UNCHANGED <<tasks, server>>

DragEnd ==
    /\ ui.dragged # None
    /\ ui' = [ui EXCEPT !.dragged = None]
    /\ UNCHANGED <<tasks, server>>

(* The browser ends the drag right after the drop.  On a row of the system, *)
(* or when the dragged row is gone by now, nothing else happens: DragEnd.   *)
Drop(n) ==
    /\ ui.dragged \in Moveable(ui.known)
    /\ n \in Moveable(ui.known) /\ n # ui.dragged
    /\ Sends(Task("drop", ui.dragged, n, Reordered(ui.known, ui.dragged, n)))

---------------------------------------------------------------------------
(* The server replaces the properties (admin.go); it may fail before the    *)
(* file is written, or after it.                                            *)
Serve(s) ==
    /\ T!Waits(s, "update")
    /\ \/ server' = [properties |-> tasks[s].sent] /\ T!Reply(s, None)
       \/ server' \in {server, [properties |-> tasks[s].sent]} /\ T!Fail(s)
    /\ UNCHANGED ui

\* The end of a handler: a save closes the dialog, a drop ends the drag.
Ended(u, op, ok) ==
    LET closed == IF op = "save" /\ ok THEN Closed(u) ELSE u
    IN  [closed EXCEPT !.dragged = IF op = "drop" THEN None ELSE @,
                       !.stale = @ \/ ~ok]

(* onUpdate ends and the handler runs on: the page goes on with what was    *)
(* sent; a save closes the dialog that is open now, a drop ends the drag    *)
(* that is under way now.                                                   *)
AfterUpdate(s) ==
    /\ T!Back(s, "update")
    /\ ui' = [Ended(ui, tasks[s].op, T!Ok(s)) EXCEPT
                 !.known = IF T!Ok(s) THEN tasks[s].sent ELSE @]
    /\ T!End(s)
    /\ UNCHANGED server

User ==
    \/ AddProperty \/ CloseDialog \/ SaveProperty \/ DragEnd
    \/ \E n \in Names : \/ EditProperty(n) \/ TypeName(n) \/ DeleteProperty(n)
                        \/ DragStart(n) \/ Drop(n)

Runs(s) == Serve(s) \/ AfterUpdate(s)

Next == User \/ \E s \in Slots : Runs(s)

Spec == Init /\ [][Next]_vars
---------------------------------------------------------------------------
(* A row that is dropped takes the place its target had, the other rows     *)
(* keep their order around it and none gets lost; a new property is the     *)
(* last of the rows that can be moved; whatever orders, gaps and equal      *)
(* orders the properties had (PropertiesEditor.jsx:156, 212).  From 9000    *)
(* the orders are the system's: a property of the user that has taken one   *)
(* over, which it can when an old answer brings the system's property back  *)
(* while the user's of the same name is edited, stays behind a new one.     *)
RowsAsArranged ==
    \A s \in T!Running :
      LET t == tasks[s] IN
      /\ t.op = "drop" =>
           /\ DOMAIN t.sent = DOMAIN t.from
           /\ Place(t.sent, t.what) = Place(t.from, t.where)
           /\ \A m, n \in Moveable(t.from) \ {t.what} :
                Before(t.sent, m, n) = Before(t.from, m, n)
      /\ t.op = "save" /\ t.where = None =>
           \A n \in Moveable(t.sent) \ {t.what} :
             t.sent[n].order < 9000 => Before(t.sent, n, t.what)

(* With nothing under way the editor works on the properties the server     *)
(* has, unless the last changes overlapped or one of them failed: every     *)
(* change sends all properties, so an editor that is behind takes others'   *)
(* changes back (PropertiesEditor.jsx:162, CollectionDetail.jsx:800).       *)
SchemaInStep == T!Quiet /\ ~ui.stale => ui.known = server.properties
=============================================================================
