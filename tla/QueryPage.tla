----------------------------- MODULE QueryPage -----------------------------
(***************************************************************************)
(* The query builder (dashboard components/VisualQueryBuilder.jsx) and its  *)
(* place on the page of a collection (pages/CollectionDetail.jsx).  Two     *)
(* effects connect them: the builder tells the page its query, and reads    *)
(* the query back from the page into its rows; every render makes new       *)
(* objects, so both run again after every render, without end.  Feedback is *)
(* both of them, once; it runs before the next event is handled, and any    *)
(* number of times after that.                                              *)
(* A value is a text, a number or a truth value.  A text is its parts       *)
(* between commas, and whether a comma comes last; the others have the      *)
(* parts of the text that they are written as.  Operators that are offered  *)
(* to the same types, and that the conversions treat alike, are one: $eq    *)
(* stands for $ne too, $in for $nin, $gt for $gte, $lt and $lte.  Sort      *)
(* options, limit and skip are left out.                                    *)
(***************************************************************************)
EXTENDS Naturals, FiniteSets, Sequences, Without

CONSTANTS Fields, Type,  \* the fields of the schema, and their types
          Parts,         \* what can be typed between commas
          Numerals,      \* what of it reads as a number
          Imports,       \* the queries that are pasted as JSON
          MaxRows,       \* bound on the rows
          MaxAsked,      \* bound on the queries that are under way at once
          None, Slots

VARIABLES ui, tasks, server

vars == <<ui, tasks, server>>

T == INSTANCE Tasks

---------------------------------------------------------------------------
(* Rows and queries.                                                        *)

Words == Parts \cup {"true", "false", "NaN", "0"}
RowValues == [kind : {"text", "number", "truth"}, parts : SUBSET Words, comma : BOOLEAN]
Value(kind, parts) == [kind |-> kind, parts |-> parts, comma |-> FALSE]
NoValue == Value("text", {})

\* getOperatorsForType
Operators(type) ==
    {"$eq", "$exists"} \cup
    CASE type = "string" -> {"$regex", "$in"}
      [] type = "number" -> {"$gt", "$in"}
      [] type = "date" -> {"$gt"}
      [] type = "array" -> {"$size", "$elemMatch"}
      [] type = "boolean" -> {}
      [] type = "other" -> {"$regex", "$in", "$gt"}

(* getFieldType: by the schema, or else by what the name contains; a new    *)
(* row has the type of a string.                                            *)
FieldType(field) == IF field \in Fields THEN Type[field] ELSE "string"

Row(field, op, value) == [field |-> field, op |-> op, value |-> value]
NewRow == Row(None, "$eq", NoValue)
ProperRows ==
    [field : Fields \cup {None}, op : UNION {Operators(FieldType(f)) : f \in Fields \cup {None}},
     value : RowValues]

(* A query: no condition, one, several under one operator, or a document    *)
(* with several fields.                                                     *)
Query(by, rows) == [by |-> by, rows |-> rows]
Everything == Query("none", <<>>)

\* Of the constants; Dashboard assumes it.
QueryAssumption ==
    /\ None \notin Fields /\ IsFiniteSet(Parts) /\ MaxRows \in Nat /\ MaxAsked \in Nat
    /\ Numerals \in SUBSET Parts /\ "NaN" \notin Numerals
    /\ Type \in [Fields -> {"string", "number", "boolean", "date", "array", "other"}]
    /\ \A query \in Imports :
         query.rows \in Seq(ProperRows) /\ Len(query.rows) <= MaxRows

Complete(row) == row.field # None /\ row.value # NoValue
Incomplete(rows) == {rows[i] : i \in {j \in DOMAIN rows : ~Complete(rows[j])}}

(* What the query says of a row.  A list is split at its commas; it is      *)
(* written here as the text it is joined to when it is read back.           *)
ListOf(value) == Value("text", value.parts)

\* !isNaN(value), and parseFloat(value), which is NaN of a truth value.
IsNumber(value) ==
    \/ value.kind = "truth"
    \/ value.kind = "number" /\ value.parts # {"NaN"}
    \/ value.kind = "text" /\ ~value.comma /\ \E p \in Numerals : value.parts = {p}
NumberOf(value) ==
    IF value.kind = "truth" THEN Value("number", {"NaN"}) ELSE [value EXCEPT !.kind = "number"]

\* value === 'true' || value === true
TruthOf(value) ==
    LET says == value.kind # "number" /\ value.parts = {"true"} /\ ~value.comma
    IN  Value("truth", {IF says THEN "true" ELSE "false"})

\* parseInt(value) || 0
SizeOf(value) ==
    LET numerals == value.parts \cap Numerals
    IN  CASE value.kind = "number" /\ value.parts # {"NaN"} -> value
          [] value.kind = "text" /\ numerals # {} -> Value("number", {CHOOSE p \in numerals : TRUE})
          [] OTHER -> Value("number", {"0"})

SaidValue(type, op, value) ==
    IF op = "$in" THEN ListOf(value)
    ELSE IF type = "number" /\ IsNumber(value) THEN NumberOf(value)
    ELSE IF type = "boolean" \/ op = "$exists" THEN TruthOf(value)
    ELSE IF op = "$size" THEN SizeOf(value) ELSE value

Said(row) == [row EXCEPT !.value = SaidValue(FieldType(row.field), row.op, row.value)]

BuildQuery(rows, logical) ==
    LET said == Without(rows, Incomplete(rows))
        conditions == [i \in DOMAIN said |-> Said(said[i])]
    IN  CASE Len(said) = 0 -> Everything
          [] Len(said) = 1 -> Query("one", conditions)
          [] OTHER -> Query(logical, conditions)

(* parseQuery reads a query into rows: nothing is read from an empty one,   *)
(* and the operator is set only by a query that names it.                   *)
ParsedRows(query, rows) == IF query.rows = <<>> THEN rows ELSE query.rows
\* Mutant: reading a query back starts from AND.
ParsedLogical_And(query, logical) == "$and"

ParsedLogical(query, logical) ==
    IF query.by \in {"$and", "$or"} THEN query.by ELSE logical

---------------------------------------------------------------------------

TypeOK ==
    /\ Len(ui.rows) <= MaxRows
    /\ \A i \in DOMAIN ui.rows : ui.rows[i] \in ProperRows
    /\ ui.logical \in {"$and", "$or"}
    /\ {ui.raw, ui.read, ui.error, ui.loading, ui.results} \subseteq BOOLEAN
    /\ \A s \in T!Running : tasks[s].op \in {"query", "load"} /\ tasks[s].at = "request"

Task(op) == [op |-> op, at |-> "request", status |-> "sent", data |-> None]

(* The page's currentQuery is the query that is built from the rows, once   *)
(* the effects have run: read says that they have.                          *)
First ==
    [rows |-> <<>>, logical |-> "$and", raw |-> FALSE, read |-> TRUE,
     results |-> FALSE, loading |-> FALSE, error |-> FALSE]

Starts == {<<First, T!AllIdle, None>>}
Init == \E st \in Starts : ui = st[1] /\ tasks = st[2] /\ server = st[3]

---------------------------------------------------------------------------
(* The builder: its rows, or its JSON.                                      *)

PageIsUsed == ~ui.error /\ ~ui.loading /\ ui.read
VisualIsUsed == PageIsUsed /\ ~ui.raw
RawIsUsed == PageIsUsed /\ ui.raw

AddCondition ==
    /\ VisualIsUsed /\ Len(ui.rows) < MaxRows
    /\ ui' = [ui EXCEPT !.rows = Append(@, NewRow),
                        !.read = FALSE]
    /\ UNCHANGED <<tasks, server>>

RemoveCondition(i) ==
    /\ VisualIsUsed
    /\ ui' = [ui EXCEPT !.rows = SubSeq(@, 1, i - 1) \o SubSeq(@, i + 1, Len(@)),
                        !.read = FALSE]
    /\ UNCHANGED <<tasks, server>>

(* Another field: the value is blank again, and so is an operator its type  *)
(* does not have.                                                           *)
WithField(row, field) ==
    Row(field, IF row.op \in Operators(FieldType(field)) THEN row.op ELSE "$eq", NoValue)

ChooseField(i, field) ==
    /\ VisualIsUsed /\ field # ui.rows[i].field
    /\ ui' = [ui EXCEPT !.rows[i] = WithField(@, field),
                        !.read = FALSE]
    /\ UNCHANGED <<tasks, server>>

ChooseOperator(i, op) ==
    /\ VisualIsUsed /\ ui.rows[i].field # None /\ op # ui.rows[i].op
    /\ op \in Operators(FieldType(ui.rows[i].field))
    /\ ui' = [ui EXCEPT !.rows[i].op = op,
                        !.read = FALSE]
    /\ UNCHANGED <<tasks, server>>

(* Truth values are chosen from a list, which offers no value to $exists;   *)
(* the inputs of dates and numbers take no commas.                          *)
Enterable(row) ==
    LET type == FieldType(row.field)
        truths == {Value("text", {"true"}), Value("text", {"false"})}
    IN  CASE row.op = "$exists" -> truths
          [] row.op # "$exists" /\ type = "boolean" -> truths \cup {NoValue}
          [] row.op # "$exists" /\ type = "number" -> {NoValue} \cup {Value("text", {p}) : p \in Numerals}
          [] row.op # "$exists" /\ type = "date" -> {NoValue} \cup {Value("text", {p}) : p \in Parts}
          [] OTHER -> [kind : {"text"}, parts : SUBSET Parts, comma : BOOLEAN]

EnterValue(i, value) ==
    /\ VisualIsUsed /\ value # ui.rows[i].value
    /\ ui' = [ui EXCEPT !.rows[i].value = value,
                        !.read = FALSE]
    /\ UNCHANGED <<tasks, server>>

ChooseLogical ==
    /\ VisualIsUsed /\ Len(ui.rows) > 1
    /\ ui' = [ui EXCEPT !.logical = IF @ = "$and" THEN "$or" ELSE "$and",
                        !.read = FALSE]
    /\ UNCHANGED <<tasks, server>>

ToggleRaw ==
    /\ PageIsUsed
    /\ ui' = [ui EXCEPT !.raw = ~@]
    /\ UNCHANGED <<tasks, server>>

(* Text that is no JSON changes nothing.  (The handler ends in an error, as *)
(* toast is not defined, when all is done.)                                 *)
ImportQuery(query) ==
    /\ RawIsUsed
    /\ ui' = [ui EXCEPT !.rows = ParsedRows(query, @),
                        !.logical = ParsedLogical(query, @), !.raw = FALSE,
                        !.read = FALSE]
    /\ UNCHANGED <<tasks, server>>

(* The two effects: onQueryChange gives the page the query, and             *)
(* initialQuery, a new object, brings it back.                              *)
Feedback ==
    /\ ~ui.error /\ ~ui.loading
    /\ LET query == BuildQuery(ui.rows, ui.logical)
       IN  ui' = [ui EXCEPT !.rows = ParsedRows(query, @), !.read = TRUE,
                            !.logical = ParsedLogical(query, @)]
    /\ UNCHANGED <<tasks, server>>

---------------------------------------------------------------------------
(* Executing a query; its error replaces the page by a message with a       *)
(* button that loads the page again.                                        *)

Execute ==
    /\ PageIsUsed
    /\ Cardinality(T!Doing("query")) < MaxAsked
    /\ T!CanRun /\ T!Run(Task("query"))
    /\ UNCHANGED <<ui, server>>

ClearResults ==
    /\ PageIsUsed
    /\ ui.results
    /\ ui' = [ui EXCEPT !.results = FALSE]
    /\ UNCHANGED <<tasks, server>>

Refresh ==
    /\ ~ui.loading /\ ui.read /\ T!CanRun
    /\ ui' = [ui EXCEPT !.loading = TRUE, !.error = FALSE]
    /\ T!Run(Task("load"))
    /\ UNCHANGED server

Serve(s) ==
    /\ T!Waits(s, "request")
    /\ T!Reply(s, None) \/ T!Fail(s)
    /\ UNCHANGED <<ui, server>>

AfterQuery(s) ==
    /\ ui.read /\ T!Back(s, "request") /\ tasks[s].op = "query"
    /\ ui' = IF T!Ok(s) THEN [ui EXCEPT !.results = TRUE] ELSE [ui EXCEPT !.error = TRUE]
    /\ T!End(s)
    /\ UNCHANGED server

\* The builder is mounted anew, and reads the page's query into its rows.
AfterLoad(s) ==
    /\ T!Back(s, "request") /\ tasks[s].op = "load"
    /\ LET query == BuildQuery(ui.rows, ui.logical)
       IN  ui' = [ui EXCEPT !.loading = FALSE, !.raw = FALSE,
                            !.rows = ParsedRows(query, <<>>),
                            !.logical = ParsedLogical(query, "$and")]
    /\ T!End(s)
    /\ UNCHANGED server

User ==
    \/ AddCondition \/ ChooseLogical \/ ToggleRaw \/ Execute \/ ClearResults \/ Refresh
    \/ \E i \in DOMAIN ui.rows :
         \/ RemoveCondition(i)
         \/ \E f \in Fields \cup {None} : ChooseField(i, f)
         \/ \E op \in UNION {Operators(FieldType(f)) : f \in Fields} : ChooseOperator(i, op)
         \/ \E v \in Enterable(ui.rows[i]) : EnterValue(i, v)
    \/ \E q \in Imports : ImportQuery(q)

Runs(s) == Serve(s) \/ AfterQuery(s) \/ AfterLoad(s)

Next == User \/ Feedback \/ \E s \in Slots : Runs(s)

Spec == Init /\ [][Next]_vars
---------------------------------------------------------------------------
(* The endless exchange between builder and page keeps what is asked for:   *)
(* what the effects read back says the same query, its operator, its        *)
(* numbers, its truth values and the lists that were split and joined       *)
(* included (VisualQueryBuilder.jsx:38, 290).                               *)
Survives(rows, logical) ==
    LET query == BuildQuery(rows, logical)
    IN  BuildQuery(ParsedRows(query, rows), ParsedLogical(query, logical)) = query
EveryQuerySurvives == Survives(ui.rows, ui.logical)

(* It does not for these: a list of nothing but commas is read back as no   *)
(* condition (:227), and the truth value read back for a number field's     *)
(* $exists is said as NaN, and NaN, in turn, as false (:239; the same holds *)
(* of $size, which only an import can put on a number).                     *)
Unsteady(row) ==
    /\ Complete(row)
    /\ \/ row.op = "$in" /\ row.value.parts = {}
       \/ FieldType(row.field) = "number" /\ row.op \in {"$exists", "$size"}
QuerySurvives == (\A i \in DOMAIN ui.rows : ~Unsteady(ui.rows[i])) => EveryQuerySurvives

(* "Add a new condition": a condition that was added is there until it is   *)
(* removed; the effects take none away (VisualQueryBuilder.jsx:119).        *)
KeepsConditions == Feedback => Len(ui'.rows) >= Len(ui.rows)
AddedConditionStays == [][KeepsConditions]_vars

(* The page shows its spinner only while it is loaded, whose end takes it
   away (CollectionDetail.jsx:123). *)
SpinnerEnds == ui.loading => T!Doing("load") # {}
=============================================================================
