----------------------------- MODULE Collection -----------------------------
(***************************************************************************)
(* Concurrent requests to one collection: the handlers of                  *)
(* src/internal/resources/collection.go over the JSON document store of    *)
(* src/internal/database/sqlite.go.                                        *)
(*                                                                         *)
(* Each SQL statement is atomic, and that is all that is: a handler reads, *)
(* runs events, and then has the store read, change and write the whole    *)
(* document in statements of their own.  One request is one goroutine.     *)
(* A change is announced by a goroutine of its own, which serialises the   *)
(* very map that the AfterCommit event goes on to modify.                  *)
(*                                                                         *)
(* A document gives each declared field a number or Absent; a body is the  *)
(* same, with the fields it does not name Absent.                          *)
(***************************************************************************)
EXTENDS Naturals, FiniteSets

CONSTANTS Requests, Ids, Fields, Absent, NoDoc,
          Bodies,       \* bodies a client sends
          Skips,        \* values of $skipEvents it sends, {FALSE} or BOOLEAN
          Emits,        \* whether the Collection that serves a request has a
                        \* realtimeEmitter: TRUE of those loaded at the start,
                        \* FALSE of those an admin handler has made or changed
          MayDo,        \* kinds of request each of Requests may be
          Target,       \* documents each of Requests may address
          Required,     \* required properties
          Defaults,     \* default values of the properties, a body
          Accepts(_),   \* the Validate event accepts the document
          EventSets,    \* fields the Post or Put event sets, a body
          CommitSets    \* fields the AfterCommit event sets, a body

Commands == {"set", "inc", "unset", "push"}
Kinds == {"get", "post", "put", "delete"} \cup Commands
Docs == [Fields -> Nat \cup {Absent}]
Nothing == [f \in Fields |-> Absent]

ASSUME CollectionAssumption ==
    /\ Absent \notin Nat \cup Docs /\ NoDoc \notin Docs \cup {Absent}
    /\ Bodies \subseteq Docs /\ Defaults \in Docs
    /\ EventSets \in Docs /\ CommitSets \in Docs
    /\ Required \subseteq Fields /\ Skips \subseteq BOOLEAN /\ Emits \subseteq BOOLEAN
    /\ MayDo \in [Requests -> SUBSET Kinds]
    /\ Target \in [Requests -> SUBSET Ids]

VARIABLES
    req,        \* the request: kind, id, body, $skipEvents, and the emitter
    table,      \* the documents in the database
    pc,         \* where the handler is
    previous,   \* what its first FindOne returned; for a delete, doc
    sanitized,  \* what it asks the store to write
    approved,   \* the document the Validate event was run on
    existing,   \* the document performUpdate has read
    count,      \* what Remove has counted
    committed,  \* the document of the answer, before AfterCommit
    body,       \* the same map, after AfterCommit
    code,       \* status of the answer; 0 while there is none
    wrote,      \* requests that have changed the table
    announcing, \* requests whose EmitCollectionChange goroutine is to run
    announced,  \* what it has serialised for the hub, or Absent
    crashed     \* a concurrent access to a map has ended the process

reqVars == <<previous, sanitized, approved, existing, count, committed, body, code>>
noteVars == <<announcing, announced, crashed>>
vars == <<req, table, pc, reqVars, wrote, noteVars>>

Labels == {"start", "insert", "select", "update", "reread", "count", "remove",
           "after", "copying", "done"}

TypeOK ==
    /\ req \in [Requests -> [kind : Kinds, id : Ids, body : Docs,
                          skip : BOOLEAN, emits : BOOLEAN]]
    /\ table \in [Ids -> Docs \cup {NoDoc}]
    /\ pc \in [Requests -> Labels]
    /\ previous \in [Requests -> Docs \cup {NoDoc}]
    /\ existing \in [Requests -> Docs \cup {NoDoc}]
    /\ committed \in [Requests -> Docs \cup {NoDoc}]
    /\ body \in [Requests -> Docs \cup {NoDoc}]
    /\ announced \in [Requests -> Docs \cup {NoDoc, Absent}]
    /\ sanitized \in [Requests -> Docs] /\ approved \in [Requests -> Docs]
    /\ count \in [Requests -> Nat]
    /\ code \in [Requests -> {0, 200, 400, 404, 500}]
    /\ wrote \subseteq Requests /\ announcing \subseteq Requests
    /\ crashed \in BOOLEAN

---------------------------------------------------------------------------
(* Documents *)

Merge(d, p) == [f \in Fields |-> IF p[f] = Absent THEN d[f] ELSE p[f]]
Without(d, p) == [f \in Fields |-> IF p[f] = Absent THEN d[f] ELSE Absent]
Increase(d, p) == [f \in Fields |-> IF p[f] = Absent THEN d[f]
                                    ELSE IF d[f] = Absent THEN p[f]
                                    ELSE d[f] + p[f]]

(* applyUpdateOperations on what the handler puts in the UpdateBuilder: $set *)
(* for a PUT, and of the commands only $set, $inc and $unset.               *)
Updated(k, d, p) ==
    CASE k \in {"put", "set"} -> Merge(d, p)
      [] k = "inc"            -> Increase(d, p)
      [] k = "unset"          -> Without(d, p)
      [] k = "push"           -> d

Simulated_Unset(k, d, p) ==
    CASE k = "set"  -> Merge(d, p)
      [] k = "inc"  -> Increase(d, p)
      [] OTHER      -> d
(* simulateMongoOperations: what the events of a command are shown *)
Simulated(k, d, p) ==
    CASE k = "inc"  -> [f \in Fields |-> IF d[f] = Absent \/ p[f] = Absent
                                         THEN d[f] ELSE d[f] + p[f]]
      [] k = "push" -> [f \in Fields |-> IF d[f] = Absent THEN p[f] ELSE d[f]]
      [] OTHER      -> Updated(k, d, p)

Insertable(r, d) ==
    /\ \A f \in Required : req[r].body[f] # Absent
    /\ req[r].skip \/ Accepts(d)

EventDoc(r, d) == IF req[r].skip THEN d ELSE Merge(d, EventSets)

---------------------------------------------------------------------------

Init ==
    /\ req \in [Requests -> [kind : Kinds, id : Ids, body : Bodies,
                          skip : Skips, emits : Emits]]
    /\ \A r \in Requests : req[r].kind \in MayDo[r] /\ req[r].id \in Target[r]
    /\ table \in [Ids -> {NoDoc} \cup {b \in Bodies : Accepts(b)}]
    /\ pc = [r \in Requests |-> "start"]
    /\ previous = [r \in Requests |-> NoDoc]
    /\ sanitized = [r \in Requests |-> Nothing]
    /\ approved = [r \in Requests |-> Nothing]
    /\ existing = [r \in Requests |-> NoDoc]
    /\ count = [r \in Requests |-> 0]
    /\ committed = [r \in Requests |-> NoDoc]
    /\ body = [r \in Requests |-> NoDoc]
    /\ code = [r \in Requests |-> 0]
    /\ wrote = {} /\ announcing = {}
    /\ announced = [r \in Requests |-> Absent]
    /\ crashed = FALSE

At(r, label, kinds) == pc[r] = label /\ req[r].kind \in kinds
Goto(r, label) == pc' = [pc EXCEPT ![r] = label]
Doc(r) == table[req[r].id]

Answer(r, status) ==
    /\ Goto(r, "done")
    /\ code' = [code EXCEPT ![r] = status]

Refuse(r, status) ==
    /\ Answer(r, status)
    /\ UNCHANGED <<req, table, previous, sanitized, approved, existing, count,
                   committed, body, wrote, noteVars>>

Proceed(r, d) ==
    /\ committed' = [committed EXCEPT ![r] = d]
    /\ body' = [body EXCEPT ![r] = d]
    /\ Goto(r, "after")
    /\ UNCHANGED <<req, previous, sanitized, approved, existing, count, code,
                   announced, crashed>>

(* if c.realtimeEmitter != nil *)
Announce(r) == announcing' = announcing \cup (IF req[r].emits THEN {r} ELSE {})

Write_Unconditional(r, d) ==
    /\ table' = [table EXCEPT ![req[r].id] = d]
    /\ wrote' = wrote \cup {r}
(* UPDATE ... WHERE id = ?, DELETE ... WHERE id = ?: rows that exist *)
Write(r, d) ==
    IF Doc(r) = NoDoc THEN UNCHANGED <<table, wrote>>
    ELSE /\ table' = [table EXCEPT ![req[r].id] = d]
         /\ wrote' = wrote \cup {r}

(* an event refuses the request, in BeforeRequest or later *)
Cancelled(r) == pc[r] = "start" /\ Refuse(r, 400)

(* a statement fails: the client has gone, or the database is busy *)
StatementFails(r) ==
    /\ pc[r] \in {"start", "insert", "select", "update", "reread", "count", "remove"}
    /\ Refuse(r, 500)

---------------------------------------------------------------------------
(* handleGet, one document *)

Get(r) ==
    /\ At(r, "start", {"get"})
    /\ IF Doc(r) = NoDoc THEN Refuse(r, 404)
       ELSE /\ Answer(r, 200)
            /\ committed' = [committed EXCEPT ![r] = Doc(r)]
            /\ body' = [body EXCEPT ![r] = EventDoc(r, Doc(r))]
            /\ UNCHANGED <<req, table, previous, sanitized, approved, existing,
                           count, wrote, noteVars>>

(* handlePost: Validate sees the body with its defaults, Post changes it *)
PostChecks(r) ==
    /\ At(r, "start", {"post"})
    /\ LET d == Merge(Defaults, req[r].body)
       IN IF ~Insertable(r, d) THEN Refuse(r, 400)
          ELSE /\ sanitized' = [sanitized EXCEPT ![r] = EventDoc(r, d)]
               /\ approved' = [approved EXCEPT ![r] = d]
               /\ Goto(r, "insert")
               /\ UNCHANGED <<req, table, previous, existing, count, committed,
                              body, code, wrote, noteVars>>

(* INSERT with the primary key of a document that exists fails *)
Insert(r) ==
    /\ pc[r] = "insert"
    /\ IF Doc(r) # NoDoc THEN Refuse(r, 500)
       ELSE /\ table' = [table EXCEPT ![req[r].id] = sanitized[r]]
            /\ wrote' = wrote \cup {r}
            /\ Announce(r)
            /\ Proceed(r, sanitized[r])

---------------------------------------------------------------------------
(* handlePut and handleMongoCommand *)

PutChecks_BodyOnly(r) ==
    /\ At(r, "start", {"put"})
    /\ Doc(r) # NoDoc /\ req[r].body # Nothing /\ Accepts(req[r].body)
    /\ previous' = [previous EXCEPT ![r] = Doc(r)]
    /\ approved' = [approved EXCEPT ![r] = Merge(Doc(r), req[r].body)]
    /\ sanitized' = [sanitized EXCEPT ![r] = req[r].body]
    /\ Goto(r, "select")
    /\ UNCHANGED <<req, table, existing, count, committed, body, code, wrote,
                   noteVars>>
PutChecks(r) ==
    /\ At(r, "start", {"put"})
    /\ LET merged == Merge(Doc(r), req[r].body)
       IN IF Doc(r) = NoDoc THEN Refuse(r, 404)
          ELSE IF req[r].body = Nothing /\ ~req[r].skip THEN Refuse(r, 400)
          ELSE IF req[r].body = Nothing
          THEN /\ Answer(r, 200)
               /\ committed' = [committed EXCEPT ![r] = Doc(r)]
               /\ body' = [body EXCEPT ![r] = Doc(r)]
               /\ UNCHANGED <<req, table, previous, sanitized, approved,
                              existing, count, wrote, noteVars>>
          ELSE IF ~req[r].skip /\ ~Accepts(merged) THEN Refuse(r, 400)
          ELSE /\ previous' = [previous EXCEPT ![r] = Doc(r)]
               /\ approved' = [approved EXCEPT ![r] = merged]
               /\ sanitized' = [sanitized EXCEPT ![r] = req[r].body]
               /\ Goto(r, "select")
               /\ UNCHANGED <<req, table, existing, count, committed, body, code,
                              wrote, noteVars>>

CommandChecks(r) ==
    /\ At(r, "start", Commands)
    /\ LET merged == Simulated(req[r].kind, Doc(r), req[r].body)
       IN IF Doc(r) = NoDoc THEN Refuse(r, 404)
          ELSE IF ~Accepts(merged) THEN Refuse(r, 400)
          ELSE /\ previous' = [previous EXCEPT ![r] = Doc(r)]
               /\ approved' = [approved EXCEPT ![r] = merged]
               /\ sanitized' = [sanitized EXCEPT ![r] = req[r].body]
               /\ Goto(r, "select")
               /\ UNCHANGED <<req, table, existing, count, committed, body, code,
                              wrote, noteVars>>

(* performUpdate: Find *)
UpdateFinds(r) ==
    /\ pc[r] = "select"
    /\ IF Doc(r) = NoDoc
       THEN IF req[r].kind = "put"
            THEN /\ Goto(r, "reread")
                 /\ UNCHANGED <<req, table, reqVars, wrote, noteVars>>
            ELSE Refuse(r, 404)
       ELSE /\ existing' = [existing EXCEPT ![r] = Doc(r)]
            /\ Goto(r, "update")
            /\ UNCHANGED <<req, table, previous, sanitized, approved, count,
                           committed, body, code, wrote, noteVars>>

(* performUpdate: the whole document is written back *)
UpdateWrites(r) ==
    /\ pc[r] = "update"
    /\ Write(r, Updated(req[r].kind, existing[r], sanitized[r]))
    /\ Goto(r, "reread")
    /\ UNCHANGED <<req, reqVars, noteVars>>

Reread_Silent(r) ==
    /\ pc[r] = "reread" /\ Proceed(r, Doc(r))
    /\ UNCHANGED <<announcing, table, wrote>>
Reread_Stale(r) ==
    /\ pc[r] = "reread"
    /\ IF req[r].kind = "put" THEN Announce(r) ELSE UNCHANGED announcing
    /\ Proceed(r, existing[r])
    /\ UNCHANGED <<table, wrote>>
Reread(r) ==
    /\ pc[r] = "reread"
    /\ IF req[r].kind = "put" THEN Announce(r) ELSE UNCHANGED announcing
    /\ Proceed(r, Doc(r))
    /\ UNCHANGED <<table, wrote>>

---------------------------------------------------------------------------
(* handleDelete *)

DeleteFinds(r) ==
    /\ At(r, "start", {"delete"})
    /\ IF Doc(r) = NoDoc THEN Refuse(r, 404)
       ELSE /\ previous' = [previous EXCEPT ![r] = Doc(r)]
            /\ Goto(r, "count")
            /\ UNCHANGED <<req, table, sanitized, approved, existing, count,
                           committed, body, code, wrote, noteVars>>

(* Remove: Count *)
RemoveCounts_AfterDelete(r) ==
    /\ pc[r] = "count"
    /\ Write(r, NoDoc)
    /\ Answer(r, 404)
    /\ UNCHANGED <<req, previous, sanitized, approved, existing, count,
                   committed, body, noteVars>>
RemoveCounts_NoContent(r) ==
    /\ pc[r] = "count"
    /\ IF Doc(r) = NoDoc THEN Refuse(r, 204)
       ELSE /\ count' = [count EXCEPT ![r] = 1]
            /\ Goto(r, "remove")
            /\ UNCHANGED <<req, table, previous, sanitized, approved, existing,
                           committed, body, code, wrote, noteVars>>
RemoveCounts(r) ==
    /\ pc[r] = "count"
    /\ IF Doc(r) = NoDoc THEN Refuse(r, 404)
       ELSE /\ count' = [count EXCEPT ![r] = 1]
            /\ Goto(r, "remove")
            /\ UNCHANGED <<req, table, previous, sanitized, approved, existing,
                           committed, body, code, wrote, noteVars>>

(* Remove: the count is what it reports as deleted *)
RemoveDeletes(r) ==
    /\ pc[r] = "remove"
    /\ Write(r, NoDoc)
    /\ Announce(r)
    /\ Proceed(r, previous[r])

---------------------------------------------------------------------------
(* The AfterCommit event and the goroutine of EmitCollectionChange *)

(* A script that sets a field of a document that is not there panics;       *)
(* net/http then drops the connection.                                      *)
AfterCommit(r) ==
    /\ pc[r] = "after"
    /\ IF CommitSets = Nothing
       THEN Answer(r, 200) /\ UNCHANGED body
       ELSE IF body[r] = NoDoc
       THEN Goto(r, "done") /\ UNCHANGED <<body, code>>
       ELSE /\ Goto(r, "copying")
            /\ body' = [body EXCEPT ![r] = Merge(@, CommitSets)]
            /\ UNCHANGED code
    /\ UNCHANGED <<req, table, previous, sanitized, approved, existing, count,
                   committed, wrote, noteVars>>

Respond(r) ==
    /\ pc[r] = "copying"
    /\ Answer(r, 200)
    /\ UNCHANGED <<req, table, previous, sanitized, approved, existing, count,
                   committed, body, wrote, noteVars>>

(* The goroutine serialises the map.  While AfterCommit writes to it, the   *)
(* runtime may notice and end the process, or any mixture of the map before *)
(* and after is announced.                                                  *)
Notify(r) ==
    /\ r \in announcing
    /\ announcing' = announcing \ {r}
    /\ \/ /\ announced' = [announced EXCEPT ![r] = body[r]]
          /\ UNCHANGED crashed
       \/ /\ pc[r] = "copying"
          /\ \E F \in SUBSET Fields :
                announced' = [announced EXCEPT ![r] =
                    [f \in Fields |-> IF f \in F THEN body[r][f] ELSE committed[r][f]]]
          /\ UNCHANGED crashed
       \/ /\ pc[r] = "copying"
          /\ crashed' = TRUE
          /\ UNCHANGED announced
    /\ UNCHANGED <<req, table, pc, reqVars, wrote>>

---------------------------------------------------------------------------

Step(r) ==
    \/ Cancelled(r) \/ StatementFails(r)
    \/ Get(r) \/ PostChecks(r) \/ Insert(r)
    \/ PutChecks(r) \/ CommandChecks(r)
    \/ UpdateFinds(r) \/ UpdateWrites(r) \/ Reread(r)
    \/ DeleteFinds(r) \/ RemoveCounts(r) \/ RemoveDeletes(r)
    \/ AfterCommit(r) \/ Respond(r) \/ Notify(r)

Next == ~crashed /\ \E r \in Requests : Step(r)

Spec == Init /\ [][Next]_vars

---------------------------------------------------------------------------
(* Properties *)

(* A document comes into being through a POST only, which never replaces    *)
(* one: an UPDATE that was prepared before a DELETE, in another request,    *)
(* does not bring the document back.                                        *)
OnlyPostCreates ==
    [][\A i \in Ids : table[i] = NoDoc /\ table'[i] # NoDoc <=>
          \E r \in wrote' \ wrote : req[r].id = i /\ req[r].kind = "post"]_vars

(* A client that was told 400 or 404 has changed nothing. *)
RefusedChangesNothing ==
    \A r \in Requests : code[r] \in {400, 404} => r \notin wrote

(* A POST, PUT or DELETE that succeeded is announced, though not by the     *)
(* handler itself: none is lost between the write and the goroutine, if the *)
(* Collection that served the request was given an emitter.                 *)
ChangeAnnounced ==
    \A r \in wrote :
        code[r] = 200 /\ req[r].kind \in {"post", "put", "delete"} /\ req[r].emits =>
            r \in announcing \/ announced[r] # Absent

(* One updater per document *)

(* What is stored passed the Validate event, unless $skipEvents. *)
StoredValid ==
    \A i \in Ids : table[i] # NoDoc /\ ~Accepts(table[i]) =>
        \E r \in wrote : req[r].id = i /\ req[r].skip

(* What the Validate event approved, on a document read earlier, is what is *)
(* stored, by a PUT, $set or $unset (an $inc or $push shows the event a      *)
(* simulation that the store does not follow).                              *)
ApprovedIsStored ==
    \A r \in wrote :
        pc[r] = "reread" /\ req[r].kind \in {"put", "set", "unset"} =>
            Doc(r) \in {approved[r], NoDoc}

(* A PUT that succeeded answers with its own change, or with null when the  *)
(* document was deleted meanwhile.                                          *)
PutAnswersItsChange ==
    \A r \in Requests :
        code[r] = 200 /\ req[r].kind = "put" /\ committed[r] # NoDoc =>
            committed[r] = Merge(committed[r], req[r].body)

(* Every request takes effect at one instant: AtomicStore.tla. *)
Effect(q, before, after) ==
    CASE q.kind = "post" ->
            before = NoDoc /\ after \in {Merge(Defaults, q.body),
                                         Merge(Merge(Defaults, q.body), EventSets)}
      [] q.kind = "delete" -> before # NoDoc /\ after = NoDoc
      [] q.kind = "get" -> FALSE
      [] OTHER -> before # NoDoc /\ after = Updated(q.kind, before, q.body)

Atomic == INSTANCE AtomicStore WITH done <- wrote
ImplementsAtomicStore == Atomic!Spec

---------------------------------------------------------------------------
(* What comments and documents say, and the code does not do *)

(* collection.go:632 "for SQLite we need to update individual fields, not   *)
(* set the entire data": a PUT leaves the fields alone that it does not     *)
(* name.                                                                    *)
UpdatesOwnFieldsOnly ==
    [][\A r \in wrote' \ wrote : req[r].kind = "put" =>
          \A f \in Fields : req[r].body[f] = Absent =>
              table'[req[r].id][f] = table[req[r].id][f]]_vars

(* websocket-realtime.md:57 "Collection changes (create, update, delete) are *)
(* automatically broadcast to all connected WebSocket clients. No           *)
(* additional configuration required.": also those of a collection that the *)
(* dashboard has made or changed.                                           *)
EveryChangeAnnounced ==
    \A r \in wrote :
        code[r] = 200 /\ req[r].kind \in {"post", "put", "delete"} =>
            r \in announcing \/ announced[r] # Absent

(* collection.go:532 "Run AfterCommit event synchronously (can modify the   *)
(* response document)": the response, not the announcement.                 *)
AnnouncedAsCommitted ==
    \A r \in Requests : announced[r] # Absent => announced[r] = committed[r]

=============================================================================
