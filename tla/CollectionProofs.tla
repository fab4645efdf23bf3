-------------------------- MODULE CollectionProofs --------------------------
(* What is proved of Collection, for every set of requests, documents and   *)
(* fields, every collection and every set of events.                        *)
EXTENDS Collection, TLAPS

USE DEF reqVars, noteVars

---------------------------------------------------------------------------
(* Documents *)

LEMMA MergeType == ASSUME NEW d \in Docs, NEW p \in Docs PROVE Merge(d, p) \in Docs
  BY DEF Docs, Merge

LEMMA UpdatedType ==
    ASSUME NEW d \in Docs, NEW p \in Docs,
           NEW k \in {"put"} \cup Commands
    PROVE  Updated(k, d, p) \in Docs
  <1>1. CASE k \in {"put", "set"}
    BY <1>1, MergeType DEF Updated
  <1>2. CASE k = "inc"
    <2>1. Increase(d, p) \in Docs
      BY DEF Docs, Increase
    <2>2. QED
      BY <1>2, <2>1 DEF Updated
  <1>3. CASE k = "unset"
    <2>1. Without(d, p) \in Docs
      BY DEF Docs, Without
    <2>2. QED
      BY <1>3, <2>1 DEF Updated
  <1>4. CASE k = "push"
    BY <1>4 DEF Updated
  <1>5. QED
    BY <1>1, <1>2, <1>3, <1>4 DEF Commands

LEMMA SimulatedType ==
    ASSUME NEW d \in Docs, NEW p \in Docs, NEW k \in Commands
    PROVE  Simulated(k, d, p) \in Docs
  <1>1. CASE k = "inc"
    <2>1. [f \in Fields |-> IF d[f] = Absent \/ p[f] = Absent
                            THEN d[f] ELSE d[f] + p[f]] \in Docs
      BY DEF Docs
    <2>2. QED
      BY <1>1, <2>1 DEF Simulated
  <1>2. CASE k = "push"
    <2>1. [f \in Fields |-> IF d[f] = Absent THEN p[f] ELSE d[f]] \in Docs
      BY DEF Docs
    <2>2. QED
      BY <1>2, <2>1 DEF Simulated
  <1>3. CASE k \notin {"inc", "push"}
    BY <1>3, UpdatedType DEF Simulated
  <1>4. QED
    BY <1>1, <1>2, <1>3

LEMMA EventDocType ==
    ASSUME NEW r \in Requests, NEW d \in Docs PROVE EventDoc(r, d) \in Docs
  BY MergeType, CollectionAssumption DEF EventDoc

---------------------------------------------------------------------------
(* Types *)

(* Where a handler is tells the kind of its request, and what it has read. *)
StageInv ==
    \A r \in Requests :
        /\ pc[r] = "insert" => req[r].kind = "post"
        /\ pc[r] \in {"select", "update", "reread"} =>
               req[r].kind \in {"put"} \cup Commands
        /\ pc[r] \in {"count", "remove"} => req[r].kind = "delete"
        /\ pc[r] = "update" => existing[r] \in Docs
        /\ pc[r] = "after" => committed[r] = body[r]
        /\ pc[r] = "copying" => committed[r] \in Docs /\ body[r] \in Docs

TypeInv == TypeOK /\ StageInv

LEMMA InitType == Init => TypeInv
  <1> SUFFICES ASSUME Init PROVE TypeInv
    OBVIOUS
  <1>1. Nothing \in Docs
    BY DEF Nothing, Docs
  <1>2. req \in [Requests -> [kind : Kinds, id : Ids, body : Docs,
                             skip : BOOLEAN, emits : BOOLEAN]]
    BY CollectionAssumption DEF Init
  <1>3. table \in [Ids -> Docs \cup {NoDoc}]
    BY CollectionAssumption DEF Init
  <1>4. pc \in [Requests -> Labels] /\ \A r \in Requests : pc[r] = "start"
    BY DEF Init, Labels
  <1>5. QED
    BY <1>1, <1>2, <1>3, <1>4 DEF Init, TypeInv, TypeOK, StageInv

LEMMA RefuseType ==
    ASSUME TypeInv, NEW r \in Requests, NEW status \in {400, 404, 500},
           Refuse(r, status)
    PROVE  TypeInv'
  BY DEF TypeInv, TypeOK, StageInv, Refuse, Answer, Goto, Labels

LEMMA ProceedType ==
    ASSUME TypeInv, NEW r \in Requests, NEW d \in Docs \cup {NoDoc}, Proceed(r, d),
           table' \in [Ids -> Docs \cup {NoDoc}],
           wrote' \subseteq Requests, announcing' \subseteq Requests
    PROVE  TypeInv'
  <1>1. TypeOK'
    BY DEF TypeInv, TypeOK, Proceed, Goto, Labels
  <1>2. StageInv'
    BY DEF TypeInv, TypeOK, StageInv, Proceed, Goto
  <1>3. QED
    BY <1>1, <1>2 DEF TypeInv

LEMMA WriteType ==
    ASSUME TypeInv, NEW r \in Requests, NEW d \in Docs \cup {NoDoc}, Write(r, d)
    PROVE  table' \in [Ids -> Docs \cup {NoDoc}] /\ wrote' \subseteq Requests
  <1>1. CASE Doc(r) = NoDoc
    BY <1>1 DEF TypeInv, TypeOK, Write
  <1>2. CASE Doc(r) # NoDoc
    <2>1. table' = [table EXCEPT ![req[r].id] = d] /\ wrote' = wrote \cup {r}
      BY <1>2 DEF Write
    <2>2. QED
      BY <2>1 DEF TypeInv, TypeOK
  <1>3. QED
    BY <1>1, <1>2

LEMMA StepType == ASSUME TypeInv, NEW r \in Requests, Step(r) PROVE TypeInv'
  <1> DEFINE q == req[r]
  <1>1. /\ q.kind \in Kinds /\ q.id \in Ids /\ q.body \in Docs
        /\ Doc(r) \in Docs \cup {NoDoc}
        /\ Defaults \in Docs /\ EventSets \in Docs /\ CommitSets \in Docs
    BY CollectionAssumption DEF TypeInv, TypeOK, Doc
  <1>2. CASE Cancelled(r) \/ StatementFails(r)
    BY <1>2, RefuseType DEF Cancelled, StatementFails
  <1>3. CASE Get(r)
    <2>1. CASE Doc(r) = NoDoc
      BY <1>3, <2>1, RefuseType DEF Get
    <2>2. CASE Doc(r) # NoDoc
      <3>1. /\ Answer(r, 200)
            /\ committed' = [committed EXCEPT ![r] = Doc(r)]
            /\ body' = [body EXCEPT ![r] = EventDoc(r, Doc(r))]
            /\ UNCHANGED <<req, table, previous, sanitized, approved, existing,
                           count, wrote, noteVars>>
        BY <1>3, <2>2 DEF Get
      <3>2. Doc(r) \in Docs /\ EventDoc(r, Doc(r)) \in Docs
        BY <1>1, <2>2, EventDocType
      <3>3. TypeOK'
        BY <3>1, <3>2 DEF TypeInv, TypeOK, Answer, Goto, Labels
      <3>4. StageInv'
        BY <3>1, <3>2 DEF TypeInv, TypeOK, StageInv, Answer, Goto
      <3>5. QED
        BY <3>3, <3>4 DEF TypeInv
    <2>3. QED
      BY <2>1, <2>2
  <1>4. CASE PostChecks(r)
    <2> DEFINE d == Merge(Defaults, q.body)
    <2>1. d \in Docs /\ EventDoc(r, d) \in Docs
      BY <1>1, MergeType, EventDocType
    <2>2. CASE ~Insertable(r, d)
      BY <1>4, <2>2, RefuseType DEF PostChecks
    <2>3. CASE Insertable(r, d)
      <3>1. /\ q.kind = "post"
            /\ sanitized' = [sanitized EXCEPT ![r] = EventDoc(r, d)]
            /\ approved' = [approved EXCEPT ![r] = d]
            /\ Goto(r, "insert")
            /\ UNCHANGED <<req, table, previous, existing, count, committed,
                           body, code, wrote, noteVars>>
        BY <1>4, <2>3 DEF PostChecks, At
      <3> HIDE DEF d
      <3>2. TypeOK'
        BY <2>1, <3>1 DEF TypeInv, TypeOK, Goto, Labels
      <3>3. StageInv'
        BY <3>1 DEF TypeInv, TypeOK, StageInv, Goto
      <3>4. QED
        BY <3>2, <3>3 DEF TypeInv
    <2>4. QED
      BY <2>2, <2>3
  <1>5. CASE Insert(r)
    <2>1. CASE Doc(r) # NoDoc
      BY <1>5, <2>1, RefuseType DEF Insert
    <2>2. CASE Doc(r) = NoDoc
      <3>1. sanitized[r] \in Docs
        BY DEF TypeInv, TypeOK
      <3>2. /\ table' = [table EXCEPT ![q.id] = sanitized[r]]
            /\ wrote' = wrote \cup {r} /\ announcing' \subseteq announcing \cup {r}
            /\ Proceed(r, sanitized[r])
        BY <1>5, <2>2 DEF Insert, Announce
      <3>3. /\ table' \in [Ids -> Docs \cup {NoDoc}]
            /\ wrote' \subseteq Requests /\ announcing' \subseteq Requests
        BY <3>1, <3>2 DEF TypeInv, TypeOK
      <3>4. QED
        BY <3>1, <3>2, <3>3, ProceedType
    <2>3. QED
      BY <2>1, <2>2
  <1>6. CASE PutChecks(r)
    <2> DEFINE merged == Merge(Doc(r), q.body)
               refused == \/ Doc(r) = NoDoc
                          \/ q.body = Nothing /\ ~q.skip
                          \/ q.body # Nothing /\ ~q.skip /\ ~Accepts(merged)
    <2>1. CASE refused
      <3>1. Refuse(r, 404) \/ Refuse(r, 400)
        BY <1>6, <2>1 DEF PutChecks
      <3>2. QED
        BY <3>1, RefuseType
    <2>2. CASE ~refused /\ q.body = Nothing
      <3>1. /\ Answer(r, 200)
            /\ committed' = [committed EXCEPT ![r] = Doc(r)]
            /\ body' = [body EXCEPT ![r] = Doc(r)]
            /\ UNCHANGED <<req, table, previous, sanitized, approved, existing,
                           count, wrote, noteVars>>
        BY <1>6, <2>2 DEF PutChecks
      <3>2. TypeOK'
        BY <1>1, <3>1 DEF TypeInv, TypeOK, Answer, Goto, Labels
      <3>3. StageInv'
        BY <3>1 DEF TypeInv, TypeOK, StageInv, Answer, Goto
      <3>4. QED
        BY <3>2, <3>3 DEF TypeInv
    <2>3. CASE ~refused /\ q.body # Nothing
      <3>1. /\ q.kind \in {"put"}
            /\ previous' = [previous EXCEPT ![r] = Doc(r)]
            /\ approved' = [approved EXCEPT ![r] = merged]
            /\ sanitized' = [sanitized EXCEPT ![r] = q.body]
            /\ Goto(r, "select")
            /\ UNCHANGED <<req, table, existing, count, committed, body, code,
                           wrote, noteVars>>
        BY <1>6, <2>3 DEF PutChecks, At
      <3>2. Doc(r) \in Docs /\ merged \in Docs
        BY <1>1, <2>3, MergeType
      <3> HIDE DEF merged
      <3>3. TypeOK'
        BY <1>1, <3>1, <3>2 DEF TypeInv, TypeOK, Goto, Labels
      <3>4. StageInv'
        BY <3>1 DEF TypeInv, TypeOK, StageInv, Goto
      <3>5. QED
        BY <3>3, <3>4 DEF TypeInv
    <2>4. QED
      BY <2>1, <2>2, <2>3
  <1>7. CASE CommandChecks(r)
    <2> DEFINE merged == Simulated(q.kind, Doc(r), q.body)
    <2>1. CASE Doc(r) = NoDoc \/ ~Accepts(merged)
      <3>1. Refuse(r, 404) \/ Refuse(r, 400)
        BY <1>7, <2>1 DEF CommandChecks
      <3>2. QED
        BY <3>1, RefuseType
    <2>2. CASE ~(Doc(r) = NoDoc \/ ~Accepts(merged))
      <3>1. /\ q.kind \in Commands
            /\ previous' = [previous EXCEPT ![r] = Doc(r)]
            /\ approved' = [approved EXCEPT ![r] = merged]
            /\ sanitized' = [sanitized EXCEPT ![r] = q.body]
            /\ Goto(r, "select")
            /\ UNCHANGED <<req, table, existing, count, committed, body, code,
                           wrote, noteVars>>
        BY <1>7, <2>2 DEF CommandChecks, At
      <3>2. Doc(r) \in Docs /\ merged \in Docs
        BY <1>1, <2>2, <3>1, SimulatedType
      <3> HIDE DEF merged
      <3>3. TypeOK'
        BY <1>1, <3>1, <3>2 DEF TypeInv, TypeOK, Goto, Labels
      <3>4. StageInv'
        BY <3>1 DEF TypeInv, TypeOK, StageInv, Goto
      <3>5. QED
        BY <3>3, <3>4 DEF TypeInv
    <2>3. QED
      BY <2>1, <2>2
  <1>8. CASE UpdateFinds(r)
    <2>1. CASE Doc(r) = NoDoc /\ q.kind # "put"
      BY <1>8, <2>1, RefuseType DEF UpdateFinds
    <2>2. CASE Doc(r) = NoDoc /\ q.kind = "put"
      <3>1. Goto(r, "reread") /\ UNCHANGED <<req, table, reqVars, wrote, noteVars>>
        BY <1>8, <2>2 DEF UpdateFinds
      <3>2. TypeOK'
        BY <3>1 DEF TypeInv, TypeOK, Goto, Labels
      <3>3. StageInv'
        BY <2>2, <3>1 DEF TypeInv, TypeOK, StageInv, Goto
      <3>4. QED
        BY <3>2, <3>3 DEF TypeInv
    <2>3. CASE Doc(r) # NoDoc
      <3>1. /\ pc[r] = "select"
            /\ existing' = [existing EXCEPT ![r] = Doc(r)]
            /\ Goto(r, "update")
            /\ UNCHANGED <<req, table, previous, sanitized, approved, count,
                           committed, body, code, wrote, noteVars>>
        BY <1>8, <2>3 DEF UpdateFinds
      <3>2. TypeOK'
        BY <1>1, <3>1 DEF TypeInv, TypeOK, Goto, Labels
      <3>3. StageInv'
        BY <1>1, <2>3, <3>1 DEF TypeInv, TypeOK, StageInv, Goto
      <3>4. QED
        BY <3>2, <3>3 DEF TypeInv
    <2>4. QED
      BY <2>1, <2>2, <2>3
  <1>9. CASE UpdateWrites(r)
    <2>1. /\ existing[r] \in Docs /\ sanitized[r] \in Docs
          /\ q.kind \in {"put"} \cup Commands
      BY <1>9 DEF UpdateWrites, TypeInv, TypeOK, StageInv
    <2>2. Updated(q.kind, existing[r], sanitized[r]) \in Docs
      BY <2>1, UpdatedType
    <2>3. table' \in [Ids -> Docs \cup {NoDoc}] /\ wrote' \subseteq Requests
      BY <1>9, <2>2, WriteType DEF UpdateWrites
    <2>4. QED
      BY <1>9, <2>1, <2>3 DEF UpdateWrites, TypeInv, TypeOK, StageInv, Goto, Labels
  <1>10. CASE Reread(r)
    <2>1. announcing' \subseteq Requests /\ table' = table /\ wrote' = wrote
      BY <1>10 DEF Reread, Announce, TypeInv, TypeOK
    <2>2. Proceed(r, Doc(r))
      BY <1>10 DEF Reread
    <2>3. table' \in [Ids -> Docs \cup {NoDoc}] /\ wrote' \subseteq Requests
      BY <2>1 DEF TypeInv, TypeOK
    <2>4. QED
      BY <1>1, <2>1, <2>2, <2>3, ProceedType
  <1>11. CASE DeleteFinds(r)
    <2>1. CASE Doc(r) = NoDoc
      BY <1>11, <2>1, RefuseType DEF DeleteFinds
    <2>2. CASE Doc(r) # NoDoc
      <3>1. /\ q.kind = "delete"
            /\ previous' = [previous EXCEPT ![r] = Doc(r)]
            /\ Goto(r, "count")
            /\ UNCHANGED <<req, table, sanitized, approved, existing, count,
                           committed, body, code, wrote, noteVars>>
        BY <1>11, <2>2 DEF DeleteFinds, At
      <3>2. TypeOK'
        BY <1>1, <3>1 DEF TypeInv, TypeOK, Goto, Labels
      <3>3. StageInv'
        BY <3>1 DEF TypeInv, TypeOK, StageInv, Goto
      <3>4. QED
        BY <3>2, <3>3 DEF TypeInv
    <2>3. QED
      BY <2>1, <2>2
  <1>12. CASE RemoveCounts(r)
    <2>1. CASE Doc(r) = NoDoc
      BY <1>12, <2>1, RefuseType DEF RemoveCounts
    <2>2. CASE Doc(r) # NoDoc
      <3>1. /\ pc[r] = "count"
            /\ count' = [count EXCEPT ![r] = 1]
            /\ Goto(r, "remove")
            /\ UNCHANGED <<req, table, previous, sanitized, approved, existing,
                           committed, body, code, wrote, noteVars>>
        BY <1>12, <2>2 DEF RemoveCounts
      <3>2. TypeOK'
        BY <3>1 DEF TypeInv, TypeOK, Goto, Labels
      <3>3. StageInv'
        BY <3>1 DEF TypeInv, TypeOK, StageInv, Goto
      <3>4. QED
        BY <3>2, <3>3 DEF TypeInv
    <2>3. QED
      BY <2>1, <2>2
  <1>13. CASE RemoveDeletes(r)
    <2>1. table' \in [Ids -> Docs \cup {NoDoc}] /\ wrote' \subseteq Requests
      BY <1>13, WriteType DEF RemoveDeletes
    <2>2. announcing' \subseteq Requests /\ previous[r] \in Docs \cup {NoDoc}
      BY <1>13 DEF RemoveDeletes, Announce, TypeInv, TypeOK
    <2>3. QED
      BY <1>13, <2>1, <2>2, ProceedType DEF RemoveDeletes
  <1>14. CASE AfterCommit(r)
    <2>1. CASE CommitSets = Nothing
      <3>1. /\ Answer(r, 200)
            /\ UNCHANGED <<req, table, previous, sanitized, approved, existing,
                           count, committed, body, wrote, noteVars>>
        BY <1>14, <2>1 DEF AfterCommit
      <3>2. TypeOK'
        BY <3>1 DEF TypeInv, TypeOK, Answer, Goto, Labels
      <3>3. StageInv'
        BY <3>1 DEF TypeInv, TypeOK, StageInv, Answer, Goto
      <3>4. QED
        BY <3>2, <3>3 DEF TypeInv
    <2>2. CASE CommitSets # Nothing /\ body[r] = NoDoc
      <3>1. /\ Goto(r, "done")
            /\ UNCHANGED <<req, table, previous, sanitized, approved, existing,
                           count, committed, body, code, wrote, noteVars>>
        BY <1>14, <2>2 DEF AfterCommit
      <3>2. TypeOK'
        BY <3>1 DEF TypeInv, TypeOK, Goto, Labels
      <3>3. StageInv'
        BY <3>1 DEF TypeInv, TypeOK, StageInv, Goto
      <3>4. QED
        BY <3>2, <3>3 DEF TypeInv
    <2>3. CASE CommitSets # Nothing /\ body[r] # NoDoc
      <3>1. /\ pc[r] = "after"
            /\ Goto(r, "copying")
            /\ body' = [body EXCEPT ![r] = Merge(body[r], CommitSets)]
            /\ UNCHANGED <<req, table, previous, sanitized, approved, existing,
                           count, committed, code, wrote, noteVars>>
        BY <1>14, <2>3 DEF AfterCommit
      <3>2. body[r] \in Docs /\ committed[r] \in Docs
        BY <2>3, <3>1 DEF TypeInv, TypeOK, StageInv
      <3>3. Merge(body[r], CommitSets) \in Docs
        BY <1>1, <3>2, MergeType
      <3>4. TypeOK'
        BY <3>1, <3>3 DEF TypeInv, TypeOK, Goto, Labels
      <3>5. StageInv'
        BY <3>1, <3>2, <3>3 DEF TypeInv, TypeOK, StageInv, Goto
      <3>6. QED
        BY <3>4, <3>5 DEF TypeInv
    <2>4. QED
      BY <2>1, <2>2, <2>3
  <1>15. CASE Respond(r)
    BY <1>15 DEF Respond, Answer, TypeInv, TypeOK, StageInv, Goto, Labels
  <1>16. CASE Notify(r)
    <2>1. announced' \in [Requests -> Docs \cup {NoDoc, Absent}]
      <3>1. CASE announced' = [announced EXCEPT ![r] = body[r]] \/ UNCHANGED announced
        BY <3>1 DEF TypeInv, TypeOK
      <3>2. ASSUME pc[r] = "copying", NEW F \in SUBSET Fields,
                   announced' = [announced EXCEPT ![r] =
                     [f \in Fields |-> IF f \in F THEN body[r][f] ELSE committed[r][f]]]
            PROVE  announced' \in [Requests -> Docs \cup {NoDoc, Absent}]
        <4>1. [f \in Fields |-> IF f \in F THEN body[r][f] ELSE committed[r][f]] \in Docs
          BY <3>2 DEF TypeInv, StageInv, Docs
        <4>2. QED
          BY <3>2, <4>1 DEF TypeInv, TypeOK
      <3>3. QED
        BY <1>16, <3>1, <3>2 DEF Notify
    <2>2. announcing' \subseteq Requests /\ crashed' \in BOOLEAN
      BY <1>16 DEF Notify, TypeInv, TypeOK
    <2>3. QED
      BY <1>16, <2>1, <2>2 DEF Notify, TypeInv, TypeOK, StageInv
  <1>17. QED
    BY <1>2, <1>3, <1>4, <1>5, <1>6, <1>7, <1>8, <1>9, <1>10, <1>11, <1>12,
       <1>13, <1>14, <1>15, <1>16 DEF Step

LEMMA StutterType == TypeInv /\ UNCHANGED vars => TypeInv'
  BY DEF TypeInv, TypeOK, StageInv, vars

THEOREM TypesInductive == Spec => []TypeInv
  <1>1. TypeInv /\ [Next]_vars => TypeInv'
    BY StepType, StutterType DEF Next
  <1>2. QED
    BY InitType, <1>1, PTL DEF Spec

(* Every variable keeps its type: in particular what is stored is always a  *)
(* document of the collection, whatever requests race for it.               *)
THEOREM TypeCorrect == Spec => []TypeOK
  <1>1. TypeInv => TypeOK
    BY DEF TypeInv
  <1>2. QED
    BY TypesInductive, <1>1, PTL

---------------------------------------------------------------------------
(* What a request has done when it is answered *)

(* A request that has written is past its last statement that could refuse  *)
(* it, and one that is past it without an error has its change announced,   *)
(* where there is an emitter.                                               *)
WrittenInv ==
    /\ \A r \in wrote : /\ pc[r] \in {"reread", "after", "copying", "done"}
                        /\ code[r] \in {0, 200, 500}
    /\ \A r \in Requests : pc[r] # "done" => code[r] = 0

AnnouncedInv ==
    ~crashed => \A r \in wrote :
        /\ req[r].kind \in {"post", "put", "delete"} /\ req[r].emits
        /\ pc[r] \in {"after", "copying"} \/ code[r] = 200
        => r \in announcing \/ announced[r] # Absent

AnswerInv == TypeInv /\ WrittenInv /\ AnnouncedInv /\ ChangeAnnounced

LEMMA WroteBy ==
    ASSUME NEW r \in Requests, NEW d, Write(r, d)
    PROVE  wrote' \subseteq wrote \cup {r}
  BY DEF Write

LEMMA AnswerStep ==
    ASSUME AnswerInv, ~crashed, NEW r \in Requests, Step(r)
    PROVE  WrittenInv' /\ AnnouncedInv'
  <1> USE DEF AnswerInv, TypeInv, TypeOK, WrittenInv, AnnouncedInv, Labels, At,
              Goto, Answer
  <1>1. ASSUME NEW status \in {400, 404, 500}, Refuse(r, status),
               r \notin wrote \/ status = 500
        PROVE  WrittenInv' /\ AnnouncedInv'
    BY <1>1 DEF Refuse
  <1>2. CASE Cancelled(r) \/ StatementFails(r)
    <2>1. CASE Cancelled(r)
      <3>1. r \notin wrote /\ Refuse(r, 400)
        BY <2>1 DEF Cancelled
      <3>2. QED
        BY <1>1, <3>1
    <2>2. CASE StatementFails(r)
      <3>1. Refuse(r, 500)
        BY <2>2 DEF StatementFails
      <3>2. QED
        BY <1>1, <3>1
    <2>3. QED
      BY <1>2, <2>1, <2>2
  <1>3. CASE Get(r)
    <2>1. r \notin wrote
      BY <1>3 DEF Get
    <2>2. CASE Doc(r) = NoDoc
      BY <1>1, <1>3, <2>1, <2>2 DEF Get
    <2>3. CASE Doc(r) # NoDoc
      <3>1. Answer(r, 200) /\ UNCHANGED <<req, wrote, noteVars>>
        BY <1>3, <2>3 DEF Get
      <3>2. QED
        BY <2>1, <3>1
    <2>4. QED
      BY <2>2, <2>3
  <1>4. CASE PostChecks(r)
    <2>1. r \notin wrote
      BY <1>4 DEF PostChecks
    <2>2. CASE Refuse(r, 400)
      BY <1>1, <2>1, <2>2
    <2>3. CASE /\ pc[r] # "done" /\ Goto(r, "insert")
               /\ UNCHANGED <<req, code, wrote, noteVars>>
      BY <2>1, <2>3
    <2>4. QED
      BY <1>4, <2>2, <2>3 DEF PostChecks
  <1>5. CASE Insert(r)
    <2>1. CASE Doc(r) # NoDoc
      BY <1>1, <1>5, <2>1 DEF Insert
    <2>2. CASE Doc(r) = NoDoc
      <3>1. /\ pc[r] = "insert" /\ r \notin wrote
            /\ wrote' = wrote \cup {r} /\ announcing \subseteq announcing'
            /\ req[r].emits => r \in announcing'
            /\ Proceed(r, sanitized[r])
        BY <1>5, <2>2 DEF Insert, Announce
      <3>2. QED
        BY <3>1 DEF Proceed
    <2>3. QED
      BY <2>1, <2>2
  <1>6. CASE PutChecks(r)
    <2>1. r \notin wrote
      BY <1>6 DEF PutChecks
    <2>2. ASSUME NEW status \in {400, 404}, Refuse(r, status)
          PROVE  WrittenInv' /\ AnnouncedInv'
      BY <1>1, <2>1, <2>2
    <2>3. CASE Answer(r, 200) /\ UNCHANGED <<req, wrote, noteVars>>
      BY <2>1, <2>3
    <2>4. CASE pc[r] # "done" /\ Goto(r, "select") /\ UNCHANGED <<req, code, wrote, noteVars>>
      BY <2>1, <2>4
    <2>5. QED
      BY <1>6, <2>2, <2>3, <2>4 DEF PutChecks
  <1>7. CASE CommandChecks(r) \/ DeleteFinds(r)
    <2>1. r \notin wrote
      BY <1>7 DEF CommandChecks, DeleteFinds
    <2>2. ASSUME NEW status \in {400, 404}, Refuse(r, status)
          PROVE  WrittenInv' /\ AnnouncedInv'
      BY <1>1, <2>1, <2>2
    <2>3. ASSUME NEW label \in {"select", "count"}, pc[r] # "done", Goto(r, label),
                 UNCHANGED <<req, code, wrote, noteVars>>
          PROVE  WrittenInv' /\ AnnouncedInv'
      BY <2>1, <2>3
    <2>4. QED
      BY <1>7, <2>2, <2>3 DEF CommandChecks, DeleteFinds
  <1>8. CASE UpdateFinds(r) \/ RemoveCounts(r)
    <2>1. r \notin wrote
      BY <1>8, SMTT(30) DEF UpdateFinds, RemoveCounts
    <2>2. CASE Refuse(r, 404)
      BY <1>1, <2>1, <2>2
    <2>3. ASSUME NEW label \in {"reread", "update", "remove"}, pc[r] # "done",
                 Goto(r, label), UNCHANGED <<req, code, wrote, noteVars>>
          PROVE  WrittenInv' /\ AnnouncedInv'
      BY <2>1, <2>3
    <2>4. QED
      BY <1>8, <2>2, <2>3 DEF UpdateFinds, RemoveCounts
  <1>9. CASE UpdateWrites(r)
    <2>1. /\ pc[r] = "update" /\ wrote' \subseteq wrote \cup {r}
          /\ pc' = [pc EXCEPT ![r] = "reread"]
          /\ UNCHANGED <<req, code, noteVars>>
      BY <1>9, WroteBy DEF UpdateWrites
    <2>2. QED
      BY <2>1
  <1>10. CASE Reread(r)
    <2>1. /\ pc[r] = "reread" /\ wrote' = wrote
          /\ pc' = [pc EXCEPT ![r] = "after"]
          /\ announcing \subseteq announcing'
          /\ req[r].kind = "put" /\ req[r].emits => r \in announcing'
          /\ UNCHANGED <<req, code, announced>>
      BY <1>10 DEF Reread, Announce, Proceed
    <2>2. req[r].kind \notin {"post", "delete"}
      <3>1. req[r].kind \in {"put"} \cup Commands
        BY <2>1 DEF StageInv
      <3>2. QED
        BY <3>1 DEF Commands
    <2>3. WrittenInv'
      BY <2>1
    <2>4. AnnouncedInv'
      <3>1. CASE req[r].kind = "put"
        BY <2>1, <3>1
      <3>2. CASE req[r].kind # "put"
        BY <2>1, <2>2, <3>2
      <3>3. QED
        BY <3>1, <3>2
    <2>5. QED
      BY <2>3, <2>4
  <1>11. CASE RemoveDeletes(r)
    <2>1. /\ pc[r] = "remove" /\ wrote' \subseteq wrote \cup {r}
          /\ pc' = [pc EXCEPT ![r] = "after"]
          /\ announcing \subseteq announcing'
          /\ req[r].emits => r \in announcing'
          /\ UNCHANGED <<req, code, announced>>
      BY <1>11, WroteBy DEF RemoveDeletes, Announce, Proceed
    <2>2. WrittenInv'
      BY <2>1
    <2>3. AnnouncedInv'
      BY <2>1
    <2>4. QED
      BY <2>2, <2>3
  <1>12. CASE AfterCommit(r) \/ Respond(r)
    <2>1. pc[r] \in {"after", "copying"} /\ UNCHANGED <<req, wrote, noteVars>>
      BY <1>12 DEF AfterCommit, Respond
    <2>2. \/ Answer(r, 200)
          \/ code' = code /\ \E label \in {"done", "copying"} : Goto(r, label)
      BY <1>12 DEF AfterCommit, Respond
    <2>3. WrittenInv'
      BY <2>1, <2>2
    <2>4. AnnouncedInv'
      <3>1. CASE Answer(r, 200)
        BY <2>1, <3>1
      <3>2. CASE code' = code /\ \E label \in {"done", "copying"} : Goto(r, label)
        BY <2>1, <3>2
      <3>3. QED
        BY <2>2, <3>1, <3>2
    <2>5. QED
      BY <2>3, <2>4
  <1>13. CASE Notify(r)
    <2>1. /\ announcing' = announcing \ {r}
          /\ UNCHANGED <<req, pc, code, wrote>>
      BY <1>13 DEF Notify
    <2>2. ~crashed' => /\ announced'[r] # Absent
                       /\ \A s \in Requests \ {r} : announced'[s] = announced[s]
      <3>1. CASE announced' = [announced EXCEPT ![r] = body[r]]
        <4>1. body[r] # Absent
          BY CollectionAssumption
        <4>2. QED
          BY <3>1, <4>1
      <3>2. ASSUME NEW F \in SUBSET Fields, pc[r] = "copying",
                   announced' = [announced EXCEPT ![r] =
                     [f \in Fields |-> IF f \in F THEN body[r][f] ELSE committed[r][f]]]
            PROVE  /\ announced'[r] # Absent
                   /\ \A s \in Requests \ {r} : announced'[s] = announced[s]
        <4> DEFINE mixed == [f \in Fields |-> IF f \in F THEN body[r][f]
                                                         ELSE committed[r][f]]
        <4>1. mixed \in Docs /\ announced' = [announced EXCEPT ![r] = mixed]
          BY <3>2 DEF StageInv, Docs
        <4> HIDE DEF mixed
        <4>2. mixed # Absent
          BY <4>1, CollectionAssumption
        <4>3. QED
          BY <4>1, <4>2
      <3>3. QED
        BY <1>13, <3>1, <3>2, ZenonT(60) DEF Notify
    <2>3. WrittenInv'
      BY <2>1
    <2>4. AnnouncedInv'
      BY <2>1, <2>2
    <2>5. QED
      BY <2>3, <2>4
  <1>14. QED
    BY <1>2, <1>3, <1>4, <1>5, <1>6, <1>7, <1>8, <1>9, <1>10, <1>11, <1>12,
       <1>13 DEF Step

(* Only an announcement ends the process, while the answer is still out. *)
LEMMA CrashStep ==
    ASSUME AnswerInv, ~crashed, NEW r \in Requests, Step(r), crashed'
    PROVE  ChangeAnnounced'
  <1>1. /\ pc[r] = "copying" /\ announcing' = announcing \ {r}
        /\ UNCHANGED <<req, pc, code, wrote, announced>>
    BY DEF Step, Cancelled, StatementFails, Get, PostChecks, Insert, PutChecks,
       CommandChecks, UpdateFinds, UpdateWrites, Reread, DeleteFinds,
       RemoveCounts, RemoveDeletes, AfterCommit, Respond, Notify, Refuse,
       Proceed, Answer
  <1>2. code[r] = 0
    BY <1>1 DEF AnswerInv, WrittenInv
  <1>3. QED
    BY <1>1, <1>2 DEF AnswerInv, ChangeAnnounced

LEMMA AnswerInductive == Spec => []AnswerInv
  <1>1. Init => AnswerInv
    BY InitType DEF Init, AnswerInv, WrittenInv, AnnouncedInv, ChangeAnnounced
  <1>2. AnswerInv /\ [Next]_vars => AnswerInv'
    <2> SUFFICES ASSUME AnswerInv, [Next]_vars PROVE AnswerInv'
      OBVIOUS
    <2>1. TypeInv'
      BY StepType, StutterType DEF AnswerInv, Next
    <2>2. ASSUME ~crashed, NEW r \in Requests, Step(r) PROVE AnswerInv'
      <3>1. WrittenInv' /\ AnnouncedInv'
        BY <2>2, AnswerStep
      <3>2. CASE crashed'
        BY <2>1, <2>2, <3>1, <3>2, CrashStep DEF AnswerInv
      <3>3. CASE ~crashed'
        BY <2>1, <3>1, <3>3 DEF AnswerInv, AnnouncedInv, ChangeAnnounced
      <3>4. QED
        BY <3>2, <3>3
    <2>3. CASE UNCHANGED vars
      BY <2>1, <2>3 DEF vars, AnswerInv, WrittenInv, AnnouncedInv, ChangeAnnounced
    <2>4. QED
      BY <2>2, <2>3 DEF Next
  <1>3. QED
    BY <1>1, <1>2, PTL DEF Spec

(* A client that was told 400 or 404 has changed nothing, whatever happened *)
(* between the statements of its request.                                   *)
THEOREM RefusalsAreClean == Spec => []RefusedChangesNothing
  <1>1. AnswerInv => RefusedChangesNothing
    BY DEF AnswerInv, WrittenInv, RefusedChangesNothing
  <1>2. QED
    BY AnswerInductive, <1>1, PTL

(* No change that succeeded goes unannounced where the Collection that      *)
(* served it has an emitter (collection.go:521, 665, 719).                  *)
THEOREM ChangesAnnounced == Spec => []ChangeAnnounced
  <1>1. AnswerInv => ChangeAnnounced
    BY DEF AnswerInv
  <1>2. QED
    BY AnswerInductive, <1>1, PTL

---------------------------------------------------------------------------
(* Where documents come from *)

LEMMA CreationStep ==
    ASSUME AnswerInv, NEW r \in Requests, Step(r), NEW i \in Ids
    PROVE  table[i] = NoDoc /\ table'[i] # NoDoc <=>
               \E s \in wrote' \ wrote : req[s].id = i /\ req[s].kind = "post"
  <1> USE DEF AnswerInv, TypeInv, TypeOK
  <1>1. CASE UNCHANGED <<table, wrote>>
    BY <1>1
  <1>2. CASE Insert(r) /\ Doc(r) = NoDoc
    <2>1. /\ pc[r] = "insert" /\ wrote' = wrote \cup {r}
          /\ table' = [table EXCEPT ![req[r].id] = sanitized[r]]
      BY <1>2 DEF Insert
    <2>2. r \notin wrote /\ req[r].kind = "post"
      BY <2>1, SMTT(30) DEF WrittenInv, StageInv
    <2>3. sanitized[r] # NoDoc /\ table[req[r].id] = NoDoc
      BY <1>2, CollectionAssumption DEF Doc
    <2>4. QED
      BY <2>1, <2>2, <2>3
  <1>3. ASSUME NEW d, Write(r, d), req[r].kind # "post"
        PROVE  table[i] = NoDoc /\ table'[i] # NoDoc <=>
                   \E s \in wrote' \ wrote : req[s].id = i /\ req[s].kind = "post"
    <2>1. CASE Doc(r) = NoDoc
      BY <1>1, <1>3, <2>1 DEF Write
    <2>2. CASE Doc(r) # NoDoc
      <3>1. /\ table' = [table EXCEPT ![req[r].id] = d] /\ wrote' = wrote \cup {r}
            /\ table[req[r].id] # NoDoc
        BY <1>3, <2>2 DEF Write, Doc
      <3>2. QED
        BY <1>3, <3>1
    <2>3. QED
      BY <2>1, <2>2
  <1>4. CASE UpdateWrites(r) \/ RemoveDeletes(r)
    <2>1. req[r].kind # "post"
      BY <1>4 DEF UpdateWrites, RemoveDeletes, StageInv, Commands
    <2>2. QED
      BY <1>3, <1>4, <2>1 DEF UpdateWrites, RemoveDeletes
  <1>5. CASE ~(Insert(r) /\ Doc(r) = NoDoc) /\ ~UpdateWrites(r) /\ ~RemoveDeletes(r)
    <2>1. UNCHANGED <<table, wrote>>
      BY <1>5 DEF Step, Cancelled, StatementFails, Get, PostChecks, Insert,
         PutChecks, CommandChecks, UpdateFinds, Reread, DeleteFinds,
         RemoveCounts, AfterCommit, Respond, Notify, Refuse, Proceed, Answer
    <2>2. QED
      BY <1>1, <2>1
  <1>6. QED
    BY <1>2, <1>4, <1>5

(* A document comes into being through a POST only, and every POST that     *)
(* writes creates one: updates and deletes that race never bring one back.  *)
THEOREM PostsCreate == Spec => OnlyPostCreates
  <1> DEFINE Creation == \A i \in Ids : table[i] = NoDoc /\ table'[i] # NoDoc <=>
                 \E r \in wrote' \ wrote : req[r].id = i /\ req[r].kind = "post"
  <1>1. AnswerInv /\ [Next]_vars => [Creation]_vars
    BY CreationStep DEF Next
  <1>2. QED
    BY AnswerInductive, <1>1, PTL DEF Spec, OnlyPostCreates

---------------------------------------------------------------------------
(* When a collection behaves as the atomic store: as long as a document     *)
(* that a request updates is read and deleted, but neither updated nor      *)
(* created, by the others.  The model checker refutes what follows without  *)
(* that assumption.                                                         *)

Updates == {"put"} \cup Commands

OneUpdater ==
    \A r, s \in Requests :
        r # s /\ MayDo[r] \cap Updates # {} /\ Target[r] \cap Target[s] # {} =>
            MayDo[s] \subseteq {"get", "delete"}

(* A request is one that was allowed. *)
Allowed == \A r \in Requests : req[r].kind \in MayDo[r] /\ req[r].id \in Target[r]

(* What a handler asks the store to write comes from its request, and the   *)
(* document it has read is as it was read, or gone.                         *)
HandlerInv(r) ==
    /\ pc[r] = "insert" =>
           LET d == Merge(Defaults, req[r].body)
           IN  sanitized[r] \in {d, Merge(d, EventSets)}
    /\ pc[r] \in {"select", "update"} => sanitized[r] = req[r].body
    /\ pc[r] = "update" => Doc(r) \in {existing[r], NoDoc}
    /\ pc[r] = "reread" /\ req[r].kind = "put" /\ Doc(r) # NoDoc =>
           Doc(r) = Merge(Doc(r), req[r].body)
    /\ req[r].kind = "put" /\ committed[r] # NoDoc =>
           committed[r] = Merge(committed[r], req[r].body)

UpdaterInv == AnswerInv /\ Allowed /\ \A r \in Requests : HandlerInv(r)

LEMMA MergeTwice ==
    ASSUME NEW d \in Docs, NEW p \in Docs
    PROVE  Merge(d, p) = Merge(Merge(d, p), p)
BY DEF Docs, Merge

LEMMA MergeNothing == ASSUME NEW d \in Docs PROVE d = Merge(d, Nothing)
BY DEF Docs, Merge, Nothing

---------------------------------------------------------------------------
(* What one request's step leaves alone                                     *)

Own(s) == <<pc[s], previous[s], sanitized[s], approved[s], existing[s], committed[s]>>

LEMMA StepsApart ==
    ASSUME TypeInv, NEW r \in Requests, Step(r)
    PROVE  /\ req' = req
           /\ \A s \in Requests \ {r} : Own(s)' = Own(s)
           /\ \A i \in Ids \ {req[r].id} : table'[i] = table[i]
           /\ wrote \subseteq wrote' /\ wrote' \subseteq wrote \cup {r}
<1> DEFINE Apart == /\ req' = req
                    /\ \A s \in Requests \ {r} : Own(s)' = Own(s)
                    /\ \A i \in Ids \ {req[r].id} : table'[i] = table[i]
                    /\ wrote \subseteq wrote' /\ wrote' \subseteq wrote \cup {r}
<1> USE DEF TypeInv, TypeOK, Own, Goto, Answer
<1>1. ASSUME NEW status, Refuse(r, status) PROVE Apart
  BY <1>1 DEF Refuse
<1>2. CASE Cancelled(r) \/ StatementFails(r)
  BY <1>1, <1>2 DEF Cancelled, StatementFails
<1>3. CASE Get(r)
  BY <1>1, <1>3 DEF Get
<1>4. CASE PostChecks(r)
  BY <1>1, <1>4 DEF PostChecks
<1>5. CASE Insert(r)
  BY <1>1, <1>5 DEF Insert, Proceed
<1>6. CASE PutChecks(r)
  BY <1>1, <1>6 DEF PutChecks
<1>7. CASE CommandChecks(r)
  BY <1>1, <1>7 DEF CommandChecks
<1>8. CASE UpdateFinds(r)
  BY <1>1, <1>8 DEF UpdateFinds
<1>9. CASE UpdateWrites(r)
  BY <1>9 DEF UpdateWrites, Write
<1>10. CASE Reread(r)
  BY <1>10 DEF Reread, Proceed
<1>11. CASE DeleteFinds(r) \/ RemoveCounts(r)
  BY <1>1, <1>11 DEF DeleteFinds, RemoveCounts
<1>12. CASE RemoveDeletes(r)
  BY <1>12 DEF RemoveDeletes, Proceed, Write
<1>13. CASE AfterCommit(r) \/ Respond(r)
  BY <1>13 DEF AfterCommit, Respond
<1>14. CASE Notify(r)
  BY <1>14 DEF Notify
<1> QED BY <1>2, <1>3, <1>4, <1>5, <1>6, <1>7, <1>8, <1>9, <1>10, <1>11, <1>12,
           <1>13, <1>14 DEF Step

(* Only three steps write; a handler of another kind does not.              *)
LEMMA StepsThatWrite ==
    ASSUME TypeInv, NEW r \in Requests, Step(r),
           ~Insert(r), ~UpdateWrites(r), ~RemoveDeletes(r)
    PROVE  UNCHANGED <<table, wrote>>
BY DEF Step, Cancelled, StatementFails, Get, PostChecks, PutChecks, CommandChecks,
       UpdateFinds, Reread, DeleteFinds, RemoveCounts, AfterCommit, Respond, Notify,
       Refuse, Proceed

(* To a request that updates, the others leave its document, or delete it.  *)
LEMMA OthersDelete ==
    ASSUME OneUpdater, UpdaterInv, NEW r \in Requests, Step(r),
           NEW s \in Requests \ {r}, req[s].kind \in Updates
    PROVE  Doc(s)' \in {Doc(s), NoDoc}
<1> USE DEF UpdaterInv, AnswerInv
<1>1. req' = req /\ req[s].id \in Ids
  BY StepsApart DEF TypeInv, TypeOK
<1>2. CASE req[r].id # req[s].id
  BY <1>1, <1>2, StepsApart DEF Doc
<1>3. CASE req[r].id = req[s].id
  <2>1. req[r].kind \in {"get", "delete"}
    BY <1>3 DEF OneUpdater, Allowed
  <2>2. ~Insert(r) /\ ~UpdateWrites(r)
    BY <2>1 DEF Insert, UpdateWrites, TypeInv, StageInv, Commands
  <2>3. CASE RemoveDeletes(r)
    BY <1>1, <1>3, <2>3 DEF RemoveDeletes, Write, Doc, TypeInv, TypeOK
  <2>4. CASE ~RemoveDeletes(r)
    BY <1>1, <2>2, <2>4, StepsThatWrite DEF Doc
  <2> QED BY <2>3, <2>4
<1> QED BY <1>2, <1>3

LEMMA OthersKeep ==
    ASSUME OneUpdater, UpdaterInv, NEW r \in Requests, Step(r),
           NEW s \in Requests \ {r}
    PROVE  HandlerInv(s)'
<1>1. TypeInv /\ StageInv /\ HandlerInv(s)
  BY DEF UpdaterInv, AnswerInv, TypeInv
<1>2. /\ req'[s] = req[s] /\ pc'[s] = pc[s] /\ sanitized'[s] = sanitized[s]
      /\ existing'[s] = existing[s] /\ committed'[s] = committed[s]
  BY <1>1, StepsApart DEF Own
<1>3. pc[s] \in {"select", "update", "reread"} => Doc(s)' \in {Doc(s), NoDoc}
  BY <1>1, OthersDelete DEF StageInv, Updates
<1> QED BY <1>1, <1>2, <1>3 DEF HandlerInv

---------------------------------------------------------------------------
(* The steps of a handler                                                   *)

LEMMA OwnKeep ==
    ASSUME UpdaterInv, NEW r \in Requests, Step(r)
    PROVE  HandlerInv(r)'
<1> DEFINE p == req[r].body
<1>1. /\ p \in Docs /\ Doc(r) \in Docs \cup {NoDoc} /\ req[r].id \in Ids
      /\ Defaults \in Docs /\ EventSets \in Docs /\ req' = req
      /\ NoDoc \notin Docs
  BY CollectionAssumption, StepsApart DEF UpdaterInv, AnswerInv, TypeInv,
     TypeOK, Doc
<1>2. /\ pc \in [Requests -> Labels] /\ DOMAIN sanitized = Requests
      /\ DOMAIN existing = Requests /\ DOMAIN committed = Requests
      /\ table \in [Ids -> Docs \cup {NoDoc}]
  BY DEF UpdaterInv, AnswerInv, TypeInv, TypeOK
<1>3. HandlerInv(r) /\ StageInv
  BY DEF UpdaterInv, AnswerInv, TypeInv
<1> USE DEF Goto, Answer
<1>4. ASSUME pc'[r] \in {"done", "after", "copying", "count", "remove"},
             committed'[r] = committed[r] \/ req[r].kind # "put"
                                         \/ committed'[r] \in {NoDoc, Merge(committed'[r], p)}
      PROVE  HandlerInv(r)'
  BY <1>1, <1>3, <1>4 DEF HandlerInv
<1>5. ASSUME NEW status, Refuse(r, status) PROVE HandlerInv(r)'
  BY <1>2, <1>4, <1>5 DEF Refuse
<1>6. CASE Cancelled(r) \/ StatementFails(r)
  BY <1>5, <1>6 DEF Cancelled, StatementFails
<1>7. CASE Get(r)
  <2>1. CASE Doc(r) # NoDoc
    BY <1>2, <1>4, <1>7, <2>1 DEF Get, At
  <2> QED BY <1>5, <1>7, <2>1 DEF Get
<1>8. CASE PostChecks(r)
  <2>1. CASE ~Refuse(r, 400)
    <3>1. /\ req[r].kind = "post" /\ pc'[r] = "insert" /\ UNCHANGED committed
          /\ sanitized'[r] = EventDoc(r, Merge(Defaults, p))
      BY <1>2, <1>8, <2>1 DEF PostChecks, At
    <3> QED BY <1>1, <1>3, <3>1 DEF HandlerInv, EventDoc
  <2> QED BY <1>5, <2>1
<1>9. CASE Insert(r)
  <2>1. CASE Doc(r) = NoDoc
    <3>1. req[r].kind = "post" /\ pc'[r] = "after"
      BY <1>2, <1>3, <1>9, <2>1 DEF Insert, Proceed, StageInv
    <3> QED BY <1>4, <3>1
  <2> QED BY <1>5, <1>9, <2>1 DEF Insert
<1>10. CASE PutChecks(r)
  <2>1. CASE Doc(r) = NoDoc \/ Refuse(r, 400)
    BY <1>5, <1>10, <2>1 DEF PutChecks
  <2>2. CASE Doc(r) # NoDoc /\ p = Nothing /\ ~Refuse(r, 400)
    <3>1. pc'[r] = "done" /\ committed'[r] = Doc(r)
      BY <1>2, <1>10, <2>2 DEF PutChecks
    <3>2. Doc(r) = Merge(Doc(r), p)
      BY <1>1, <2>2, MergeNothing
    <3> QED BY <1>4, <3>1, <3>2
  <2>3. CASE Doc(r) # NoDoc /\ p # Nothing /\ ~Refuse(r, 400)
    <3>1. pc'[r] = "select" /\ sanitized'[r] = p /\ UNCHANGED committed
      BY <1>2, <1>10, <2>3 DEF PutChecks
    <3> QED BY <1>1, <1>3, <3>1 DEF HandlerInv
  <2> QED BY <2>1, <2>2, <2>3
<1>11. CASE CommandChecks(r)
  <2>1. CASE ~Refuse(r, 400) /\ ~Refuse(r, 404)
    <3>1. pc'[r] = "select" /\ sanitized'[r] = p /\ UNCHANGED committed
      BY <1>2, <1>11, <2>1 DEF CommandChecks
    <3> QED BY <1>1, <1>3, <3>1 DEF HandlerInv
  <2> QED BY <1>5, <2>1
<1>12. CASE UpdateFinds(r)
  <2>1. CASE Doc(r) = NoDoc /\ req[r].kind = "put"
    <3>1. pc'[r] = "reread" /\ UNCHANGED <<table, committed>>
      BY <1>2, <1>12, <2>1 DEF UpdateFinds
    <3> QED BY <1>1, <1>3, <2>1, <3>1 DEF HandlerInv, Doc
  <2>2. CASE Doc(r) = NoDoc /\ req[r].kind # "put"
    BY <1>5, <1>12, <2>2 DEF UpdateFinds
  <2>3. CASE Doc(r) # NoDoc
    <3>1. /\ pc[r] = "select" /\ pc'[r] = "update" /\ existing'[r] = Doc(r)
          /\ UNCHANGED <<table, sanitized, committed>>
      BY <1>2, <1>12, <2>3 DEF UpdateFinds
    <3> QED BY <1>1, <1>3, <3>1 DEF HandlerInv, Doc
  <2> QED BY <2>1, <2>2, <2>3
<1>13. CASE UpdateWrites(r)
  <2>1. /\ pc[r] = "update" /\ pc'[r] = "reread" /\ UNCHANGED committed
        /\ Write(r, Updated(req[r].kind, existing[r], sanitized[r]))
    BY <1>2, <1>13 DEF UpdateWrites
  <2>2. existing[r] \in Docs /\ sanitized[r] = p
    BY <1>3, <2>1 DEF StageInv, HandlerInv
  <2>3. ASSUME req[r].kind = "put", Doc(r)' # NoDoc
        PROVE  Doc(r)' = Merge(Doc(r)', p)
    <3>1. Doc(r)' = Merge(existing[r], p)
      BY <1>1, <1>2, <2>1, <2>2, <2>3 DEF Write, Doc, Updated
    <3> QED BY <1>1, <2>2, <3>1, MergeTwice
  <2> QED BY <1>1, <1>3, <2>1, <2>3 DEF HandlerInv
<1>14. CASE Reread(r)
  <2>1. pc[r] = "reread" /\ pc'[r] = "after" /\ committed'[r] = Doc(r)
    BY <1>2, <1>14 DEF Reread, Proceed
  <2> QED BY <1>3, <1>4, <2>1 DEF HandlerInv
<1>15. CASE DeleteFinds(r) \/ RemoveCounts(r) \/ RemoveDeletes(r)
  <2>1. req[r].kind = "delete"
    BY <1>3, <1>15 DEF DeleteFinds, RemoveCounts, RemoveDeletes, At, StageInv
  <2>2. pc'[r] \in {"done", "count", "remove", "after"}
    BY <1>2, <1>15 DEF DeleteFinds, RemoveCounts, RemoveDeletes, Refuse, Proceed
  <2> QED BY <1>4, <2>1, <2>2
<1>16. CASE AfterCommit(r) \/ Respond(r)
  <2>1. pc'[r] \in {"done", "copying"} /\ UNCHANGED committed
    BY <1>2, <1>16 DEF AfterCommit, Respond
  <2> QED BY <1>4, <2>1
<1>17. CASE Notify(r)
  BY <1>1, <1>3, <1>17 DEF Notify, HandlerInv, Doc
<1> QED BY <1>6, <1>7, <1>8, <1>9, <1>10, <1>11, <1>12, <1>13, <1>14, <1>15,
           <1>16, <1>17 DEF Step

LEMMA UpdaterInductive ==
    ASSUME OneUpdater PROVE Spec => []AnswerInv /\ []UpdaterInv
<1>1. Init /\ AnswerInv => UpdaterInv
  BY DEF Init, UpdaterInv, Allowed, HandlerInv
<1>2. AnswerInv' /\ UpdaterInv /\ [Next]_vars => UpdaterInv'
  <2> SUFFICES ASSUME AnswerInv', UpdaterInv, [Next]_vars PROVE UpdaterInv'
    OBVIOUS
  <2>1. CASE UNCHANGED vars
    BY <2>1 DEF vars, UpdaterInv, Allowed, HandlerInv, Doc
  <2>2. ASSUME NEW r \in Requests, Step(r) PROVE UpdaterInv'
    <3>1. req' = req
      BY <2>2, StepsApart DEF UpdaterInv, AnswerInv
    <3>2. \A s \in Requests : HandlerInv(s)'
      BY <2>2, OthersKeep, OwnKeep
    <3> QED BY <3>1, <3>2 DEF UpdaterInv, Allowed
  <2> QED BY <2>1, <2>2 DEF Next
<1> QED BY <1>1, <1>2, AnswerInductive, OneUpdater, PTL DEF Spec

---------------------------------------------------------------------------
(* The atomic store                                                         *)

LEMMA StepPerforms ==
    ASSUME UpdaterInv, NEW r \in Requests, Step(r)
    PROVE  Atomic!Perform(r) \/ UNCHANGED <<req, table, wrote>>
<1> DEFINE q == req[r]
<1>1. /\ req' = req /\ q.id \in Ids /\ q.body \in Docs
      /\ \A i \in Ids \ {q.id} : table'[i] = table[i]
      /\ Doc(r) = table[q.id] /\ DOMAIN table = Ids
  BY StepsApart DEF UpdaterInv, AnswerInv, TypeInv, TypeOK, Doc
<1>2. HandlerInv(r) /\ StageInv /\ (r \in wrote => pc[r] \notin {"insert", "update", "remove"})
  BY DEF UpdaterInv, AnswerInv, TypeInv, WrittenInv
<1>3. ASSUME Effect(q, Doc(r), table'[q.id]), r \notin wrote, wrote' = wrote \cup {r}
      PROVE  Atomic!Perform(r)
  BY <1>1, <1>3 DEF Atomic!Perform
<1>4. CASE Insert(r) /\ Doc(r) = NoDoc
  <2>1. /\ pc[r] = "insert" /\ wrote' = wrote \cup {r}
        /\ table'[q.id] = sanitized[r]
    BY <1>1, <1>4 DEF Insert
  <2> QED BY <1>2, <1>3, <1>4, <2>1 DEF HandlerInv, StageInv, Effect
<1>5. CASE UpdateWrites(r) /\ Doc(r) # NoDoc
  <2>1. /\ pc[r] = "update" /\ wrote' = wrote \cup {r}
        /\ table'[q.id] = Updated(q.kind, existing[r], sanitized[r])
    BY <1>1, <1>5 DEF UpdateWrites, Write
  <2>2. Doc(r) = existing[r] /\ sanitized[r] = q.body
    BY <1>2, <1>5, <2>1 DEF HandlerInv
  <2>3. q.kind \in Updates
    BY <1>2, <2>1 DEF StageInv, Updates
  <2> QED BY <1>2, <1>3, <1>5, <2>1, <2>2, <2>3 DEF Effect, Updates, Commands
<1>6. CASE RemoveDeletes(r) /\ Doc(r) # NoDoc
  <2>1. /\ pc[r] = "remove" /\ wrote' = wrote \cup {r} /\ table'[q.id] = NoDoc
    BY <1>1, <1>6 DEF RemoveDeletes, Write
  <2> QED BY <1>2, <1>3, <1>6, <2>1 DEF StageInv, Effect
<1>7. CASE ~Insert(r) /\ ~UpdateWrites(r) /\ ~RemoveDeletes(r)
  BY <1>1, <1>7, StepsThatWrite DEF UpdaterInv, AnswerInv
<1>8. CASE Insert(r) /\ Doc(r) # NoDoc
  BY <1>1, <1>8 DEF Insert, Refuse
<1>9. CASE (UpdateWrites(r) \/ RemoveDeletes(r)) /\ Doc(r) = NoDoc
  BY <1>1, <1>9 DEF UpdateWrites, RemoveDeletes, Write
<1> QED BY <1>4, <1>5, <1>6, <1>7, <1>8, <1>9

(* Every request takes effect at one instant, on the document as it then    *)
(* is, although it is read, checked and written in statements of their own, *)
(* for any requests, documents and events (sqlite.go:409).                  *)
THEOREM Atomicity ==
    ASSUME OneUpdater PROVE Spec => ImplementsAtomicStore
<1>1. Init => Atomic!Init
  BY DEF Init, Atomic!Init
<1>2. UpdaterInv /\ [Next]_vars => [Atomic!Next]_(Atomic!vars)
  <2> SUFFICES ASSUME UpdaterInv, [Next]_vars
               PROVE  Atomic!Next \/ UNCHANGED <<req, table, wrote>>
    BY DEF Atomic!vars
  <2>1. CASE UNCHANGED vars
    BY <2>1 DEF vars
  <2> QED BY <2>1, StepPerforms DEF Next, Atomic!Next
<1> QED BY <1>1, <1>2, UpdaterInductive, OneUpdater, PTL
        DEF Spec, ImplementsAtomicStore, Atomic!Spec

(* A PUT that succeeds answers with a document that has its change          *)
(* (collection.go:620).                                                     *)
THEOREM AnswersItsChange ==
    ASSUME OneUpdater PROVE Spec => []PutAnswersItsChange
<1>1. UpdaterInv => PutAnswersItsChange
  BY DEF UpdaterInv, HandlerInv, PutAnswersItsChange
<1> QED BY <1>1, UpdaterInductive, OneUpdater, PTL

---------------------------------------------------------------------------
(* What the Validate event approves and what is stored *)

Simple == {"put", "set", "unset"}

ApprovalInv(r) ==
    /\ pc[r] \in {"select", "update"} /\ req[r].kind \in Simple =>
           /\ approved[r] = Updated(req[r].kind, previous[r], req[r].body)
           /\ Doc(r) \in {previous[r], NoDoc}
           /\ req[r].skip \/ Accepts(approved[r])
    /\ pc[r] = "reread" /\ req[r].kind \in Simple => Doc(r) \in {approved[r], NoDoc}

ApprovedInv == UpdaterInv /\ \A r \in Requests : ApprovalInv(r)

LEMMA OthersApprove ==
    ASSUME OneUpdater, ApprovedInv, NEW r \in Requests, Step(r),
           NEW s \in Requests \ {r}
    PROVE  ApprovalInv(s)'
<1>1. UpdaterInv /\ TypeInv /\ StageInv /\ ApprovalInv(s)
  BY DEF ApprovedInv, UpdaterInv, AnswerInv, TypeInv
<1>2. /\ req' = req /\ pc'[s] = pc[s] /\ sanitized'[s] = sanitized[s]
      /\ previous'[s] = previous[s] /\ approved'[s] = approved[s]
  BY <1>1, StepsApart DEF Own
<1>3. pc[s] \in {"select", "update", "reread"} => Doc(s)' \in {Doc(s), NoDoc}
  BY <1>1, OthersDelete DEF StageInv, Updates
<1> QED BY <1>1, <1>2, <1>3 DEF ApprovalInv

LEMMA OwnApproves ==
    ASSUME ApprovedInv, NEW r \in Requests, Step(r)
    PROVE  ApprovalInv(r)'
<1> DEFINE q == req[r]
<1>1. /\ q.body \in Docs /\ Doc(r) \in Docs \cup {NoDoc} /\ q.id \in Ids
      /\ Defaults \in Docs /\ req' = req /\ NoDoc \notin Docs
  BY CollectionAssumption, StepsApart
  DEF ApprovedInv, UpdaterInv, AnswerInv, TypeInv, TypeOK, Doc
<1>2. /\ pc \in [Requests -> Labels] /\ DOMAIN sanitized = Requests
      /\ DOMAIN previous = Requests /\ DOMAIN approved = Requests
      /\ table \in [Ids -> Docs \cup {NoDoc}]
  BY DEF ApprovedInv, UpdaterInv, AnswerInv, TypeInv, TypeOK
<1>3. HandlerInv(r) /\ StageInv /\ ApprovalInv(r)
  BY DEF ApprovedInv, UpdaterInv, AnswerInv, TypeInv
<1> USE DEF Goto, Answer
<1>5. ASSUME pc'[r] \notin {"select", "update", "reread"}
      PROVE  ApprovalInv(r)'
  BY <1>5 DEF ApprovalInv
<1>6. ASSUME NEW status, Refuse(r, status) PROVE ApprovalInv(r)'
  BY <1>2, <1>5, <1>6 DEF Refuse
<1>7. CASE Cancelled(r) \/ StatementFails(r)
  BY <1>6, <1>7 DEF Cancelled, StatementFails
<1>8. CASE Get(r) \/ Insert(r) \/ Reread(r) \/ DeleteFinds(r) \/ RemoveCounts(r)
           \/ RemoveDeletes(r) \/ AfterCommit(r) \/ Respond(r)
  <2>1. pc'[r] \in {"done", "after", "count", "remove", "copying"}
    BY <1>2, <1>8 DEF Get, Insert, Reread, DeleteFinds, RemoveCounts, RemoveDeletes,
                      AfterCommit, Respond, Refuse, Proceed
  <2> QED BY <1>5, <2>1
<1>9. CASE PostChecks(r)
  <2>1. pc'[r] \in {"done", "insert"}
    BY <1>2, <1>9 DEF PostChecks, Refuse
  <2> QED BY <1>5, <2>1
<1>10. CASE PutChecks(r)
  <2> DEFINE merged == Merge(Doc(r), q.body)
  <2>1. CASE Refuse(r, 400) \/ Refuse(r, 404) \/ pc'[r] = "done"
    BY <1>5, <1>6, <2>1
  <2>2. CASE ~Refuse(r, 400) /\ ~Refuse(r, 404) /\ pc'[r] # "done"
    <3>1. /\ Doc(r) # NoDoc /\ q.kind = "put" /\ pc'[r] = "select"
          /\ previous'[r] = Doc(r) /\ approved'[r] = merged
          /\ q.skip \/ Accepts(merged)
          /\ UNCHANGED table
      BY <1>2, <1>10, <2>2 DEF PutChecks, At
    <3>2. Doc(r)' = Doc(r) /\ merged = Updated(q.kind, Doc(r), q.body)
      BY <1>1, <3>1 DEF Doc, Updated
    <3> QED BY <1>1, <3>1, <3>2 DEF ApprovalInv
  <2> QED BY <2>1, <2>2
<1>11. CASE CommandChecks(r)
  <2> DEFINE merged == Simulated(q.kind, Doc(r), q.body)
  <2>1. CASE Refuse(r, 400) \/ Refuse(r, 404)
    BY <1>6, <2>1
  <2>2. CASE ~Refuse(r, 400) /\ ~Refuse(r, 404)
    <3>1. /\ Doc(r) # NoDoc /\ q.kind \in Commands /\ pc'[r] = "select"
          /\ previous'[r] = Doc(r) /\ approved'[r] = merged
          /\ Accepts(merged) /\ UNCHANGED table
      BY <1>2, <1>11, <2>2 DEF CommandChecks, At
    <3>2. Doc(r)' = Doc(r)
          /\ (q.kind \in Simple => merged = Updated(q.kind, Doc(r), q.body))
      BY <1>1, <3>1 DEF Doc, Simulated, Simple
    <3> QED BY <1>1, <3>1, <3>2 DEF ApprovalInv
  <2> QED BY <2>1, <2>2
<1>12. CASE UpdateFinds(r)
  <2>1. CASE Refuse(r, 404)
    BY <1>6, <2>1
  <2>2. CASE ~Refuse(r, 404)
    <3>1. /\ pc[r] = "select" /\ UNCHANGED <<table, previous, approved>>
          /\ \/ pc'[r] = "reread" /\ Doc(r) = NoDoc
             \/ pc'[r] = "update"
      BY <1>2, <1>12, <2>2 DEF UpdateFinds
    <3> QED BY <1>1, <1>3, <3>1 DEF ApprovalInv, Doc
  <2> QED BY <2>1, <2>2
<1>13. CASE UpdateWrites(r)
  <2>1. /\ pc[r] = "update" /\ pc'[r] = "reread" /\ UNCHANGED approved
        /\ Write(r, Updated(q.kind, existing[r], sanitized[r]))
    BY <1>2, <1>13 DEF UpdateWrites
  <2>2. ASSUME q.kind \in Simple, Doc(r)' # NoDoc PROVE Doc(r)' = approved[r]
    <3>1. /\ Doc(r) # NoDoc
          /\ Doc(r)' = Updated(q.kind, existing[r], sanitized[r])
      BY <1>1, <1>2, <2>1, <2>2 DEF Write, Doc
    <3>2. existing[r] = Doc(r) /\ previous[r] = Doc(r) /\ sanitized[r] = q.body
      BY <1>3, <2>1, <2>2, <3>1 DEF HandlerInv, ApprovalInv
    <3> QED BY <1>3, <2>1, <2>2, <3>1, <3>2 DEF ApprovalInv
  <2> QED BY <1>1, <2>1, <2>2 DEF ApprovalInv
<1>14. CASE Notify(r)
  BY <1>1, <1>3, <1>14 DEF Notify, ApprovalInv, Doc
<1> QED BY <1>7, <1>8, <1>9, <1>10, <1>11, <1>12, <1>13, <1>14 DEF Step

LEMMA ApprovedStep ==
    ASSUME OneUpdater, ApprovedInv, UpdaterInv', [Next]_vars
    PROVE  ApprovedInv'
<1>1. CASE UNCHANGED vars
  BY <1>1 DEF vars, ApprovedInv, ApprovalInv, Doc
<1>2. ASSUME NEW r \in Requests, Step(r) PROVE ApprovedInv'
  BY <1>2, OthersApprove, OwnApproves DEF ApprovedInv
<1> QED BY <1>1, <1>2 DEF Next

(* What Validate approved, on a document that was read earlier, is what a   *)
(* PUT, $set or $unset stores (collection.go:590).                          *)
THEOREM StoresApproved ==
    ASSUME OneUpdater PROVE Spec => []ApprovedIsStored
<1>1. Init /\ UpdaterInv => ApprovedInv
  BY DEF Init, ApprovedInv, ApprovalInv
<1>2. ApprovedInv /\ UpdaterInv' /\ [Next]_vars => ApprovedInv'
  BY ApprovedStep
<1>3. ApprovedInv => ApprovedIsStored
  BY DEF ApprovedInv, UpdaterInv, AnswerInv, TypeInv, TypeOK, ApprovalInv,
     ApprovedIsStored, Simple
<1> QED BY <1>1, <1>2, <1>3, UpdaterInductive, OneUpdater, PTL DEF Spec

(* What the Post event sets is not validated again: it has to leave a       *)
(* document that was accepted acceptable.                                   *)
EventsKeepValid == \A d \in Docs : Accepts(d) => Accepts(Merge(d, EventSets))

InsertsValid ==
    \A r \in Requests : pc[r] = "insert" => req[r].skip \/ Accepts(sanitized[r])

LEMMA InsertsValidStep ==
    ASSUME EventsKeepValid, TypeInv, InsertsValid, [Next]_vars
    PROVE  InsertsValid'
<1>1. CASE UNCHANGED vars
  BY <1>1 DEF vars, InsertsValid
<1>2. ASSUME NEW r \in Requests, Step(r) PROVE InsertsValid'
  <2> DEFINE d == Merge(Defaults, req[r].body)
  <2>1. /\ req' = req /\ d \in Docs
        /\ pc \in [Requests -> Labels] /\ DOMAIN sanitized = Requests
    BY <1>2, StepsApart, MergeType, CollectionAssumption DEF TypeInv, TypeOK
  <2>2. \A s \in Requests \ {r} : pc'[s] = pc[s] /\ sanitized'[s] = sanitized[s]
    BY <1>2, StepsApart DEF Own
  <2>3. ASSUME pc'[r] # "insert" \/ req[r].skip \/ Accepts(sanitized'[r])
        PROVE  InsertsValid'
    BY <2>1, <2>2, <2>3 DEF InsertsValid
  <2> USE DEF Goto, Answer
  <2>4. CASE PostChecks(r)
    <3>1. CASE Refuse(r, 400)
      BY <2>1, <2>3, <3>1 DEF Refuse
    <3>2. CASE ~Refuse(r, 400)
      <4>1. sanitized'[r] = EventDoc(r, d) /\ (req[r].skip \/ Accepts(d))
        BY <2>1, <2>4, <3>2 DEF PostChecks, Insertable
      <4>2. req[r].skip \/ Accepts(sanitized'[r])
        BY <2>1, <4>1 DEF EventDoc, EventsKeepValid
      <4> QED BY <2>3, <4>2
    <3> QED BY <3>1, <3>2
  <2>5. CASE Notify(r)
    BY <2>5, <2>1 DEF Notify, InsertsValid
  <2>6. CASE ~PostChecks(r) /\ ~Notify(r)
    <3>1. pc'[r] # "insert"
      BY <1>2, <2>1, <2>6 DEF Step, Cancelled, StatementFails, Get, Insert,
         PutChecks, CommandChecks, UpdateFinds, UpdateWrites, Reread, DeleteFinds,
         RemoveCounts, RemoveDeletes, AfterCommit, Respond, Refuse, Proceed
    <3> QED BY <2>3, <3>1
  <2> QED BY <2>4, <2>5, <2>6
<1> QED BY <1>1, <1>2 DEF Next

LEMMA ValidStep ==
    ASSUME OneUpdater, \A r \in Requests : "inc" \notin MayDo[r],
           ApprovedInv, InsertsValid, StoredValid, [Next]_vars
    PROVE  StoredValid'
<1> USE DEF ApprovedInv, UpdaterInv, AnswerInv
<1>1. CASE UNCHANGED <<req, table, wrote>>
  BY <1>1 DEF StoredValid
<1>2. ASSUME NEW r \in Requests, Step(r), ~UNCHANGED <<req, table, wrote>>
      PROVE  StoredValid'
  <2> DEFINE q == req[r]
  <2>1. /\ req' = req /\ q.id \in Ids /\ table \in [Ids -> Docs \cup {NoDoc}]
        /\ \A i \in Ids \ {q.id} : table'[i] = table[i]
        /\ wrote \subseteq wrote' /\ Doc(r) = table[q.id]
    BY <1>2, StepsApart DEF TypeInv, TypeOK, Doc
  <2>2. HandlerInv(r) /\ ApprovalInv(r) /\ StageInv /\ q.kind # "inc"
    BY DEF TypeInv, Allowed
  <2>3. ASSUME \/ table'[q.id] \in {table[q.id], NoDoc}
               \/ q.skip /\ r \in wrote'
               \/ Accepts(table'[q.id])
        PROVE  StoredValid'
    BY <2>1, <2>3 DEF StoredValid
  <2>4. CASE Insert(r)
    <3>1. /\ pc[r] = "insert" /\ table'[q.id] = sanitized[r] /\ r \in wrote'
      BY <1>2, <2>1, <2>4 DEF Insert, Refuse
    <3> QED BY <2>3, <3>1 DEF InsertsValid
  <2>5. CASE UpdateWrites(r)
    <3>1. /\ pc[r] = "update" /\ r \in wrote' /\ Doc(r) # NoDoc
          /\ table'[q.id] = Updated(q.kind, existing[r], sanitized[r])
      BY <1>2, <2>1, <2>5 DEF UpdateWrites, Write
    <3>2. existing[r] = Doc(r) /\ sanitized[r] = q.body
      BY <2>2, <3>1 DEF HandlerInv
    <3>3. CASE q.kind = "push"
      BY <2>1, <2>3, <3>1, <3>2, <3>3 DEF Updated
    <3>4. CASE q.kind \in Simple
      BY <2>2, <2>3, <3>1, <3>2, <3>4 DEF ApprovalInv
    <3> QED BY <2>2, <3>1, <3>3, <3>4 DEF StageInv, Commands, Simple
  <2>6. CASE RemoveDeletes(r)
    <3>1. table'[q.id] = NoDoc
      BY <1>2, <2>1, <2>6 DEF RemoveDeletes, Write
    <3> QED BY <2>3, <3>1
  <2> QED BY <1>2, <2>1, <2>4, <2>5, <2>6, StepsThatWrite
<1> QED BY <1>1, <1>2 DEF Next, vars

(* What is stored passed the Validate event, unless a request skipped the   *)
(* events: where the Post event keeps a document acceptable, and without    *)
(* $inc, which the event is shown without the fields the document lacks     *)
(* (collection.go:1544).                                                    *)
THEOREM StoresValid ==
    ASSUME OneUpdater, EventsKeepValid,
           \A r \in Requests : "inc" \notin MayDo[r]
    PROVE  Spec => []StoredValid
<1>1. Init /\ UpdaterInv => ApprovedInv /\ InsertsValid /\ StoredValid
  BY DEF Init, ApprovedInv, ApprovalInv, InsertsValid, StoredValid
<1>2. ApprovedInv /\ UpdaterInv' /\ [Next]_vars => ApprovedInv'
  BY ApprovedStep
<1>3. ApprovedInv /\ InsertsValid /\ [Next]_vars => InsertsValid'
  BY InsertsValidStep DEF ApprovedInv, UpdaterInv, AnswerInv
<1>4. ApprovedInv /\ InsertsValid /\ StoredValid /\ [Next]_vars => StoredValid'
  BY ValidStep
<1> QED BY <1>1, <1>2, <1>3, <1>4, UpdaterInductive, OneUpdater, PTL DEF Spec
=============================================================================
