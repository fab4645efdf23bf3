--------------------------- MODULE ScriptsProofs ---------------------------
(* What is proved of Scripts, for every number of requests, contexts,       *)
(* scripts, versions and executions.                                        *)
EXTENDS Scripts, FiniteSetTheorems, TLAPS

USE DEF fileVars, poolVars, stopVars, reqVars

---------------------------------------------------------------------------
(* Types *)

ContextCount == Cardinality(Contexts)

LEMMA CountType == ContextCount \in Nat
  BY FS_CardinalityType, ScriptsAssumption DEF ContextCount

(* A request has a script from RunEvent on, and a context from Receive on. *)
HandInv ==
    \A q \in Requests :
        /\ pc[q] \notin {"idle", "handler", "dropped"} => script[q] \in Paths
        /\ pc[q] \in {"compile", "run", "reset", "return"} => ctx[q] \in Contexts

TypeInv == TypeOK /\ HandInv

LEMMA InitType == Init => TypeInv
  <1> SUFFICES ASSUME Init PROVE TypeInv
    OBVIOUS
  <1>1. available \in Seq(Contexts) /\ Len(available) <= Cardinality(Contexts)
    BY CountType DEF Init, ContextCount
  <1>2. /\ disk \in [Paths -> 1..MaxVersion] /\ loaded \in [Paths -> 0..MaxVersion]
        /\ execCount \in [Contexts -> 0..MaxExec]
    BY ScriptsAssumption DEF Init
  <1>3. /\ compiled \in [Paths -> SUBSET Contexts]
        /\ global \in [Contexts -> Paths \cup {None}]
        /\ lately \in [Contexts -> SUBSET Paths]
        /\ shut \in BOOLEAN /\ closing \in BOOLEAN
        /\ forced \in BOOLEAN /\ crashed \in BOOLEAN
    BY DEF Init
  <1>4. /\ pc \in [Requests -> Labels]
        /\ script \in [Requests -> Paths \cup {None}]
        /\ ctx \in [Requests -> Contexts \cup {None}]
        /\ ran \in [Requests -> SUBSET Paths]
        /\ HandInv
    BY DEF Init, Labels, HandInv
  <1>5. QED
    BY <1>1, <1>2, <1>3, <1>4 DEF TypeInv, TypeOK

LEMMA FinishType ==
    ASSUME TypeInv, NEW q \in Requests, NEW label \in {"handler", "dropped"},
           Finish(q, label)
    PROVE  /\ pc' \in [Requests -> Labels]
           /\ script' \in [Requests -> Paths \cup {None}]
           /\ ctx' \in [Requests -> Contexts \cup {None}]
           /\ ran' \in [Requests -> SUBSET Paths]
           /\ HandInv'
  BY DEF TypeInv, TypeOK, HandInv, Finish, Goto, Labels

(* The actions by what they leave alone: first those of the server, ... *)
LEMMA ServerType == TypeInv /\ ServerStep => TypeInv'
  <1> SUFFICES ASSUME TypeInv, ServerStep PROVE TypeInv'
    OBVIOUS
  <1> USE ScriptsAssumption DEF TypeInv, TypeOK, HandInv
  <1>1. ASSUME NEW p \in Paths, SaveScript(p) PROVE TypeInv'
    BY <1>1 DEF SaveScript
  <1>2. ASSUME NEW p \in Paths, UpdateCollection(p) PROVE TypeInv'
    BY <1>2 DEF UpdateCollection
  <1>3. CASE StopAccepting
    BY <1>3 DEF StopAccepting
  <1>4. CASE Close
    BY <1>4 DEF Close
  <1>5. QED
    BY <1>1, <1>2, <1>3, <1>4 DEF ServerStep

(* ... then those of a request. *)
LEMMA EventType == ASSUME TypeInv, NEW q \in Requests, EventStep(q) PROVE TypeInv'
  <1> USE DEF TypeInv, TypeOK
  <1>1. CASE UseDisposed
    BY <1>1 DEF UseDisposed, HandInv
  <1>2. CASE Arrive(q) \/ Respond(q)
    BY <1>2 DEF Arrive, Respond, Goto, Labels, HandInv
  <1>3. ASSUME NEW p \in Paths, RunEvent(q, p) PROVE TypeInv'
    BY <1>3 DEF RunEvent, Goto, Labels, HandInv
  <1>4. CASE RunTraditional(q)
    BY <1>4 DEF RunTraditional, Goto, Labels, HandInv
  <1>5. CASE Acquire(q) \/ Timeout(q)
    BY <1>5 DEF Acquire, Timeout, Goto, Labels, HandInv
  <1>6. CASE Receive(q)
    <2>1. /\ Head(available) \in Contexts
          /\ Tail(available) \in Seq(Contexts)
          /\ Len(Tail(available)) = Len(available) - 1
      BY <1>6 DEF Receive
    <2>2. available' \in Seq(Contexts) /\ Len(available') <= Cardinality(Contexts)
      BY <1>6, <2>1, CountType DEF Receive, ContextCount
    <2>3. QED
      BY <1>6, <2>1, <2>2 DEF Receive, Goto, Labels, HandInv
  <1>7. CASE ReceiveNil(q)
    BY <1>7, FinishType DEF ReceiveNil
  <1>8. CASE Compile(q) /\ ~UseDisposed
    <2>1. script[q] \in Paths /\ ctx[q] \in Contexts
      BY <1>8 DEF Compile, HandInv
    <2>2. /\ compiled' = [compiled EXCEPT ![script[q]] = @ \cup {ctx[q]}]
          /\ Goto(q, "run")
          /\ UNCHANGED <<fileVars, available, global, lately, execCount,
                         stopVars, script, ctx, ran>>
      BY <1>8 DEF Compile
    <2>3. compiled' \in [Paths -> SUBSET Contexts]
      BY <2>1, <2>2
    <2>4. QED
      BY <1>8, <2>1, <2>2, <2>3 DEF Goto, Labels, HandInv
  <1>9. CASE CompileFails(q)
    BY <1>9 DEF CompileFails, Goto, Labels, HandInv
  <1>9b. CASE ScriptThrows(q)
    <2>1. script[q] \in Paths
      BY <1>9b DEF ScriptThrows, HandInv
    <2>2. ran' \in [Requests -> SUBSET Paths]
      BY <1>9b, <2>1 DEF ScriptThrows
    <2>3. QED
      BY <1>9b, <2>2 DEF ScriptThrows, Goto, Labels, HandInv
  <1>10. CASE RunScript(q) /\ ~UseDisposed
    <2>1. script[q] \in Paths /\ ctx[q] \in Contexts
      BY <1>10 DEF RunScript, HandInv
    <2>2. PICK r \in Globals(ctx[q], script[q]) :
              /\ global' = [global EXCEPT ![ctx[q]] = r]
              /\ ran' = [ran EXCEPT ![q] = {script[q], r} \ {None}]
      BY <1>10 DEF RunScript
    <2>3. /\ lately' = [lately EXCEPT ![ctx[q]] = @ \cup {script[q]}]
          /\ Goto(q, "release")
          /\ UNCHANGED <<fileVars, compiled, available, execCount, stopVars,
                         script, ctx>>
      BY <1>10 DEF RunScript
    <2>4. r \in Paths \cup {None}
      BY <2>1 DEF Globals
    <2>5. /\ global' \in [Contexts -> Paths \cup {None}]
          /\ lately' \in [Contexts -> SUBSET Paths]
      BY <2>1, <2>2, <2>3, <2>4
    <2>6. ran' \in [Requests -> SUBSET Paths]
      <3>1. {script[q], r} \ {None} \in SUBSET Paths
        BY <2>1, <2>4
      <3>2. QED
        BY <2>2, <3>1
    <2>7. QED
      BY <1>10, <2>3, <2>5, <2>6 DEF RunScript, Goto, Labels, HandInv
  <1>11. CASE Release(q)
    <2>1. CASE Finish(q, "handler")
      BY <1>11, <2>1, FinishType DEF Release
    <2>2. CASE ctx[q] # None /\ Goto(q, "reset") /\ UNCHANGED <<script, ctx, ran>>
      BY <1>11, <2>2 DEF Release, Goto, Labels, HandInv
    <2>3. QED
      BY <1>11, <2>1, <2>2 DEF Release
  <1>12. CASE Reset(q) /\ ~UseDisposed
    <2>1. ctx[q] \in Contexts
      BY <1>12 DEF Reset, HandInv
    <2>2. /\ Goto(q, "return")
          /\ UNCHANGED <<fileVars, compiled, available, stopVars, script, ctx, ran>>
      BY <1>12 DEF Reset
    <2>3. CASE execCount[ctx[q]] = MaxExec
      <3>1. /\ execCount' = [execCount EXCEPT ![ctx[q]] = 0]
            /\ global' = [global EXCEPT ![ctx[q]] = None]
            /\ lately' = [lately EXCEPT ![ctx[q]] = {}]
        BY <1>12, <2>3 DEF Reset
      <3>2. execCount' \in [Contexts -> 0..MaxExec]
        BY <2>1, <3>1, ScriptsAssumption
      <3>3. /\ global' \in [Contexts -> Paths \cup {None}]
            /\ lately' \in [Contexts -> SUBSET Paths]
        BY <2>1, <3>1
      <3>4. QED
        BY <1>12, <2>2, <3>2, <3>3 DEF Reset, Goto, Labels, HandInv
    <2>4. CASE execCount[ctx[q]] # MaxExec
      <3>1. /\ execCount' = [execCount EXCEPT ![ctx[q]] = @ + 1]
            /\ UNCHANGED <<global, lately>>
        BY <1>12, <2>4 DEF Reset
      <3>2. execCount' \in [Contexts -> 0..MaxExec]
        BY <2>1, <2>4, <3>1, ScriptsAssumption
      <3>3. QED
        BY <1>12, <2>2, <3>1, <3>2 DEF Reset, Goto, Labels, HandInv
    <2>5. QED
      BY <2>3, <2>4
  <1>13. CASE Return(q)
    <2>1. CASE shut
      BY <1>13, <2>1, FinishType DEF Return
    <2>2. CASE ~shut
      <3>1. ctx[q] \in Contexts
        BY <1>13 DEF Return, HandInv
      <3>2. /\ Append(available, ctx[q]) \in Seq(Contexts)
            /\ Len(Append(available, ctx[q])) = Len(available) + 1
        BY <3>1
      <3>3. /\ available' = IF Len(available) < Cardinality(Contexts)
                            THEN Append(available, ctx[q]) ELSE available
            /\ Finish(q, "handler")
            /\ UNCHANGED <<fileVars, compiled, global, lately, execCount, stopVars>>
        BY <1>13, <2>2 DEF Return
      <3>4. available' \in Seq(Contexts) /\ Len(available') <= Cardinality(Contexts)
        <4>1. Len(available) \in Nat /\ Cardinality(Contexts) \in Nat
          BY CountType DEF ContextCount
        <4>2. QED
          BY <3>2, <3>3, <4>1
      <3>5. QED
        BY <3>3, <3>4, FinishType
    <2>3. QED
      BY <2>1, <2>2
  <1>14. QED
    BY <1>1, <1>2, <1>3, <1>4, <1>5, <1>6, <1>7, <1>8, <1>9, <1>9b, <1>10,
       <1>11, <1>12, <1>13 DEF EventStep

LEMMA StutterType == TypeInv /\ UNCHANGED vars => TypeInv'
  BY DEF TypeInv, TypeOK, HandInv, vars

THEOREM TypesInductive == Spec => []TypeInv
  <1>1. TypeInv /\ [Next]_vars => TypeInv'
    BY ServerType, EventType, StutterType DEF Next
  <1>2. QED
    BY InitType, <1>1, PTL DEF Spec

(* Every variable keeps its type: no event and no failure leaves the pool,   *)
(* its cache or a request in a state outside what the code declares.         *)
THEOREM TypeCorrect == Spec => []TypeOK
  <1>1. TypeInv => TypeOK
    BY DEF TypeInv
  <1>2. QED
    BY TypesInductive, <1>1, PTL

---------------------------------------------------------------------------
(* The shutdown *)

(* The pool is shut down after the listener, and until then nothing of what *)
(* a shutdown can do to a request has happened.                             *)
ShutdownInv ==
    /\ shut => closing
    /\ ~shut => ~crashed /\ \A q \in Requests : pc[q] # "dropped"

CloseInv == TypeInv /\ ShutdownInv /\ OrderlyClose

LEMMA CloseEvent ==
    ASSUME CloseInv, NEW q \in Requests, EventStep(q)
    PROVE  ShutdownInv' /\ OrderlyClose'
  <1> USE DEF CloseInv, TypeInv, TypeOK, ShutdownInv, OrderlyClose, Labels
  <1>1. CASE UseDisposed /\ pc[q] # "idle"
    BY <1>1 DEF UseDisposed
  <1>2. CASE Arrive(q) \/ Respond(q)
    BY <1>2 DEF Arrive, Respond, Goto
  <1>3. ASSUME NEW p \in Paths, RunEvent(q, p) PROVE ShutdownInv' /\ OrderlyClose'
    BY <1>3 DEF RunEvent, Goto
  <1>4. CASE RunTraditional(q) \/ ScriptThrows(q)
    BY <1>4 DEF RunTraditional, ScriptThrows, Goto
  <1>5. CASE Acquire(q) \/ Receive(q) \/ Timeout(q) \/ CompileFails(q)
    BY <1>5 DEF Acquire, Receive, Timeout, CompileFails, Goto
  <1>6. CASE ReceiveNil(q) \/ Return(q)
    BY <1>6 DEF ReceiveNil, Return, Finish, Goto
  <1>7. CASE (Compile(q) \/ Reset(q) \/ RunScript(q)) /\ ~UseDisposed
    BY <1>7 DEF Compile, Reset, RunScript, Goto
  <1>8. CASE Release(q)
    BY <1>8 DEF Release, Finish, Goto
  <1>9. QED
    BY <1>1, <1>2, <1>3, <1>4, <1>5, <1>6, <1>7, <1>8
       DEF EventStep, Compile, Reset, RunScript

(* A shutdown that waited for every request drops none of them and uses      *)
(* nothing that is disposed.                                                 *)
THEOREM ClosesInOrder == Spec => []OrderlyClose
  <1>1. Init => CloseInv
    BY InitType DEF Init, CloseInv, ShutdownInv, OrderlyClose
  <1>2. CloseInv /\ [Next]_vars => CloseInv'
    <2> SUFFICES ASSUME CloseInv, [Next]_vars PROVE CloseInv'
      OBVIOUS
    <2>1. TypeInv'
      BY ServerType, EventType, StutterType DEF CloseInv, Next
    <2>2. CASE ServerStep
      <3>1. CASE Close
        <4>1. shut' /\ closing' /\ ~crashed' /\ pc' = pc
          BY <3>1 DEF Close, CloseInv, ShutdownInv
        <4>2. ~forced' => \A q \in Requests : pc[q] = "idle"
          BY <3>1 DEF Close, CloseInv, ShutdownInv
        <4>3. QED
          BY <2>1, <4>1, <4>2 DEF CloseInv, ShutdownInv, OrderlyClose
      <3>2. CASE ~Close
        <4>1. UNCHANGED <<shut, forced, crashed, pc>> /\ (closing => closing')
          BY <2>2, <3>2 DEF ServerStep, SaveScript, UpdateCollection, StopAccepting
        <4>2. QED
          BY <2>1, <4>1 DEF CloseInv, ShutdownInv, OrderlyClose
      <3>3. QED
        BY <3>1, <3>2
    <2>3. CASE \E q \in Requests : EventStep(q)
      BY <2>1, <2>3, CloseEvent DEF CloseInv
    <2>4. CASE UNCHANGED vars
      BY <2>1, <2>4 DEF vars, CloseInv, ShutdownInv, OrderlyClose
    <2>5. QED
      BY <2>2, <2>3, <2>4 DEF Next
  <1>3. CloseInv => OrderlyClose
    BY DEF CloseInv
  <1>4. QED
    BY <1>1, <1>2, <1>3, PTL DEF Spec

---------------------------------------------------------------------------
(* The contexts *)

(* A request holds a context only between Receive and Return. *)
EmptyHandInv ==
    \A q \in Requests :
        pc[q] \in {"idle", "handler", "acquire", "waiting", "own"} => ctx[q] = None

PoolInv == TypeInv /\ EmptyHandInv /\ ContextsConserved

(* A pool that lacks a context has room for it: ReleaseContext never finds  *)
(* the channel full (v8_pool.go:201, "shouldn't happen").                   *)
LEMMA RoomForOneMore ==
    ASSUME TypeOK, NEW c \in Contexts, c \notin Pooled,
           \A i, j \in DOMAIN available : available[i] = available[j] => i = j
    PROVE  Len(available) < Cardinality(Contexts)
  <1> DEFINE Rest == Contexts \ {c}
  <1>1. /\ IsFiniteSet(Rest) /\ Cardinality(Rest) = Cardinality(Contexts) - 1
        /\ Cardinality(Contexts) \in Nat
    BY FS_RemoveElement, FS_CardinalityType, ScriptsAssumption
  <1>2. Len(available) \in Nat /\ DOMAIN available = 1..Len(available)
    BY DEF TypeOK
  <1>3. available \in [1..Len(available) -> Rest]
    BY <1>2 DEF TypeOK, Pooled
  <1>4. available \in Injection(1..Len(available), Rest)
    BY <1>2, <1>3 DEF Injection, IsInjective
  <1>5. Cardinality(1..Len(available)) <= Cardinality(Rest)
    BY <1>1, <1>4, FS_Injection
  <1>6. Cardinality(1..Len(available)) = Len(available)
    <2> DEFINE n == Len(available)
    <2>1. n \in Int /\ 1 \in Int /\ n >= 0
      BY <1>2
    <2> HIDE DEF n
    <2>2. Cardinality(1..n) = IF 1 > n THEN 0 ELSE n - 1 + 1
      BY <2>1, FS_Interval
    <2>3. QED
      BY <2>1, <2>2 DEF n
  <1>7. QED
    BY <1>1, <1>2, <1>5, <1>6

Distinct(s) == \A i, j \in DOMAIN s : s[i] = s[j] => i = j

LEMMA TakeFirst ==
    ASSUME TypeOK, available # <<>>, Distinct(available),
           available' = Tail(available)
    PROVE  /\ Distinct(available')
           /\ Pooled' = Pooled \ {Head(available)}
  <1> DEFINE n == Len(available)
  <1>1. /\ n \in Nat /\ n > 0 /\ DOMAIN available = 1..n
        /\ DOMAIN available' = 1..(n - 1)
        /\ Head(available) = available[1]
        /\ \A i \in 1..(n - 1) : available'[i] = available[i + 1]
    BY DEF TypeOK
  <1>2. Distinct(available')
    <2> SUFFICES ASSUME NEW i \in 1..(n - 1), NEW j \in 1..(n - 1),
                        available'[i] = available'[j]
                 PROVE  i = j
      BY <1>1 DEF Distinct
    <2>1. i + 1 \in 1..n /\ j + 1 \in 1..n /\ available[i + 1] = available[j + 1]
      BY <1>1
    <2>2. i + 1 = j + 1
      BY <1>1, <2>1 DEF Distinct
    <2>3. QED
      BY <2>2
  <1>3. ASSUME NEW c PROVE c \in Pooled' <=> c \in Pooled /\ c # Head(available)
    <2>1. ASSUME NEW i \in 1..(n - 1), available'[i] = c
          PROVE  c \in Pooled /\ c # Head(available)
      <3>1. i + 1 \in 1..n /\ 1 \in 1..n /\ i + 1 # 1 /\ available[i + 1] = c
        BY <1>1, <2>1
      <3>2. QED
        BY <1>1, <3>1 DEF Pooled, Distinct
    <2>2. ASSUME NEW i \in 1..n, available[i] = c, c # Head(available)
          PROVE  c \in Pooled'
      <3>1. i - 1 \in 1..(n - 1) /\ available'[i - 1] = c
        BY <1>1, <2>2
      <3>2. QED
        BY <1>1, <3>1 DEF Pooled
    <2>3. QED
      BY <1>1, <2>1, <2>2 DEF Pooled
  <1>4. QED
    BY <1>2, <1>3

LEMMA PutLast ==
    ASSUME TypeOK, NEW c \in Contexts, c \notin Pooled, Distinct(available),
           available' = Append(available, c)
    PROVE  /\ Distinct(available')
           /\ Pooled' = Pooled \cup {c}
  <1> DEFINE n == Len(available)
  <1>1. /\ n \in Nat /\ DOMAIN available = 1..n
        /\ DOMAIN available' = 1..(n + 1)
        /\ available'[n + 1] = c
        /\ \A i \in 1..n : available'[i] = available[i]
    BY DEF TypeOK
  <1>2. \A i \in 1..(n + 1) : i = n + 1 \/ i \in 1..n
    BY <1>1
  <1>3. \A i \in 1..n : available[i] # c
    BY <1>1 DEF Pooled
  <1>4. Distinct(available')
    BY <1>1, <1>2, <1>3 DEF Distinct
  <1>5. ASSUME NEW d PROVE d \in Pooled' <=> d \in Pooled \/ d = c
    <2>1. 1..n \subseteq 1..(n + 1) /\ n + 1 \in 1..(n + 1)
      BY <1>1
    <2>2. QED
      BY <1>1, <1>2, <2>1 DEF Pooled
  <1>6. QED
    BY <1>4, <1>5

LEMMA PoolEvent ==
    ASSUME PoolInv, NEW q \in Requests, EventStep(q)
    PROVE  EmptyHandInv' /\ ContextsConserved'
  <1> USE DEF PoolInv, TypeInv, TypeOK, EmptyHandInv, Labels
  <1>1. shut' = shut
    BY DEF EventStep, UseDisposed, Arrive, Respond, RunEvent, RunTraditional,
       Acquire, Receive, ReceiveNil, Timeout, Compile, CompileFails, RunScript,
       ScriptThrows, Release, Reset, Return
  <1>2. CASE UNCHANGED <<available, ctx>> /\ EmptyHandInv'
    <2>1. Pooled' = Pooled
      BY <1>2 DEF Pooled
    <2>2. QED
      BY <1>1, <1>2, <2>1 DEF ContextsConserved
  <1>3. CASE UseDisposed
    BY <1>2, <1>3 DEF UseDisposed
  <1>4. CASE Arrive(q) \/ Respond(q) \/ \E p \in Paths : RunEvent(q, p)
    BY <1>2, <1>4 DEF Arrive, Respond, RunEvent, Goto
  <1>5. CASE RunTraditional(q) \/ Acquire(q) \/ Timeout(q) \/ CompileFails(q)
             \/ ScriptThrows(q)
    BY <1>2, <1>5 DEF RunTraditional, Acquire, Timeout, CompileFails,
       ScriptThrows, Goto
  <1>6. CASE (Compile(q) \/ RunScript(q) \/ Reset(q)) /\ ~UseDisposed
    BY <1>2, <1>6 DEF Compile, RunScript, Reset, Goto
  <1>7. CASE ReceiveNil(q)
    BY <1>1, <1>7 DEF ReceiveNil, Finish, Goto, ContextsConserved
  <1>8. CASE Receive(q)
    <2>1. EmptyHandInv'
      BY <1>8 DEF Receive, Goto
    <2>2. CASE ~shut
      <3> DEFINE c == Head(available)
      <3>1. c \in Contexts /\ c # None /\ ctx[q] = None
        BY <1>8, ScriptsAssumption DEF Receive
      <3>2. /\ Distinct(available')
            /\ Pooled' = Pooled \ {c}
        BY <1>8, <2>2, TakeFirst DEF Receive, ContextsConserved, Distinct
      <3>3. /\ ctx' = [ctx EXCEPT ![q] = c]
            /\ c \in Pooled
        BY <1>8 DEF Receive, Pooled
      <3>4. \A r \in Requests : ctx[r] # c
        BY <2>2, <3>3 DEF ContextsConserved
      <3>5. \A r, t \in Requests : ctx'[r] = ctx'[t] => r = t \/ ctx'[r] = None
        BY <2>2, <3>3, <3>4 DEF ContextsConserved
      <3>6. \A r \in Requests : ctx'[r] \notin Pooled'
        BY <2>2, <3>2, <3>3 DEF ContextsConserved
      <3>7. \A d \in Contexts : d \in Pooled' \/ \E r \in Requests : ctx'[r] = d
        <4>1. ASSUME NEW d \in Contexts, d # c, d \notin Pooled
              PROVE  \E r \in Requests : ctx'[r] = d
          <5>1. PICK r \in Requests : ctx[r] = d
            BY <2>2, <4>1 DEF ContextsConserved
          <5>2. r # q
            BY <3>1, <4>1, <5>1, ScriptsAssumption
          <5>3. QED
            BY <3>3, <5>1, <5>2
        <4>2. ctx'[q] = c
          BY <3>3
        <4>3. QED
          BY <3>2, <4>1, <4>2
      <3>8. QED
        BY <1>1, <2>1, <3>2, <3>5, <3>6, <3>7 DEF ContextsConserved, Distinct,
           Pooled
    <2>3. QED
      BY <1>1, <2>1, <2>2 DEF ContextsConserved
  <1>9. CASE Release(q)
    <2>1. EmptyHandInv'
      BY <1>9 DEF Release, Finish, Goto
    <2>2. CASE shut
      BY <1>1, <2>1, <2>2 DEF ContextsConserved
    <2>3. CASE ~shut
      <3>1. available' = available /\ ctx' = ctx
        BY <1>9, <2>3 DEF Release, Finish
      <3>2. QED
        BY <1>2, <2>1, <3>1
    <2>4. QED
      BY <2>2, <2>3
  <1>10. CASE Return(q)
    <2>1. EmptyHandInv'
      BY <1>10 DEF Return, Finish, Goto
    <2>2. CASE ~shut
      <3> DEFINE c == ctx[q]
      <3>1. c \in Contexts /\ c # None /\ c \notin Pooled
        BY <1>10, <2>2, ScriptsAssumption DEF Return, HandInv, ContextsConserved
      <3>2. Distinct(available)
        BY <2>2 DEF ContextsConserved, Distinct
      <3>3. Len(available) < Cardinality(Contexts)
        BY <3>1, <3>2, RoomForOneMore DEF Distinct
      <3>4. available' = Append(available, c) /\ ctx' = [ctx EXCEPT ![q] = None]
        BY <1>10, <2>2, <3>3 DEF Return, Finish
      <3>5. Distinct(available') /\ Pooled' = Pooled \cup {c}
        BY <3>1, <3>2, <3>4, PutLast
      <3>6. \A r, t \in Requests : ctx'[r] = ctx'[t] => r = t \/ ctx'[r] = None
        BY <2>2, <3>4 DEF ContextsConserved
      <3>7. None \notin Pooled
        BY ScriptsAssumption DEF Pooled
      <3>8. \A r \in Requests : ctx'[r] \notin Pooled'
        BY <2>2, <3>1, <3>4, <3>5, <3>7 DEF ContextsConserved
      <3>9. \A d \in Contexts : d \in Pooled' \/ \E r \in Requests : ctx'[r] = d
        BY <2>2, <3>4, <3>5 DEF ContextsConserved
      <3>10. QED
        BY <1>1, <2>1, <3>5, <3>6, <3>8, <3>9 DEF ContextsConserved, Distinct,
           Pooled
    <2>3. QED
      BY <1>1, <2>1, <2>2 DEF ContextsConserved
  <1>11. QED
    BY <1>3, <1>4, <1>5, <1>6, <1>7, <1>8, <1>9, <1>10 DEF EventStep

LEMMA PoolStep == PoolInv /\ [Next]_vars => PoolInv'
  <1> SUFFICES ASSUME PoolInv, [Next]_vars PROVE PoolInv'
    OBVIOUS
  <1>1. TypeInv'
    BY ServerType, EventType, StutterType DEF PoolInv, Next
  <1>2. CASE ServerStep
    <2>1. UNCHANGED <<available, ctx, pc>> /\ (shut => shut')
      <3>1. CASE Close
        BY <3>1 DEF Close
      <3>2. CASE ~Close
        BY <1>2, <3>2 DEF ServerStep, SaveScript, UpdateCollection, StopAccepting
      <3>3. QED
        BY <3>1, <3>2
    <2>2. Pooled' = Pooled
      BY <2>1 DEF Pooled
    <2>3. QED
      BY <1>1, <2>1, <2>2 DEF PoolInv, EmptyHandInv, ContextsConserved
  <1>3. CASE \E q \in Requests : EventStep(q)
    BY <1>1, <1>3, PoolEvent DEF PoolInv
  <1>4. CASE UNCHANGED vars
    BY <1>1, <1>4 DEF vars, PoolInv, EmptyHandInv, ContextsConserved, Pooled
  <1>5. QED
    BY <1>2, <1>3, <1>4 DEF Next

LEMMA InitPool == Init => PoolInv
  <1> SUFFICES ASSUME Init PROVE PoolInv
    OBVIOUS
  <1>1. None \notin Pooled
    BY ScriptsAssumption DEF Init, Pooled
  <1>2. EmptyHandInv /\ ContextsConserved
    BY <1>1 DEF Init, EmptyHandInv, ContextsConserved
  <1>3. QED
    BY <1>2, InitType DEF PoolInv

(* No context is lost and none is shared, whatever times out, fails, throws  *)
(* or is recreated.                                                          *)
THEOREM ContextsKept == Spec => []ContextsConserved
  <1>1. PoolInv => ContextsConserved
    BY DEF PoolInv
  <1>2. QED
    BY InitPool, PoolStep, <1>1, PTL DEF Spec

---------------------------------------------------------------------------
(* What events execute *)

(* Until its script runs, an event has executed nothing. *)
CleanInv ==
    \A q \in Requests :
        pc[q] \notin {"release", "reset", "return"} => ran[q] = {}

(* The Run that a context has as a global is a recent one. *)
GlobalRecent ==
    \A c \in Contexts : global[c] # None => global[c] \in lately[c] \ Runless

RecentInv == PoolInv /\ CleanInv /\ GlobalRecent /\ ForeignRunIsRecent

LEMMA RecentEvent ==
    ASSUME RecentInv, NEW q \in Requests, EventStep(q)
    PROVE  CleanInv' /\ GlobalRecent' /\ ForeignRunIsRecent'
  <1> USE DEF RecentInv, PoolInv, TypeInv, TypeOK, CleanInv, GlobalRecent, Labels
  (* steps that execute nothing and empty no history *)
  <1>1. CASE /\ UNCHANGED <<global, lately>> /\ CleanInv'
             /\ \A r \in Requests :
                   pc'[r] = "release" =>
                       \/ UNCHANGED <<pc[r], script[r], ctx[r], ran[r]>>
                       \/ ran'[r] \subseteq {script'[r]}
    BY <1>1 DEF ForeignRunIsRecent
  <1>2. CASE UseDisposed
    BY <1>1, <1>2 DEF UseDisposed
  <1>3. CASE Arrive(q) \/ Respond(q) \/ \E p \in Paths : RunEvent(q, p)
    BY <1>1, <1>3 DEF Arrive, Respond, RunEvent, Goto
  <1>4. CASE RunTraditional(q) \/ ScriptThrows(q)
    BY <1>1, <1>4 DEF RunTraditional, ScriptThrows, Goto
  <1>5. CASE Acquire(q) \/ Receive(q) \/ Timeout(q)
    BY <1>1, <1>5 DEF Acquire, Receive, Timeout, Goto
  <1>6. CASE CompileFails(q)
    BY <1>1, <1>6 DEF CompileFails, Goto
  <1>7. CASE ReceiveNil(q) \/ Return(q)
    BY <1>1, <1>7 DEF ReceiveNil, Return, Finish, Goto
  <1>8. CASE Compile(q) /\ ~UseDisposed
    BY <1>1, <1>8 DEF Compile, Goto
  <1>9. CASE Release(q)
    BY <1>1, <1>9 DEF Release, Finish, Goto
  <1>10. CASE RunScript(q) /\ ~UseDisposed
    <2> DEFINE c == ctx[q]
    <2>1. script[q] \in Paths /\ c \in Contexts /\ c # None
      <3>1. pc[q] = "run"
        BY <1>10 DEF RunScript
      <3>2. script[q] \in Paths /\ c \in Contexts
        BY <3>1 DEF HandInv
      <3>3. QED
        BY <3>2, ScriptsAssumption
    <2>2. PICK r \in Globals(c, script[q]) :
              /\ global' = [global EXCEPT ![c] = r]
              /\ ran' = [ran EXCEPT ![q] = {script[q], r} \ {None}]
      BY <1>10 DEF RunScript
    <2>3. /\ lately' = [lately EXCEPT ![c] = @ \cup {script[q]}]
          /\ Goto(q, "release") /\ UNCHANGED <<script, ctx>>
      BY <1>10 DEF RunScript
    <2>4. r # None => r \in lately'[c] \ Runless
      <3>1. lately'[c] = lately[c] \cup {script[q]}
        BY <2>1, <2>3
      <3>2. CASE r = script[q]
        BY <2>2, <3>1, <3>2 DEF Globals
      <3>3. CASE r = global[c]
        BY <2>1, <3>1, <3>3
      <3>4. QED
        BY <2>2, <3>2, <3>3 DEF Globals
    <2>5. \A d \in Contexts : lately[d] \subseteq lately'[d]
      BY <2>3
    <2>6. CleanInv' /\ GlobalRecent'
      BY <2>1, <2>2, <2>3, <2>4, <2>5 DEF Goto
    <2>7. ASSUME NEW s \in Requests, pc'[s] = "release",
                 ran'[s] \ {script'[s]} # {}
          PROVE  /\ ctx'[s] # None
                 /\ ran'[s] \ {script'[s]} \subseteq lately'[ctx'[s]] \ Runless
      <3>1. CASE s = q
        BY <2>1, <2>2, <2>3, <2>4, <3>1
      <3>2. CASE s # q
        BY <2>2, <2>3, <2>5, <2>7, <3>2 DEF Goto, ForeignRunIsRecent
      <3>3. QED
        BY <3>1, <3>2
    <2>8. QED
      BY <2>6, <2>7 DEF ForeignRunIsRecent
  (* A recreation empties the history of a context that no other event has. *)
  <1>11. CASE Reset(q) /\ ~UseDisposed
    <2> DEFINE c == ctx[q]
    <2>1. c \in Contexts /\ c # None /\ ~shut
      BY <1>11, ScriptsAssumption DEF Reset, HandInv
    <2>2. Goto(q, "return") /\ UNCHANGED <<script, ctx, ran>>
      BY <1>11 DEF Reset
    <2>3. CASE UNCHANGED <<global, lately>>
      BY <1>1, <1>11, <2>2, <2>3 DEF Reset, Goto
    <2>4. CASE /\ global' = [global EXCEPT ![c] = None]
               /\ lately' = [lately EXCEPT ![c] = {}]
      <3>1. CleanInv' /\ GlobalRecent'
        BY <1>11, <2>1, <2>2, <2>4 DEF Reset, Goto
      <3>2. \A s \in Requests : s # q => ctx[s] # c
        BY <2>1 DEF ContextsConserved
      <3>3. ASSUME NEW s \in Requests, pc'[s] = "release",
                   ran'[s] \ {script'[s]} # {}
            PROVE  /\ ctx'[s] # None
                   /\ ran'[s] \ {script'[s]} \subseteq lately'[ctx'[s]] \ Runless
        <4>1. s # q /\ pc[s] = "release"
          BY <2>2, <3>3 DEF Goto
        <4>2. ctx[s] # None /\ ctx[s] \in Contexts
              /\ ran[s] \ {script[s]} \subseteq lately[ctx[s]] \ Runless
          BY <2>2, <3>3, <4>1 DEF ForeignRunIsRecent
        <4>3. lately'[ctx[s]] = lately[ctx[s]]
          BY <2>4, <3>2, <4>1, <4>2
        <4>4. QED
          BY <2>2, <4>2, <4>3
      <3>4. QED
        BY <3>1, <3>3 DEF ForeignRunIsRecent
    <2>5. QED
      BY <1>11, <2>3, <2>4 DEF Reset
  <1>12. QED
    BY <1>2, <1>3, <1>4, <1>5, <1>6, <1>7, <1>8, <1>9, <1>10, <1>11
       DEF EventStep

(* The Run of another script that an event executes was made a global of     *)
(* its context since the context was last recreated.                         *)
THEOREM ForeignRun == Spec => []ForeignRunIsRecent
  <1>1. Init => RecentInv
    BY InitPool DEF Init, RecentInv, CleanInv, GlobalRecent, ForeignRunIsRecent
  <1>2. RecentInv /\ [Next]_vars => RecentInv'
    <2> SUFFICES ASSUME RecentInv, [Next]_vars PROVE RecentInv'
      OBVIOUS
    <2>1. PoolInv'
      BY PoolStep DEF RecentInv
    <2>2. CASE ServerStep
      BY <2>1, <2>2 DEF ServerStep, SaveScript, UpdateCollection, StopAccepting,
         Close, RecentInv, CleanInv, GlobalRecent, ForeignRunIsRecent
    <2>3. CASE \E q \in Requests : EventStep(q)
      BY <2>1, <2>3, RecentEvent DEF RecentInv
    <2>4. CASE UNCHANGED vars
      BY <2>1, <2>4 DEF vars, RecentInv, CleanInv, GlobalRecent,
         ForeignRunIsRecent
    <2>5. QED
      BY <2>2, <2>3, <2>4 DEF Next
  <1>3. RecentInv => ForeignRunIsRecent
    BY DEF RecentInv
  <1>4. QED
    BY <1>1, <1>2, <1>3, PTL DEF Spec

=============================================================================
