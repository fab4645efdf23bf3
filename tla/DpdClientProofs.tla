-------------------------- MODULE DpdClientProofs --------------------------
(***************************************************************************)
(* What is proved of the browser client, for every number of collections,  *)
(* listeners, requests and tokens and any number of calls and changes.     *)
(***************************************************************************)
EXTENDS DpdClient, SequenceFacts

USE DEF sockVars, userVars, netVars, httpVars

---------------------------------------------------------------------------
(* The walk of emit *)

Visited(S) == [called : Seq(S), kept : Seq(S), skip : BOOLEAN]

Unvisited == [called |-> <<>>, kept |-> <<>>, skip |-> FALSE]

LEMMA VisitType ==
    ASSUME NEW S, NEW before \in Visited(S), NEW h \in S, NEW leaving
    PROVE  Visit(before, h, leaving) \in Visited(S)
  BY DEF Visit, Visited

Emits(f, hs, leaving) ==
    /\ f[0] = Unvisited
    /\ \A k \in 1..Len(hs) : f[k] = Visit(f[k - 1], hs[k], leaving)

LEMMA EmissionExists ==
    ASSUME NEW S, NEW hs \in Seq(S), NEW leaving
    PROVE  \E f \in [0..Len(hs) -> Visited(S)] : Emits(f, hs, leaving)
  <1> DEFINE F == [b \in Visited(S) |-> [h \in S |-> Visit(b, h, leaving)]]
  <1>1. F \in [Visited(S) -> [S -> Visited(S)]]
    BY VisitType
  <1>2. \A b \in Visited(S), h \in S : F[b][h] = Visit(b, h, leaving)
    OBVIOUS
  <1>3. Unvisited \in Visited(S)
    BY DEF Unvisited, Visited
  <1> HIDE DEF F
  <1>4. PICK f \in [0..Len(hs) -> Visited(S)] : Folds(f, Unvisited, F, hs, Len(hs))
    BY <1>1, <1>3, FoldExists
  <1>5. ASSUME NEW k \in 1..Len(hs) PROVE f[k] = Visit(f[k - 1], hs[k], leaving)
    <2>1. f[k - 1] \in Visited(S) /\ hs[k] \in S
      BY <1>4
    <2>2. QED
      BY <1>2, <1>4, <2>1 DEF Folds
  <1>6. QED
    BY <1>4, <1>5 DEF Folds, Emits

LEMMA EmissionWalk ==
    ASSUME NEW S, NEW hs \in Seq(S), NEW leaving
    PROVE  \E f : Emits(f, hs, leaving) /\ Emission(hs, leaving) = f[Len(hs)]
  <1> DEFINE G(f) == [k \in 0..Len(hs) |->
                        IF k = 0 THEN [called |-> <<>>, kept |-> <<>>, skip |-> FALSE]
                        ELSE Visit(f[k - 1], hs[k], leaving)]
             w == CHOOSE f : f = G(f)
  <1>1. Len(hs) \in Nat
    OBVIOUS
  <1>2. PICK f \in [0..Len(hs) -> Visited(S)] : Emits(f, hs, leaving)
    BY EmissionExists
  <1>3. f = G(f)
    <2>1. f = [k \in 0..Len(hs) |-> f[k]]
      OBVIOUS
    <2>2. ASSUME NEW k \in 0..Len(hs) PROVE f[k] = G(f)[k]
      <3>1. CASE k = 0
        BY <1>1, <1>2, <3>1 DEF Emits, Unvisited
      <3>2. CASE k # 0
        <4>1. k \in 1..Len(hs)
          BY <1>1, <3>2
        <4>2. QED
          BY <1>2, <3>2, <4>1 DEF Emits
      <3>3. QED
        BY <3>1, <3>2
    <2>3. QED
      BY <2>1, <2>2
  <1>4. w = G(w)
    BY <1>3
  <1>5. Emission(hs, leaving) = w[Len(hs)]
    BY DEF Emission
  <1> HIDE DEF w
  <1>6. \A k \in 0..Len(hs) : w[k] = G(w)[k]
    BY <1>4
  <1>7. w[0] = Unvisited
    BY <1>1, <1>6 DEF Unvisited
  <1>8. ASSUME NEW k \in 1..Len(hs) PROVE w[k] = Visit(w[k - 1], hs[k], leaving)
    <2>1. k \in 0..Len(hs) /\ k # 0
      BY <1>1
    <2>2. QED
      BY <1>6, <2>1
  <1>9. QED
    BY <1>5, <1>7, <1>8 DEF Emits

(* What one visit does, when the handlers before h are all others. *)
Sound(b, seen, leaving) ==
    /\ Elems(b.called) \subseteq seen /\ Elems(b.kept) \subseteq seen
    /\ Distinct(b.kept)
    /\ Elems(b.called) \cap Elems(b.kept) \cap leaving = {}

LEMMA VisitSound ==
    ASSUME NEW S, NEW b \in Visited(S), NEW h \in S, NEW leaving,
           NEW seen, Sound(b, seen, leaving), h \notin seen
    PROVE  Sound(Visit(b, h, leaving), seen \cup {h}, leaving)
  <1>1. b.called \in Seq(S) /\ b.kept \in Seq(S)
    BY DEF Visited
  <1>2. /\ Elems(Append(b.called, h)) = Elems(b.called) \cup {h}
        /\ Elems(Append(b.kept, h)) = Elems(b.kept) \cup {h}
        /\ Distinct(Append(b.kept, h))
    BY <1>1, ElemsAppend DEF Sound
  <1>3. CASE b.skip
    BY <1>2, <1>3 DEF Visit, Sound
  <1>4. CASE ~b.skip /\ h \in leaving
    BY <1>2, <1>4 DEF Visit, Sound
  <1>5. CASE ~b.skip /\ h \notin leaving
    BY <1>2, <1>5 DEF Visit, Sound
  <1>6. QED
    BY <1>3, <1>4, <1>5

(* An emission calls, and keeps, handlers that were registered.             *)
LEMMA EmissionType ==
    ASSUME NEW S, NEW hs \in Seq(S), NEW leaving
    PROVE  /\ Emission(hs, leaving).called \in Seq(S)
           /\ Emission(hs, leaving).kept \in Seq(S)
  <1>1. PICK f : Emits(f, hs, leaving) /\ Emission(hs, leaving) = f[Len(hs)]
    BY EmissionWalk
  <1> DEFINE T == {k \in Nat : k <= Len(hs) => f[k] \in Visited(S)}
  <1>2. 0 \in T
    <2>1. f[0] \in Visited(S)
      BY <1>1 DEF Emits, Unvisited, Visited
    <2>2. QED
      BY <2>1
  <1>3. ASSUME NEW k \in T PROVE k + 1 \in T
    <2> SUFFICES ASSUME k + 1 <= Len(hs) PROVE f[k + 1] \in Visited(S)
      OBVIOUS
    <2>1. /\ k \in Nat /\ k + 1 \in 1..Len(hs) /\ (k + 1) - 1 = k
          /\ f[k] \in Visited(S) /\ hs[k + 1] \in S
      OBVIOUS
    <2>2. f[k + 1] = Visit(f[k], hs[k + 1], leaving)
      BY <1>1, <2>1 DEF Emits
    <2>3. QED
      BY <2>1, <2>2, VisitType
  <1>4. T = Nat
    <2> HIDE DEF T
    <2>1. QED
      BY <1>2, <1>3, Induction DEF T
  <1>5. f[Len(hs)] \in Visited(S)
    <2>1. Len(hs) \in Nat /\ Len(hs) <= Len(hs)
      OBVIOUS
    <2>2. Len(hs) \in T
      <3> HIDE DEF T
      <3>1. QED
        BY <1>4, <2>1
    <2>3. QED
      BY <2>1, <2>2
  <1>6. QED
    BY <1>1, <1>5 DEF Visited

(* A handler that removes itself is not called and kept, and none is kept   *)
(* twice.                                                                   *)
LEMMA EmissionSound ==
    ASSUME NEW S, NEW hs \in Seq(S), NEW leaving, Distinct(hs)
    PROVE  Sound(Emission(hs, leaving), Elems(hs), leaving)
  <1>1. PICK f : Emits(f, hs, leaving) /\ Emission(hs, leaving) = f[Len(hs)]
    BY EmissionWalk
  <1> DEFINE First(k) == {hs[j] : j \in 1..k}
             T == {k \in Nat : k <= Len(hs) =>
                      f[k] \in Visited(S) /\ Sound(f[k], First(k), leaving)}
  <1>2. 0 \in T
    <2>1. f[0] \in Visited(S)
      BY <1>1 DEF Emits, Unvisited, Visited
    <2>2. Sound(f[0], First(0), leaving)
      BY <1>1, ElemsEmpty DEF Emits, Unvisited, Sound
    <2>3. QED
      BY <2>1, <2>2
  <1>3. ASSUME NEW k \in T PROVE k + 1 \in T
    <2> SUFFICES ASSUME k + 1 <= Len(hs)
                 PROVE  f[k + 1] \in Visited(S) /\ Sound(f[k + 1], First(k + 1), leaving)
      OBVIOUS
    <2> DEFINE h == hs[k + 1]
    <2>1. /\ k \in Nat /\ k + 1 \in 1..Len(hs) /\ (k + 1) - 1 = k
          /\ f[k] \in Visited(S) /\ Sound(f[k], First(k), leaving) /\ h \in S
      OBVIOUS
    <2>2. f[k + 1] = Visit(f[k], h, leaving)
      BY <1>1, <2>1 DEF Emits
    <2>3. h \notin First(k)
      BY <2>1 DEF Distinct
    <2>4. First(k + 1) = First(k) \cup {h}
      <3>1. \A j \in 1..(k + 1) : j \in 1..k \/ j = k + 1
        BY <2>1
      <3>2. k + 1 \in 1..(k + 1) /\ \A j \in 1..k : j \in 1..(k + 1)
        BY <2>1
      <3>3. QED
        BY <3>1, <3>2
    <2> HIDE DEF First, h
    <2>5. QED
      BY <2>1, <2>2, <2>3, <2>4, VisitType, VisitSound
  <1>4. T = Nat
    <2> HIDE DEF T
    <2>1. QED
      BY <1>2, <1>3, Induction DEF T
  <1>5. Sound(f[Len(hs)], First(Len(hs)), leaving)
    <2>1. Len(hs) \in Nat /\ Len(hs) <= Len(hs)
      OBVIOUS
    <2>2. Len(hs) \in T
      <3> HIDE DEF T
      <3>1. QED
        BY <1>4, <2>1
    <2> HIDE DEF First
    <2>3. QED
      BY <2>1, <2>2
  <1>6. First(Len(hs)) = Elems(hs)
    BY DEF Elems
  <1>7. QED
    BY <1>1, <1>5, <1>6

---------------------------------------------------------------------------
(* The inductive invariant *)

(* A listener has at most one handler, over all events. *)
OneHandler ==
    \A t, u \in Topics : \A i \in DOMAIN handlers[t], j \in DOMAIN handlers[u] :
        handlers[t][i].who = handlers[u][j].who => t = u /\ i = j

(* A connection that is open is ready. *)
OpenIsReady == sock = "open" => ready

(* The last token that is under way, or else the one the server has, is the *)
(* latest; a connection that was just opened is told it first.              *)
IsAuth(m) == m.type = "auth"
TokenFollows ==
    sock = "open" /\ authToken \in Tokens \ invalid =>
        \/ user = authToken /\ \A k \in DOMAIN up : ~IsAuth(up[k])
        \/ \E k \in DOMAIN up :
              /\ IsAuth(up[k]) /\ up[k].token = authToken
              /\ \A j \in DOMAIN up : j > k => ~IsAuth(up[j])

(* A request that is under way has had no answer. *)
Unanswered == \A q \in fetches : told[q] = <<>>

---------------------------------------------------------------------------
(* Types *)

Joins(cs) == [k \in DOMAIN cs |-> [type |-> "join", room |-> cs[k]]]
Auth(t) == [type |-> "auth", token |-> t]

LEMMA MessageTypes ==
    /\ \A c \in Collections : /\ [type |-> "join", room |-> c] \in Message
                              /\ [type |-> "leave", room |-> c] \in Message
    /\ \A t \in Tokens \cup {None} : Auth(t) \in Message
  BY DEF Message, Auth

LEMMA JoinsType ==
    ASSUME NEW cs \in Seq(Collections)
    PROVE  /\ Joins(cs) \in Seq(Message) /\ Len(Joins(cs)) = Len(cs)
           /\ \A k \in 1..Len(cs) : Joins(cs)[k] = [type |-> "join", room |-> cs[k]]
  <1>1. Len(cs) \in Nat /\ DOMAIN cs = 1..Len(cs) /\ \A k \in 1..Len(cs) : cs[k] \in Collections
    OBVIOUS
  <1>2. \A k \in 1..Len(cs) : [type |-> "join", room |-> cs[k]] \in Message
    BY <1>1, MessageTypes
  <1>3. Joins(cs) \in [1..Len(cs) -> Message]
    BY <1>1, <1>2 DEF Joins
  <1>4. \A n \in Nat : \A f \in [1..n -> Message] : f \in Seq(Message) /\ Len(f) = n
    OBVIOUS
  <1>5. Joins(cs) \in Seq(Message) /\ Len(Joins(cs)) = Len(cs)
    BY <1>1, <1>3, <1>4
  <1>6. QED
    BY <1>1, <1>5 DEF Joins

LEMMA SpliceType ==
    ASSUME NEW S, NEW s \in Seq(S), NEW k \in DOMAIN s
    PROVE  /\ Splice(s, k) \in Seq(S) /\ Len(Splice(s, k)) = Len(s) - 1
           /\ \A i \in 1..(Len(s) - 1) :
                 Splice(s, k)[i] = s[IF i < k THEN i ELSE i + 1]
  <1> DEFINE p == SubSeq(s, 1, k - 1)
             q == SubSeq(s, k + 1, Len(s))
  <1>1. Len(s) \in Nat /\ k \in 1..Len(s)
    OBVIOUS
  <1>2. /\ p \in Seq(S) /\ Len(p) = k - 1
        /\ \A i \in 1..(k - 1) : p[i] = s[i]
    BY <1>1
  <1>3. /\ q \in Seq(S) /\ Len(q) = Len(s) - k
        /\ \A i \in 1..(Len(s) - k) : q[i] = s[i + k]
    BY <1>1
  <1>4. Splice(s, k) = p \o q
    BY DEF Splice
  <1> HIDE DEF p, q
  <1>5. Splice(s, k) \in Seq(S) /\ Len(Splice(s, k)) = Len(s) - 1
    BY <1>1, <1>2, <1>3, <1>4
  <1>6. ASSUME NEW i \in 1..(Len(s) - 1)
        PROVE  Splice(s, k)[i] = s[IF i < k THEN i ELSE i + 1]
    <2>1. CASE i < k
      <3>1. i \in 1..Len(p)
        BY <1>1, <1>2, <2>1
      <3>2. QED
        BY <1>1, <1>2, <1>3, <1>4, <2>1, <3>1
    <2>2. CASE ~(i < k)
      <3>1. i - (k - 1) \in 1..(Len(s) - k) /\ (i - (k - 1)) + k = i + 1
        BY <1>1, <2>2
      <3>2. (p \o q)[i] = q[i - (k - 1)]
        <4>1. /\ Len(p) \in Nat /\ Len(q) \in Nat /\ Len(p) = k - 1
              /\ i \in 1..(Len(p) + Len(q)) /\ ~(i <= Len(p))
          BY <1>1, <1>2, <1>3, <2>2
        <4>2. (p \o q)[i] = q[i - Len(p)]
          <5>1. p \in Seq(S) /\ q \in Seq(S)
            BY <1>2, <1>3
          <5>2. \A j \in 1..(Len(p) + Len(q)) :
                   (p \o q)[j] = IF j <= Len(p) THEN p[j] ELSE q[j - Len(p)]
            BY <5>1, ConcatAt
          <5>3. QED
            BY <4>1, <5>2
        <4>3. QED
          BY <4>1, <4>2
      <3>3. QED
        BY <1>3, <1>4, <2>2, <3>1, <3>2
    <2>3. QED
      BY <2>1, <2>2
  <1>7. QED
    BY <1>5, <1>6

LEMMA SentType ==
    ASSUME TypeOK, NEW m \in Message
    PROVE  Sent(m) \in Seq(Message)
  BY DEF TypeOK, Sent

LEMMA JoinType ==
    ASSUME TypeOK, NEW c \in Collections, Join(c)
    PROVE  up' \in Seq(Message) /\ queue' \in Seq(Collections)
  <1>1. Sent([type |-> "join", room |-> c]) \in Seq(Message)
    BY SentType, MessageTypes
  <1>2. up \in Seq(Message) /\ queue \in Seq(Collections) /\ Append(queue, c) \in Seq(Collections)
    BY DEF TypeOK
  <1>3. QED
    BY <1>1, <1>2 DEF Join

(* The page registers and removes handlers; a change runs them. *)
LEMMA OnType ==
    ASSUME TypeOK, NEW l \in Listeners, NEW t \in Topics, On(l, t) \/ Once(l, t)
    PROVE  handlers' \in [Topics -> Seq(Handler)]
  <1>1. PICK b \in BOOLEAN :
           handlers' = [handlers EXCEPT ![t] = Append(@, [who |-> l, once |-> b])]
    BY DEF On, Once
  <1>2. [who |-> l, once |-> b] \in Handler
    BY DEF Handler
  <1>3. QED
    BY <1>1, <1>2 DEF TypeOK

LEMMA OffType ==
    ASSUME TypeOK, NEW l \in Listeners, NEW t \in Topics, Off(l, t)
    PROVE  handlers' \in [Topics -> Seq(Handler)]
  <1>1. handlers[t] \in Seq(Handler)
    BY DEF TypeOK
  <1>2. PICK k \in DOMAIN handlers[t] :
           handlers' = [handlers EXCEPT ![t] = Splice(@, k)]
    BY DEF Off
  <1>3. Splice(handlers[t], k) \in Seq(Handler)
    BY <1>1, SpliceType
  <1>4. QED
    BY <1>2, <1>3 DEF TypeOK

LEMMA DispatchType ==
    ASSUME TypeOK, NEW change, Dispatch(change)
    PROVE  handlers' \in [Topics -> Seq(Handler)] /\ heard' \in [Listeners -> Nat]
  <1>1. handlers \in [Topics -> Seq(Handler)] /\ heard \in [Listeners -> Nat]
    BY DEF TypeOK
  <1>2. \A t \in Topics : Emission(handlers[t], Leaving).kept \in Seq(Handler)
    BY <1>1, EmissionType
  <1>3. handlers' \in [Topics -> Seq(Handler)]
    BY <1>1, <1>2 DEF Dispatch, Emitted
  <1>4. heard' \in [Listeners -> Nat]
    BY <1>1 DEF Dispatch
  <1>5. QED
    BY <1>3, <1>4

LEMMA InitType == Init => TypeOK
  <1> SUFFICES ASSUME Init PROVE TypeOK
    OBVIOUS
  <1>1. handlers \in [Topics -> Seq(Handler)] /\ queue \in Seq(Collections)
    BY DEF Init
  <1>2. up \in Seq(Message) /\ down \in Seq(Seq(Change))
    BY DEF Init
  <1>3. heard \in [Listeners -> Nat] /\ told \in [Requests -> Seq({"result", "error"})]
    BY DEF Init
  <1>4. count \in 0..MaxEvents /\ invalid \subseteq Tokens
    BY DpdAssumption DEF Init
  <1>5. /\ sock = "connecting" /\ ready = FALSE /\ timer = FALSE /\ objects = {}
        /\ authToken = None /\ rooms = {} /\ user = None /\ fetches = {}
    BY DEF Init
  <1>6. QED
    BY <1>1, <1>2, <1>3, <1>4, <1>5 DEF TypeOK

LEMMA NextType == TypeOK /\ [Next]_vars => TypeOK'
  <1> SUFFICES ASSUME TypeOK, [Next]_vars PROVE TypeOK'
    OBVIOUS
  <1>1. ASSUME NEW c \in Collections, Access(c) \/ CallJoin(c) PROVE TypeOK'
    <2>1. up' \in Seq(Message) /\ queue' \in Seq(Collections)
      BY <1>1, JoinType DEF Access, CallJoin
    <2>2. QED
      BY <1>1, <2>1, DpdAssumption DEF Access, CallJoin, Count, TypeOK
  <1>2. ASSUME NEW c \in Collections, Leave(c) PROVE TypeOK'
    <2>1. Sent([type |-> "leave", room |-> c]) \in Seq(Message)
      BY SentType, MessageTypes
    <2>2. QED
      BY <1>2, <2>1, DpdAssumption DEF Leave, Count, TypeOK
  <1>3. ASSUME NEW t \in Tokens \cup {None}, SetAuthToken(t) PROVE TypeOK'
    <2>1. Sent([type |-> "auth", token |-> t]) \in Seq(Message)
      BY SentType, MessageTypes DEF Auth
    <2>2. QED
      BY <1>3, <2>1, DpdAssumption DEF SetAuthToken, Count, TypeOK
  <1>4. ASSUME NEW l \in Listeners, NEW t \in Topics, Listen(l, t) \/ StopListening(l, t)
        PROVE  TypeOK'
    <2>1. handlers' \in [Topics -> Seq(Handler)]
      BY <1>4, OnType, OffType DEF Listen, StopListening
    <2>2. QED
      BY <1>4, <2>1 DEF Listen, StopListening, TypeOK
  <1>5. ASSUME NEW q \in Requests, Request(q) PROVE TypeOK'
    BY <1>5 DEF Request, TypeOK
  <1>6. ASSUME OnOpen PROVE TypeOK'
    <2> DEFINE connect == Emission(queue, Collections)
               auth == IF authToken = None THEN <<>>
                       ELSE <<[type |-> "auth", token |-> authToken]>>
    <2>1. connect.called \in Seq(Collections) /\ connect.kept \in Seq(Collections)
      BY EmissionType DEF TypeOK
    <2>2. auth \in Seq(Message)
      BY MessageTypes DEF Auth, TypeOK
    <2> HIDE DEF connect, auth
    <2>3. Joins(connect.called) \in Seq(Message)
      BY <2>1, JoinsType
    <2>4. up' = auth \o Joins(connect.called) /\ queue' = connect.kept
      BY <1>6 DEF OnOpen, Joins, connect, auth
    <2>5. up' \in Seq(Message) /\ queue' \in Seq(Collections)
      BY <2>1, <2>2, <2>3, <2>4
    <2>6. QED
      BY <1>6, <2>5 DEF OnOpen, TypeOK
  <1>7. ASSUME Lose PROVE TypeOK'
    <2>1. up' \in Seq(Message) /\ down' \in Seq(Seq(Change))
      BY <1>7 DEF Lose
    <2>2. QED
      BY <1>7, <2>1 DEF Lose, TypeOK
  <1>8. ASSUME OnClose \/ Reconnect PROVE TypeOK'
    <2>1. ASSUME OnClose PROVE TypeOK'
      BY <2>1 DEF OnClose, TypeOK
    <2>2. ASSUME Reconnect PROVE TypeOK'
      <3>1. sock = "closed" /\ sock' = "connecting" /\ ready = FALSE /\ timer' = FALSE
        BY <2>2 DEF Reconnect, TypeOK
      <3>2. QED
        BY <2>2, <3>1 DEF Reconnect, TypeOK
    <2>3. QED
      BY <1>8, <2>1, <2>2
  <1>9. ASSUME OnMessage PROVE TypeOK'
    <2>1. handlers' \in [Topics -> Seq(Handler)] /\ heard' \in [Listeners -> Nat]
      BY <1>9, DispatchType DEF OnMessage, TypeOK
    <2>2. down' \in Seq(Seq(Change))
      BY <1>9 DEF OnMessage, TypeOK
    <2>3. QED
      BY <1>9, <2>1, <2>2 DEF OnMessage, TypeOK
  <1>10. ASSUME Serve PROVE TypeOK'
    <2>1. up \in Seq(Message) /\ up # <<>> /\ Head(up) \in Message /\ Tail(up) \in Seq(Message)
      BY <1>10 DEF Serve, TypeOK
    <2>2. rooms' \subseteq Collections /\ user' \in Tokens \cup {None}
      BY <1>10, <2>1 DEF Serve, TypeOK, Message
    <2>3. QED
      BY <1>10, <2>1, <2>2 DEF Serve, TypeOK
  <1>11. ASSUME NEW change \in Change, ChangeCollection(change) PROVE TypeOK'
    <2>1. down' \in Seq(Seq(Change))
      <3>1. down \in Seq(Seq(Change)) /\ <<change>> \in Seq(Change)
        BY DEF TypeOK
      <3>2. CASE down' = Append(down, <<change>>)
        BY <3>1, <3>2
      <3>3. CASE down # <<>> /\ down' = [down EXCEPT ![Len(down)] = Append(@, change)]
        <4>1. Len(down) \in 1..Len(down) /\ down[Len(down)] \in Seq(Change)
          BY <3>1, <3>3
        <4>2. Append(down[Len(down)], change) \in Seq(Change)
          BY <4>1
        <4>3. QED
          BY <3>1, <3>3, <4>1, <4>2
      <3>4. QED
        BY <1>11, <3>1, <3>2, <3>3 DEF ChangeCollection
    <2>2. QED
      BY <1>11, <2>1, DpdAssumption DEF ChangeCollection, Count, TypeOK
  <1>12. ASSUME NEW q \in Requests, Answer(q) \/ Fails(q) PROVE TypeOK'
    <2> DEFINE R == {"result", "error"}
    <2>1. told[q] \in Seq(R)
      BY DEF TypeOK
    <2>2. /\ told[q] \o <<"result", "error">> \in Seq(R)
          /\ told[q] \o <<"result">> \in Seq(R)
          /\ Append(told[q], "error") \in Seq(R)
      BY <2>1
    <2>3. told' \in [Requests -> Seq(R)]
      BY <1>12, <2>2 DEF Answer, Fails, TypeOK
    <2>4. QED
      BY <1>12, <2>3 DEF Answer, Fails, TypeOK
  <1>13. CASE UNCHANGED vars
    BY <1>13 DEF vars, TypeOK
  <1>14. ASSUME NEW t \in Tokens, Expire(t) PROVE TypeOK'
    BY <1>14 DEF Expire, TypeOK
  <1>15. QED
    BY <1>1, <1>2, <1>3, <1>4, <1>5, <1>6, <1>7, <1>8, <1>9, <1>10, <1>11, <1>12,
       <1>13, <1>14 DEF Next, Page, Browser, Server, Network

(* Every variable keeps its type; a timer runs only while there is no       *)
(* socket, and only a socket that was open counts as ready.                 *)
THEOREM TypeCorrect == Spec => []TypeOK
  BY InitType, NextType, PTL DEF Spec

---------------------------------------------------------------------------
(* The token *)

TokenInv == OpenIsReady /\ TokenFollows

(* A message that is no token leaves the last one the last. *)
LEMMA TokenKept ==
    ASSUME TypeOK, TokenFollows, NEW m \in Message, ~IsAuth(m),
           up' = up \/ up' = Append(up, m), UNCHANGED <<sock, user, authToken, invalid>>
    PROVE  TokenFollows'
  <1>1. CASE up' = up
    BY <1>1 DEF TokenFollows
  <1>2. CASE up' = Append(up, m)
    <2> SUFFICES ASSUME sock = "open", authToken \in Tokens \ invalid
                 PROVE  TokenFollows'
      BY DEF TokenFollows
    <2>1. /\ up \in Seq(Message) /\ Len(up) \in Nat /\ DOMAIN up = 1..Len(up)
          /\ DOMAIN up' = 1..(Len(up) + 1) /\ up'[Len(up) + 1] = m
          /\ \A k \in 1..Len(up) : up'[k] = up[k]
      BY <1>2 DEF TypeOK
    <2>2. \A k \in 1..(Len(up) + 1) : k \in 1..Len(up) \/ k = Len(up) + 1
      BY <2>1
    <2>3. CASE user = authToken /\ \A k \in DOMAIN up : ~IsAuth(up[k])
      BY <2>1, <2>2, <2>3 DEF TokenFollows
    <2>4. ASSUME NEW k \in DOMAIN up, IsAuth(up[k]), up[k].token = authToken,
                 \A j \in DOMAIN up : j > k => ~IsAuth(up[j])
          PROVE  TokenFollows'
      <3>1. k \in DOMAIN up' /\ up'[k] = up[k]
        BY <2>1
      <3>2. \A j \in DOMAIN up' : j > k => ~IsAuth(up'[j])
        BY <2>1, <2>2, <2>4
      <3>3. QED
        BY <2>4, <3>1, <3>2 DEF TokenFollows
    <2>5. QED
      BY <2>3, <2>4 DEF TokenFollows
  <1>3. QED
    BY <1>1, <1>2

LEMMA ServeToken == ASSUME TypeOK, TokenFollows, Serve PROVE TokenFollows'
  <1> SUFFICES ASSUME sock = "open", authToken \in Tokens \ invalid
               PROVE  TokenFollows'
    BY DEF TokenFollows, Serve
  <1> DEFINE m == Head(up)
             t == Tail(up)
  <1>1. /\ up \in Seq(Message) /\ up # <<>> /\ up' = t /\ UNCHANGED <<sock, authToken, invalid>>
        /\ IsAuth(m) => user' = IF m.token \in Tokens \ invalid THEN m.token ELSE user
        /\ ~IsAuth(m) => user' = user
    <2>1. up \in Seq(Message) /\ up # <<>> /\ m \in Message
      BY DEF TypeOK, Serve
    <2>2. m.type \in {"join", "leave", "auth"}
      BY <2>1 DEF Message
    <2>3. QED
      BY <2>1, <2>2 DEF Serve, IsAuth
  <1>2. /\ Len(up) \in Nat /\ DOMAIN up = 1..Len(up) /\ DOMAIN t = 1..(Len(up) - 1)
        /\ m = up[1] /\ 1 \in DOMAIN up
        /\ \A j \in DOMAIN t : j + 1 \in DOMAIN up /\ t[j] = up[j + 1]
    BY <1>1
  <1> HIDE DEF m, t
  <1>3. CASE user = authToken /\ \A k \in DOMAIN up : ~IsAuth(up[k])
    BY <1>1, <1>2, <1>3 DEF TokenFollows
  <1>4. ASSUME NEW k \in DOMAIN up, IsAuth(up[k]), up[k].token = authToken,
               \A j \in DOMAIN up : j > k => ~IsAuth(up[j])
        PROVE  TokenFollows'
    <2>1. CASE k = 1
      <3>1. user' = authToken
        BY <1>1, <1>2, <1>4, <2>1
      <3>2. \A j \in DOMAIN t : ~IsAuth(t[j])
        BY <1>2, <1>4, <2>1
      <3>3. QED
        BY <1>1, <3>1, <3>2 DEF TokenFollows
    <2>2. CASE k # 1
      <3>1. k - 1 \in DOMAIN t /\ t[k - 1] = up[k]
        <4>1. k - 1 \in DOMAIN t /\ (k - 1) + 1 = k
          BY <1>2, <2>2
        <4>2. QED
          BY <1>2, <4>1
      <3>2. \A j \in DOMAIN t : j > k - 1 => ~IsAuth(t[j])
        BY <1>2, <1>4
      <3>3. QED
        BY <1>1, <1>4, <3>1, <3>2 DEF TokenFollows
    <2>3. QED
      BY <2>1, <2>2
  <1>5. QED
    BY <1>3, <1>4 DEF TokenFollows

LEMMA OpenToken == ASSUME TypeOK, OnOpen PROVE TokenFollows'
  <1> DEFINE cs == Emission(queue, Collections).called
  <1> SUFFICES ASSUME authToken \in Tokens PROVE TokenFollows'
    BY DEF TokenFollows, OnOpen
  <1>1. cs \in Seq(Collections)
    BY EmissionType DEF TypeOK
  <1>2. up' = <<Auth(authToken)>> \o Joins(cs) /\ authToken' = authToken
    BY DpdAssumption DEF OnOpen, Auth, Joins
  <1> HIDE DEF cs
  <1>3. /\ Joins(cs) \in Seq(Message) /\ Len(Joins(cs)) = Len(cs) /\ Len(cs) \in Nat
        /\ \A k \in 1..Len(cs) : ~IsAuth(Joins(cs)[k])
    <2>1. \A c \in Collections : ~IsAuth([type |-> "join", room |-> c])
      BY DEF IsAuth
    <2>2. /\ Joins(cs) \in Seq(Message) /\ Len(Joins(cs)) = Len(cs)
          /\ \A k \in 1..Len(cs) : Joins(cs)[k] = [type |-> "join", room |-> cs[k]]
      BY <1>1, JoinsType
    <2>3. Len(cs) \in Nat /\ \A k \in 1..Len(cs) : cs[k] \in Collections
      BY <1>1
    <2>4. QED
      BY <2>1, <2>2, <2>3
  <1>4. <<Auth(authToken)>> \in Seq(Message) /\ Auth(authToken) \in Message
    BY MessageTypes DEF TypeOK
  <1>5. /\ up' \in Seq(Message) /\ Len(up') = Len(cs) + 1 /\ DOMAIN up' = 1..(Len(cs) + 1)
        /\ up'[1] = Auth(authToken)
    BY <1>2, <1>3, <1>4
  <1>6. ASSUME NEW j \in DOMAIN up', j > 1 PROVE ~IsAuth(up'[j])
    <2>1. j - 1 \in 1..Len(cs)
      BY <1>3, <1>5, <1>6
    <2>2. up'[j] = Joins(cs)[j - 1]
      BY <1>2, <1>3, <1>4, <1>5, <1>6, ConcatAt
    <2>3. QED
      BY <1>3, <2>1, <2>2
  <1>7. 1 \in DOMAIN up' /\ IsAuth(up'[1]) /\ up'[1].token = authToken'
    BY <1>2, <1>3, <1>5 DEF Auth, IsAuth
  <1>8. QED
    BY <1>2, <1>6, <1>7 DEF TokenFollows

LEMMA NextToken == TypeOK /\ TokenInv /\ [Next]_vars => TokenInv'
  <1> SUFFICES ASSUME TypeOK, TokenInv, [Next]_vars PROVE TokenInv'
    OBVIOUS
  <1> USE DEF TokenInv
  <1>1. ASSUME UNCHANGED <<sock, ready, authToken, up, user, invalid>> PROVE TokenInv'
    BY <1>1 DEF OpenIsReady, TokenFollows
  <1>2. ASSUME NEW m \in Message, ~IsAuth(m), up' = up \/ up' = Append(up, m),
               UNCHANGED <<sock, ready, authToken, user, invalid>>
        PROVE  TokenInv'
    BY <1>2, TokenKept DEF OpenIsReady
  <1>3. ASSUME NEW c \in Collections, Access(c) \/ CallJoin(c) PROVE TokenInv'
    <2> DEFINE m == [type |-> "join", room |-> c]
    <2>1. m \in Message /\ ~IsAuth(m)
      BY MessageTypes DEF IsAuth
    <2>2. up' = up \/ up' = Append(up, m)
      BY <1>3 DEF Access, CallJoin, Join, Sent
    <2>3. QED
      BY <1>2, <1>3, <2>1, <2>2 DEF Access, CallJoin
  <1>4. ASSUME NEW c \in Collections, Leave(c) PROVE TokenInv'
    <2> DEFINE m == [type |-> "leave", room |-> c]
    <2>1. m \in Message /\ ~IsAuth(m)
      BY MessageTypes DEF IsAuth
    <2>2. up' = up \/ up' = Append(up, m)
      BY <1>4 DEF Leave, Sent
    <2>3. QED
      BY <1>2, <1>4, <2>1, <2>2 DEF Leave
  <1>5. ASSUME NEW t \in Tokens \cup {None}, SetAuthToken(t) PROVE TokenInv'
    <2>1. OpenIsReady' /\ UNCHANGED <<sock, user>> /\ authToken' = t
      BY <1>5 DEF SetAuthToken, OpenIsReady
    <2>2. ASSUME sock = "open" PROVE TokenFollows'
      <3>1. up' = Append(up, Auth(t))
        BY <1>5, <2>2 DEF SetAuthToken, OpenIsReady, Sent, Auth
      <3>2. up \in Seq(Message) /\ Auth(t) \in Message /\ Len(up) \in Nat
        BY MessageTypes DEF TypeOK
      <3>3. DOMAIN up' = 1..(Len(up) + 1) /\ up'[Len(up) + 1] = Auth(t)
        BY <3>1, <3>2
      <3>4. Len(up) + 1 \in DOMAIN up' /\ \A j \in DOMAIN up' : ~(j > Len(up) + 1)
        BY <3>2, <3>3
      <3>5. IsAuth(Auth(t)) /\ Auth(t).token = t
        BY DEF IsAuth, Auth
      <3>6. QED
        BY <2>1, <3>3, <3>4, <3>5 DEF TokenFollows
    <2>3. QED
      BY <2>1, <2>2 DEF TokenFollows
  <1>6. ASSUME NEW l \in Listeners, NEW t \in Topics, Listen(l, t) \/ StopListening(l, t)
        PROVE  TokenInv'
    BY <1>1, <1>6 DEF Listen, StopListening
  <1>7. ASSUME NEW q \in Requests, Request(q) \/ Answer(q) \/ Fails(q) PROVE TokenInv'
    BY <1>1, <1>7 DEF Request, Answer, Fails
  <1>8. ASSUME OnOpen PROVE TokenInv'
    BY <1>8, OpenToken DEF OnOpen, OpenIsReady
  <1>9. ASSUME Lose \/ OnClose \/ Reconnect PROVE TokenInv'
    BY <1>9 DEF Lose, OnClose, Reconnect, TypeOK, OpenIsReady, TokenFollows
  <1>10. ASSUME OnMessage PROVE TokenInv'
    BY <1>1, <1>10 DEF OnMessage
  <1>11. ASSUME Serve PROVE TokenInv'
    BY <1>11, ServeToken DEF Serve, OpenIsReady
  <1>12. ASSUME NEW change \in Change, ChangeCollection(change) PROVE TokenInv'
    BY <1>1, <1>12 DEF ChangeCollection
  <1>13. CASE UNCHANGED vars
    BY <1>1, <1>13 DEF vars
  <1>14. ASSUME NEW t \in Tokens, Expire(t) PROVE TokenInv'
    BY <1>14 DEF Expire, OpenIsReady, TokenFollows
  <1>15. QED
    BY <1>3, <1>4, <1>5, <1>6, <1>7, <1>8, <1>9, <1>10, <1>11, <1>12, <1>13, <1>14
       DEF Next, Page, Browser, Server, Network

(* Once the server has handled what was sent, it serves the connection      *)
(* under the latest token that setAuthToken was given, whatever was lost    *)
(* and reopened in between and whichever tokens expired, if that is one it  *)
(* does not refuse.                                                         *)
THEOREM LatestToken == Spec => []LatestTokenServed
  <1>1. Init => TokenInv
    BY DEF Init, TokenInv, OpenIsReady, TokenFollows
  <1>2. TypeOK /\ TokenInv => LatestTokenServed
    BY DEF TypeOK, TokenInv, TokenFollows, LatestTokenServed
  <1>3. QED
    BY <1>1, <1>2, InitType, NextType, NextToken, PTL DEF Spec

---------------------------------------------------------------------------
(* Handlers and callbacks *)

OnceInv == CalledOnce /\ OneHandler /\ Unanswered

(* Handlers that come from others, at most one from each, keep the claims   *)
(* as long as no listener ran.                                              *)
LEMMA HandlersMoved ==
    ASSUME OneHandler, CalledOnce, UNCHANGED <<heard, told>>,
           NEW from,
           \A t \in Topics : \A i \in DOMAIN handlers'[t] :
               /\ from[t][i] \in DOMAIN handlers[t]
               /\ handlers'[t][i] = handlers[t][from[t][i]]
               /\ \A j \in DOMAIN handlers'[t] : from[t][i] = from[t][j] => i = j
    PROVE  OneHandler' /\ CalledOnce'
  <1>1. OneHandler'
    BY DEF OneHandler
  <1>2. CalledOnce'
    BY DEF CalledOnce
  <1>3. QED
    BY <1>1, <1>2

LEMMA ListenOnce ==
    ASSUME TypeOK, OnceInv, NEW l \in Listeners, NEW t \in Topics, Listen(l, t)
    PROVE  OneHandler' /\ CalledOnce'
  <1>1. PICK b \in BOOLEAN :
           handlers' = [handlers EXCEPT ![t] = Append(@, [who |-> l, once |-> b])]
    BY DEF Listen, On, Once
  <1> DEFINE h == [who |-> l, once |-> b]
             n == Len(handlers[t]) + 1
  <1>2. handlers[t] \in Seq(Handler) /\ h \in Handler
    BY DEF TypeOK, Handler
  <1>3. ASSUME NEW u \in Topics, NEW i \in DOMAIN handlers'[u]
        PROVE  \/ i \in DOMAIN handlers[u] /\ handlers'[u][i] = handlers[u][i]
               \/ u = t /\ i = n /\ handlers'[u][i] = h
    <2>1. CASE u = t
      <3>1. handlers'[u] = Append(handlers[t], h)
        BY <1>1, <2>1 DEF TypeOK
      <3>2. QED
        BY <1>2, <1>3, <2>1, <3>1
    <2>2. CASE u # t
      BY <1>1, <1>3, <2>2 DEF TypeOK
    <2>3. QED
      BY <2>1, <2>2
  <1>4. \A u \in Topics : \A i \in DOMAIN handlers[u] : handlers[u][i].who # l
    BY DEF Listen, Registered
  <1>5. h.who = l /\ heard[l] = 0 /\ UNCHANGED <<heard, told>>
    BY DEF Listen
  <1> HIDE DEF h, n
  <1>6. OneHandler'
    <2> SUFFICES ASSUME NEW u \in Topics, NEW v \in Topics,
                        NEW i \in DOMAIN handlers'[u], NEW j \in DOMAIN handlers'[v],
                        handlers'[u][i].who = handlers'[v][j].who
                 PROVE  u = v /\ i = j
      BY DEF OneHandler
    <2>1. CASE i \in DOMAIN handlers[u] /\ handlers'[u][i] = handlers[u][i]
      <3>1. j \in DOMAIN handlers[v] /\ handlers'[v][j] = handlers[v][j]
        BY <1>3, <1>4, <1>5, <2>1
      <3>2. QED
        BY <2>1, <3>1 DEF OnceInv, OneHandler
    <2>2. CASE u = t /\ i = n /\ handlers'[u][i] = h
      BY <1>3, <1>4, <1>5, <2>2
    <2>3. QED
      BY <1>3, <2>1, <2>2
  <1>7. CalledOnce'
    BY <1>3, <1>5 DEF OnceInv, CalledOnce
  <1>8. QED
    BY <1>6, <1>7

LEMMA StopOnce ==
    ASSUME TypeOK, OnceInv, NEW l \in Listeners, NEW t \in Topics, StopListening(l, t)
    PROVE  OneHandler' /\ CalledOnce'
  <1>1. PICK k \in DOMAIN handlers[t] :
           handlers' = [handlers EXCEPT ![t] = Splice(@, k)]
    BY DEF StopListening, Off
  <1> DEFINE from == [u \in Topics |->
                         [i \in Nat |-> IF u = t /\ i >= k THEN i + 1 ELSE i]]
  <1>2. /\ handlers[t] \in Seq(Handler) /\ Len(handlers[t]) \in Nat
        /\ DOMAIN handlers[t] = 1..Len(handlers[t]) /\ k \in 1..Len(handlers[t])
    BY DEF TypeOK
  <1>3. /\ handlers'[t] = Splice(handlers[t], k)
        /\ \A u \in Topics : u # t => handlers'[u] = handlers[u]
    BY <1>1 DEF TypeOK
  <1>4. /\ DOMAIN handlers'[t] = 1..(Len(handlers[t]) - 1)
        /\ \A i \in 1..(Len(handlers[t]) - 1) :
              handlers'[t][i] = handlers[t][IF i < k THEN i ELSE i + 1]
    <2>1. /\ handlers'[t] \in Seq(Handler) /\ Len(handlers'[t]) = Len(handlers[t]) - 1
          /\ \A i \in 1..(Len(handlers[t]) - 1) :
                handlers'[t][i] = handlers[t][IF i < k THEN i ELSE i + 1]
      <3> DEFINE s == handlers[t]
      <3>1. s \in Seq(Handler) /\ k \in 1..Len(s)
        BY <1>2
      <3> HIDE DEF s
      <3>2. /\ Splice(s, k) \in Seq(Handler) /\ Len(Splice(s, k)) = Len(s) - 1
            /\ \A i \in 1..(Len(s) - 1) :
                  Splice(s, k)[i] = s[IF i < k THEN i ELSE i + 1]
        BY <3>1, SpliceType
      <3>3. handlers'[t] = Splice(s, k)
        BY <1>3 DEF s
      <3>4. QED
        BY <3>2, <3>3 DEF s
    <2>2. QED
      BY <2>1
  <1>5. ASSUME NEW u \in Topics, NEW i \in DOMAIN handlers'[u]
        PROVE  /\ from[u][i] \in DOMAIN handlers[u]
               /\ handlers'[u][i] = handlers[u][from[u][i]]
               /\ \A j \in DOMAIN handlers'[u] : from[u][i] = from[u][j] => i = j
    <2>1. CASE u = t
      <3>1. \A j \in DOMAIN handlers'[u] :
               j \in 1..(Len(handlers[t]) - 1) /\ from[u][j] = IF j >= k THEN j + 1 ELSE j
        <4>1. DOMAIN handlers'[u] = 1..(Len(handlers[t]) - 1)
          BY <1>4, <2>1
        <4>2. \A j \in 1..(Len(handlers[t]) - 1) : j \in Nat
          BY <1>2
        <4>3. \A j \in Nat : from[u][j] = IF j >= k THEN j + 1 ELSE j
          BY <2>1
        <4> HIDE DEF from
        <4>4. QED
          BY <4>1, <4>2, <4>3
      <3> HIDE DEF from
      <3>2. /\ i \in 1..(Len(handlers[t]) - 1)
            /\ handlers'[t][i] = handlers[t][IF i < k THEN i ELSE i + 1]
            /\ from[u][i] = IF i < k THEN i ELSE i + 1
        <4>1. i \in 1..(Len(handlers[t]) - 1) /\ from[u][i] = IF i >= k THEN i + 1 ELSE i
          BY <1>5, <3>1
        <4>2. i \in Nat /\ k \in Nat
          BY <1>2, <4>1
        <4>3. from[u][i] = IF i < k THEN i ELSE i + 1
          BY <4>1, <4>2
        <4>4. handlers'[t][i] = handlers[t][IF i < k THEN i ELSE i + 1]
          BY <1>4, <4>1
        <4>5. QED
          BY <4>1, <4>3, <4>4
      <3>3. from[u][i] \in DOMAIN handlers[u]
        BY <1>2, <2>1, <3>2
      <3>4. \A j \in DOMAIN handlers'[u] : from[u][i] = from[u][j] => i = j
        BY <1>2, <1>5, <3>1
      <3>5. QED
        BY <2>1, <3>2, <3>3, <3>4
    <2>2. CASE u # t
      <3>1. DOMAIN handlers[u] \subseteq Nat /\ handlers'[u] = handlers[u]
        BY <1>3, <2>2 DEF TypeOK
      <3>2. \A j \in DOMAIN handlers'[u] : from[u][j] = j
        BY <2>2, <3>1
      <3> HIDE DEF from
      <3>3. QED
        BY <1>5, <3>1, <3>2
    <2>3. QED
      BY <2>1, <2>2
  <1>6. UNCHANGED <<heard, told>>
    BY DEF StopListening
  <1> HIDE DEF from
  <1>7. QED
    BY <1>5, <1>6, HandlersMoved DEF OnceInv

(* A change runs the handlers of two topics at most; a wrapper of once that *)
(* it calls, and that does not throw, is not kept.                          *)
LEMMA DispatchOnce ==
    ASSUME TypeOK, OnceInv, NEW change \in Change, Dispatch(change), UNCHANGED told
    PROVE  OneHandler' /\ CalledOnce'
  <1> DEFINE E == Events(change)
  <1>1. E \subseteq Topics
    BY DEF Events, Topics, Change
  <1>2. \A t \in Topics : handlers[t] \in Seq(Handler) /\ Distinct(handlers[t])
    BY DEF TypeOK, OnceInv, OneHandler, Distinct
  <1>3. \A t \in E : Sound(Emitted(t), Elems(handlers[t]), Leaving)
    BY <1>1, <1>2, EmissionSound DEF Emitted
  <1>4. \A t \in E : /\ Emitted(t).called \in Seq(Handler)
                     /\ Emitted(t).kept \in Seq(Handler)
    BY <1>1, <1>2, EmissionType DEF Emitted
  <1>5. \A t \in Topics : handlers'[t] = IF t \in E THEN Emitted(t).kept ELSE handlers[t]
    BY DEF Dispatch
  <1> HIDE DEF E
  <1>6. \A t \in Topics : Distinct(handlers'[t]) /\ handlers'[t] \in Seq(Handler)
    BY <1>2, <1>3, <1>4, <1>5 DEF Sound
  <1>7. ASSUME NEW t \in Topics, NEW i \in DOMAIN handlers'[t]
        PROVE  \E k \in DOMAIN handlers[t] : handlers'[t][i] = handlers[t][k]
    <2>1. CASE t \in E
      <3>1. Elems(handlers'[t]) \subseteq Elems(handlers[t])
        BY <1>3, <1>5, <2>1 DEF Sound
      <3>2. handlers'[t][i] \in Elems(handlers'[t])
        BY <1>6 DEF Elems
      <3>3. QED
        BY <1>2, <3>1, <3>2 DEF Elems
    <2>2. CASE t \notin E
      BY <1>5, <2>2
    <2>3. QED
      BY <2>1, <2>2
  <1>8. OneHandler'
    <2> SUFFICES ASSUME NEW t \in Topics, NEW u \in Topics,
                        NEW i \in DOMAIN handlers'[t], NEW j \in DOMAIN handlers'[u],
                        handlers'[t][i].who = handlers'[u][j].who
                 PROVE  t = u /\ i = j
      BY DEF OneHandler
    <2>1. t = u /\ handlers'[t][i] = handlers'[u][j]
      BY <1>7 DEF OnceInv, OneHandler
    <2>2. QED
      BY <1>6, <2>1 DEF Distinct
  <1>9. ASSUME NEW t \in Topics, NEW i \in DOMAIN handlers'[t],
               handlers'[t][i].once, handlers'[t][i].who \notin Throwing
        PROVE  heard'[handlers'[t][i].who] = 0
    <2> DEFINE h == handlers'[t][i]
    <2>1. PICK k \in DOMAIN handlers[t] : h = handlers[t][k]
      BY <1>7
    <2>2. h \in Handler /\ h.who \in Listeners /\ h \in Leaving
      <3>1. h \in Handler
        BY <1>6
      <3>2. h.who \in Listeners
        BY <3>1 DEF Handler
      <3>3. RemovesItself(h)
        BY <1>9 DEF RemovesItself
      <3>4. QED
        BY <3>1, <3>2, <3>3 DEF Leaving
    <2>3. heard[h.who] = 0
      BY <1>9, <2>1 DEF OnceInv, CalledOnce
    <2>4. ~Ran(h.who, change)
      <3> SUFFICES ASSUME NEW u \in E, NEW j \in DOMAIN Emitted(u).called,
                          Emitted(u).called[j].who = h.who
                   PROVE  FALSE
        BY DEF Ran, E
      <3>1. Emitted(u).called[j] \in Elems(Emitted(u).called)
        BY <1>4 DEF Elems
      <3>2. PICK m \in DOMAIN handlers[u] : Emitted(u).called[j] = handlers[u][m]
        <4>1. Emitted(u).called[j] \in Elems(handlers[u])
          BY <1>3, <3>1 DEF Sound
        <4>2. QED
          BY <1>1, <1>2, <4>1 DEF Elems
      <3>3. u = t /\ Emitted(u).called[j] = h
        BY <1>1, <2>1, <3>2 DEF OnceInv, OneHandler
      <3>4. h \in Elems(Emitted(u).kept)
        <4>1. handlers'[t] = Emitted(u).kept
          BY <1>5, <3>3
        <4>2. QED
          BY <1>6, <4>1 DEF Elems
      <3>5. QED
        BY <1>3, <2>2, <3>1, <3>3, <3>4 DEF Sound
    <2>5. QED
      BY <2>2, <2>3, <2>4 DEF Dispatch
  <1>10. CalledOnce'
    BY <1>9 DEF OnceInv, CalledOnce
  <1>11. QED
    BY <1>8, <1>10

LEMMA NextOnce == TypeOK /\ OnceInv /\ [Next]_vars => OnceInv'
  <1> SUFFICES ASSUME TypeOK, OnceInv, [Next]_vars PROVE OnceInv'
    OBVIOUS
  <1>1. ASSUME UNCHANGED <<handlers, heard, fetches, told>> PROVE OnceInv'
    BY <1>1 DEF OnceInv, CalledOnce, OneHandler, Unanswered
  <1>2. ASSUME UNCHANGED <<handlers, heard>>, Unanswered',
               \A q \in Requests \ Throwing : Len(told'[q]) <= 1
        PROVE  OnceInv'
    BY <1>2 DEF OnceInv, CalledOnce, OneHandler
  <1>3. ASSUME OneHandler', CalledOnce', UNCHANGED <<fetches, told>> PROVE OnceInv'
    BY <1>3 DEF OnceInv, Unanswered
  <1>4. ASSUME NEW c \in Collections, Access(c) \/ CallJoin(c) \/ Leave(c) PROVE OnceInv'
    BY <1>1, <1>4 DEF Access, CallJoin, Leave
  <1>5. ASSUME NEW t \in Tokens \cup {None}, SetAuthToken(t) PROVE OnceInv'
    BY <1>1, <1>5 DEF SetAuthToken
  <1>6. ASSUME NEW l \in Listeners, NEW t \in Topics, Listen(l, t) PROVE OnceInv'
    BY <1>3, <1>6, ListenOnce DEF Listen
  <1>7. ASSUME NEW l \in Listeners, NEW t \in Topics, StopListening(l, t) PROVE OnceInv'
    BY <1>3, <1>7, StopOnce DEF StopListening
  <1>8. ASSUME NEW q \in Requests, Request(q) PROVE OnceInv'
    BY <1>2, <1>8 DEF Request, OnceInv, CalledOnce, Unanswered
  <1>9. ASSUME NEW q \in Requests, Answer(q) \/ Fails(q) PROVE OnceInv'
    <2>1. told[q] = <<>> /\ fetches' = fetches \ {q} /\ UNCHANGED <<handlers, heard>>
      BY <1>9 DEF Answer, Fails, OnceInv, Unanswered
    <2>2. \A r \in Requests : r # q => told'[r] = told[r]
      BY <1>9 DEF Answer, Fails, TypeOK
    <2>3. q \notin Throwing => Len(told'[q]) <= 1
      <3>1. /\ Len(<<>> \o <<"result">>) = 1
            /\ Len(Append(<<>>, "error")) = 1
        OBVIOUS
      <3>2. q \notin Throwing =>
               told'[q] = <<>> \o <<"result">> \/ told'[q] = Append(<<>>, "error")
        BY <1>9, <2>1 DEF Answer, Fails, TypeOK
      <3> SUFFICES ASSUME q \notin Throwing PROVE Len(told'[q]) <= 1
        OBVIOUS
      <3>3. Len(told'[q]) = 1
        BY <3>1, <3>2
      <3>4. QED
        BY <3>3
    <2>4. \A r \in Requests \ Throwing : Len(told'[r]) <= 1
      BY <2>2, <2>3 DEF OnceInv, CalledOnce
    <2>5. Unanswered'
      BY <2>1, <2>2 DEF OnceInv, Unanswered, TypeOK
    <2>6. QED
      BY <1>2, <2>1, <2>4, <2>5
  <1>10. ASSUME OnOpen \/ Lose \/ OnClose \/ Reconnect PROVE OnceInv'
    BY <1>1, <1>10 DEF OnOpen, Lose, OnClose, Reconnect
  <1>11. ASSUME OnMessage PROVE OnceInv'
    <2> DEFINE frame == Head(down)
    <2>1. frame \in Seq(Change)
      BY <1>11 DEF OnMessage, TypeOK
    <2>2. CASE Len(frame) = 1
      <3>1. frame[1] \in Change
        BY <2>1, <2>2
      <3>2. Dispatch(frame[1]) /\ UNCHANGED <<fetches, told>>
        BY <1>11, <2>2 DEF OnMessage
      <3> HIDE DEF frame
      <3>3. QED
        BY <1>3, <3>1, <3>2, DispatchOnce
    <2>3. CASE Len(frame) # 1
      BY <1>1, <1>11, <2>3 DEF OnMessage
    <2>4. QED
      BY <2>2, <2>3
  <1>12. ASSUME Serve PROVE OnceInv'
    BY <1>1, <1>12 DEF Serve
  <1>13. ASSUME NEW change \in Change, ChangeCollection(change) PROVE OnceInv'
    BY <1>1, <1>13 DEF ChangeCollection
  <1>14. CASE UNCHANGED vars
    BY <1>1, <1>14 DEF vars
  <1>15. ASSUME NEW t \in Tokens, Expire(t) PROVE OnceInv'
    BY <1>1, <1>15 DEF Expire
  <1>16. QED
    BY <1>4, <1>5, <1>6, <1>7, <1>8, <1>9, <1>10, <1>11, <1>12, <1>13, <1>14, <1>15
       DEF Next, Page, Browser, Server, Network

(* A listener registered with once, and the callback of a request, that do  *)
(* not throw run at most once, although a handler that removes itself makes *)
(* emit pass over the one behind it.                                        *)
THEOREM RunsOnce == Spec => []CalledOnce
  <1>1. Init => OnceInv
    <2>1. Len(<<>>) = 0
      OBVIOUS
    <2>2. QED
      BY <2>1 DEF Init, OnceInv, CalledOnce, OneHandler, Unanswered
  <1>2. OnceInv => CalledOnce
    BY DEF OnceInv
  <1>3. QED
    BY <1>1, <1>2, InitType, NextType, NextOnce, PTL DEF Spec
=============================================================================
