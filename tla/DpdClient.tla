----------------------------- MODULE DpdClient -----------------------------
(***************************************************************************)
(* The browser client (web/dpd.js): one WebSocket that is reopened after    *)
(* three seconds, the emitter that runs handlers, the collections that      *)
(* join their room when they are first used, and HTTP requests.  The        *)
(* server is as realtime/websocket.go answers: it handles a connection's    *)
(* messages in order and may pack several of its own into one frame.        *)
(*                                                                         *)
(* JavaScript runs to completion: a callback with all it calls is one step. *)
(***************************************************************************)
EXTENDS Naturals, Sequences

CONSTANTS Collections, Kinds,   \* kinds of change: created, updated, deleted
          Listeners, Throwing,  \* the users' handlers; those that throw
          Requests, Tokens, None,
          MaxEvents             \* bound on calls of join, leave, setAuthToken
                                \* and on changes of the server, together

ASSUME DpdAssumption ==
    /\ None \notin Tokens \cup Collections
    /\ Throwing \subseteq Listeners \cup Requests
    /\ MaxEvents \in Nat

VARIABLES
    sock,      \* socket.readyState
    ready,     \* socketReady
    timer,     \* the reconnection timer runs
    objects,   \* the collections that exist as properties of the client
    queue,     \* eventHandlers of "connect": the joins that wait
    handlers,  \* eventHandlers of every other event
    authToken,
    up, down,  \* messages and frames under way
    rooms, user,     \* what the server knows of this connection
    invalid,   \* tokens that the server refuses
    count,     \* of those calls and changes, for the bound
    heard,     \* how often a listener ran
    fetches,   \* HTTP requests under way
    told       \* what the callback of a request was called with

sockVars == <<sock, ready, timer>>
userVars == <<objects, handlers, authToken>>
netVars  == <<up, down, rooms, user, invalid>>
httpVars == <<fetches, told>>
vars == <<sockVars, userVars, queue, netVars, count, heard, httpVars>>

\* Events a listener may name: a collection and a kind of change.
Topics == Collections \X (Kinds \cup {"changed"})
Handler == [who : Listeners, once : BOOLEAN]
Message == [type : {"join", "leave"}, room : Collections]
              \cup [type : {"auth"}, token : Tokens \cup {None}]
Change == [room : Collections, kind : Kinds]

TypeOK ==
    /\ sock \in {"connecting", "open", "closing", "closed"}
    /\ ready \in BOOLEAN /\ timer \in BOOLEAN
    /\ ready => sock \in {"open", "closing"}
    /\ timer => sock = "closed"
    /\ objects \subseteq Collections
    /\ queue \in Seq(Collections)
    /\ handlers \in [Topics -> Seq(Handler)]
    /\ authToken \in Tokens \cup {None}
    /\ up \in Seq(Message) /\ down \in Seq(Seq(Change))
    /\ rooms \subseteq Collections /\ user \in Tokens \cup {None}
    /\ invalid \subseteq Tokens
    /\ count \in 0..MaxEvents
    /\ heard \in [Listeners -> Nat]
    /\ fetches \subseteq Requests
    /\ told \in [Requests -> Seq({"result", "error"})]

\* The constructor has called connectWebSocket.  Without a jwtManager the
\* server refuses every token.
Init ==
    /\ sock = "connecting" /\ ready = FALSE /\ timer = FALSE
    /\ objects = {} /\ queue = <<>> /\ handlers = [t \in Topics |-> <<>>]
    /\ authToken = None /\ up = <<>> /\ down = <<>>
    /\ rooms = {} /\ user = None /\ invalid \in SUBSET Tokens
    /\ count = 0 /\ heard = [l \in Listeners |-> 0]
    /\ fetches = {} /\ told = [q \in Requests |-> <<>>]

---------------------------------------------------------------------------
(* The emitter *)

(* emit walks the live array with forEach.  A handler that removes itself   *)
(* moves the others one place down, so that the one behind it is not        *)
(* called this time.                                                        *)
Visit(before, h, leaving) ==
    LET leaves == ~before.skip /\ h \in leaving
    IN  [called |-> IF before.skip THEN before.called ELSE Append(before.called, h),
         kept   |-> IF leaves THEN before.kept ELSE Append(before.kept, h),
         skip   |-> leaves]

Emission(hs, leaving) ==
    LET after[k \in 0..Len(hs)] ==
          IF k = 0 THEN [called |-> <<>>, kept |-> <<>>, skip |-> FALSE]
          ELSE Visit(after[k - 1], hs[k], leaving)
    IN  after[Len(hs)]

\* Mutant: a wrapper that never removes itself.
RemovesItself_Never(h) == FALSE

\* The wrapper of once removes itself after its handler has returned.
RemovesItself(h) == h.once /\ h.who \notin Throwing
Leaving == {h \in Handler : RemovesItself(h)}

On(l, t) == handlers' = [handlers EXCEPT ![t] = Append(@, [who |-> l, once |-> FALSE])]
Once(l, t) == handlers' = [handlers EXCEPT ![t] = Append(@, [who |-> l, once |-> TRUE])]

Splice(s, k) == SubSeq(s, 1, k - 1) \o SubSeq(s, k + 1, Len(s))

\* A wrapper of once is not the handler that the user names.
Off(l, t) ==
    LET named(h) == h.who = l /\ ~h.once
    IN  \E k \in DOMAIN handlers[t] :
            /\ named(handlers[t][k]) /\ \A j \in 1..(k - 1) : ~named(handlers[t][j])
            /\ handlers' = [handlers EXCEPT ![t] = Splice(@, k)]

Registered(l) == \E t \in Topics : \E k \in DOMAIN handlers[t] : handlers[t][k].who = l

Listen(l, t) ==
    /\ ~Registered(l) /\ heard[l] = 0
    /\ t[1] \in objects
    /\ On(l, t) \/ Once(l, t)
    /\ UNCHANGED <<sockVars, objects, authToken, queue, netVars, count, heard,
                   httpVars>>

StopListening(l, t) ==
    /\ Off(l, t)
    /\ UNCHANGED <<sockVars, objects, authToken, queue, netVars, count, heard,
                   httpVars>>

---------------------------------------------------------------------------
(* Calls of the page *)

Count == count < MaxEvents /\ count' = count + 1

\* sendWebSocketMessage drops what it is given unless the socket is open.
Sent(message) == IF sock = "open" THEN Append(up, message) ELSE up

Join(c) ==
    IF ready THEN /\ up' = Sent([type |-> "join", room |-> c])
                  /\ UNCHANGED queue
             ELSE /\ queue' = Append(queue, c)
                  /\ UNCHANGED up

\* The proxy creates the collection on first use, and that joins its room.
Access(c) ==
    /\ c \notin objects
    /\ objects' = objects \cup {c}
    /\ Join(c)
    /\ UNCHANGED <<sockVars, handlers, authToken, down, rooms, user, invalid,
                   count, heard, httpVars>>

CallJoin(c) ==
    /\ Count
    /\ Join(c)
    /\ UNCHANGED <<sockVars, objects, handlers, authToken, down, rooms, user,
                   invalid, heard, httpVars>>

Leave(c) ==
    /\ Count
    /\ up' = IF ready THEN Sent([type |-> "leave", room |-> c]) ELSE up
    /\ UNCHANGED <<sockVars, objects, handlers, authToken, queue, down, rooms,
                   user, invalid, heard, httpVars>>

SetAuthToken(t) ==
    /\ Count
    /\ authToken' = t
    /\ up' = IF ready THEN Sent([type |-> "auth", token |-> t]) ELSE up
    /\ UNCHANGED <<sockVars, objects, handlers, queue, down, rooms, user,
                   invalid, heard, httpVars>>

---------------------------------------------------------------------------
(* The socket *)

\* Mutant: a new connection is not told the token.
OnOpen_NoAuth ==
    LET connect == Emission(queue, Collections)
    IN  /\ sock = "connecting"
        /\ sock' = "open" /\ ready' = TRUE
        /\ up' = [k \in DOMAIN connect.called |->
                     [type |-> "join", room |-> connect.called[k]]]
        /\ queue' = connect.kept
        /\ UNCHANGED <<timer, userVars, down, rooms, user, invalid, count,
                       heard, httpVars>>

\* Mutant: the wrappers that ran stay registered.
OnOpen_KeepsQueue ==
    /\ sock = "connecting"
    /\ sock' = "open" /\ ready' = TRUE
    /\ up' = [k \in DOMAIN queue |-> [type |-> "join", room |-> queue[k]]]
    /\ UNCHANGED <<timer, userVars, queue, down, rooms, user, invalid, count,
                   heard, httpVars>>

\* onopen: the token, then the joins that emit("connect") runs.
OnOpen ==
    LET connect == Emission(queue, Collections)
        auth == IF authToken = None THEN <<>>
                ELSE <<[type |-> "auth", token |-> authToken]>>
    IN  /\ sock = "connecting"
        /\ sock' = "open" /\ ready' = TRUE
        /\ up' = auth \o [k \in DOMAIN connect.called |->
                             [type |-> "join", room |-> connect.called[k]]]
        /\ queue' = connect.kept
        /\ UNCHANGED <<timer, userVars, down, rooms, user, invalid, count,
                       heard, httpVars>>

(* The connection is lost; the browser knows, the page does not yet.        *)
Lose ==
    /\ sock = "open"
    /\ sock' = "closing"
    /\ up' = <<>> /\ down' = <<>> /\ rooms' = {} /\ user' = None
    /\ UNCHANGED <<ready, timer, userVars, queue, invalid, count, heard,
                   httpVars>>

\* Mutants: no timer; the socket counts as ready until the next one.
OnClose_NoTimer ==
    /\ sock \in {"connecting", "closing"}
    /\ sock' = "closed" /\ ready' = FALSE
    /\ UNCHANGED <<timer, userVars, queue, netVars, count, heard, httpVars>>
OnClose_StaysReady ==
    /\ sock \in {"connecting", "closing"}
    /\ sock' = "closed" /\ timer' = TRUE
    /\ UNCHANGED <<ready, userVars, queue, netVars, count, heard, httpVars>>

\* Also for a connection that never came about.
OnClose ==
    /\ sock \in {"connecting", "closing"}
    /\ sock' = "closed" /\ ready' = FALSE /\ timer' = TRUE
    /\ UNCHANGED <<userVars, queue, netVars, count, heard, httpVars>>

Reconnect ==
    /\ timer /\ timer' = FALSE
    /\ sock' = IF sock = "closed" THEN "connecting" ELSE sock
    /\ UNCHANGED <<ready, userVars, queue, netVars, count, heard, httpVars>>

(* handleCollectionChange runs the listeners of the kind and of "changed".  *)
Events(change) == {<<change.room, change.kind>>, <<change.room, "changed">>}
Emitted(t) == Emission(handlers[t], Leaving)
Ran(l, change) ==
    \E t \in Events(change) : \E k \in DOMAIN Emitted(t).called :
        Emitted(t).called[k].who = l

Dispatch(change) ==
    /\ handlers' = [t \in Topics |-> IF t \in Events(change) THEN Emitted(t).kept
                                     ELSE handlers[t]]
    /\ heard' = [l \in Listeners |-> IF Ran(l, change) THEN heard[l] + 1 ELSE heard[l]]

(* onmessage parses a frame as one message: several in one are a syntax     *)
(* error, caught and logged.                                                *)
OnMessage ==
    /\ down # <<>>
    /\ down' = Tail(down)
    /\ IF Len(Head(down)) = 1 THEN Dispatch(Head(down)[1])
       ELSE UNCHANGED <<handlers, heard>>
    /\ UNCHANGED <<sockVars, objects, authToken, queue, up, rooms, user,
                   invalid, count, httpVars>>

---------------------------------------------------------------------------
(* The server *)

\* handleAuth answers a token it refuses with an error, and the connection
\* keeps the user it had.
Serve ==
    /\ up # <<>> /\ up' = Tail(up)
    /\ LET m == Head(up)
       IN  CASE m.type = "join"  -> rooms' = rooms \cup {m.room} /\ UNCHANGED user
             [] m.type = "leave" -> rooms' = rooms \ {m.room} /\ UNCHANGED user
             [] m.type = "auth"  ->
                    /\ user' = IF m.token \in Tokens \ invalid THEN m.token ELSE user
                    /\ UNCHANGED rooms
    /\ UNCHANGED <<sockVars, userVars, queue, down, invalid, count, heard,
                   httpVars>>

Expire(t) ==
    /\ t \notin invalid /\ invalid' = invalid \cup {t}
    /\ UNCHANGED <<sockVars, userVars, queue, up, down, rooms, user, count,
                   heard, httpVars>>

(* EmitCollectionChange broadcasts to every client, whatever its rooms.  The *)
(* writer puts what is queued behind a message into the same frame.          *)
ChangeCollection(change) ==
    /\ sock = "open"
    /\ Count
    /\ \/ down' = Append(down, <<change>>)
       \/ /\ down # <<>>
          /\ down' = [down EXCEPT ![Len(down)] = Append(@, change)]
    /\ UNCHANGED <<sockVars, userVars, queue, up, rooms, user, invalid, heard,
                   httpVars>>

---------------------------------------------------------------------------
(* HTTP *)

Request(q) ==
    /\ q \notin fetches /\ told[q] = <<>>
    /\ fetches' = fetches \cup {q}
    /\ UNCHANGED <<sockVars, userVars, queue, netVars, count, heard, told>>

(* The catch behind the callback takes the callback's own exception too.    *)
Answer(q) ==
    /\ q \in fetches /\ fetches' = fetches \ {q}
    /\ told' = [told EXCEPT ![q] = @ \o IF q \in Throwing THEN <<"result", "error">>
                                       ELSE <<"result">>]
    /\ UNCHANGED <<sockVars, userVars, queue, netVars, count, heard>>

\* No answer, a status that is not ok, or one that is no JSON.
Fails(q) ==
    /\ q \in fetches /\ fetches' = fetches \ {q}
    /\ told' = [told EXCEPT ![q] = Append(@, "error")]
    /\ UNCHANGED <<sockVars, userVars, queue, netVars, count, heard>>

---------------------------------------------------------------------------
Page ==
    \/ \E c \in Collections : Access(c) \/ CallJoin(c) \/ Leave(c)
    \/ \E t \in Tokens \cup {None} : SetAuthToken(t)
    \/ \E l \in Listeners, t \in Topics : Listen(l, t) \/ StopListening(l, t)
    \/ \E q \in Requests : Request(q)
Browser == OnOpen \/ Lose \/ OnClose \/ Reconnect \/ OnMessage
Server ==
    \/ Serve \/ \E t \in Tokens : Expire(t)
    \/ \E change \in Change : ChangeCollection(change)
Network == \E q \in Requests : Answer(q) \/ Fails(q)
Next == Page \/ Browser \/ Server \/ Network

Spec == Init /\ [][Next]_vars

(* The browser runs timers that are due and reports a socket that closed;   *)
(* a connection attempt ends one way or the other.                          *)
FairSpec ==
    /\ Spec /\ WF_vars(Reconnect)
    /\ WF_vars(OnClose /\ sock = "closing") /\ WF_vars(OnOpen \/ OnClose)

---------------------------------------------------------------------------
(* Properties *)

(* However token changes, losses, reconnections and expiries interleave,     *)
(* once the server has handled what was sent it serves this connection under *)
(* the latest token, unless that is none or one that it refuses.             *)
LatestTokenServed ==
    sock = "open" /\ up = <<>> /\ authToken \in Tokens \ invalid => user = authToken

(* A listener registered with once and the callback of a request run once,  *)
(* except where they throw.                                                 *)
CalledOnce ==
    /\ \A t \in Topics : \A k \in DOMAIN handlers[t] :
           LET h == handlers[t][k] IN h.once /\ h.who \notin Throwing => heard[h.who] = 0
    /\ \A q \in Requests \ Throwing : Len(told[q]) <= 1

(* A join that waits for a connection is sent at some connection, although  *)
(* each connection skips every other one of those that wait.                *)
QueuedJoinsHappen ==
    []<>(sock = "open") /\ []<>(sock # "open") =>
        \A c \in Collections :
            (\E k \in DOMAIN queue : queue[k] = c) ~> (\A k \in DOMAIN queue : queue[k] # c)

(* A socket that was lost is replaced. *)
Reconnects == sock \in {"closing", "closed"} ~> sock = "connecting"

---------------------------------------------------------------------------
(* What a comment says, and the code does not do *)

(* dpd.js:340 "Auto-join collection room for real-time updates": over an    *)
(* open connection a collection in use is in its room.                      *)
JoinedWhenConnected == sock = "open" /\ up = <<>> => objects \subseteq rooms

=============================================================================
