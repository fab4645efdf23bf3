# Formal models of go-deployd

This directory holds TLA+ models of go-deployd, the configurations that check
them with TLC on small instances, and proofs of their safety properties that the
TLA+ proof system (TLAPS) checks for every instance.  It is written against the
Go source of the server and the JavaScript source of its browser client and its
dashboard; every definition that models code is listed with its lines in
`PROJECT.json` (`map`).

How to run, inside this directory:

    tlc -workers 2 -config MCHub_two.cfg MCHub     # model-check one instance
    tlapm HubProofs.tla                            # check the proofs of one module

## 1. Inventory of the system

go-deployd is a JSON document server with a browser client (`web/dpd.js`) and a
dashboard (React, `dashboard/src`).  A request goes through

    http.Server -> Server routes / Router -> JWT and session -> Resource.Handle
        -> event scripts (V8, Go plugins) -> StoreInterface -> database
        -> WebSocket hub

| part | source (`src/internal/...`) | state | operations | what is hard |
|---|---|---|---|---|
| WebSocket hub | `realtime/websocket.go` | `clients`, `rooms`, `mu`, per client `Send`, `Rooms`, two goroutines | register, unregister, broadcast, join, leave, emit to a room, periodic cleanup | goroutines, a lock taken twice, channels closed by several goroutines, full queues |
| Message broker | `realtime/broker.go` | Redis subscription or in-process handlers | publish, subscribe, close | one goroutine per handler: order; several servers |
| V8 pool | `events/v8_pool.go` | channel of contexts, compiled-script cache, shutdown flag | acquire with timeout, execute, release, recreate, shutdown | time-outs, use after shutdown, stale cache entries, script state left in a context |
| Script | `events/script.go` | source, path, mutex | Run through the pool, traditional fallback, Compile | two paths that must agree |
| Script manager, hot reload, plugins | `events/manager.go`, `hotreload.go`, `compile.go`, `plugin.go`, `builtin_handlers.go` | `scripts`, `goPlugins`, `eventConfig`, `.so` files | load, reload, run an event, compile | reload during requests, a failed compilation |
| Collection | `resources/collection.go`, `resource.go` | config, script manager, store | GET, POST, PUT, DELETE, count, query, `$`-commands, config reload | read, event, validate, write, re-read are separate database calls of concurrent requests |
| User collection | `resources/user_collection.go` | as Collection | register, password hashing | check-then-insert |
| SQL stores | `database/sqlite.go`, `mysql.go` | table of JSON documents | Insert, Find, Update, Remove, Count, Upsert, Aggregate | read-modify-write without a transaction |
| Column store, schema manager | `database/column_store.go`, `schema.go` | real columns next to a JSON column, schema cache | as the stores, plus migration | cache against the table, partial migration |
| Mongo store | `database/mongodb.go`, `mongo_query_builder.go` | collection | as the stores | none of its own: one driver call per operation |
| Query translation | `database/query_builder.go`, `query_translator.go` | none | Mongo query to SQL, to condition trees | semantics of operators |
| Sessions | `sessions/session.go`, `auth/jwt.go` | session documents | create, load, save (whole-document upsert), remove | lost updates |
| Router | `router/router.go` | slice of resources, one manager per collection | match, handle, add and remove resources | slice replaced without a lock |
| Server accounts | `server/server.go` | user documents, JWT | login, verify e-mail, resend, clean-up of unverified users, shutdown | a verification racing the clean-up job |
| Admin | `admin/admin.go`, `admin/auth.go`, `admin/events.go` | config files, security config, event files | collection and event management, master key | check-then-insert, files against memory |
| Metrics | `metrics/collector.go`, `metrics/middleware.go` | slices and maps of samples | record, aggregate, flush, load, clean up | maps marshalled while they change |
| Logging | `logging/logger.go` | channel, file, batch | log, rotate, flush, shutdown | drop when full, flush at shutdown |
| Context, config, e-mail, swagger, CLI, static files | `context`, `config`, `email`, `swagger`, `cmd`, `server/dashboard_static.go` | request data, files | parsing, formatting, input/output | little or no shared state |

| part | source (`src/...`) | state | operations | what is hard |
|---|---|---|---|---|
| Browser client | `web/dpd.js` | socket, `socketReady`, timer, handlers per event, collections, token | connect, reconnect, join, leave, setAuthToken, on, once, off, emit, requests | a socket that comes and goes; a list of handlers that changes while it is walked |
| Dashboard: session | `dashboard/src/contexts/AuthContext.jsx`, `services/api.js`, `App.jsx`, `pages/Login.jsx` | token and user in each tab, the same in `localStorage` | restore, login, logout, `authFetch`, axios, 401 | tabs share `localStorage`; a 401 is handled in two ways |
| Dashboard: start page, metrics, logs | `pages/Dashboard.jsx`, `Metrics.jsx`, `Logs.jsx` | what was loaded, choices, timers | load, choose, refresh, download | loads overlap |
| Dashboard: collections | `pages/Collections.jsx` | list, search, page, dialog | load, create, delete | changes reload the list while others are under way |
| Dashboard: users | `pages/Users.jsx` | list, three dialogs, one form, selected user | create, edit, delete | a late answer touches a dialog that was opened meanwhile |
| Dashboard: settings | `pages/Settings.jsx` | groups of settings, flags | load, save, test mail | the password the form never holds; one flag for four buttons |
| Dashboard: documents, queries | `pages/CollectionDetail.jsx`, `components/DocumentModal.jsx`, `VisualQueryBuilder.jsx` | documents, filter, page number, dialog; rows and query | load, filter, create, edit, delete; build, import, execute | closures of an older render; two effects that feed one another |
| Dashboard: properties, events | `components/PropertiesEditor.jsx`, `EventsEditor.jsx`, `EventTester.jsx` | properties and order, dialog, drag; texts and types of scripts; mock data | add, edit, delete, drag; save; run a test | every change sends the whole set as it is known |
| Dashboard: the rest | `ToastSystem.jsx`, `Sidebar.jsx`, `EventDocumentation.jsx`, `SpreadsheetEditor.jsx`, ... | local, or none | show | nothing of the server's state |

How they meet.  A collection handler runs the events of its script manager
(which take contexts from the V8 pool), calls its store one operation at a
time, and after a change starts a goroutine that calls
`EmitCollectionChange`.  Event scripts call `EmitToAll` and `EmitToRoom`
directly.  The admin handlers rewrite config and script files; hot reload swaps
the scripts of a running collection.  Nothing above the store keeps a
transaction: two requests interleave between any two store calls.  The browser
client speaks to the hub through one WebSocket and to the collections through
HTTP.  The pages of the dashboard call the collections and the admin handlers
with `authFetch` (the token of the tab), the axios instance (the token of
`localStorage`) or plain `fetch`; nothing tells a page of a change that another
page, tab or program made.

What makes each part correct:

* hub: the maps are changed by one goroutine at a time; no send on a closed
  channel; a connection sees multicasts in one order; a reader that is gone is
  let go.
* store: an operation is atomic for its document; what it reports is what it did.
* collection: what is stored passed the events and the validation; a change is
  announced once, by the request that made it; concurrent requests lose no update.
* V8 pool: contexts are used by one script at a time and come back; an event
  runs the current source; a shutdown ends no request with a crash.
* accounts: one account per e-mail and name; a verified account is not cleaned up.
* browser client: after any loss the server knows the latest token again; a
  join that waits for a connection is sent; a callback runs once.
* dashboard: a session that a 401 has ended does not come back; a page shows
  what the server has once its handlers have ended, unless something disturbed
  them that it cannot know of; no handler writes the data of one form to another
  record; a spinner ends.

## 2. Plan

Modules in the order they were written.  Each has its own `MC` module, except
that the pages share that of `Dashboard`.

| # | module | models | composes with | state of the plan |
|---|---|---|---|---|
| 1 | `Hub`, `OrderedMulticast`, `Without`, `HubProofs` | `realtime/websocket.go` | `OrderedMulticast` is what it implements | done |
| 2 | `Collection`, `AtomicStore`, `CollectionProofs` | `resources/collection.go` over `database/sqlite.go` | `AtomicStore` is what it implements | done |
| 3 | `Scripts`, `ScriptsProofs` | `events/v8_pool.go`, `events/script.go`, JavaScript in `events/manager.go`, shutdown in `cmd/deployd/main.go` | | done |
| 4 | `DpdClient`, `DpdClientProofs` | `web/dpd.js` with the server as its hub answers | the hub's frames, as in `Hub` | done |
| 5 | `Session`, `SessionProofs` | `AuthContext.jsx`, `api.js`, `App.jsx`, `Login.jsx` | | done |
| 6 | `Tasks` | asynchronous handlers of a page | instanced by the pages | done |
| 7 | `HomePage`, `CollectionsPage`, `UsersPage`, `SettingsPage`, `MetricsPage`, `LogsPage`, `DocumentsPage`, `QueryPage`, `PropertiesPage`, `EventsPage`, `EventTester` | one page, tab or editor each | `Tasks` | done |
| 8 | `Dashboard`, `PagesProofs`, `DashboardProofs` | `App.jsx`: the page that is shown, its state, leaving it | the modules of 7 | done |
| 9 | `SequenceFacts` | induction and the operators that walk a sequence, for the proofs | `Without` | done |
| 10 | `Accounts` (registration, verification, clean-up), `Plugins`, `SchemaManager`, `ColumnStore`, `Router`, `Sessions`, `Broker`, `Metrics`, `Logger`, `QueryTranslation` | the rest of the Go source | | not written, see section 10 |

There is one run for each component's safety and, where its code has them, its
liveness properties, and three runs that show a disagreement between a comment
and the code.  Other disagreements keep the configuration that shows them,
without being part of the routine check:

| configuration | module | property that TLC refutes |
|---|---|---|
| `MCHub_emit_closed.cfg` | `MCHub` | `ClosedIsMarked` |
| `MCHub_blocked.cfg` | `MCHub` | `ConnectIsSent` |
| `MCCollection_lost_update.cfg` | `MCCollection` | `UpdatesOwnFieldsOnly` |
| `MCCollection_announced.cfg` | `MCCollection` | `AnnouncedAsCommitted` |
| `MCCollection_unannounced.cfg` | `MCCollection` | `EveryChangeAnnounced` |
| `MCScripts_isolated.cfg` | `MCScripts` | `ScriptsIsolated` |
| `MCScripts_reload.cfg` | `MCScripts` | `SavedIsLoaded` |
| `MCDpdClient_joined.cfg` | `MCDpdClient` | `JoinedWhenConnected` |
| `MCDashboard_ranges.cfg` | `MCDashboard` | `ChartsMatchRange` |
| `MCDashboard_exists.cfg` | `MCDashboard` | `EveryQuerySurvives` |

Every safety property, action property and refinement that a run checks is
also a theorem (section 9).  What is left to the runs is liveness.

## 3. The hub

`Hub.tla` has one action for each step of a goroutine between two points where
another can run: a channel operation, a lock, a socket.

| goroutine | code | variables | actions |
|---|---|---|---|
| `Hub.Run` | 119-170 | `hpc`, `hclient`, `htodo`, `hmsg` | `AddClient`, `SendConnect`, `DropClient`, `BeginBroadcast`, `BroadcastTo`, `EndBroadcast` |
| `readPump` | 193-227 and the handlers 272-415 | `rpc`, `myRooms`, `conn` | `Upgrade`, `AcceptRegister`, `ReadRequest`, `Reply`, `Join`, `Leave`, `ReadBroadcast`, `ReadRoomEmit`, `ReadError`, `AcceptUnregister`, `AcceptFromReader` |
| `writePump` | 229-270 | `wpc`, `drain`, `got` | `WriterTake`, `WriterDrain`, `WriterFlush`, `WriterFail`, `WriterClosed` |
| `EmitToRoom` | 417-495 | `pending`, `emitRoom`, `etodo`, `emsg`, `dead` | `BeginRoomEmit`, `RoomEmitTo`, `ReapDead`, `EndRoomEmit` |
| scripts, change notifications | 497-533, `compile.go` | `epc` | `EmitBroadcast`, `AcceptFromEmitter`, `ChangeTimeout`, `ScriptRoomEmit` |
| clean-up | 658-712 | - | `Cleanup` (it holds the lock from its first receive to its last removal) |

`client.Send` is `send` (a sequence of at most `SendCap`) and `closed`.
Sending on a closed channel, or closing one twice, sets `crash` to the place
of the panic and ends the behaviour: none of these goroutines recovers.  A
rendezvous on an unbuffered channel is one action (`Accept...`) enabled when
both sides are there.  A multicast is a number, taken from `seqno` when
`h.mu` is acquired to deliver it; messages for one connection are `Direct`.
`hpc = "stuck"` is the hub goroutine waiting for a lock it holds itself.

What the runs show:

* `hub_two`: two connections, queues of one message.  `LockInv`: `h.mu`
  protects the maps, although the broadcast loop deletes under the read lock.
  `OpenWhileRegistered`: a registered client's channel is open, but for one
  case, in which the connect message panics.  `HubLoopNeverPanics`: given the
  former, the loop and `unregister` cannot panic.  `RoomsMirrored` and
  `EmitsToMembers` tie `h.rooms` to `client.Rooms` and to the room goroutine.
* `hub_queue`: one connection in two rooms.  `InOrder`: what is written to a
  socket keeps the order of the lock and repeats nothing;
  `ImplementsMulticast`: the hub is an `OrderedMulticast` (bounded queues, a
  common order, messages that may be dropped but never reordered).  The mapping
  takes the `Direct` messages out of the queues (`Multicasts`, with `Without`).
* `hub_live`: without rooms, `ReaderDeparts` and `EmitToAllReturns`, with queues
  of one message: broadcasts overflow, and a reply that overtakes the connect
  message makes the hub wait for the queue of one client while others wait for
  the hub.  If the writer of that client dies, the hub goes on only when the
  cleanup takes a message from the queue; and the cleanup does not come to a
  client that it has already taken from `h.clients`.  That state, `HubBlocked`,
  is the one excuse of both properties besides a panic.
* `hub_self_lock`: a client that disconnects while it is in a room makes the
  hub lock `h.mu` twice and stop; described in `PROJECT.json` under `findings`.

The kept configuration `MCHub_emit_closed.cfg` lets TLC refute `ClosedIsMarked`:
a room emission sends on a channel that an overflowing broadcast has closed,
and the process ends.  `MCHub_blocked.cfg` lets it refute `ConnectIsSent`: a
client asks twice before the hub has sent it the connect message; the cleanup
takes the first reply for the sign of a closed channel and forgets the client,
the second reply fills the queue, the writer dies on a failed ping, and the hub
waits for that queue (line 134) for ever.  With the 256 places of the code this
takes as many replies; nothing bounds them.

Met while modelling, and in the model, without a run of its own: `Cleanup`
takes an open client whose queue holds a message for dead (line 678 receives
from the channel to see whether it is closed); `ReapDead` finds the channel
full, so it consumes a message and leaves the channel open (line 472).

Bounds.  Every shared structure is met by at most two goroutines that compete
for it, so two connections and one room (or one connection and two rooms) show
every pairwise interleaving; a queue of one or two messages reaches both full
and drained.  `MaxIssued` bounds the emissions and replies of a behaviour: two
are needed to fill a queue of one and find it full, three to fill a queue of two.
A script that waits for a blocked hub needs two replies and an emission; in
`hub_live` there are two in all, so the passing configuration
`MCHub_live_one.cfg` checks both properties with three and one connection.

Fairness.  Weak fairness for the goroutines that are not waiting for a
partner, since the Go scheduler runs each of them; strong fairness for each
rendezvous, since `select` picks at random among the ready cases.  Reading or
writing fails for certain only after this server has closed the connection;
nothing is assumed of the network.  The cleanup's ticker is weakly fair: what it
would find at every tick it finds.  The liveness runs exclude rooms because
`hub_self_lock` shows that with rooms the hub may stop.

Deadlock is not checked: a finished set of connections, an ended process and
the hub that waits for itself are all legitimate ends of a behaviour; the last
is what `hub_self_lock` is about.

## 4. Collections on the document store

`Collection.tla` takes a fixed set of requests, each in a goroutine of its own
with a kind (`get`, `post`, `put`, `delete` and the commands `set`, `inc`,
`unset`, `push`), a document, a body and `$skipEvents`.  Its actions are the
stretches of a handler between two database statements, because a statement
of SQLite is atomic and nothing else is.

| handler | actions |
|---|---|
| `handleGet` | `Get` |
| `handlePost` | `PostChecks` (validate, sanitize, defaults, events), `Insert` |
| `handlePut` | `PutChecks`, `UpdateFinds`, `UpdateWrites`, `Reread` |
| `handleMongoCommand` | `CommandChecks`, `UpdateFinds`, `UpdateWrites`, `Reread` |
| `handleDelete` | `DeleteFinds`, `RemoveCounts`, `RemoveDeletes` |
| end of each | `AfterCommit`, `Respond`, and `Notify` in a goroutine of its own |
| any point | `Cancelled` by an event, `StatementFails` |

`table` is the database; `previous`, `approved`, `sanitized`, `existing` and
`count` are the local variables with which a handler carries what it read over
to a later statement.  `committed` and `body` are one Go map before and after
the AfterCommit event wrote to it.  A document is a function from fields to
numbers or `Absent`.  `Accepts` is the rule the collection's Validate event
enforces, `EventSets` and `CommitSets` what its other events set.  `emits`
says whether the `Collection` object that serves a request has a
`realtimeEmitter`: those loaded at the start have one, those that the admin
handlers make or replace (`admin.go:373`, `:468`) have none until a restart.
`approved` is the document that Validate was run on, before the Put event or
the command's event sets fields of it.

What the runs show:

* `col_any`: three requests of any writing kind on one document.  A request
  refused with 400 or 404 has changed nothing, although a delete counts before
  it deletes; only a POST creates a document, although an update is prepared
  before it is written; every change that is reported is announced, if its
  `Collection` has an emitter (requests with and without are mixed).
* `col_one_updater`: where no two requests update one document, what is stored
  passed the Validate event (`StoredValid`, `ApprovedIsStored`), a PUT answers
  with its own change (`PutAnswersItsChange`), and the collection implements `AtomicStore`, in
  which every request takes effect at one instant.

Three kept configurations show where the code does less than its comments and
documents say.
`MCCollection_lost_update.cfg`, and why the restriction is needed: two PUTs of
different fields, of which one takes back the other's.
`MCCollection_announced.cfg`: the announcement of a change shows, in whole or
in part, what the AfterCommit event did to the response, or the concurrent
access to the map ends the process.  `MCCollection_unannounced.cfg`: a change
of a collection that the dashboard made or changed is announced to nobody,
where `docs/websocket-realtime.md:57` says that no configuration is required.

Met while modelling, and in the model, without a run of its own: with two
updaters per document `StoredValid` fails too (each PUT is valid on what it
read, the result is not); two DELETEs may both report one deleted document; a
PUT whose document is deleted meanwhile answers 200 with `null`; commands
announce nothing; `simulateMongoOperations` ignores `$inc` of a missing field
and applies `$push`, which the handler does not pass on; what the Put event
sets is not stored; AfterCommit and BeforeRequest run in spite of
`$skipEvents`.

Bounds.  Two requests show each race between two statements; the third is
there for a race with the result of a race.  Two fields are the least for which
a merge and a lost field differ; bodies name at most one of them, and numbers
grow by at most one per request.  Documents are independent of each other, so
one or two suffice.  In `col_one_updater` the Put and Post events set a field of
their own, so that the document before and after them differ.  Its third
request, on another document, puts steps of unrelated documents between those
of the others.
Deadlock is not checked: when all requests are answered, nothing more happens.

## 5. JavaScript events

`Scripts.tla` has one action for each step of a request's goroutine between
two points where another can run: the flag `isShutdown`, which is read without
a lock, the channel of contexts, `pool.mu`, and the use of V8.

| code | actions |
|---|---|
| a request (`main.go`) | `Arrive`, `Respond` |
| `RunEvent`, `Script.Run`, `runTraditional` | `RunEvent`, `RunTraditional` |
| `AcquireContext` | `Acquire`, `Receive`, `ReceiveNil`, `Timeout` |
| `ExecuteScript` | `Compile`, `CompileFails`, `RunScript`, `ScriptThrows` |
| `ReleaseContext` | `Release`, `Reset` (with `recreateContext`, `resetContext`), `Return` |
| `updateEvent`, `updateCollection` | `SaveScript`, `UpdateCollection` |
| signal, `Server.Close` | `StopAccepting`, `Close` |

`available` is the channel, `compiled` the cache of compiled scripts (a
context stands for its isolate), `global` the function `Run` that a context
has as a global, `loaded` the scripts of the collections' managers and `disk`
their files.  `ran` is the scripts whose code an event has executed, `lately`
those executed in a context since it was created or recreated; they are
what the properties are about and no variables of the program.  `"dropped"` is
a connection whose goroutine panicked (net/http recovers it); `crashed` is
the use of a disposed isolate, which native code does not survive.

What the runs show:

* `scripts_pool`: every context is in the pool once or with one event
  (`ContextsConserved`), whatever times out, fails or throws; the code of
  another script that an event may execute is a `Run` that was defined in the
  same context since its last recreation (`ForeignRunIsRecent`); an
  event that waits for a context ends (`EventEnds`); where
  `http.Server.Shutdown` had the time to wait, the shutdown drops nothing and
  uses nothing it has disposed (`OrderlyClose`).

A `Run` left behind is called by an event whose own source publishes none,
because it has none (`Runless`) or because it returned before the last lines of
`wrapScriptInFunction` (`Early`).  `ForeignRunIsRecent` says how far that reaches:
no further back than to the last recreation of the context, and only to
scripts that define a `Run`.

Two kept configurations show the rest.  `MCScripts_isolated.cfg`: an event
whose script has no `Run` calls the one the script before it left in the
context; with `Early = {p2}` in place of `Runless` an early return does the same.
`MCScripts_reload.cfg`: a JavaScript event that is saved is not loaded.

Met while modelling, and in the model, without a run of its own: when the 30
seconds of `main.go:152` are over, `Shutdown` disposes of isolates that are in
use; a request that waits then receives nil and one that releases sends on a
closed channel.  `updateCollection` drops a collection's JavaScript and its
realtime emitter.  A stale entry of the compiled-script cache cannot be
reached: `PrecompileScript` runs at the start only, because no reload loads
JavaScript.

Bounds.  Two requests and one context let one request wait, time out and
follow the other in the context; two scripts are needed for a leak from one to
the other, one of which may return early (what a script without a `Run` does to
a context, it does as well).  `MaxExec` = 1 (1000 in the code)
reaches the recreation at the second execution; `MaxVersion` = 2 allows one
save of each file.

Fairness.  Weak fairness of each request's goroutine while an event runs: the
scheduler runs it, and the wait for a context ends by the timer of 5 seconds
at the latest.  A handler need not run another event and a client need not
come back.  A script that never ends is not modelled: nothing in the code
limits its time, and its request, with its context, would never come back.

Deadlock is not checked: a stopped server with all requests answered is an end.

## 6. The browser client

`DpdClient.tla` has one action for each callback or call of the page:
JavaScript runs to completion, so nothing comes between.

| code (`web/dpd.js`) | actions |
|---|---|
| the proxy and `collection` | `Access`, which joins |
| `join`, `leave`, `setAuthToken` | `CallJoin`, `Leave`, `SetAuthToken` |
| `on`, `once`, `off` | `Listen`, `StopListening` |
| `connectWebSocket`: `onopen`, `onclose`, the timer, `onmessage` | `OnOpen`, `OnClose`, `Reconnect`, `OnMessage` |
| `request` and the callbacks | `Request`, `Answer`, `Fails` |
| the network and the server | `Lose`, `Serve`, `Expire`, `ChangeCollection` |

`emit` walks a live array with `forEach`, and a wrapper of `once` removes itself
while it is walked: `Emission` computes who is called and who stays, skipping
included; `Visit` is one turn of that walk.  `queue` are the handlers of `connect`: the joins that wait.  `up` and
`down` are what is under way; a loss empties both.  The server is modelled as
the hub answers: in order, several messages in one frame where its writer
packs them.  A change goes to every client, whatever its rooms
(`EmitCollectionChange` broadcasts).  `invalid` are the tokens the server refuses:
any at the start, more as they expire; `handleAuth` answers a refused token
with an error and the connection keeps the user it had.  `heard` and `told` count for the properties.

Run `client`: whatever is set, lost and reconnected, a connection whose
messages have been handled is served under the latest token, unless the server
refuses that one (`LatestTokenServed`); a once-listener and the callback of a request run once
unless they throw (`CalledOnce`); a join that waits is sent at some connection,
although each connection skips every second one (`QueuedJoinsHappen`); a lost
socket is replaced (`Reconnects`).  The kept configuration
`MCDpdClient_joined.cfg` refutes `JoinedWhenConnected`: the server forgets the
rooms of a lost connection and the client joins again only on the first use.
What is lost then are the emissions to the room, not the changes.

Bounds.  Two collections wait together, which is the least for which the walk
skips one.  `MaxEvents` = 2 bounds the calls of the page and the changes of the
server together: a second waiting join of one collection, two tokens set one
after the other, a call that crosses a change, or two
changes into one frame, which the client drops.  One listener suffices, because listeners of
different topics do not meet, and two on one topic meet as the joins do.

Fairness.  The browser runs a timer that is due and reports a socket that has
closed; a connection attempt ends in one of its two ways.  `QueuedJoinsHappen`
assumes in its own text that connections come and go for ever: while one
lasts, a join that was skipped waits.

## 7. The session of the dashboard

| code | actions |
|---|---|
| `AuthProvider.checkAuth` | `Restore` |
| `login`, `Login.handleLogin` | `SubmitLogin`, `LoginAccepted`, `LoginRefused` |
| `logout`, `App.handleLogout` | `Logout` |
| `authFetch` and its 401 | `AuthFetch`, `UnauthorizedFetch` |
| interceptors of `api.js` | `Axios`, `UnauthorizedAxios` |
| the server; an answer that is no 401 | `Serve`, `Answered`, `Expire` |
| `App`'s routes; the user | `Redirect`, `Reload` |

A tab's state is `auth`, what the tabs share `storage`.  `valid` are the tokens
the server accepts: none becomes valid again after it expired.  `refused` is a
history variable.

Run `session`: `RefusedNotStored` relates what any tab was told to what every
tab may restore later.  Two tabs show every race for `localStorage`, and two
tokens the race of an old session with a new one; with `MaxCalls` = 2 a tab has
one request of each kind under way.  Deadlock is checked.

## 8. The pages of the dashboard

A handler that awaits a request is a task in a slot (`Tasks`): what it has
captured of the render it was made in, the place where it awaits, and the
status of its request.  Between two awaits a handler is one action, and an
event handler of the page with what it does before its first await is one
action of `User`.  The request is served (`Serve`) at any time in between, or
fails before or after it was served.  `Others` is what somebody else does on
the server; only the home page and the lists of collections, users and
documents have it, and on the settings, properties, events and tester pages
nobody else changes the server while the page is open.  `ui` is the React state of the page, `server` what the server has
of it.

| module | code | what is followed |
|---|---|---|
| `HomePage` | `pages/Dashboard.jsx` | one load, its counts, refresh |
| `CollectionsPage` | `pages/Collections.jsx` | list, search, page number, dialog, creation, deletion |
| `UsersPage` | `pages/Users.jsx` | schema, list, three dialogs that share a form and a selected user |
| `SettingsPage` | `pages/Settings.jsx` | three loads, four saves under one flag, test mail, SMTP password |
| `MetricsPage` | `pages/Metrics.jsx` | four requests in a row, choices, the timer of 30 seconds |
| `LogsPage` | `pages/Logs.jsx` | entries by level and file, refresh, download |
| `DocumentsPage` | `CollectionDetail.jsx`, `DocumentModal.jsx` | documents, filter, page number, dialog, saves and deletions |
| `QueryPage` | `VisualQueryBuilder.jsx`, `CollectionDetail.jsx` | rows, query, the two effects between them, raw mode, import, execution |
| `PropertiesPage` | `PropertiesEditor.jsx` | order, dialog, drag and drop, updates of the whole set |
| `EventsPage` | `EventsEditor.jsx` | texts and types, templates, saves, reload |
| `EventTester` | `EventTester.jsx` | presets, mock data, run |
| `Dashboard` | `App.jsx` | which page is shown; leaving a page drops its state and the answers under way |

Only one page is mounted at a time, so `Dashboard` is a choice between the
modules on one set of variables.  Their assumptions on constants are operators
(`HomeAssumption`, ...) which `DashboardAssumption` conjoins.  They say that
`Slots` has the numbers 1 and 2 (`LoadSlots` also 3), which the loads of a new
page take; that the schemas of `PropertiesPage` are schemas; and that a query
pasted into `QueryPage` has rows the builder knows: a known field, an operator
of some type and at most `MaxRows` of them.  `stale`, `unsure`
and `edited` are history variables: they note that a request failed, that
others changed the server, that a load overlapped a change, or that a text was
edited, after which a page cannot show what the server has.

A value of `QueryPage` is a text, a number or a truth value.  `SaidValue` is the
chain of conversions in `buildQuery`: a list from its text, `parseFloat` of what
`isNaN` lets pass, which is `NaN` of a truth value, a truth value of a boolean
field or `$exists`, `parseInt` or 0 of `$size`.  The text of a list is its set of
parts; of parts that are no numerals but begin with a digit, `parseInt` would
make a number, which is left out.  `Feedback` is both effects in turn, once: it
runs at least once before the next event and any number of times after that,
which stands for the renders without end.  How React batches an effect with an
event is not modelled.

Run `dashboard`, over all pages:

* `InStep`: once the handlers of a page have ended and nothing of that kind has
  disturbed them, its list, documents, properties or scripts are the server's;
  deletions and creations may overlap where the code keeps them apart.  It
  excuses what `stale` and `unsure` note: a failed request, a load that overlaps
  a change, a change by others.  In those cases a page may well show what the
  server no longer has, and no property says otherwise; what `InStep` does catch
  is a handler that forgets to load again, loads too early, or keeps the wrong
  rows.  Of properties and events it says nothing about changes by others at
  all, since those pages have no `Others`.
* `NoForeignData`: no record gets the data of another user or the defaults.
* `SavesOneByOne`: four buttons and one flag let one save be under way.
* `PasswordKept`: the stored password changes only to one that a save under way
  has sent: a blank field, or a form whose load failed, keeps it.
* `RowsAsArranged`: a property that is dragged stands where it was dropped and
  the others keep their order, whatever orders the schema has; a new property
  comes after every row whose order is below 9000.  The orders from there on
  are the system's.  A property of the user can take one over: an old answer
  brings the system's property back while the user's of the same name is
  edited.  That takes four updates, more than `MaxUpdates` allows the run; the
  proof found it.
* `QuerySurvives`: builder and page exchange a query without changing it, its
  numbers, truth values and lists included.  Two kinds of conditions do not
  survive and are excused: a list that consists of commas, and `$exists` (or an
  imported `$size`) of a number field.  `VisualQueryBuilder.jsx:239` applies
  `parseFloat` to the truth value that was read back: `true` becomes `NaN`, and
  `NaN` `false`.  `MCDashboard_exists.cfg` shows it.
* `SpinnerEnds`: a page that shows a spinner has a load under way that takes it
  away.

Run `query_added` and run `doc_deleted` each refute a comment of the source, see
`findings` in `PROJECT.json`.  The second has three documents on pages of one,
two of which pass the filter: when the one on page 2 is deleted, the pages that
are left, counted without the filter, still are two, so the page number stays
and the table is empty.  The property excuses a page number that the user
changed while the request was under way (the handler looks at the one it
captured).

Bounds.  Two slots (three for the settings, which start with three loads) let
two handlers overlap, and a handler that ended make room for a third.  Two
records of each kind are the least for which one may be taken for the other; a
table of one row per page has a first, a last and an empty page.  `MaxUpdates`,
`MaxChanges` and `MaxSaves` = 2 bound the requests that change something during
one visit of a page; two can overlap and follow each other.  A query has at
most two rows, of a text, a number and a truth value, because operators and
conversions depend on the type, and rows on their neighbours only through the
logical operator; dates, arrays and fields of other types are left to the proof.
`MaxAsked` = 1 query is under way at once: the page allows more, but an
answer only shows results or the error, so a second one adds no step that a
query with a reload beside it does not have; the proofs allow any number.  The
two passwords are exchanged by `PasswordSymmetry`: nothing tells them apart.

The properties of the pages are safety properties: no fairness is assumed.
What must happen in the end (`SpinnerEnds`) is stated as what is under way.
Deadlock is checked: a page can always be left.

## 9. Proofs

| module | about |
|---|---|
| `SequenceFacts` | induction; recursive functions over sequences |
| `HubProofs` | `Hub`, and that it implements `OrderedMulticast` |
| `CollectionProofs` | `Collection`, and that it implements `AtomicStore` |
| `ScriptsProofs`, `SessionProofs`, `DpdClientProofs` | `Scripts`, `Session`, `DpdClient` |
| `PagesProofs` | the pages from `HomePage` to `QueryPage`, but for the next two |
| `DashboardProofs` | users, settings' password, documents, properties, events; the dashboard as a whole |

`SequenceFacts.tla` shows what the proofs need of operators that walk a
sequence.  The library's induction takes the claim as an operator, which the
provers cannot instantiate.  `Induction` takes it as the set of numbers that
satisfy it, and follows from the least number of a set (`LeastNumber`, from
`WFMin`).  With it `FoldExists` and `WalkExists` build a recursive function step
by step, `WalkUnique` shows there is only one, and the `Without...` lemmas say
what is left of a sequence: its type and length, which elements, and that
appending and taking the head commute with it.

`HubProofs.tla` proves for any set of connections, rooms, scripts and changes,
any capacity and any number of emissions, from `HubAssumption` only (a positive
capacity; the sets of goroutines are disjoint; `None` is none of them):

| theorem | property | argument |
|---|---|---|
| `TypeCorrect` | `TypeOK` | `TypeInv` adds that the hub goroutine has a client in hand in the steps that use one; lemmas `PutQueue` and `PopQueue` on the queues |
| `Locking` | `LockInv` | inductive with `TypeInv` |
| `RegisteredOpen`, `LoopNeverPanics`, `RoomMembership`, `EmissionMembers` | `OpenWhileRegistered`, `HubLoopNeverPanics`, `RoomsMirrored`, `EmitsToMembers` | one inductive invariant `SafeInv`: the four, `LockInv`, `LoopInv` (the clients the broadcast loop has still to visit are registered) and `DeadInv` (no reaping outside a room emission).  Neither panic property is inductive alone: that the loop does not panic needs that registered clients are open and that its list is registered, which needs the lock |
| `MulticastOrder` | `InOrder` | `OrderInv`: for each connection what is written, what is queued and the multicast in delivery form one increasing sequence bounded by `seqno`; every action keeps it, appends or drops from it (`KeepsAll`) |
| `HubRefinesMulticast` | `ImplementsMulticast` | `NextTraffic`: whatever an action does besides, to the queues and sockets it does one of six things: nothing, begin a multicast, answer one connection, write a message, lose the heads of some queues, or deliver the multicast.  `NextMulticast`: seen through the mapping each is a stutter, `Begin`, `Deliver`, `Lose` or `Offer`, by the `Without` lemmas.  That a delivery is an `Offer`, so never a second one, is `OrderInv` with the lock |

`CollectionProofs.tla` proves for any sets of requests, documents and fields,
any events and any value of the configuration, from `CollectionAssumption` only
(the absent markers are no documents; the constants lie in their sets):

| theorem | property | argument |
|---|---|---|
| `TypeCorrect` | `TypeOK` | `StageInv` ties the stage of a handler to the kind of its request and to what it has read by then; lemmas `MergeType`, `UpdatedType`, `SimulatedType` and `EventDocType` on documents |
| `RefusalsAreClean` | `RefusedChangesNothing` | `WrittenInv`: a request that has written is past its last check, and can only be answered 200 or 500 |
| `ChangesAnnounced` | `ChangeAnnounced` | `AnnouncedInv`: from the write on, a request that has not failed and has an emitter has its goroutine started or its announcement sent.  Only an announcement that meets `AfterCommit` on the same map ends the process, and its request is then still unanswered (`CrashStep`) |
| `PostsCreate` | `OnlyPostCreates` | a property of steps: with `WrittenInv` and `StageInv`, only `Insert` fills an empty row, and `UPDATE` and `DELETE` leave a missing row missing (`CreationStep`) |

The second part of the module proves for any sets of requests, documents and
fields what holds where no two requests update one document.  Its hypothesis
`OneUpdater` says that of the constants `MayDo` and `Target`: the documents that
a request may update are otherwise only read or deleted.

| theorem | property | further hypotheses | argument |
|---|---|---|---|
| `Atomicity` | `ImplementsAtomicStore` | | `HandlerInv`: what a handler asks the store to write comes from its request, and the document it has read is as it was read, or gone.  With it `UpdateWrites` is the whole update of `AtomicStore`, `RemoveDeletes` the whole deletion, and every other step a stutter |
| `AnswersItsChange` | `PutAnswersItsChange` | | the same invariant: merging the body into the answer changes nothing |
| `StoresApproved` | `ApprovedIsStored` | | `ApprovalInv`: what Validate was shown is the update of the document that is still there; what the Put event sets comes after Validate and is not stored |
| `StoresValid` | `StoredValid` | `EventsKeepValid`; no `$inc` | what is written has been accepted, unless the request skips the events; `InsertsValid` for what a POST is about to insert |

The further hypotheses are needed: what the Post event sets is stored without
being validated again, so that it must keep an acceptable document acceptable
(`EventsKeepValid`), and the simulation of `$inc` ignores a missing field.

`ScriptsProofs.tla` proves for any sets of requests, contexts and scripts and any
bounds on versions and executions, from `ScriptsAssumption` only (positive
bounds; finitely many contexts; `None` is neither a path nor a context):

| theorem | property | argument |
|---|---|---|
| `TypeCorrect` | `TypeOK` | `HandInv`: a request has a script from `RunEvent` on and a context from `Receive` on.  The pool keeps to its capacity because `Return` drops what does not fit, as the code's `select` does |
| `ContextsKept` | `ContextsConserved` | `EmptyHandInv` (a request holds a context only between `Receive` and `Return`); lemmas `TakeFirst` and `PutLast` on the channel, and `RoomForOneMore`: a pool that lacks a context has room for it, so the branch that `v8_pool.go:201` calls impossible is so |
| `ForeignRun` | `ForeignRunIsRecent` | `GlobalRecent`: the `Run` of a context was defined there since the last recreation.  That a recreation does not take the ground from under another event needs that no other event has the context: the proof stands on the invariant of `ContextsKept`.  `CleanInv`: until its script runs, an event has executed nothing |
| `ClosesInOrder` | `OrderlyClose` | `ShutdownInv`: the pool is shut down only after the listener was closed, and nothing has crashed or been dropped before |

`SessionProofs.tla` proves for any sets of tabs and tokens and any number of
requests under way, from `SessionAssumption` only (`None` is no token):

| theorem | property | argument |
|---|---|---|
| `TypeCorrect` | `TypeOK` | lemmas on the records of tabs, storage and calls |
| `RefusedStaysOut` | `RefusedNotStored` | every token in a tab, in `localStorage` or in a request was issued, and a login brings one that was not: so no login brings a refused token back, and every other step only moves what is there or empties the storage.  A 401 empties it in the step in which its token becomes refused |

`DpdClientProofs.tla` proves for any sets of collections, listeners, requests and
tokens, any of them throwing, and any number of calls and changes, from
`DpdAssumption` only (`None` is no token and no collection):

| theorem | property | argument |
|---|---|---|
| `TypeCorrect` | `TypeOK` | `Emission` is the last value of a walk that exists and is unique (`EmissionExists`, `EmissionWalk`), so its lists are of handlers (`EmissionType`); `SpliceType`, `JoinType`, `OnType`, `OffType` and `DispatchType` for the calls that use it |
| `LatestToken` | `LatestTokenServed` | `TokenFollows`: if the server accepts the latest token, then on an open socket the last token message under way carries it, or there is none and the server has it.  That a token set while the socket is not ready is not lost needs `OpenIsReady` and that `onopen` sends it first (`OpenToken`); that a token accepted now was accepted when it was handled, that none becomes valid again |
| `RunsOnce` | `CalledOnce` | `OneHandler`: a listener has at most one handler over all topics; `Unanswered`: a request under way has had no answer.  `EmissionSound`, by induction along the walk: whatever is skipped, only registered handlers are called or kept, none is kept twice, and one that removes itself is not both called and kept |

`PagesProofs.tla` and `DashboardProofs.tla` prove for any sets of collections,
users, documents, properties, events, settings and passwords, any number of
handlers and any order in which the pages are opened, from `DashboardAssumption`
only.  Each page has an invariant that holds whenever it is shown: `PageSteps`
reduces a step of the dashboard to mounting the page (`...Mounts`), a step of the
page (`...Steps`) or a stutter, and lemmas on the table of handlers (`Puts`,
`Handles`, `Doing`, `At`) say what starting, ending or advancing one does to the
sets of handlers the invariants speak of.

| theorem | property | argument |
|---|---|---|
| `OneSave` | `SavesOneByOne` | `SettingsInv`: as many saves are under way as the flag says, one or none, and each load has its handler |
| `QueryStays` | `QuerySurvives` | a property of rows: those that say something are said (`SaidRows`), a conversion of what was converted changes nothing (`SaidValues`, `SteadyRow`), so what is said and read back is what was said (`SaidAgain`, `ReadBack`); by `Without` and induction over the rows |
| `OwnDataOnly` | `NoForeignData` | `FormInv`: the form of an open dialog is of the user who is selected, whatever late answers cleared or closed.  `RequestInv`: a request carries the data of its own user from the moment it is sent.  `SchemaInv`: until the schema is there no dialog is open.  The first does not imply the second: a request outlives its form |
| `PasswordIsKept` | `PasswordKept` | a property of steps that needs the types of the page's state and its requests: only `Stored` writes the password, for a save of the e-mail settings that waits, and it takes a blank one for none |
| `DropsAsArranged` | `RowsAsArranged` | the place of a row is the number of rows ahead of it (`PlaceOrder`: smaller place, earlier row).  A drop numbers the rows anew from a permutation (`SlidOrder`, `ReorderedRows`), so that their order is that of the places it gave them (`DropArranges`); a new row's order is above every order below 9000 (`NextOrderAbove`, `SavedLast`), and what a handler sends is what the editor computed from what it had captured |
| `SpinnersEnd` | `SpinnerEnds` | in the invariant of each page: while it loads, a handler that will clear the flag is under way.  For the documents and the users this needs which handler brings the list, and that overlapping loads each end the spinner |
| `PagesInStep` | `InStep` | `ListFresh`, `DocumentsFresh`, `PropertiesFresh` and `ScriptFresh` say what is known in the middle of a handler, where `InStep` says nothing: which handler brings the new list, that an answered one holds what the server has, and that one that has not been answered started from it.  Each holds until the history variable says that an answer came too late or failed |
| `DashboardTypes` | `TypeOK` | the invariants of the pages, and that a page starts from its own state (`OnOffered`) |

The invariants were checked by TLC before they were proved.

Only model-checked: the liveness properties `ReaderDeparts`, `EmitToAllReturns`
and `EventEnds`, `QueuedJoinsHappen` and `Reconnects`.  Liveness under fairness
is out of the prover's reach.  The runs that refute a comment have nothing to
prove.

## 10. What is not modelled

The reasons are with each component in `PROJECT.json`.

Of the modelled components: the formats of messages and documents beyond what
the properties tell apart; ping and pong deadlines (a read or a write may fail
at any time instead); lists, counts and queries of a collection on the server;
event-only collections; the other stores.  Of the client, `find`, `count` and the
`$`-commands: each only builds a request.  Of the dashboard: toasts, keyboard
shortcuts, animations, the documentation page, charts and cards, which keep no
state of the server; sorting by another column, which only permutes a table;
`SpreadsheetEditor.jsx`, `useWebSocket.js` and `DocumentEditor.jsx`, which no
route and no page uses.

Not modelled as components, with the hazard that would be the first property of
each:

| part | at (`src/internal/`) | hazard |
|---|---|---|
| accounts | `resources/user_collection.go:154`, `admin/auth.go:384` | the name and e-mail are looked up and inserted in two calls: two registrations may both succeed |
| accounts | `server/server.go:1198` | the clean-up lists unverified users and deletes them by id: a verification in between is undone |
| sessions | `sessions/session.go:147` | a session is saved as a whole document: two requests lose one another's change |
| router | `router/router.go:226` | the slice of resources is replaced without a lock while requests walk it |
| plugins | `events/compile.go:79` | the `.so` is removed before its replacement is compiled |
| schema manager | `database/schema.go:75`, `:439` | the cache is consulted during a migration, whose statements may fail one by one |
| column store | `database/column_store.go:688` | `$unset` of a column leaves its value in the table |
| SQL stores | `database/sqlite.go:474` | an upsert is a lookup and a write (modelled are the operations of the collections) |
| metrics | `metrics/collector.go:176`, `:195` | maps are marshalled while requests write to them; a stop between two flushes loses samples |
| logging | `logging/logger.go:371` | entries are dropped when the channel is full, and a shutdown races the last batch |
| hub | `realtime/websocket.go:472`, `realtime/broker.go:63` | reaping a full queue consumes a message; a goroutine per handler delivers out of order |

These are left out for want of room, not of reach, except the query
translation, whose meaning is that of the databases, and the parts that only
parse, format or do input and output.

## 11. Disagreements met while modelling

The three with a run are under `findings` in `PROJECT.json`; those with a kept
configuration are in section 2; those of the Go source are in sections 3 to 5.
In the models as the code has them, without a run of their own:

* `EventsEditor.jsx:266, 299`: `setSaving({...saving})` restores the flags of an
  older render, so that of two overlapping saves one button may stay disabled;
  a load that failed blanks the texts, and saving then writes an empty script.
* `PropertiesEditor.jsx`: the PUT of all properties undoes what others changed;
  renaming to an existing name overwrites it; a failed load shows
  `mockCollection`, which the next save stores; a save that ends late closes a
  dialog opened meanwhile, and a drop that ends late ends another drag.
* `VisualQueryBuilder.jsx`: a comma at the end of a list cannot stay; a list of
  commas only is no condition when it is read back; `$exists` of a number field
  turns into `NaN` and then into `false`; `$or` stays chosen after an
  import without it; lines 311 to 340 call a `toast` that is not defined.
* `CollectionDetail.jsx`: filter and reload do not reset the page number; late
  answers replace newer documents; an error of a query replaces the page.
* `Settings.jsx`: a failed load leaves defaults that the next save writes; on
  the server, the settings in memory change before the file is written.
* `Collections.jsx`: creating a collection that exists overwrites its
  configuration.
* Home and metrics use plain `fetch`, whose 401 logs nobody out.
* `AuthContext.jsx`: a late 401 of an old session ends a new one; logging out in
  one tab leaves the token in the state of another.
* `Metrics.jsx:96`: `?period=x?collection=y` makes the collection part of the
  period; choosing a range while a load runs shows the charts of the old one.
* `dpd.js`: the server's frames with several messages are dropped as syntax
  errors; a callback that throws is called a second time, with its exception.
