------------------------------ MODULE Scripts ------------------------------
(***************************************************************************)
(* JavaScript events: the pool of V8 contexts (events/v8_pool.go), the     *)
(* execution of a script in it (events/script.go), the scripts of a        *)
(* collection and their reload (events/manager.go, admin/admin.go), and    *)
(* the shutdown of the server (cmd/deployd/main.go, server/server.go).     *)
(*                                                                         *)
(* Every request has a goroutine, which runs one event after another.  A   *)
(* context belongs to one isolate.  The pool knows a script by its path,   *)
(* and what it has compiled of it by path and isolate.  A path stands for  *)
(* one JavaScript event of one collection; its source is read when the     *)
(* server starts, and never again.                                         *)
(***************************************************************************)
EXTENDS Naturals, Sequences, FiniteSets

CONSTANTS Requests, Contexts, Paths, None,
          Runless,     \* paths whose source defines no function Run
          Early,       \* paths whose source may return before its end
          MaxVersion,  \* bound on the versions of a file
          MaxExec      \* executions before a context is recreated (1000)

ASSUME ScriptsAssumption ==
    /\ MaxVersion \in Nat \ {0} /\ MaxExec \in Nat \ {0}
    /\ IsFiniteSet(Contexts)
    /\ Runless \subseteq Paths /\ Early \subseteq Paths
    /\ None \notin Paths \cup Contexts

VARIABLES
    disk,       \* version of each script in its file
    loaded,     \* version the collection's manager has; 0 for no script
    compiled,   \* pool.compiled: contexts in whose isolate a path is compiled
    available,  \* pool.available
    global,     \* the path whose Run a context has as a global
    lately,     \* paths executed in a context since it was (re)created: a
                \* history, which no guard reads
    execCount,
    shut,       \* the pool is shut down
    closing,    \* the HTTP server accepts no more requests
    forced,     \* and did not wait for all that were there
    pc,         \* where a request is
    script,     \* the path of the Script that RunEvent took
    ctx,        \* the context it holds
    ran,        \* paths whose code the event has executed
    crashed     \* a disposed isolate has been used

fileVars == <<disk, loaded>>
poolVars == <<compiled, available, global, lately, execCount>>
stopVars == <<shut, closing, forced, crashed>>
reqVars  == <<pc, script, ctx, ran>>
vars == <<fileVars, poolVars, stopVars, reqVars>>

Labels == {"idle", "handler", "acquire", "waiting", "compile", "run",
           "release", "reset", "return", "own", "dropped"}

TypeOK ==
    /\ disk \in [Paths -> 1..MaxVersion] /\ loaded \in [Paths -> 0..MaxVersion]
    /\ compiled \in [Paths -> SUBSET Contexts]
    /\ available \in Seq(Contexts)
    /\ Len(available) <= Cardinality(Contexts)
    /\ global \in [Contexts -> Paths \cup {None}]
    /\ lately \in [Contexts -> SUBSET Paths]
    /\ execCount \in [Contexts -> 0..MaxExec]
    /\ \A flag \in {shut, closing, forced, crashed} : flag \in BOOLEAN
    /\ pc \in [Requests -> Labels]
    /\ script \in [Requests -> Paths \cup {None}]
    /\ ctx \in [Requests -> Contexts \cup {None}]
    /\ ran \in [Requests -> SUBSET Paths]

Pooled == {available[i] : i \in DOMAIN available}

(* NewV8Pool fills the channel; LoadScriptsWithConfig reads every script. *)
Init ==
    /\ disk = [p \in Paths |-> 1] /\ loaded = disk
    /\ compiled = [p \in Paths |-> {}]
    /\ available \in [1..Cardinality(Contexts) -> Contexts]
    /\ Contexts \subseteq Pooled
    /\ \A i, j \in DOMAIN available : available[i] = available[j] => i = j
    /\ global = [c \in Contexts |-> None]
    /\ lately = [c \in Contexts |-> {}]
    /\ execCount = [c \in Contexts |-> 0]
    /\ shut = FALSE /\ closing = FALSE /\ forced = FALSE /\ crashed = FALSE
    /\ pc = [q \in Requests |-> "idle"]
    /\ script = [q \in Requests |-> None]
    /\ ctx = [q \in Requests |-> None]
    /\ ran = [q \in Requests |-> {}]

Goto(q, label) == pc' = [pc EXCEPT ![q] = label]

(* The event is over; the handler goes on, or net/http has recovered the    *)
(* panic of its goroutine and dropped the connection.                       *)
Finish(q, label) ==
    /\ Goto(q, label)
    /\ script' = [script EXCEPT ![q] = None]
    /\ ctx' = [ctx EXCEPT ![q] = None]
    /\ ran' = [ran EXCEPT ![q] = {}]

(* A closed context or a disposed isolate is used: native code fails. *)
UseDisposed ==
    /\ shut /\ crashed' = TRUE
    /\ UNCHANGED <<fileVars, poolVars, shut, closing, forced, reqVars>>

---------------------------------------------------------------------------
(* A request and RunEvent *)

Arrive(q) ==
    /\ pc[q] = "idle" /\ ~closing
    /\ Goto(q, "handler")
    /\ UNCHANGED <<fileVars, poolVars, stopVars, script, ctx, ran>>

Respond(q) ==
    /\ pc[q] = "handler"
    /\ Goto(q, "idle")
    /\ UNCHANGED <<fileVars, poolVars, stopVars, script, ctx, ran>>

RunEvent(q, p) ==
    /\ pc[q] = "handler" /\ loaded[p] # 0
    /\ script' = [script EXCEPT ![q] = p]
    /\ Goto(q, "acquire")
    /\ UNCHANGED <<fileVars, poolVars, stopVars, ctx, ran>>

(* runTraditional: an isolate of its own, and the source of the Script *)
RunTraditional(q) ==
    /\ pc[q] = "own"
    /\ ran' = [ran EXCEPT ![q] = {script[q]}]
    /\ Goto(q, "release")
    /\ UNCHANGED <<fileVars, poolVars, stopVars, script, ctx>>

---------------------------------------------------------------------------
(* AcquireContext *)

Acquire(q) ==
    /\ pc[q] = "acquire"
    /\ Goto(q, IF shut THEN "own" ELSE "waiting")
    /\ UNCHANGED <<fileVars, poolVars, stopVars, script, ctx, ran>>

(* a closed channel still delivers what is in it *)
Receive(q) ==
    /\ pc[q] = "waiting" /\ available # <<>>
    /\ ctx' = [ctx EXCEPT ![q] = Head(available)]
    /\ available' = Tail(available)
    /\ Goto(q, "compile")
    /\ UNCHANGED <<fileVars, compiled, global, lately, execCount, stopVars,
                   script, ran>>

(* and then nil, of which AcquireContext sets a field *)
ReceiveNil(q) ==
    /\ pc[q] = "waiting" /\ available = <<>> /\ shut
    /\ Finish(q, "dropped")
    /\ UNCHANGED <<fileVars, poolVars, stopVars>>

Timeout_Never(q) == FALSE
Timeout(q) ==
    /\ pc[q] = "waiting"
    /\ Goto(q, "own")
    /\ UNCHANGED <<fileVars, poolVars, stopVars, script, ctx, ran>>

---------------------------------------------------------------------------
(* ExecuteScript *)

(* under pool.mu: the source is compiled once for each isolate *)
Compile(q) ==
    /\ pc[q] = "compile"
    /\ \/ /\ ctx[q] \in compiled[script[q]] \/ ~shut
          /\ compiled' = [compiled EXCEPT ![script[q]] = @ \cup {ctx[q]}]
          /\ Goto(q, "run")
          /\ UNCHANGED <<fileVars, available, global, lately, execCount,
                         stopVars, script, ctx, ran>>
       \/ ctx[q] \notin compiled[script[q]] /\ UseDisposed

(* a source that does not compile *)
CompileFails(q) ==
    /\ pc[q] = "compile" /\ ~shut /\ ctx[q] \notin compiled[script[q]]
    /\ Goto(q, "release")
    /\ UNCHANGED <<fileVars, poolVars, stopVars, script, ctx, ran>>

(* What the context may have as Run after the source of p.  The wrapper's   *)
(* last lines make the Run of p a global, unless p has none or returned     *)
(* before them, and clearV8Context has not deleted the one that was there.  *)
Globals(c, p) ==
    {r \in {p, global[c]} :
        IF r = p THEN p \notin Runless ELSE p \in Runless \cup Early}

(* then whatever Run the context has is called *)
RunScript(q) ==
    LET c == ctx[q]
    IN  /\ pc[q] = "run"
        /\ \/ /\ ~shut
              /\ \E r \in Globals(c, script[q]) :
                    /\ global' = [global EXCEPT ![c] = r]
                    /\ ran' = [ran EXCEPT ![q] = {script[q], r} \ {None}]
              /\ lately' = [lately EXCEPT ![c] = @ \cup {script[q]}]
              /\ Goto(q, "release")
              /\ UNCHANGED <<fileVars, compiled, available, execCount,
                             stopVars, script, ctx>>
           \/ UseDisposed

(* the source throws before it reaches its end: no Run is called *)
ScriptThrows(q) ==
    /\ pc[q] = "run" /\ ~shut
    /\ ran' = [ran EXCEPT ![q] = {script[q]}]
    /\ Goto(q, "release")
    /\ UNCHANGED <<fileVars, poolVars, stopVars, script, ctx>>

---------------------------------------------------------------------------
(* ReleaseContext, which reads isShutdown without the lock *)

Release_Forgotten(q) ==
    /\ pc[q] = "release"
    /\ IF ctx[q] = None \/ shut \/ ran[q] = {} THEN Finish(q, "handler")
       ELSE Goto(q, "reset") /\ UNCHANGED <<script, ctx, ran>>
    /\ UNCHANGED <<fileVars, poolVars, stopVars>>
Release(q) ==
    /\ pc[q] = "release"
    /\ IF ctx[q] = None \/ shut THEN Finish(q, "handler")
       ELSE Goto(q, "reset") /\ UNCHANGED <<script, ctx, ran>>
    /\ UNCHANGED <<fileVars, poolVars, stopVars>>

Reset_NeverRecreates(q) ==
    /\ pc[q] = "reset" /\ ~shut
    /\ execCount' = [execCount EXCEPT ![ctx[q]] = @ + 1]
    /\ Goto(q, "return")
    /\ UNCHANGED <<fileVars, compiled, available, global, lately, stopVars,
                   script, ctx, ran>>
Reset_KeepsGlobal(q) ==
    LET c == ctx[q]
        full == execCount[c] = MaxExec
    IN  /\ pc[q] = "reset"
        /\ \/ /\ ~shut
              /\ execCount' = [execCount EXCEPT ![c] = IF full THEN 0 ELSE @ + 1]
              /\ lately' = [lately EXCEPT ![c] = IF full THEN {} ELSE @]
              /\ Goto(q, "return")
              /\ UNCHANGED <<fileVars, compiled, available, global, stopVars,
                             script, ctx, ran>>
           \/ UseDisposed
(* resetContext keeps Run; recreateContext keeps the isolate *)
Reset(q) ==
    LET c == ctx[q]
    IN  /\ pc[q] = "reset"
        /\ \/ /\ ~shut
              /\ IF execCount[c] = MaxExec
                 THEN /\ execCount' = [execCount EXCEPT ![c] = 0]
                      /\ global' = [global EXCEPT ![c] = None]
                      /\ lately' = [lately EXCEPT ![c] = {}]
                 ELSE /\ execCount' = [execCount EXCEPT ![c] = @ + 1]
                      /\ UNCHANGED <<global, lately>>
              /\ Goto(q, "return")
              /\ UNCHANGED <<fileVars, compiled, available, stopVars, script,
                             ctx, ran>>
           \/ UseDisposed

(* a send on a closed channel panics *)
Return(q) ==
    /\ pc[q] = "return"
    /\ IF shut
       THEN Finish(q, "dropped") /\ UNCHANGED available
       ELSE /\ available' = IF Len(available) < Cardinality(Contexts)
                            THEN Append(available, ctx[q]) ELSE available
            /\ Finish(q, "handler")
    /\ UNCHANGED <<fileVars, compiled, global, lately, execCount, stopVars>>

---------------------------------------------------------------------------
(* The administrator, and the end of the server *)

(* updateEvent writes the file.  ReloadScripts loads with an empty event    *)
(* configuration, for which the runtime is Go: JavaScript stays as it was.  *)
SaveScript(p) ==
    /\ ~closing /\ disk[p] < MaxVersion
    /\ disk' = [disk EXCEPT ![p] = @ + 1]
    /\ UNCHANGED <<loaded, poolVars, stopVars, reqVars>>

(* updateCollection writes a configuration without the event configuration  *)
(* and loads a new Collection from it, which has no JavaScript.             *)
UpdateCollection(p) ==
    /\ ~closing
    /\ loaded' = [loaded EXCEPT ![p] = 0]
    /\ UNCHANGED <<disk, poolVars, stopVars, reqVars>>

StopAccepting ==
    /\ ~closing /\ closing' = TRUE
    /\ UNCHANGED <<fileVars, poolVars, shut, forced, crashed, reqVars>>

Close_First ==
    /\ ~shut /\ shut' = TRUE
    /\ UNCHANGED <<fileVars, poolVars, closing, forced, crashed, reqVars>>
(* Server.Close shuts the pool down when http.Server.Shutdown has returned: *)
(* no request is left, or 30 seconds are over.                              *)
Close ==
    /\ closing /\ ~shut /\ shut' = TRUE
    /\ forced' = (\E q \in Requests : pc[q] \notin {"idle", "dropped"})
    /\ UNCHANGED <<fileVars, poolVars, closing, crashed, reqVars>>

---------------------------------------------------------------------------

EventStep(q) ==
    \/ Arrive(q) \/ Respond(q) \/ \E p \in Paths : RunEvent(q, p)
    \/ RunTraditional(q)
    \/ Acquire(q) \/ Receive(q) \/ ReceiveNil(q) \/ Timeout(q)
    \/ Compile(q) \/ CompileFails(q) \/ RunScript(q) \/ ScriptThrows(q)
    \/ Release(q) \/ Reset(q) \/ Return(q)

ServerStep ==
    \/ \E p \in Paths : SaveScript(p) \/ UpdateCollection(p)
    \/ StopAccepting \/ Close

Next == ~crashed /\ (ServerStep \/ \E q \in Requests : EventStep(q))

Spec == Init /\ [][Next]_vars

(* A goroutine that can run does run, and a wait for a context ends, by the *)
(* timer if by nothing else; a handler need not start another event, and a  *)
(* client need not come back.                                               *)
Working(q) == pc[q] \notin {"idle", "handler"} /\ ~crashed
FairSpec == Spec /\ \A q \in Requests : WF_vars(Working(q) /\ EventStep(q))

---------------------------------------------------------------------------
(* Properties *)

(* A context is in the pool once or with one request, however events time   *)
(* out, fail, throw and recreate: none is shared and none is lost.          *)
ContextsConserved ==
    ~shut =>
        /\ \A i, j \in DOMAIN available : available[i] = available[j] => i = j
        /\ \A q, r \in Requests : ctx[q] = ctx[r] => q = r \/ ctx[q] = None
        /\ \A q \in Requests : ctx[q] \notin Pooled
        /\ \A c \in Contexts : c \in Pooled \/ \E q \in Requests : ctx[q] = c

(* The code of another script that an event may execute is the Run of a      *)
(* script that defines one and was executed in the same context since the    *)
(* context was last recreated: a recreation puts an end to every stale Run.  *)
ForeignRunIsRecent ==
    \A q \in Requests :
        pc[q] = "release" /\ ran[q] \ {script[q]} # {} =>
            /\ ctx[q] # None
            /\ ran[q] \ {script[q]} \subseteq lately[ctx[q]] \ Runless

(* Where http.Server.Shutdown has waited for every request, closing the     *)
(* pool drops none of them and uses nothing that is disposed.               *)
OrderlyClose ==
    shut /\ ~forced => ~crashed /\ \A q \in Requests : pc[q] = "idle"

(* An event that waits for a context comes to an end, even when the         *)
(* contexts are always taken by others.                                     *)
EventEnds ==
    \A q \in Requests :
        pc[q] = "waiting" ~> pc[q] \in {"handler", "dropped"} \/ crashed

---------------------------------------------------------------------------
(* What comments and documents say, and the code does not do *)

(* README.md:543 "Hot Reload - For both JavaScript AND Go events with       *)
(* instant updates": a collection runs the script that was saved last.      *)
SavedIsLoaded == loaded = disk

(* script.go:319 "clears the V8 global context to prevent data leakage      *)
(* between executions": no event executes the code of another script.       *)
ScriptsIsolated == \A q \in Requests : ran[q] \subseteq {script[q]}

=============================================================================
