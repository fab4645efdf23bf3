---------------------------- MODULE EventTester ----------------------------
(***************************************************************************)
(* The form that tries an event with mock data (dashboard components/       *)
(* EventTester.jsx).  Of a collection's property its type matters, and      *)
(* whether it is required; of a generated value, whether it fits its        *)
(* property.                                                                *)
(***************************************************************************)
EXTENDS Naturals, FiniteSets

CONSTANTS Event,       \* the event it is for
          Properties,  \* its collection's: name to type and whether required
          None, Slots

Typed == {"string", "number", "boolean", "date", "array", "object"}

\* Of the constants; Dashboard assumes it.
TesterAssumption ==
    \A n \in DOMAIN Properties :
      Properties[n] \in [type : Typed, required : BOOLEAN]

VARIABLES ui, tasks, server

vars == <<ui, tasks, server>>

T == INSTANCE Tasks

Presets == {"valid", "minimal", "complete", "invalid"}
               \cup (IF Event = "put" THEN {"update"} ELSE {})
Fits == {"right", "wrong", "blank"}
Empty == [n \in {} |-> None]

(* What the text field holds: nothing, text that is no JSON, or an object   *)
(* with some of the properties.                                             *)
IsData(d) == DOMAIN d \subseteq DOMAIN Properties /\ \A n \in DOMAIN d : d[n] \in Fits

TypeOK ==
    /\ ui.text \in {"blank", "broken", "object"} /\ IsData(ui.data)
    /\ ui.user \in {"authenticated", "admin", "anonymous"}
    /\ ui.result \in {None, "pass", "fail", "error"}
    /\ {ui.open, ui.testing} \subseteq BOOLEAN
    /\ \A s \in T!Running : /\ tasks[s].op = "test" /\ tasks[s].at = "request"
                            /\ IsData(tasks[s].mock)
                            /\ tasks[s].data \in {None, "pass", "fail"}

Task(mock) ==
    [op |-> "test", mock |-> mock, at |-> "request", status |-> "sent", data |-> None]

First ==
    [text |-> "blank", data |-> Empty, user |-> "authenticated", result |-> None,
     testing |-> FALSE, open |-> FALSE]
Starts == {<<First, T!AllIdle, None>>}
Init == \E st \in Starts : ui = st[1] /\ tasks = st[2] /\ server = st[3]

---------------------------------------------------------------------------

\* generateMockData: the sets of properties a preset may fill in.
Filled(preset) ==
    LET all == DOMAIN Properties
        required == {n \in all : Properties[n].required}
    IN  CASE preset \in {"valid", "complete"} -> {all}
          [] preset \in {"minimal", "invalid"} -> {required}
          [] preset = "update" -> SUBSET all  \* each with a chance of one half

\* generateValidValue, generateInvalidValue: an invalid string is a blank one.
Fit(preset, n) ==
    IF preset # "invalid" THEN "right"
    ELSE IF Properties[n].type = "string" THEN "blank" ELSE "wrong"

\* Data of get, put and delete has an id and so is never empty.
LoadPreset(preset) ==
    /\ ui.open
    /\ \E names \in Filled(preset) :
         /\ names # {} \/ Event \in {"get", "put", "delete"}
         /\ ui' = [ui EXCEPT !.text = "object",
                             !.data = [n \in names |-> Fit(preset, n)]]
    /\ UNCHANGED <<tasks, server>>

TypeText(text) ==
    /\ ui.open /\ text \in {"blank", "broken"} /\ text # ui.text
    /\ ui' = [ui EXCEPT !.text = text, !.data = Empty]
    /\ UNCHANGED <<tasks, server>>

ChooseUser(user) ==
    /\ ui.open /\ user # ui.user
    /\ ui' = [ui EXCEPT !.user = user]
    /\ UNCHANGED <<tasks, server>>

Toggle ==
    /\ ui' = [ui EXCEPT !.open = ~@]
    /\ UNCHANGED <<tasks, server>>

(* runTest: blank text gives a toast, text that is no JSON an error; both   *)
(* ask nothing of the server.                                               *)
RunBroken ==
    /\ ui.open /\ ~ui.testing /\ ui.text = "broken"
    /\ ui' = [ui EXCEPT !.result = "error"]
    /\ UNCHANGED <<tasks, server>>

RunTest ==
    /\ ui.open /\ ~ui.testing /\ ui.text = "object"
    /\ T!CanRun /\ T!Run(Task(ui.data))
    /\ ui' = [ui EXCEPT !.testing = TRUE]
    /\ UNCHANGED server

(* The server (admin.go) runs no script: it answers a success, and of       *)
(* validate a failure unless there is a title.                              *)
Verdict(mock) ==
    IF Event = "validate" /\ ~("title" \in DOMAIN mock /\ mock["title"] # "blank")
      THEN "fail" ELSE "pass"

Serve(s) ==
    /\ T!Waits(s, "request")
    /\ T!Reply(s, Verdict(tasks[s].mock)) \/ T!Fail(s)
    /\ UNCHANGED <<ui, server>>

AfterTest(s) ==
    /\ T!Back(s, "request")
    /\ ui' = [ui EXCEPT !.testing = FALSE,
                        !.result = IF T!Ok(s) THEN tasks[s].data ELSE "error"]
    /\ T!End(s)
    /\ UNCHANGED server

User ==
    \/ Toggle \/ RunBroken \/ RunTest
    \/ \E p \in Presets : LoadPreset(p)
    \/ \E t \in {"blank", "broken"} : TypeText(t)
    \/ \E u \in {"authenticated", "admin", "anonymous"} : ChooseUser(u)

Runs(s) == Serve(s) \/ AfterTest(s)

Next == User \/ \E s \in Slots : Runs(s)

Spec == Init /\ [][Next]_vars
---------------------------------------------------------------------------
(* The Run Test button comes back: it says that a test runs just while one  *)
(* is under way, so tests run one at a time (EventTester.jsx:246, 302).     *)
SpinnerEnds == Cardinality(T!Running) = IF ui.testing THEN 1 ELSE 0
=============================================================================
