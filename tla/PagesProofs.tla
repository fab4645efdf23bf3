---------------------------- MODULE PagesProofs ----------------------------
(***************************************************************************)
(* What the pages of the dashboard keep true of their state and of the      *)
(* handlers under way, for any number of handlers.                          *)
(***************************************************************************)
EXTENDS Dashboard, SequenceFacts, FiniteSetTheorems

---------------------------------------------------------------------------
(* The table of the handlers under way *)

Idle == [op |-> "none"]
Table(S) == tasks = [s \in S |-> tasks[s]]

\* A step that changes handler n, and no other.
Puts(S, n, t) ==
    Table(S)' /\ tasks'[n] = t /\ \A s \in S \ {n} : tasks'[s] = tasks[s]

Busy(S) == {s \in S : tasks[s] # Idle}

LEMMA SetPuts ==
    ASSUME NEW S, Table(S), NEW n \in S, NEW t, tasks' = [tasks EXCEPT ![n] = t]
    PROVE  Puts(S, n, t)
  <1>1. tasks' = [s \in S |-> IF s = n THEN t ELSE tasks[s]]
    BY DEF Table
  <1>2. QED
    BY <1>1 DEF Puts, Table

(* A handler that starts takes a free slot, which is the least one. *)
Least(N) == CHOOSE s \in N : \A r \in N : s <= r

LEMMA LeastIn == ASSUME NEW N \in SUBSET Nat, N # {} PROVE Least(N) \in N
  <1>1. \E s \in N : \A r \in N : s <= r
    BY LeastNumber
  <1>2. QED
    BY <1>1 DEF Least

LEMMA RunPuts ==
    ASSUME NEW S \in SUBSET Nat, Table(S), Busy(S) # S, NEW t,
           tasks' = [tasks EXCEPT ![Least(S \ Busy(S))] = t]
    PROVE  \E n \in S \ Busy(S) : Puts(S, n, t)
  <1>1. S \ Busy(S) \in SUBSET Nat /\ S \ Busy(S) # {}
    BY DEF Busy
  <1>2. Least(S \ Busy(S)) \in S \ Busy(S)
    BY <1>1, LeastIn
  <1>3. QED
    BY <1>2, SetPuts

\* Every handler is idle or of its type.
Handles(S, T) == Table(S) /\ \A s \in S : tasks[s] = Idle \/ tasks[s] \in T

LEMMA PutsHandles ==
    ASSUME NEW S, NEW T, Handles(S, T), NEW n \in S, NEW t, t = Idle \/ t \in T,
           Puts(S, n, t)
    PROVE  Handles(S, T)'
  BY DEF Handles, Puts

LEMMA SetHandles ==
    ASSUME NEW S, NEW T, Handles(S, T), NEW n \in S, NEW t, t = Idle \/ t \in T,
           tasks' = [tasks EXCEPT ![n] = t]
    PROVE  Puts(S, n, t) /\ Handles(S, T)'
  <1>1. Puts(S, n, t)
    BY SetPuts DEF Handles
  <1>2. QED
    BY <1>1, PutsHandles

LEMMA RunHandles ==
    ASSUME NEW S \in SUBSET Nat, NEW T, Handles(S, T), Busy(S) # S, NEW t \in T,
           tasks' = [tasks EXCEPT ![Least(S \ Busy(S))] = t]
    PROVE  Handles(S, T)' /\ \E n \in S \ Busy(S) : Puts(S, n, t)
  <1>1. PICK n \in S \ Busy(S) : Puts(S, n, t)
    BY RunPuts DEF Handles
  <1>2. n \in S
    BY DEF Busy
  <1>3. QED
    BY <1>1, <1>2, PutsHandles

\* The handlers under way that are of one of the kinds O.
Doing(S, O) == {s \in S : tasks[s] # Idle /\ tasks[s].op \in O}

LEMMA BusyPuts ==
    ASSUME NEW S, NEW n \in S, NEW t, Puts(S, n, t)
    PROVE  /\ t # Idle => Busy(S)' = Busy(S) \cup {n}
           /\ t = Idle => Busy(S)' = Busy(S) \ {n}
  BY DEF Puts, Busy

LEMMA DoingPuts ==
    ASSUME NEW S, NEW n \in S, NEW t, NEW O, Puts(S, n, t)
    PROVE  /\ t # Idle /\ t.op \in O => Doing(S, O)' = Doing(S, O) \cup {n}
           /\ ~(t # Idle /\ t.op \in O) => Doing(S, O)' = Doing(S, O) \ {n}
  BY DEF Puts, Doing

LEMMA EndDoing ==
    ASSUME NEW S, NEW n \in S, NEW O, Puts(S, n, Idle)
    PROVE  Doing(S, O)' = Doing(S, O) \ {n}
  BY DEF Puts, Doing

\* The handlers under way that are at the same point.
At(S, w) == {s \in S : tasks[s] # Idle /\ tasks[s].at = w}

LEMMA AtPuts ==
    ASSUME NEW S, NEW n \in S, NEW t, NEW w, Puts(S, n, t)
    PROVE  /\ t # Idle /\ t.at = w => At(S, w)' = At(S, w) \cup {n}
           /\ ~(t # Idle /\ t.at = w) => At(S, w)' = At(S, w) \ {n}
  BY DEF Puts, At

LEMMA EndAt ==
    ASSUME NEW S, NEW n \in S, NEW w, Puts(S, n, Idle)
    PROVE  At(S, w)' = At(S, w) \ {n}
  BY DEF Puts, At

\* A flag that is set while just one is under way.
OneIff(N, flag) == IF flag THEN \E n : N = {n} ELSE N = {}

LEMMA OneCounted ==
    ASSUME NEW N, NEW flag, OneIff(N, flag) PROVE Cardinality(N) = IF flag THEN 1 ELSE 0
  BY FS_EmptySet, FS_Singleton DEF OneIff

---------------------------------------------------------------------------
(* The pages take turns *)

\* The page p is opened.
Mounts(p) == \E st \in Starts(p) : ui' = st[1] /\ tasks' = st[2] /\ server' = st[3]

\* The page p, which is shown, takes a step.
Acts(p) ==
    /\ shown = p /\ shown' = p
    /\ User \/ Others \/ \E s \in Slots \cup LoadSlots : Runs(s)

LEMMA PageSteps ==
    ASSUME [Next]_vars, shown' # "none"
    PROVE  UNCHANGED vars \/ Mounts(shown') \/ Acts(shown')
  <1>1. CASE Leave
    BY <1>1 DEF Leave
  <1>2. ASSUME NEW p \in Offered, Open(p) PROVE Mounts(shown')
    BY <1>2 DEF Open, Mounts
  <1>3. CASE (User \/ Others) /\ UNCHANGED shown
    BY <1>3 DEF Acts
  <1>4. ASSUME NEW s \in Slots \cup LoadSlots, Runs(s) PROVE Acts(shown')
    BY <1>4 DEF Acts, Runs
  <1>5. QED
    BY <1>1, <1>2, <1>3, <1>4 DEF Next

---------------------------------------------------------------------------
(* The start page *)

HomeState == [loading : BOOLEAN, stats : Home!Stats, info : {None, "server", "mock"},
              metrics : BOOLEAN]
HomeTask == [op : {"load"}, at : {"lists", "counts"}, status : {"sent"},
             pending : SUBSET Names, data : Home!Stats, info : {None, "server", "mock"},
             metrics : BOOLEAN]
HomeServer == [documents : [Names -> Home!Counts \cup {None}]]

HomeInv ==
    /\ ui \in HomeState /\ Handles(Slots, HomeTask) /\ server \in HomeServer
    /\ ui.loading => Busy(Slots) # {}

OnHome == shown = "home" => HomeInv

USE DEF Home!T!Idle, Home!T!Running, Home!T!CanRun, Home!T!Run, Home!T!Set, Home!T!End,
        Home!T!Quiet, Home!T!Waits

LEMMA NoStats == << >> \in Home!Stats
  <1>1. << >> \in [{} -> Home!Counts] /\ {} \in SUBSET Names
    OBVIOUS
  <1>2. QED
    BY <1>1 DEF Home!Stats

LEMMA HomeMounts == Mounts("home") => HomeInv'
  <1> SUFFICES ASSUME Mounts("home") PROVE HomeInv'
    OBVIOUS
  <1>1. PICK sv \in HomeServer :
           /\ ui' = Home!First /\ server' = sv
           /\ tasks' = [Home!T!AllIdle EXCEPT ![1] = Home!Load]
    BY DEF Mounts, Starts, Home!Starts, Home!Mount, HomeServer
  <1>2. 1 \in Slots
    BY DashboardAssumption
  <1>3. Home!Load \in HomeTask /\ ui' \in HomeState
    BY <1>1, NoStats DEF Home!Load, HomeTask, Home!First, HomeState
  <1>4. tasks' = [s \in Slots |-> IF s = 1 THEN Home!Load ELSE Idle]
    BY <1>1 DEF Home!T!AllIdle, Idle
  <1>5. Handles(Slots, HomeTask)'
    BY <1>3, <1>4 DEF Handles, Table
  <1>6. Busy(Slots)' # {}
    <2>1. Home!Load # Idle
      BY DEF Home!Load, Idle
    <2>2. QED
      BY <1>2, <1>4, <2>1 DEF Busy
  <1>7. QED
    BY <1>1, <1>3, <1>5, <1>6 DEF HomeInv

LEMMA HomeSteps == HomeInv /\ Acts("home") => HomeInv'
  <1> SUFFICES ASSUME HomeInv, Acts("home") PROVE HomeInv'
    OBVIOUS
  <1>1. ASSUME UNCHANGED <<ui, server>>, NEW s \in Slots, NEW t \in HomeTask,
               tasks' = [tasks EXCEPT ![s] = t]
        PROVE  HomeInv'
    <2>1. Puts(Slots, s, t) /\ Handles(Slots, HomeTask)'
      BY <1>1, SetHandles DEF HomeInv
    <2>2. t # Idle
      BY DEF HomeTask, Idle
    <2>3. QED
      BY <1>1, <2>1, <2>2 DEF HomeInv, Puts, Busy
  <1>2. CASE Home!Refresh
    <2>1. Home!Load \in HomeTask /\ Home!Load # Idle
      BY NoStats DEF Home!Load, HomeTask, Idle
    <2>2. /\ Busy(Slots) # Slots
          /\ tasks' = [tasks EXCEPT ![Least(Slots \ Busy(Slots))] = Home!Load]
      BY <1>2 DEF Home!Refresh, Least, Busy, Idle
    <2>3. Handles(Slots, HomeTask)' /\ \E n \in Slots \ Busy(Slots) : Puts(Slots, n, Home!Load)
      BY <2>1, <2>2, RunHandles, DashboardAssumption DEF HomeInv
    <2>4. Busy(Slots)' # {}
      BY <2>1, <2>3 DEF Busy, Puts
    <2>5. QED
      BY <1>2, <2>3, <2>4 DEF Home!Refresh, HomeInv, HomeState
  <1>3. ASSUME NEW s \in Slots, Home!Lists(s) PROVE HomeInv'
    <2>1. tasks[s] \in HomeTask
      BY <1>3 DEF Home!Lists, HomeInv, Handles, Idle
    <2>2. PICK got \in SUBSET Names, info \in {"server", "mock"}, m \in BOOLEAN :
             tasks' = [tasks EXCEPT ![s] =
                         [tasks[s] EXCEPT !.at = "counts", !.info = info, !.metrics = m,
                                          !.pending = got]]
      <3>1. Home!Exist \in SUBSET Names /\ Todos \in Names
        BY DashboardAssumption DEF Home!Exist, Home!HomeAssumption
      <3>2. QED
        BY <1>3, <3>1 DEF Home!Lists
    <2>3. [tasks[s] EXCEPT !.at = "counts", !.info = info, !.metrics = m,
                           !.pending = got] \in HomeTask
      BY <2>1 DEF HomeTask
    <2>4. QED
      BY <1>1, <1>3, <2>2, <2>3 DEF Home!Lists
  <1>4. ASSUME NEW s \in Slots, NEW n \in Names, Home!Count(s, n) PROVE HomeInv'
    <2> DEFINE counted(c) == [m \in DOMAIN tasks[s].data \cup {n} |->
                                IF m = n THEN c ELSE tasks[s].data[m]]
    <2>1. tasks[s] \in HomeTask
      BY <1>4 DEF Home!Count, HomeInv, Handles, Idle
    <2>2. PICK c \in Home!Counts :
             tasks' = [tasks EXCEPT ![s] =
                         [tasks[s] EXCEPT !.pending = @ \ {n}, !.data = counted(c)]]
      <3>1. 0 \in Home!Counts /\ (n \in Home!Exist => server.documents[n] \in Home!Counts)
        BY DashboardAssumption DEF HomeInv, HomeServer, Home!Exist, Home!Counts,
           Home!HomeAssumption
      <3>2. QED
        BY <1>4, <3>1 DEF Home!Count
    <2>3. counted(c) \in Home!Stats
      <3>1. PICK S \in SUBSET Names : tasks[s].data \in [S -> Home!Counts]
        BY <2>1 DEF HomeTask, Home!Stats
      <3>2. counted(c) \in [S \cup {n} -> Home!Counts] /\ S \cup {n} \in SUBSET Names
        BY <3>1
      <3>3. QED
        BY <3>2 DEF Home!Stats
    <2> HIDE DEF counted
    <2>4. [tasks[s] EXCEPT !.pending = @ \ {n}, !.data = counted(c)] \in HomeTask
      BY <2>1, <2>3 DEF HomeTask
    <2>5. QED
      BY <1>1, <1>4, <2>2, <2>4 DEF Home!Count
  <1>5. ASSUME NEW s \in Slots, Home!AfterLoad(s) PROVE HomeInv'
    <2>1. tasks[s] \in HomeTask
      BY <1>5 DEF Home!AfterLoad, HomeInv, Handles, Idle
    <2>2. Handles(Slots, HomeTask)'
      BY <1>5, SetHandles DEF Home!AfterLoad, HomeInv, Idle
    <2>3. ui' \in HomeState /\ ~ui'.loading
      BY <1>5, <2>1 DEF Home!AfterLoad, HomeTask, HomeState
    <2>4. QED
      BY <1>5, <2>2, <2>3 DEF Home!AfterLoad, HomeInv
  <1>6. ASSUME NEW n \in Names, Home!Others(n) PROVE HomeInv'
    BY <1>6 DEF Home!Others, HomeInv, HomeServer, Handles, Table, Busy
  <1>7. QED
    BY <1>2, <1>3, <1>4, <1>5, <1>6 DEF Acts, User, Others, Runs, Home!User, Home!Runs

LEMMA HomeStutters == HomeInv /\ UNCHANGED vars => HomeInv'
  BY DEF vars, HomeInv, Handles, Table, Busy

LEMMA HomeHolds == Spec => []OnHome
  <1>1. Init => OnHome
    BY DEF Init, OnHome
  <1>2. OnHome /\ [Next]_vars => OnHome'
    BY PageSteps, HomeMounts, HomeSteps, HomeStutters DEF OnHome, Acts, vars
  <1>3. QED
    BY <1>1, <1>2, PTL DEF Spec

---------------------------------------------------------------------------
(* The tester of an event *)

Mocks == UNION {[S -> Tester!Fits] : S \in SUBSET DOMAIN Mocked}

TesterState == [text : {"blank", "broken", "object"}, data : Mocks,
                user : {"authenticated", "admin", "anonymous"},
                result : {None, "pass", "fail", "error"}, testing : BOOLEAN, open : BOOLEAN]
TesterTask == [op : {"test"}, mock : Mocks, at : {"request"},
               status : {"sent", "ok", "failed"}, data : {None, "pass", "fail"}]

TesterInv ==
    /\ ui \in TesterState /\ Handles(Slots, TesterTask)
    /\ OneIff(Busy(Slots), ui.testing)

OnTester == shown = "tester" => TesterInv

USE DEF Tester!T!Idle, Tester!T!Running, Tester!T!CanRun, Tester!T!Run, Tester!T!Set,
        Tester!T!End, Tester!T!Reply, Tester!T!Fail, Tester!T!Ok, Tester!T!Waits,
        Tester!T!Back

LEMMA MockTypes ==
    /\ Tester!Empty \in Mocks
    /\ \A names \in SUBSET DOMAIN Mocked, preset \in Tester!Presets :
          [n \in names |-> Tester!Fit(preset, n)] \in Mocks
  <1>1. Tester!Empty \in [{} -> Tester!Fits]
    BY DEF Tester!Empty
  <1>2. ASSUME NEW names \in SUBSET DOMAIN Mocked, NEW preset \in Tester!Presets
        PROVE  [n \in names |-> Tester!Fit(preset, n)] \in [names -> Tester!Fits]
    BY DEF Tester!Fit, Tester!Fits
  <1>3. {} \in SUBSET DOMAIN Mocked
    OBVIOUS
  <1>4. QED
    BY <1>1, <1>2, <1>3 DEF Mocks

LEMMA TesterMounts == Mounts("tester") => TesterInv'
  <1> SUFFICES ASSUME Mounts("tester") PROVE TesterInv'
    OBVIOUS
  <1>1. ui' = Tester!First /\ tasks' = [s \in Slots |-> Idle]
    BY DEF Mounts, Starts, Tester!Starts, Tester!T!AllIdle, Idle
  <1>2. ui' \in TesterState
    BY <1>1, MockTypes DEF Tester!First, TesterState
  <1>3. Handles(Slots, TesterTask)' /\ Busy(Slots)' = {}
    BY <1>1 DEF Handles, Table, Busy
  <1>4. QED
    BY <1>1, <1>2, <1>3 DEF TesterInv, OneIff, Tester!First

LEMMA TesterSteps == TesterInv /\ Acts("tester") => TesterInv'
  <1> SUFFICES ASSUME TesterInv, Acts("tester") PROVE TesterInv'
    OBVIOUS
  <1>1. ASSUME UNCHANGED tasks, ui' \in TesterState, ui'.testing = ui.testing
        PROVE  TesterInv'
    BY <1>1 DEF TesterInv, Handles, Table, Busy, OneIff
  <1>2. ASSUME NEW preset \in Tester!Presets, Tester!LoadPreset(preset) PROVE TesterInv'
    <2>1. PICK names \in SUBSET DOMAIN Mocked :
             ui' = [ui EXCEPT !.text = "object",
                              !.data = [n \in names |-> Tester!Fit(preset, n)]]
      <3>1. Tester!Filled(preset) \subseteq SUBSET DOMAIN Mocked
        BY DEF Tester!Filled, Tester!Presets
      <3>2. QED
        BY <1>2, <3>1 DEF Tester!LoadPreset
    <2>2. [n \in names |-> Tester!Fit(preset, n)] \in Mocks
      BY MockTypes
    <2>3. ui' \in TesterState /\ ui'.testing = ui.testing
      BY <2>1, <2>2 DEF TesterInv, TesterState
    <2>4. QED
      BY <1>1, <1>2, <2>3 DEF Tester!LoadPreset
  <1>3. ASSUME NEW text \in {"blank", "broken"}, Tester!TypeText(text) PROVE TesterInv'
    BY <1>1, <1>3, MockTypes DEF Tester!TypeText, TesterInv, TesterState
  <1>4. ASSUME NEW u \in {"authenticated", "admin", "anonymous"}, Tester!ChooseUser(u)
        PROVE  TesterInv'
    BY <1>1, <1>4 DEF Tester!ChooseUser, TesterInv, TesterState
  <1>5. CASE Tester!Toggle \/ Tester!RunBroken
    BY <1>1, <1>5 DEF Tester!Toggle, Tester!RunBroken, TesterInv, TesterState
  <1>6. CASE Tester!RunTest
    <2> DEFINE t == Tester!Task(ui.data)
    <2>1. t \in TesterTask /\ t # Idle
      BY DEF Tester!Task, TesterTask, TesterInv, TesterState, Idle
    <2>2. Busy(Slots) # Slots /\ tasks' = [tasks EXCEPT ![Least(Slots \ Busy(Slots))] = t]
      BY <1>6 DEF Tester!RunTest, Least, Busy, Idle
    <2> HIDE DEF t
    <2>3. PICK n \in Slots \ Busy(Slots) : Puts(Slots, n, t) /\ Handles(Slots, TesterTask)'
      BY <2>1, <2>2, RunHandles, DashboardAssumption DEF TesterInv
    <2>4. Busy(Slots)' = Busy(Slots) \cup {n} /\ Busy(Slots) = {}
      BY <1>6, <2>1, <2>3, BusyPuts DEF Tester!RunTest, TesterInv, OneIff, Busy
    <2>5. ui' \in TesterState /\ ui'.testing
      BY <1>6 DEF Tester!RunTest, TesterInv, TesterState
    <2>6. QED
      BY <2>3, <2>4, <2>5 DEF TesterInv, OneIff
  <1>7. ASSUME NEW s \in Slots, Tester!Serve(s) PROVE TesterInv'
    <2>1. tasks[s] \in TesterTask /\ tasks[s] # Idle
      BY <1>7 DEF Tester!Serve, TesterInv, Handles, Idle
    <2>2. PICK t : t \in TesterTask /\ tasks' = [tasks EXCEPT ![s] = t]
      BY <1>7, <2>1 DEF Tester!Serve, Tester!Verdict, TesterTask
    <2>3. Puts(Slots, s, t) /\ Handles(Slots, TesterTask)'
      BY <2>2, SetHandles DEF TesterInv
    <2>4. Busy(Slots)' = Busy(Slots)
      <3>1. t # Idle /\ s \in Busy(Slots)
        BY <2>1, <2>2 DEF TesterTask, Idle, Busy
      <3>2. QED
        BY <2>3, <3>1, BusyPuts
    <2>5. QED
      BY <1>7, <2>3, <2>4 DEF Tester!Serve, TesterInv, OneIff
  <1>8. ASSUME NEW s \in Slots, Tester!AfterTest(s) PROVE TesterInv'
    <2>1. tasks[s] \in TesterTask /\ s \in Busy(Slots)
      BY <1>8 DEF Tester!AfterTest, TesterInv, Handles, Idle, Busy
    <2>2. Puts(Slots, s, Idle) /\ Handles(Slots, TesterTask)'
      BY <1>8, SetHandles DEF Tester!AfterTest, TesterInv, Idle
    <2>3. Busy(Slots)' = {}
      BY <2>1, <2>2, BusyPuts DEF TesterInv, OneIff
    <2>4. ui' \in TesterState /\ ~ui'.testing
      BY <1>8, <2>1 DEF Tester!AfterTest, TesterInv, TesterState, TesterTask
    <2>5. QED
      BY <2>2, <2>3, <2>4 DEF TesterInv, OneIff
  <1>9. QED
    BY <1>2, <1>3, <1>4, <1>5, <1>6, <1>7, <1>8
       DEF Acts, User, Others, Runs, Tester!User, Tester!Runs

LEMMA TesterHolds == Spec => []OnTester
  <1>1. Init => OnTester
    BY DEF Init, OnTester
  <1>2. TesterInv /\ UNCHANGED vars => TesterInv'
    BY DEF vars, TesterInv, Handles, Table, Busy, OneIff
  <1>3. OnTester /\ [Next]_vars => OnTester'
    BY <1>2, PageSteps, TesterMounts, TesterSteps DEF OnTester, Acts, vars
  <1>4. QED
    BY <1>1, <1>3, PTL DEF Spec

---------------------------------------------------------------------------
(* The logs *)

LogsState == [loading : BOOLEAN, logs : Logs!LogFilters \cup {None},
              level : Logs!LevelChoices, file : Logs!FileChoices, files : SUBSET Files,
              asked : BOOLEAN]
LogsTask == [op : {"load", "download"}, at : {"request"}, status : {"sent"},
             filters : Logs!LogFilters]
LogsServer == [files : SUBSET Files]

LogsInv ==
    /\ ui \in LogsState /\ Handles(Slots, LogsTask) /\ server \in LogsServer
    /\ ui.loading => Doing(Slots, {"load"}) # {}

OnLogs == shown = "logs" => LogsInv

USE DEF Logs!T!Idle, Logs!T!Running, Logs!T!CanRun, Logs!T!Run, Logs!T!Set, Logs!T!End,
        Logs!T!Doing

LEMMA LogsTaskType ==
    ASSUME NEW op \in {"load", "download"}, NEW filters \in Logs!LogFilters
    PROVE  /\ Logs!Task(op, filters) \in LogsTask
           /\ Logs!Task(op, filters).op = op /\ Logs!Task(op, filters) # Idle
  BY DEF Logs!Task, LogsTask, Idle

LEMMA LogsMounts == Mounts("logs") => LogsInv'
  <1> SUFFICES ASSUME Mounts("logs") PROVE LogsInv'
    OBVIOUS
  <1> DEFINE t == Logs!Task("load", <<"all", "current">>)
  <1>1. /\ ui' = Logs!First /\ server' \in LogsServer
        /\ tasks' = [s \in Slots |-> IF s = 1 THEN t ELSE Idle]
    BY DEF Mounts, Starts, Logs!Starts, Logs!Mount, LogsServer, Logs!T!AllIdle, Idle
  <1>2. t \in LogsTask /\ t.op = "load" /\ t # Idle
    BY LogsTaskType DEF Logs!LogFilters, Logs!LevelChoices, Logs!FileChoices
  <1>3. ui' \in LogsState
    BY <1>1 DEF Logs!First, LogsState, Logs!LevelChoices, Logs!FileChoices
  <1> HIDE DEF t
  <1>4. Handles(Slots, LogsTask)' /\ 1 \in Doing(Slots, {"load"})'
    BY <1>1, <1>2, DashboardAssumption DEF Handles, Table, Doing
  <1>5. QED
    BY <1>1, <1>3, <1>4 DEF LogsInv

LEMMA LogsSteps == LogsInv /\ Acts("logs") => LogsInv'
  <1> SUFFICES ASSUME LogsInv, Acts("logs") PROVE LogsInv'
    OBVIOUS
  <1>1. <<ui.level, ui.file>> \in Logs!LogFilters
    BY DEF LogsInv, LogsState, Logs!LogFilters
  <1>2. ASSUME NEW op \in {"load", "download"}, NEW filters \in Logs!LogFilters,
               Logs!T!CanRun, Logs!T!Run(Logs!Task(op, filters)), ui' \in LogsState,
               ui'.loading => op = "load" \/ ui.loading, UNCHANGED server
        PROVE  LogsInv'
    <2> DEFINE t == Logs!Task(op, filters)
    <2>1. t \in LogsTask /\ t.op = op /\ t # Idle
      BY LogsTaskType
    <2>2. Busy(Slots) # Slots /\ tasks' = [tasks EXCEPT ![Least(Slots \ Busy(Slots))] = t]
      BY <1>2 DEF Least, Busy, Idle
    <2> HIDE DEF t
    <2>3. PICK n \in Slots \ Busy(Slots) : Puts(Slots, n, t) /\ Handles(Slots, LogsTask)'
      BY <2>1, <2>2, RunHandles, DashboardAssumption DEF LogsInv
    <2>4. /\ op = "load" => Doing(Slots, {"load"})' = Doing(Slots, {"load"}) \cup {n}
          /\ op # "load" => Doing(Slots, {"load"})' = Doing(Slots, {"load"}) \ {n}
      BY <2>1, <2>3, DoingPuts DEF Busy
    <2>5. n \notin Doing(Slots, {"load"})
      BY DEF Busy, Doing
    <2>6. QED
      BY <1>2, <2>3, <2>4, <2>5 DEF LogsInv
  <1>3. ASSUME NEW l \in Logs!LevelChoices, NEW f \in Logs!FileChoices, Logs!Choose(l, f)
        PROVE  LogsInv'
    <2>1. <<l, f>> \in Logs!LogFilters
      BY DEF Logs!LogFilters
    <2>2. ui' \in LogsState
      BY <1>3 DEF Logs!Choose, LogsInv, LogsState
    <2>3. QED
      BY <1>2, <1>3, <2>1, <2>2 DEF Logs!Choose
  <1>4. CASE Logs!Refresh \/ Logs!Download
    <2>1. ui' \in LogsState
      BY <1>4 DEF Logs!Refresh, Logs!Download, LogsInv, LogsState
    <2>2. QED
      BY <1>1, <1>2, <1>4, <2>1 DEF Logs!Refresh, Logs!Download
  <1>5. CASE Logs!AfterFiles
    <2>1. ui' \in LogsState /\ ui'.loading = ui.loading
      BY <1>5 DEF Logs!AfterFiles, LogsInv, LogsState, LogsServer
    <2>2. QED
      BY <1>5, <2>1 DEF Logs!AfterFiles, LogsInv, Handles, Table, Doing
  <1>6. ASSUME NEW s \in Slots, Logs!AfterLoad(s) PROVE LogsInv'
    <2>1. tasks[s] \in LogsTask
      BY <1>6 DEF Logs!AfterLoad, LogsInv, Handles, Idle
    <2>2. Handles(Slots, LogsTask)'
      BY <1>6, SetHandles DEF Logs!AfterLoad, LogsInv, Idle
    <2>3. ui' \in LogsState /\ ~ui'.loading
      BY <1>6, <2>1 DEF Logs!AfterLoad, LogsInv, LogsState, LogsTask
    <2>4. QED
      BY <1>6, <2>2, <2>3 DEF Logs!AfterLoad, LogsInv
  <1>7. ASSUME NEW s \in Slots, Logs!AfterDownload(s) PROVE LogsInv'
    <2>1. Puts(Slots, s, Idle) /\ Handles(Slots, LogsTask)'
      BY <1>7, SetHandles DEF Logs!AfterDownload, LogsInv, Idle
    <2>2. Doing(Slots, {"load"})' = Doing(Slots, {"load"})
      <3>1. s \notin Doing(Slots, {"load"})
        BY <1>7 DEF Logs!AfterDownload, Doing
      <3>2. QED
        BY <2>1, <3>1, EndDoing
    <2>3. QED
      BY <1>7, <2>1, <2>2 DEF Logs!AfterDownload, LogsInv
  <1>8. QED
    BY <1>3, <1>4, <1>5, <1>6, <1>7 DEF Acts, User, Others, Runs, Logs!User, Logs!Runs

LEMMA LogsHolds == Spec => []OnLogs
  <1>1. Init => OnLogs
    BY DEF Init, OnLogs
  <1>2. LogsInv /\ UNCHANGED vars => LogsInv'
    BY DEF vars, LogsInv, Handles, Table, Doing
  <1>3. OnLogs /\ [Next]_vars => OnLogs'
    BY <1>2, PageSteps, LogsMounts, LogsSteps DEF OnLogs, Acts, vars
  <1>4. QED
    BY <1>1, <1>3, PTL DEF Spec

---------------------------------------------------------------------------
(* The metrics *)

MetricsState == [loading : BOOLEAN, error : BOOLEAN, asked : BOOLEAN, system : BOOLEAN,
                 collections : SUBSET Metrics!Selections,
                 selected : Metrics!Selections, range : Ranges,
                 detailed : Metrics!Selections \cup {None},
                 aggregated : Metrics!Queries \cup {None},
                 events : Metrics!Selections \cup {None}]
MetricsTask == [op : {"load"}, at : Metrics!Stages, status : {"sent"},
                selected : Metrics!Selections, range : Ranges]
MetricsServer == [measured : SUBSET Measured]

MetricsInv ==
    /\ ui \in MetricsState /\ Handles(Slots, MetricsTask) /\ server \in MetricsServer
    /\ ui.loading => Busy(Slots) # {}

OnMetrics == shown = "metrics" => MetricsInv

USE DEF Metrics!T!Idle, Metrics!T!Running, Metrics!T!CanRun, Metrics!T!Run,
        Metrics!T!Set, Metrics!T!End

LEMMA FetchType ==
    ASSUME NEW selected \in Metrics!Selections, NEW range \in Ranges
    PROVE  Metrics!Fetch(selected, range) \in MetricsTask
  BY DEF Metrics!Fetch, MetricsTask, Metrics!Stages

LEMMA FetchNotIdle == \A t \in MetricsTask : t # Idle
  BY DEF MetricsTask, Idle

LEMMA MetricsMounts == Mounts("metrics") => MetricsInv'
  <1> SUFFICES ASSUME Mounts("metrics") PROVE MetricsInv'
    OBVIOUS
  <1> DEFINE t == Metrics!Fetch("overall", "24h")
  <1>1. /\ ui' = Metrics!First /\ server' \in MetricsServer
        /\ tasks' = [s \in Slots |-> IF s = 1 THEN t ELSE Idle]
    BY DEF Mounts, Starts, Metrics!Starts, Metrics!Mount, MetricsServer,
       Metrics!T!AllIdle, Idle
  <1>2. "24h" \in Ranges /\ 1 \in Slots
    BY DashboardAssumption DEF Metrics!MetricsAssumption
  <1>3. t \in MetricsTask /\ t # Idle
    BY <1>2, FetchType, FetchNotIdle DEF Metrics!Selections
  <1>4. ui' \in MetricsState
    BY <1>1, <1>2 DEF Metrics!First, MetricsState, Metrics!Selections
  <1> HIDE DEF t
  <1>5. Handles(Slots, MetricsTask)' /\ 1 \in Busy(Slots)'
    BY <1>1, <1>2, <1>3 DEF Handles, Table, Busy
  <1>6. QED
    BY <1>1, <1>4, <1>5 DEF MetricsInv

LEMMA MetricsSteps == MetricsInv /\ Acts("metrics") => MetricsInv'
  <1> SUFFICES ASSUME MetricsInv, Acts("metrics") PROVE MetricsInv'
    OBVIOUS
  <1>1. ASSUME NEW selected \in Metrics!Selections, NEW range \in Ranges,
               Metrics!T!CanRun, Metrics!T!Run(Metrics!Fetch(selected, range)),
               ui' \in MetricsState, UNCHANGED server
        PROVE  MetricsInv'
    <2> DEFINE t == Metrics!Fetch(selected, range)
    <2>1. t \in MetricsTask /\ t # Idle
      BY FetchType, FetchNotIdle
    <2>2. Busy(Slots) # Slots /\ tasks' = [tasks EXCEPT ![Least(Slots \ Busy(Slots))] = t]
      BY <1>1 DEF Least, Busy, Idle
    <2> HIDE DEF t
    <2>3. PICK n \in Slots \ Busy(Slots) : Puts(Slots, n, t) /\ Handles(Slots, MetricsTask)'
      BY <2>1, <2>2, RunHandles, DashboardAssumption DEF MetricsInv
    <2>4. n \in Busy(Slots)'
      BY <2>1, <2>3 DEF Busy, Puts
    <2>5. QED
      BY <1>1, <2>3, <2>4 DEF MetricsInv
  <1>2. CASE Metrics!Tick
    <2>1. ui' \in MetricsState /\ ui.selected \in Metrics!Selections /\ ui.range \in Ranges
      BY <1>2 DEF Metrics!Tick, MetricsInv, MetricsState
    <2>2. QED
      BY <1>1, <1>2, <2>1 DEF Metrics!Tick
  <1>3. ASSUME NEW c \in Metrics!Selections, NEW r \in Ranges, Metrics!Choose(c, r)
        PROVE  MetricsInv'
    <2>1. ui' \in MetricsState
      BY <1>3 DEF Metrics!Choose, MetricsInv, MetricsState
    <2>2. QED
      BY <1>1, <1>3, <2>1 DEF Metrics!Choose
  <1>4. CASE Metrics!AfterCollections
    <2>1. server.measured \cup {"overall", "all"} \subseteq Metrics!Selections
      BY DEF MetricsInv, MetricsServer, Metrics!Selections
    <2>2. ui' \in MetricsState /\ ui'.loading = ui.loading
      BY <1>4, <2>1 DEF Metrics!AfterCollections, MetricsInv, MetricsState
    <2>3. QED
      BY <1>4, <2>2 DEF Metrics!AfterCollections, MetricsInv, Handles, Table, Busy
  <1>5. ASSUME NEW s \in Slots, Metrics!Received(s) PROVE MetricsInv'
    <2> DEFINE t == tasks[s]
               u == Metrics!Shown(ui, t)
               next == Metrics!Following(t)
    <2>1. t \in MetricsTask
      BY <1>5 DEF Metrics!Received, MetricsInv, Handles, Idle
    <2>2. u \in MetricsState
      <3>1. Metrics!PeriodQuery(t.selected, t.range) \in Metrics!Queries
        BY DEF Metrics!PeriodQuery, Metrics!Queries, Metrics!Period
      <3> DEFINE q == Metrics!PeriodQuery(t.selected, t.range)
      <3>2. ui \in MetricsState /\ t.selected \in Metrics!Selections /\ t.at \in Metrics!Stages
        BY <2>1 DEF MetricsInv, MetricsTask
      <3> HIDE DEF t, q
      <3>3. CASE t.at = "system"
        BY <3>2, <3>3 DEF Metrics!Shown, MetricsState
      <3>4. CASE t.at = "detailed"
        BY <3>2, <3>4 DEF Metrics!Shown, MetricsState
      <3>5. CASE t.at = "aggregated"
        <4>1. u = [ui EXCEPT !.aggregated = q,
                             !.events = IF t.selected = "all" THEN None ELSE @]
          BY <3>5 DEF Metrics!Shown, q
        <4>2. QED
          BY <3>1, <3>2, <4>1 DEF MetricsState, q
      <3>6. CASE t.at = "events"
        BY <3>2, <3>6 DEF Metrics!Shown, MetricsState
      <3>7. QED
        BY <3>2, <3>3, <3>4, <3>5, <3>6 DEF Metrics!Stages
    <2>3. next \in {"detailed", "aggregated", "events", "end"}
      BY <2>1 DEF Metrics!Following
    <2> HIDE DEF t, u, next
    <2>4. CASE next = "end"
      <3>1. ui' \in MetricsState /\ ~ui'.loading
        <4>1. ui' = [u EXCEPT !.loading = FALSE]
          BY <1>5, <2>4 DEF Metrics!Received, t, u, next
        <4>2. QED
          BY <2>2, <4>1 DEF MetricsState
      <3>2. Handles(Slots, MetricsTask)'
        BY <1>5, <2>4, SetHandles DEF Metrics!Received, MetricsInv, Idle, t, next
      <3>3. QED
        BY <1>5, <3>1, <3>2 DEF Metrics!Received, MetricsInv
    <2>5. CASE next # "end"
      <3>1. PICK v \in MetricsTask : tasks' = [tasks EXCEPT ![s] = v] /\ ui' = u
        <4>1. [t EXCEPT !.at = next] \in MetricsTask
          BY <2>1, <2>3, <2>5 DEF MetricsTask, Metrics!Stages
        <4>2. QED
          BY <1>5, <2>5, <4>1 DEF Metrics!Received, t, u, next
      <3>2. Puts(Slots, s, v) /\ Handles(Slots, MetricsTask)' /\ v # Idle
        BY <3>1, SetHandles, FetchNotIdle DEF MetricsInv
      <3>3. s \in Busy(Slots)'
        BY <3>2 DEF Puts, Busy
      <3>4. QED
        BY <1>5, <2>2, <3>1, <3>2, <3>3 DEF Metrics!Received, MetricsInv
    <2>6. QED
      BY <2>4, <2>5
  <1>6. ASSUME NEW s \in Slots, Metrics!Failed(s) PROVE MetricsInv'
    <2>1. Handles(Slots, MetricsTask)'
      BY <1>6, SetHandles DEF Metrics!Failed, MetricsInv, Idle
    <2>2. ui' \in MetricsState /\ ~ui'.loading
      BY <1>6 DEF Metrics!Failed, MetricsInv, MetricsState
    <2>3. QED
      BY <1>6, <2>1, <2>2 DEF Metrics!Failed, MetricsInv
  <1>7. QED
    BY <1>2, <1>3, <1>4, <1>5, <1>6 DEF Acts, User, Others, Runs, Metrics!User, Metrics!Runs

LEMMA MetricsHolds == Spec => []OnMetrics
  <1>1. Init => OnMetrics
    BY DEF Init, OnMetrics
  <1>2. MetricsInv /\ UNCHANGED vars => MetricsInv'
    BY DEF vars, MetricsInv, Handles, Table, Busy
  <1>3. OnMetrics /\ [Next]_vars => OnMetrics'
    BY <1>2, PageSteps, MetricsMounts, MetricsSteps DEF OnMetrics, Acts, vars
  <1>4. QED
    BY <1>1, <1>3, PTL DEF Spec

---------------------------------------------------------------------------
(* The settings *)

SettingsState == [info : {None, "server", "mock"}, loading : SUBSET Settings!Loads,
                  saving : BOOLEAN, sendingTest : BOOLEAN, security : Values,
                  email : Values, password : Passwords \cup {None}]
SettingsServer == [security : Values, email : Values, password : Passwords \cup {None}]

\* What is sent and what is answered, by the kind of handler.
Proper(t) ==
    /\ t.op \in {"saveSecurity", "saveEmail"} => t.sent[1] \in Values
    /\ t.op = "saveEmail" => t.sent[2] \in Passwords \cup {None}
    /\ t.op \in Settings!Groups /\ t.status = "ok" => t.data \in Values
SettingsKinds == [op : Settings!Loads \cup Settings!Saves \cup {"test"},
                  sent : (Values \cup {None}) \X (Passwords \cup {None}),
                  at : {"request"}, status : {"sent", "ok", "failed"},
                  data : Values \cup {None}]
SettingsTask == {t \in SettingsKinds : Proper(t)}

SettingsInv ==
    /\ ui \in SettingsState /\ Handles(LoadSlots, SettingsTask) /\ server \in SettingsServer
    /\ \A g \in ui.loading : Doing(LoadSlots, {g}) # {}
    /\ OneIff(Doing(LoadSlots, Settings!Saves), ui.saving)

OnSettings == shown = "settings" => SettingsInv

USE DEF Settings!T!Idle, Settings!T!Running, Settings!T!CanRun, Settings!T!Run,
        Settings!T!Set, Settings!T!End, Settings!T!Reply, Settings!T!Fail,
        Settings!T!Ok, Settings!T!Waits, Settings!T!Back, Settings!T!Doing

LEMMA SettingsTaskType ==
    ASSUME NEW op \in Settings!Loads \cup Settings!Saves \cup {"test"},
           NEW v \in Values \cup {None}, NEW p \in Passwords \cup {None},
           op \in {"saveSecurity", "saveEmail"} => v \in Values
    PROVE  /\ Settings!Task(op, <<v, p>>) \in SettingsTask
           /\ Settings!Task(op, <<v, p>>).op = op /\ Settings!Task(op, <<v, p>>) # Idle
  <1> DEFINE t == Settings!Task(op, <<v, p>>)
  <1>1. t \in SettingsKinds /\ t.op = op /\ t # Idle
    BY DEF Settings!Task, SettingsKinds, Idle
  <1>2. t.sent = <<v, p>> /\ t.status = "sent"
    BY DEF Settings!Task
  <1>3. Proper(t)
    BY <1>1, <1>2 DEF Proper
  <1>4. QED
    BY <1>1, <1>3 DEF SettingsTask

LEMMA SettingsMounts == Mounts("settings") => SettingsInv'
  <1> SUFFICES ASSUME Mounts("settings") PROVE SettingsInv'
    OBVIOUS
  <1> DEFINE t(op) == Settings!Task(op, Settings!NoBody)
  <1>1. /\ ui' = Settings!First /\ server' \in SettingsServer
        /\ tasks' = [s \in LoadSlots |-> IF s = 3 THEN t("email") ELSE
                                         IF s = 2 THEN t("security") ELSE
                                         IF s = 1 THEN t("info") ELSE Idle]
    BY DEF Mounts, Starts, Settings!Starts, Settings!Mount, SettingsServer,
       Settings!T!AllIdle, Idle
  <1>2. {1, 2, 3} \subseteq LoadSlots /\ Default \in Values
    BY DashboardAssumption DEF Settings!SettingsAssumption
  <1>3. \A op \in Settings!Loads :
           t(op) \in SettingsTask /\ t(op).op = op /\ t(op) # Idle
    BY SettingsTaskType DEF Settings!NoBody, Settings!Loads
  <1>4. ui' \in SettingsState
    BY <1>1, <1>2 DEF Settings!First, SettingsState
  <1> HIDE DEF t
  <1>5. Handles(LoadSlots, SettingsTask)'
    BY <1>1, <1>3 DEF Handles, Table, Settings!Loads
  <1>6. \A g \in ui'.loading : Doing(LoadSlots, {g})' # {}
    <2>1. ui'.loading = {"info", "security", "email"}
      BY <1>1 DEF Settings!First, Settings!Loads
    <2>2. /\ 1 \in Doing(LoadSlots, {"info"})' /\ 2 \in Doing(LoadSlots, {"security"})'
          /\ 3 \in Doing(LoadSlots, {"email"})'
      BY <1>1, <1>2, <1>3 DEF Doing, Settings!Loads
    <2>3. QED
      BY <2>1, <2>2
  <1>7. Doing(LoadSlots, Settings!Saves)' = {} /\ ~ui'.saving
    BY <1>1, <1>3 DEF Doing, Settings!Saves, Settings!Loads, Settings!First
  <1>8. QED
    BY <1>1, <1>4, <1>5, <1>6, <1>7 DEF SettingsInv, OneIff

\* A handler starts.
LEMMA SettingsRun ==
    ASSUME SettingsInv, NEW t \in SettingsTask, t # Idle,
           Settings!T!CanRun, Settings!T!Run(t), UNCHANGED server,
           ui' \in SettingsState, ui'.loading \subseteq ui.loading \cup {t.op},
           t.op \in Settings!Saves => ~ui.saving /\ ui'.saving,
           t.op \notin Settings!Saves => ui'.saving = ui.saving
    PROVE  SettingsInv'
  <1>1. /\ Busy(LoadSlots) # LoadSlots
        /\ tasks' = [tasks EXCEPT ![Least(LoadSlots \ Busy(LoadSlots))] = t]
    BY DEF Least, Busy, Idle
  <1>2. PICK n \in LoadSlots \ Busy(LoadSlots) :
           Puts(LoadSlots, n, t) /\ Handles(LoadSlots, SettingsTask)'
    BY <1>1, RunHandles, DashboardAssumption DEF SettingsInv
  <1>3. ASSUME NEW O PROVE n \notin Doing(LoadSlots, O)
    BY DEF Busy, Doing
  <1>4. ASSUME NEW g \in ui'.loading PROVE Doing(LoadSlots, {g})' # {}
    <2>1. CASE g = t.op
      BY <1>2, <2>1 DEF Puts, Doing
    <2>2. CASE g # t.op
      BY <1>2, <1>3, <2>2 DEF SettingsInv, Puts, Doing
    <2>3. QED
      BY <2>1, <2>2
  <1>5. OneIff(Doing(LoadSlots, Settings!Saves), ui.saving)'
    <2> DEFINE N == Doing(LoadSlots, Settings!Saves)
    <2>1. CASE t.op \in Settings!Saves
      <3>1. N = {} /\ ui'.saving
        BY <2>1 DEF SettingsInv, OneIff
      <3>2. N' = N \cup {n}
        BY <1>2, <2>1, DoingPuts
      <3>3. QED
        BY <3>1, <3>2 DEF OneIff
    <2>2. CASE t.op \notin Settings!Saves
      <3>1. N' = N \ {n}
        BY <1>2, <2>2, DoingPuts
      <3>2. N' = N
        BY <1>3, <3>1
      <3>3. QED
        BY <2>2, <3>2 DEF SettingsInv, OneIff
    <2>3. QED
      BY <2>1, <2>2
  <1>6. QED
    BY <1>2, <1>4, <1>5 DEF SettingsInv

\* A handler ends.
LEMMA SettingsEnd ==
    ASSUME SettingsInv, NEW s \in LoadSlots, s \in Busy(LoadSlots), Settings!T!End(s),
           UNCHANGED server, ui' \in SettingsState,
           ui'.loading \subseteq ui.loading \ {tasks[s].op},
           tasks[s].op \in Settings!Saves => ~ui'.saving,
           tasks[s].op \notin Settings!Saves => ui'.saving = ui.saving
    PROVE  SettingsInv'
  <1>1. Puts(LoadSlots, s, Idle) /\ Handles(LoadSlots, SettingsTask)'
    BY SetHandles DEF SettingsInv, Idle
  <1>2. ASSUME NEW g \in ui'.loading PROVE Doing(LoadSlots, {g})' # {}
    <2>1. g \in ui.loading /\ s \notin Doing(LoadSlots, {g})
      BY <1>2 DEF Doing
    <2>2. Doing(LoadSlots, {g})' = Doing(LoadSlots, {g}) \ {s}
      BY <1>1, EndDoing
    <2>3. QED
      BY <2>1, <2>2 DEF SettingsInv
  <1>3. OneIff(Doing(LoadSlots, Settings!Saves), ui.saving)'
    <2> DEFINE N == Doing(LoadSlots, Settings!Saves)
    <2>1. N' = N \ {s}
      BY <1>1, EndDoing
    <2>2. s \in N <=> tasks[s].op \in Settings!Saves
      BY DEF Busy, Doing
    <2> HIDE DEF N
    <2>3. OneIff(N, ui.saving)
      BY DEF SettingsInv, N
    <2>4. OneIff(N', ui'.saving)
      BY <2>1, <2>2, <2>3 DEF OneIff
    <2>5. QED
      BY <2>4 DEF N, OneIff
  <1>4. QED
    BY <1>1, <1>2, <1>3 DEF SettingsInv

LEMMA SettingsServe ==
    ASSUME SettingsInv, NEW s \in LoadSlots, Settings!Serve(s) PROVE SettingsInv'
  <1> DEFINE t == tasks[s]
  <1>1. t \in SettingsKinds /\ Proper(t) /\ t # Idle
    BY DEF Settings!Serve, SettingsInv, Handles, Idle, SettingsTask
  <1>2. PICK v : /\ v \in SettingsTask /\ v.op = t.op
                 /\ tasks' = [tasks EXCEPT ![s] = v]
    <2>1. CASE Settings!T!Reply(s, Settings!Answer(t.op))
      <3> DEFINE d == Settings!Answer(t.op)
                 v == [t EXCEPT !.status = "ok", !.data = d]
      <3>1. d \in Values \cup {None} /\ (t.op \in Settings!Groups => d \in Values)
        BY DEF Settings!Answer, Settings!Groups, SettingsInv, SettingsServer
      <3> HIDE DEF t, d
      <3>2. v \in SettingsKinds /\ v.op = t.op /\ v.sent = t.sent /\ v.data = d
        BY <1>1, <3>1 DEF SettingsKinds
      <3>3. Proper(v)
        BY <1>1, <3>1, <3>2 DEF Proper
      <3>4. QED
        BY <2>1, <3>2, <3>3 DEF SettingsTask, t, d
    <2>2. CASE Settings!T!Fail(s)
      <3> DEFINE v == [t EXCEPT !.status = "failed"]
      <3> HIDE DEF t
      <3>1. /\ v \in SettingsKinds /\ v.op = t.op /\ v.sent = t.sent
            /\ v.status = "failed"
        BY <1>1 DEF SettingsKinds
      <3>2. Proper(v)
        BY <1>1, <3>1 DEF Proper
      <3>3. QED
        BY <2>2, <3>1, <3>2 DEF SettingsTask, t
    <2>3. QED
      BY <2>1, <2>2 DEF Settings!Serve
  <1>3. Puts(LoadSlots, s, v) /\ Handles(LoadSlots, SettingsTask)'
    BY <1>2, SetHandles DEF SettingsInv
  <1>4. v # Idle
    BY <1>2 DEF SettingsTask, SettingsKinds, Idle
  <1>5. ASSUME NEW O PROVE Doing(LoadSlots, O)' = Doing(LoadSlots, O)
    BY <1>1, <1>2, <1>3, <1>4 DEF Puts, Doing
  <1>6. server' \in SettingsServer
    <2>1. Settings!Stored(t) \in SettingsServer
      <3>1. CASE t.op = "saveSecurity"
        BY <1>1, <3>1 DEF Proper, SettingsInv, SettingsServer, Settings!Stored
      <3>2. CASE t.op = "saveEmail"
        <4>1. t.sent[1] \in Values /\ t.sent[2] \in Passwords \cup {None}
          BY <1>1, <3>2 DEF Proper
        <4>2. Settings!PasswordAfter(t.sent[2]) \in Passwords \cup {None}
          BY <4>1 DEF Settings!PasswordAfter, SettingsInv, SettingsServer
        <4>3. QED
          BY <3>2, <4>1, <4>2 DEF SettingsInv, SettingsServer, Settings!Stored
      <3>3. CASE t.op \notin {"saveSecurity", "saveEmail"}
        BY <3>3 DEF SettingsInv, Settings!Stored
      <3>4. QED
        BY <3>1, <3>2, <3>3
    <2>2. QED
      BY <2>1 DEF Settings!Serve, SettingsInv
  <1>7. UNCHANGED ui
    BY DEF Settings!Serve
  <1>8. QED
    BY <1>3, <1>5, <1>6, <1>7 DEF SettingsInv, OneIff

LEMMA SettingsSteps == SettingsInv /\ Acts("settings") => SettingsInv'
  <1> SUFFICES ASSUME SettingsInv, Acts("settings") PROVE SettingsInv'
    OBVIOUS
  <1>1. ASSUME UNCHANGED <<tasks, server>>, ui' \in SettingsState,
               ui'.loading = ui.loading, ui'.saving = ui.saving
        PROVE  SettingsInv'
    BY <1>1 DEF SettingsInv, Handles, Table, Doing, OneIff
  <1>2. ASSUME NEW g \in Settings!Groups, NEW v \in Values, Settings!Change(g, v)
        PROVE  SettingsInv'
    BY <1>1, <1>2 DEF Settings!Change, Settings!Groups, SettingsInv, SettingsState
  <1>3. ASSUME NEW q \in Passwords \cup {None}, Settings!TypePassword(q) PROVE SettingsInv'
    BY <1>1, <1>3 DEF Settings!TypePassword, SettingsInv, SettingsState
  <1>4. CASE Settings!Refresh
    <2> DEFINE t == Settings!Task("info", Settings!NoBody)
    <2>1. t \in SettingsTask /\ t.op = "info" /\ t # Idle
      BY SettingsTaskType DEF Settings!NoBody, Settings!Loads
    <2>2. /\ ui' \in SettingsState /\ ui'.loading = ui.loading \cup {"info"}
          /\ ui'.saving = ui.saving
      BY <1>4 DEF Settings!Refresh, SettingsInv, SettingsState, Settings!Loads
    <2>3. Settings!T!CanRun /\ Settings!T!Run(t) /\ UNCHANGED server
      BY <1>4 DEF Settings!Refresh
    <2> HIDE DEF t
    <2>4. QED
      BY <2>1, <2>2, <2>3, SettingsRun DEF Settings!Saves
  <1>5. ASSUME NEW op \in Settings!Saves, NEW v \in Values \cup {None},
               NEW q \in Passwords \cup {None}, Settings!Saving(op, <<v, q>>),
               op \in {"saveSecurity", "saveEmail"} => v \in Values
        PROVE  SettingsInv'
    <2> DEFINE t == Settings!Task(op, <<v, q>>)
    <2>1. t \in SettingsTask /\ t.op = op /\ t # Idle
      BY <1>5, SettingsTaskType
    <2>2. /\ ui' \in SettingsState /\ ui'.loading = ui.loading
          /\ ui'.saving /\ ~ui.saving
      BY <1>5 DEF Settings!Saving, SettingsInv, SettingsState
    <2>3. Settings!T!CanRun /\ Settings!T!Run(t) /\ UNCHANGED server
      BY <1>5 DEF Settings!Saving
    <2> HIDE DEF t
    <2>4. QED
      BY <2>1, <2>2, <2>3, SettingsRun
  <1>6. CASE Settings!SaveSettings \/ Settings!SaveSecurity \/ Settings!SaveEmail
    <2>1. ui.security \in Values /\ ui.email \in Values /\ ui.password \in Passwords \cup {None}
      BY DEF SettingsInv, SettingsState
    <2>2. QED
      BY <1>5, <1>6, <2>1 DEF Settings!SaveSettings, Settings!SaveSecurity,
         Settings!SaveEmail, Settings!NoBody, Settings!Saves
  <1>7. CASE Settings!SendTest
    <2> DEFINE t == Settings!Task("test", Settings!NoBody)
    <2>1. t \in SettingsTask /\ t.op = "test" /\ t # Idle
      BY SettingsTaskType DEF Settings!NoBody
    <2>2. /\ ui' \in SettingsState /\ ui'.loading = ui.loading
          /\ ui'.saving = ui.saving
      BY <1>7 DEF Settings!SendTest, SettingsInv, SettingsState
    <2>3. Settings!T!CanRun /\ Settings!T!Run(t) /\ UNCHANGED server
      BY <1>7 DEF Settings!SendTest
    <2> HIDE DEF t
    <2>4. QED
      BY <2>1, <2>2, <2>3, SettingsRun DEF Settings!Saves
  <1>8. ASSUME NEW s \in LoadSlots, Settings!Serve(s) PROVE SettingsInv'
    BY <1>8, SettingsServe
  <1>9. ASSUME NEW s \in LoadSlots,
               \/ Settings!AfterInfo(s) \/ Settings!AfterLoad(s)
               \/ Settings!AfterSave(s) \/ Settings!AfterTest(s)
        PROVE  SettingsInv'
    <2>1. /\ tasks[s] \in SettingsKinds /\ Proper(tasks[s]) /\ s \in Busy(LoadSlots)
          /\ Settings!T!End(s) /\ UNCHANGED server
      BY <1>9 DEF Settings!AfterInfo, Settings!AfterLoad, Settings!AfterSave,
         Settings!AfterTest, SettingsInv, Handles, Idle, SettingsTask, Busy
    <2>2. ui \in SettingsState
      BY DEF SettingsInv
    <2>3. CASE Settings!AfterInfo(s)
      <3>1. /\ ui' \in SettingsState /\ ui'.loading = ui.loading \ {"info"}
            /\ ui'.saving = ui.saving /\ tasks[s].op = "info"
        BY <2>2, <2>3 DEF Settings!AfterInfo, SettingsState
      <3>2. QED
        BY <2>1, <3>1, SettingsEnd DEF Settings!Saves
    <2>4. CASE Settings!AfterLoad(s)
      <3>1. /\ ui' \in SettingsState /\ ui'.loading = ui.loading \ {tasks[s].op}
            /\ ui'.saving = ui.saving /\ tasks[s].op \in Settings!Groups
        <4> DEFINE group == tasks[s].op
                   done == [ui EXCEPT !.loading = @ \ {group}]
        <4>1. group \in Settings!Groups /\ (Settings!T!Ok(s) => tasks[s].data \in Values)
          BY <2>1, <2>4 DEF Settings!AfterLoad, Proper
        <4>2. /\ done \in SettingsState /\ done.loading = ui.loading \ {group}
              /\ done.saving = ui.saving
          BY <2>2 DEF SettingsState
        <4>3. \/ ui' = done
              \/ /\ Settings!T!Ok(s)
                 /\ \/ ui' = [done EXCEPT !.security = tasks[s].data]
                    \/ ui' = [done EXCEPT !.email = tasks[s].data, !.password = None]
          BY <2>4 DEF Settings!AfterLoad
        <4> HIDE DEF done, group
        <4>4. /\ ui' \in SettingsState /\ ui'.loading = done.loading
              /\ ui'.saving = done.saving
          BY <4>1, <4>2, <4>3 DEF SettingsState
        <4>5. QED
          BY <4>1, <4>2, <4>4 DEF group
      <3>2. tasks[s].op \notin Settings!Saves
        BY <3>1 DEF Settings!Groups, Settings!Saves
      <3>3. QED
        BY <2>1, <3>1, <3>2, SettingsEnd
    <2>5. CASE Settings!AfterSave(s)
      <3>1. /\ ui' \in SettingsState /\ ui'.loading = ui.loading /\ ~ui'.saving
            /\ tasks[s].op \in Settings!Saves
        BY <2>2, <2>5 DEF Settings!AfterSave, SettingsState
      <3>2. ui.loading \subseteq ui.loading \ {tasks[s].op}
        BY <2>2, <3>1 DEF SettingsState, Settings!Saves, Settings!Loads
      <3>3. QED
        BY <2>1, <3>1, <3>2, SettingsEnd
    <2>6. CASE Settings!AfterTest(s)
      <3>1. /\ ui' \in SettingsState /\ ui'.loading = ui.loading
            /\ ui'.saving = ui.saving /\ tasks[s].op = "test"
        BY <2>2, <2>6 DEF Settings!AfterTest, SettingsState
      <3>2. ui.loading \subseteq ui.loading \ {tasks[s].op}
        BY <2>2, <3>1 DEF SettingsState, Settings!Loads
      <3>3. QED
        BY <2>1, <3>1, <3>2, SettingsEnd DEF Settings!Saves
    <2>7. QED
      BY <1>9, <2>3, <2>4, <2>5, <2>6
  <1>10. QED
    BY <1>2, <1>3, <1>4, <1>6, <1>7, <1>8, <1>9
       DEF Acts, User, Others, Runs, Settings!User, Settings!Runs

LEMMA SettingsHolds == Spec => []OnSettings
  <1>1. Init => OnSettings
    BY DEF Init, OnSettings
  <1>2. SettingsInv /\ UNCHANGED vars => SettingsInv'
    BY DEF vars, SettingsInv, Handles, Table, Doing, OneIff
  <1>3. OnSettings /\ [Next]_vars => OnSettings'
    BY <1>2, PageSteps, SettingsMounts, SettingsSteps DEF OnSettings, Acts, vars
  <1>4. QED
    BY <1>1, <1>3, PTL DEF Spec

(* However the four save buttons are used and whatever fails, the settings  *)
(* page has one save under way while its buttons are disabled and none      *)
(* while they are enabled (Settings.jsx:153).                               *)
THEOREM OneSave == Spec => []SavesOneByOne
  <1>1. OnSettings => SavesOneByOne
    <2> SUFFICES ASSUME SettingsInv, shown = "settings" PROVE Settings!SavesOneByOne
      BY DEF OnSettings, SavesOneByOne
    <2> DEFINE saves == {s \in Settings!T!Running : tasks[s].op \in Settings!Saves}
    <2>1. saves = Doing(LoadSlots, Settings!Saves)
      BY DEF Doing, Idle
    <2>2. OneIff(saves, ui.saving)
      BY <2>1 DEF SettingsInv
    <2>3. Settings!SavesOneByOne <=> Cardinality(saves) = IF ui.saving THEN 1 ELSE 0
      BY DEF Settings!SavesOneByOne, Settings!Cardinality, Cardinality
    <2> HIDE DEF saves
    <2>4. QED
      BY <2>2, <2>3, OneCounted
  <1>2. QED
    BY <1>1, SettingsHolds, PTL

---------------------------------------------------------------------------
(* The list of the collections *)

ListingState == [loading : BOOLEAN, all : SUBSET Numbers, filtered : SUBSET Numbers,
                 search : Terms \cup {None}, page : 1..(Cardinality(Numbers) + 1),
                 newName : Numbers \cup {None}, open : BOOLEAN, stale : BOOLEAN]
ListingTask ==
    {t \in [op : Listing!Ops, name : Numbers \cup {None}, at : {"change", "list"},
            status : {"sent", "ok", "failed"}, data : SUBSET Numbers] :
       t.at = "change" => t.op \in {"create", "delete"} /\ t.name \in Numbers}
ListingServer == [collections : SUBSET Numbers]

Changes == At(Slots, "change")
Lists == At(Slots, "list")

(* Until an answered change asks for it, the list is that of the server, or is on
   its way in just one handler. *)
ListFresh ==
    /\ \A r, s \in Lists : r = s
    /\ (\A s \in Changes : tasks[s].status = "sent") =>
         /\ Lists = {} => ui.all = server.collections
         /\ \A s \in Lists : tasks[s].status = "ok" => tasks[s].data = server.collections

ListingInv ==
    /\ ui \in ListingState /\ ui.filtered \subseteq ui.all
    /\ Handles(Slots, ListingTask) /\ server \in ListingServer
    /\ ui.loading => Lists # {}
    /\ ~ui.stale => ListFresh

OnListing == shown = "collections" => ListingInv

USE DEF Listing!T!Idle, Listing!T!Running, Listing!T!CanRun, Listing!T!Run, Listing!T!Set, Listing!T!End, Listing!T!At,
        Listing!T!Quiet, Listing!T!Waits, Listing!T!Back, Listing!T!Ok, Listing!T!Reply, Listing!T!Fail

LEMMA PageTypes == Cardinality(Numbers) \in Nat /\ 1 \in 1..(Cardinality(Numbers) + 1)
  <1>1. IsFiniteSet(Numbers)
    BY DashboardAssumption DEF Listing!CollectionsAssumption, Listing!IsFiniteSet, IsFiniteSet
  <1>2. Cardinality(Numbers) \in Nat
    BY <1>1, FS_CardinalityType
  <1>3. QED
    BY <1>2

LEMMA ListingTaskType ==
    ASSUME NEW op \in Listing!Ops, NEW name \in Numbers \cup {None},
           NEW at \in {"change", "list"},
           at = "change" => op \in {"create", "delete"} /\ name \in Numbers
    PROVE  /\ Listing!Task(op, name, at) \in ListingTask
           /\ Listing!Task(op, name, at).at = at
           /\ Listing!Task(op, name, at).status = "sent"
           /\ Listing!Task(op, name, at) # Idle
  BY DEF Listing!Task, ListingTask, Idle

LEMMA ListingMounts == Mounts("collections") => ListingInv'
  <1> SUFFICES ASSUME Mounts("collections") PROVE ListingInv'
    OBVIOUS
  <1> DEFINE t == Listing!Task("load", None, "list")
  <1>1. /\ ui' = Listing!First /\ server' \in ListingServer
        /\ tasks' = [s \in Slots |-> IF s = 1 THEN t ELSE Idle]
    BY DEF Mounts, Starts, Listing!Starts, Listing!Mount, ListingServer,
       Listing!T!AllIdle, Idle
  <1>2. t \in ListingTask /\ t.at = "list" /\ t.status = "sent" /\ t # Idle
    BY ListingTaskType DEF Listing!Ops
  <1>3. ui' \in ListingState /\ ui'.filtered \subseteq ui'.all
    BY <1>1, PageTypes DEF Listing!First, ListingState
  <1> HIDE DEF t
  <1>4. Handles(Slots, ListingTask)' /\ Lists' = {1}
    BY <1>1, <1>2, DashboardAssumption DEF Handles, Table, Lists, At
  <1>5. ListFresh'
    <2>1. tasks'[1].status = "sent"
      BY <1>1, <1>2, DashboardAssumption
    <2>2. QED
      BY <1>4, <2>1 DEF ListFresh
  <1>6. QED
    BY <1>1, <1>3, <1>4, <1>5 DEF ListingInv

\* A handler starts: for a list when it is known to come alone, or for a change.
LEMMA ListingRun ==
    ASSUME ListingInv, NEW t \in ListingTask, t # Idle, t.status = "sent",
           Listing!T!CanRun, Listing!T!Run(t), UNCHANGED server,
           ui' \in ListingState, ui'.filtered \subseteq ui'.all,
           ui'.loading => t.at = "list" \/ ui.loading,
           ~ui'.stale /\ t.at = "list" => Lists = {},
           ~ui'.stale /\ t.at = "change" => ~ui.stale /\ ui'.all = ui.all
    PROVE  ListingInv'
  <1>1. Busy(Slots) # Slots /\ tasks' = [tasks EXCEPT ![Least(Slots \ Busy(Slots))] = t]
    BY DEF Least, Busy, Idle
  <1>2. PICK n \in Slots \ Busy(Slots) : Puts(Slots, n, t) /\ Handles(Slots, ListingTask)'
    BY <1>1, RunHandles, DashboardAssumption DEF ListingInv
  <1>3. n \in Slots /\ n \notin Lists /\ n \notin Changes
    BY DEF Busy, Lists, Changes, At
  <1>4. CASE t.at = "list"
    <2>1. Lists' = Lists \cup {n}
      BY <1>2, <1>3, <1>4, AtPuts DEF Lists
    <2>2. ~ui'.stale => ListFresh'
      <3>1. tasks'[n].status = "sent"
        BY <1>2 DEF Puts
      <3>2. QED
        BY <1>4, <2>1, <3>1 DEF ListFresh
    <2>3. QED
      BY <1>2, <2>1, <2>2 DEF ListingInv
  <1>5. CASE t.at = "change"
    <2>1. Lists' = Lists \ {n} /\ Changes' = Changes \cup {n}
      BY <1>2, <1>3, <1>5, AtPuts DEF Lists, Changes
    <2>2. Lists' = Lists
      BY <1>3, <2>1
    <2>3. ASSUME ~ui'.stale PROVE ListFresh'
      <3>1. ListFresh /\ ui'.all = ui.all
        BY <1>5, <2>3 DEF ListingInv
      <3>2. \A s \in Lists \cup Changes : tasks'[s] = tasks[s]
        BY <1>2, <1>3 DEF Puts, Lists, Changes, At
      <3>3. QED
        BY <2>1, <2>2, <3>1, <3>2 DEF ListFresh
    <2>4. QED
      BY <1>2, <1>5, <2>2, <2>3 DEF ListingInv
  <1>6. QED
    BY <1>4, <1>5 DEF ListingTask

LEMMA ListingServe ==
    ASSUME ListingInv, NEW s \in Slots, Listing!Serve(s) PROVE ListingInv'
  <1> DEFINE t == tasks[s]
  <1>1. t \in ListingTask /\ t # Idle /\ t.status = "sent" /\ UNCHANGED ui
    BY DEF Listing!Serve, ListingInv, Handles, Idle
  <1>2. PICK d \in SUBSET Numbers, st \in {"ok", "failed"} :
           /\ tasks' = [tasks EXCEPT ![s] = [t EXCEPT !.status = st, !.data = d]]
           /\ t.at = "list" => UNCHANGED server /\ (st = "ok" => d = server.collections)
    <2>1. {} \in SUBSET Numbers /\ server.collections \in SUBSET Numbers
      BY DEF ListingInv, ListingServer
    <2>2. t.data \in SUBSET Numbers /\ t.at \in {"change", "list"}
      BY <1>1 DEF ListingTask
    <2>3. [t EXCEPT !.status = "failed"] = [t EXCEPT !.status = "failed", !.data = t.data]
      BY <1>1 DEF ListingTask
    <2>4. CASE Listing!T!Fail(s)
      BY <2>2, <2>3, <2>4 DEF Listing!Serve
    <2>5. CASE Listing!T!Reply(s, {})
      <3>1. CASE t.at = "list"
        BY <2>1, <2>2, <2>3, <3>1 DEF Listing!Serve
      <3>2. CASE t.at = "change"
        BY <2>1, <2>5, <3>2 DEF Listing!Serve
      <3>3. QED
        BY <2>2, <3>1, <3>2
    <2>6. CASE t.at = "list" /\ Listing!T!Reply(s, server.collections)
      BY <2>1, <2>6 DEF Listing!Serve
    <2>7. QED
      BY <2>4, <2>5, <2>6 DEF Listing!Serve
  <1> DEFINE v == [t EXCEPT !.status = st, !.data = d]
  <1>3. v \in ListingTask /\ v.at = t.at /\ v # Idle /\ v.status = st /\ v.data = d
    BY <1>1 DEF ListingTask, Idle
  <1> HIDE DEF v
  <1>4. Puts(Slots, s, v) /\ Handles(Slots, ListingTask)'
    BY <1>2, <1>3, SetHandles DEF ListingInv, v
  <1>5. ASSUME NEW w PROVE At(Slots, w)' = At(Slots, w)
    BY <1>1, <1>3, <1>4 DEF Puts, At
  <1>6. Lists' = Lists /\ Changes' = Changes
    BY <1>5 DEF Lists, Changes
  <1>7. server' \in ListingServer
    <2>1. t.at = "change" => Listing!Changed(t) \in ListingServer
      BY <1>1 DEF ListingTask, Listing!Changed, ListingInv, ListingServer
    <2>2. QED
      BY <2>1 DEF Listing!Serve, ListingInv
  <1>8. ASSUME ListFresh PROVE ListFresh'
    <2>1. CASE t.at = "change"
      <3>1. s \in Changes /\ tasks'[s].status # "sent"
        BY <1>1, <1>3, <1>4, <2>1 DEF Changes, At, Puts
      <3>2. QED
        BY <1>6, <1>8, <3>1 DEF ListFresh
    <2>2. CASE t.at = "list"
      <3>1. UNCHANGED <<ui, server>> /\ s \in Lists /\ s \notin Changes
        BY <1>1, <1>2, <2>2 DEF Lists, Changes, At
      <3>2. \A r \in Changes : tasks'[r] = tasks[r]
        BY <1>4, <3>1 DEF Puts, Changes, At
      <3>3. tasks'[s].status = "ok" => tasks'[s].data = server.collections
        BY <1>2, <1>3, <1>4, <2>2 DEF Puts
      <3>4. QED
        BY <1>6, <1>8, <3>1, <3>2, <3>3 DEF ListFresh
    <2>3. QED
      BY <1>1, <2>1, <2>2 DEF ListingTask
  <1>9. QED
    BY <1>1, <1>4, <1>6, <1>7, <1>8 DEF ListingInv

LEMMA ListingAfterChange ==
    ASSUME ListingInv, NEW s \in Slots, Listing!AfterChange(s) PROVE ListingInv'
  <1> DEFINE t == tasks[s]
  <1>1. t \in ListingTask /\ t # Idle /\ t.at = "change" /\ t.status # "sent"
        /\ UNCHANGED server
    BY DEF Listing!AfterChange, ListingInv, Handles, Idle
  <1>2. s \in Changes /\ s \notin Lists
    BY <1>1 DEF Changes, Lists, At
  <1>3. CASE t.status = "ok"
    <2> DEFINE v == Listing!Reloading(t.op)
    <2>1. v \in ListingTask /\ v.at = "list" /\ v.status = "sent" /\ v # Idle
      BY ListingTaskType DEF Listing!Reloading, Listing!Ops
    <2>2. tasks' = [tasks EXCEPT ![s] = v]
      BY <1>3 DEF Listing!AfterChange
    <2> HIDE DEF v
    <2>3. Puts(Slots, s, v) /\ Handles(Slots, ListingTask)'
      BY <2>1, <2>2, SetHandles DEF ListingInv
    <2>4. Lists' = Lists \cup {s}
      BY <2>1, <2>3, AtPuts DEF Lists
    <2>5. ui' = [ui EXCEPT !.loading = TRUE, !.stale = ui.stale \/ Lists # {}]
      BY <1>3 DEF Listing!AfterChange, Listing!Loading, Lists, At, Idle
    <2>6. ui' \in ListingState /\ ui'.filtered \subseteq ui'.all
          /\ ui'.stale = (ui.stale \/ Lists # {})
      BY <2>5 DEF ListingInv, ListingState
    <2>7. ~ui'.stale => ListFresh'
      <3>1. tasks'[s].status = "sent"
        BY <2>1, <2>3 DEF Puts
      <3>2. QED
        BY <2>4, <2>6, <3>1 DEF ListFresh
    <2>8. QED
      BY <1>1, <2>3, <2>4, <2>6, <2>7 DEF ListingInv
  <1>4. CASE t.status # "ok"
    <2>1. ui' = [ui EXCEPT !.stale = TRUE] /\ tasks' = [tasks EXCEPT ![s] = Idle]
      BY <1>4 DEF Listing!AfterChange, Idle
    <2>2. Puts(Slots, s, Idle) /\ Handles(Slots, ListingTask)'
      BY <2>1, SetHandles DEF ListingInv
    <2>3. Lists' = Lists \ {s}
      BY <2>2, EndAt DEF Lists
    <2>4. ui' \in ListingState /\ ui'.filtered \subseteq ui'.all /\ ui'.stale
          /\ ui'.loading = ui.loading
      BY <2>1 DEF ListingInv, ListingState
    <2>5. QED
      BY <1>1, <1>2, <2>2, <2>3, <2>4 DEF ListingInv
  <1>5. QED
    BY <1>3, <1>4

LEMMA ListingAfterList ==
    ASSUME ListingInv, NEW s \in Slots, Listing!AfterList(s) PROVE ListingInv'
  <1> DEFINE t == tasks[s]
  <1>1. t \in ListingTask /\ t # Idle /\ t.at = "list" /\ UNCHANGED server
    BY DEF Listing!AfterList, ListingInv, Handles, Idle
  <1>2. s \in Lists /\ s \notin Changes
    BY <1>1 DEF Changes, Lists, At
  <1>3. Puts(Slots, s, Idle) /\ Handles(Slots, ListingTask)'
    BY SetHandles DEF Listing!AfterList, ListingInv, Idle
  <1>4. Lists' = Lists \ {s} /\ Changes' = Changes
    <2>1. Lists' = Lists \ {s} /\ Changes' = Changes \ {s}
      BY <1>3, EndAt DEF Lists, Changes
    <2>2. QED
      BY <1>2, <2>1
  <1>5. /\ ui' \in ListingState /\ ui'.filtered \subseteq ui'.all
        /\ ~ui'.loading /\ ui'.all = t.data
        /\ ui'.stale = (ui.stale \/ t.status # "ok")
    <2> DEFINE u == Listing!Shows(ui, t.data)
               w == [u EXCEPT !.loading = FALSE, !.stale = @ \/ ~(t.status = "ok")]
    <2>1. t.data \in SUBSET Numbers /\ ui \in ListingState
      BY <1>1 DEF ListingTask, ListingInv
    <2> HIDE DEF t
    <2>2. Listing!Filter(t.data, ui.search) \subseteq t.data
      BY DEF Listing!Filter
    <2>3. u \in ListingState /\ u.filtered \subseteq u.all /\ u.all = t.data
          /\ u.stale = ui.stale
      BY <2>1, <2>2, PageTypes DEF Listing!Shows, ListingState
    <2>4. ui' = IF t.op = "create" THEN [w EXCEPT !.newName = None, !.open = FALSE] ELSE w
      BY DEF Listing!AfterList, t
    <2> HIDE DEF u
    <2>5. QED
      BY <2>3, <2>4 DEF ListingState, t
  <1>6. ASSUME ~ui'.stale PROVE ListFresh'
    <2>1. ListFresh /\ t.status = "ok"
      BY <1>5, <1>6 DEF ListingInv, ListingState
    <2>2. Lists' = {}
      BY <1>2, <1>4, <2>1 DEF ListFresh
    <2>3. \A r \in Changes : tasks'[r] = tasks[r]
      BY <1>2, <1>3 DEF Puts, Changes, At
    <2>4. QED
      BY <1>1, <1>2, <1>4, <1>5, <2>1, <2>2, <2>3 DEF ListFresh
  <1>7. QED
    BY <1>1, <1>3, <1>5, <1>6 DEF ListingInv

LEMMA ListingSteps == ListingInv /\ Acts("collections") => ListingInv'
  <1> SUFFICES ASSUME ListingInv, Acts("collections") PROVE ListingInv'
    OBVIOUS
  <1>1. ASSUME UNCHANGED <<tasks, server>>, ui' \in ListingState,
               ui'.filtered \subseteq ui'.all, ui'.loading = ui.loading,
               ui'.stale = ui.stale, ui'.all = ui.all
        PROVE  ListingInv'
    BY <1>1 DEF ListingInv, ListFresh, Handles, Table, Lists, Changes, At
  <1>2. ASSUME NEW term \in Terms \cup {None}, Listing!Search(term) PROVE ListingInv'
    <2>1. Listing!Filter(ui.all, term) \subseteq ui.all
      BY DEF Listing!Filter
    <2>2. QED
      BY <1>1, <1>2, <2>1, PageTypes DEF Listing!Search, ListingInv, ListingState
  <1>3. ASSUME NEW p \in 1..Cardinality(Numbers), Listing!PageTo(p) PROVE ListingInv'
    <2>1. p \in 1..(Cardinality(Numbers) + 1)
      BY PageTypes
    <2>2. QED
      BY <1>1, <1>3, <2>1 DEF Listing!PageTo, ListingInv, ListingState
  <1>4. CASE Listing!OpenDialog \/ Listing!CloseDialog
    BY <1>1, <1>4 DEF Listing!OpenDialog, Listing!CloseDialog, ListingInv, ListingState
  <1>5. ASSUME NEW n \in Numbers, Listing!TypeName(n) PROVE ListingInv'
    BY <1>1, <1>5 DEF Listing!TypeName, ListingInv, ListingState
  <1>6. CASE Listing!Refresh
    <2> DEFINE t == Listing!Task("load", None, "list")
    <2>1. t \in ListingTask /\ t.at = "list" /\ t.status = "sent" /\ t # Idle
      BY ListingTaskType DEF Listing!Ops
    <2>2. /\ ui' = [ui EXCEPT !.loading = TRUE,
                              !.stale = Busy(Slots) # {} /\ (ui.stale \/ Lists # {})]
          /\ Listing!T!CanRun /\ Listing!T!Run(t) /\ UNCHANGED server
      BY <1>6 DEF Listing!Refresh, Busy, Lists, At, Idle
    <2>3. /\ ui' \in ListingState /\ ui'.filtered \subseteq ui'.all
          /\ ui'.stale = (Busy(Slots) # {} /\ (ui.stale \/ Lists # {}))
      BY <2>2 DEF ListingInv, ListingState
    <2>4. Lists \subseteq Busy(Slots)
      BY DEF Lists, At, Busy
    <2> HIDE DEF t
    <2>5. QED
      BY <2>1, <2>2, <2>3, <2>4, ListingRun
  <1>7. ASSUME NEW op \in {"create", "delete"}, NEW n \in Numbers,
               Listing!T!CanRun, Listing!T!Run(Listing!Task(op, n, "change")),
               UNCHANGED <<ui, server>>
        PROVE  ListingInv'
    <2> DEFINE t == Listing!Task(op, n, "change")
    <2>1. t \in ListingTask /\ t.at = "change" /\ t.status = "sent" /\ t # Idle
      BY ListingTaskType DEF Listing!Ops
    <2>2. ui \in ListingState /\ ui.filtered \subseteq ui.all
      BY DEF ListingInv
    <2> HIDE DEF t
    <2>3. Listing!T!CanRun /\ Listing!T!Run(t)
      BY <1>7 DEF t
    <2>4. QED
      BY <1>7, <2>1, <2>2, <2>3, ListingRun
  <1>8. CASE Listing!Create
    <2>1. ui.newName \in Numbers
      BY <1>8 DEF Listing!Create, ListingInv, ListingState
    <2>2. QED
      BY <1>7, <1>8, <2>1 DEF Listing!Create
  <1>9. ASSUME NEW n \in Numbers, Listing!Delete(n) PROVE ListingInv'
    BY <1>7, <1>9 DEF Listing!Delete
  <1>10. ASSUME NEW n \in Numbers, Listing!Others(n) PROVE ListingInv'
    <2>1. server' \in ListingServer
      BY <1>10 DEF Listing!Others, Listing!Changed, ListingInv, ListingServer
    <2>2. /\ ui' \in ListingState /\ ui'.filtered \subseteq ui'.all
          /\ ui'.loading = ui.loading /\ ui'.stale
      BY <1>10 DEF Listing!Others, ListingInv, ListingState
    <2>3. QED
      BY <1>10, <2>1, <2>2 DEF Listing!Others, ListingInv, Handles, Table, Lists, At
  <1>11. ASSUME NEW s \in Slots, Listing!Runs(s) PROVE ListingInv'
    BY <1>11, ListingServe, ListingAfterChange, ListingAfterList DEF Listing!Runs
  <1>12. QED
    BY <1>2, <1>3, <1>4, <1>5, <1>6, <1>8, <1>9, <1>10, <1>11
       DEF Acts, User, Others, Runs, Listing!User, Listing!Cardinality, Cardinality

LEMMA ListingHolds == Spec => []OnListing
  <1>1. Init => OnListing
    BY DEF Init, OnListing
  <1>2. ListingInv /\ UNCHANGED vars => ListingInv'
    BY DEF vars, ListingInv, ListFresh, Handles, Table, Lists, Changes, At
  <1>3. OnListing /\ [Next]_vars => OnListing'
    BY <1>2, PageSteps, ListingMounts, ListingSteps DEF OnListing, Acts, vars
  <1>4. QED
    BY <1>1, <1>3, PTL DEF Spec

---------------------------------------------------------------------------
(* The query builder *)

Rows == {r \in Seq(Queries!ProperRows) : Len(r) <= MaxRows}
QueryState == [rows : Rows, logical : {"$and", "$or"}, raw : BOOLEAN, read : BOOLEAN,
               results : BOOLEAN, loading : BOOLEAN, error : BOOLEAN]
QueryTask == [op : {"query", "load"}, at : {"request"}, status : {"sent", "ok", "failed"},
              data : {None}]

QueryInv ==
    /\ ui \in QueryState /\ Handles(Slots, QueryTask)
    /\ ui.loading => Doing(Slots, {"load"}) # {}

OnQuery == shown = "query" => QueryInv

USE DEF Queries!T!Idle, Queries!T!Running, Queries!T!CanRun, Queries!T!Run, Queries!T!Set,
        Queries!T!End, Queries!T!Waits, Queries!T!Back, Queries!T!Ok, Queries!T!Reply,
        Queries!T!Fail, Queries!T!Doing

LEMMA SameWithout == \A s, dropped : Queries!Without(s, dropped) = Without(s, dropped)
  BY DEF Queries!Without, Without

LEMMA QueryTypes ==
    /\ MaxRows \in Nat /\ <<>> \in Rows
    /\ \A query \in Imports : query.rows \in Rows
  BY DashboardAssumption DEF Queries!QueryAssumption, Rows

(* What is said of rows that have their types. *)
Said(rows) == Without(rows, Queries!Incomplete(rows))
Conditions(rows) == [i \in DOMAIN Said(rows) |-> Queries!Said(Said(rows)[i])]

LEMMA BuiltQuery ==
    \A rows, logical :
       Queries!BuildQuery(rows, logical) =
          CASE Len(Said(rows)) = 0 -> Queries!Everything
            [] Len(Said(rows)) = 1 -> Queries!Query("one", Conditions(rows))
            [] OTHER -> Queries!Query(logical, Conditions(rows))
  BY SameWithout DEF Queries!BuildQuery, Said, Conditions

(* A conversion gives a value that counts, and that the same conversion     *)
(* leaves as it is.                                                         *)
Number(value) == value \in Queries!RowValues /\ value.kind = "number" /\ value.parts # {"NaN"}

LEMMA ValueTypes ==
    /\ \A kind \in {"text", "number", "truth"}, parts \in SUBSET Queries!Words :
          /\ Queries!Value(kind, parts) \in Queries!RowValues
          /\ Queries!Value(kind, parts).kind = kind
          /\ Queries!Value(kind, parts).parts = parts
          /\ ~Queries!Value(kind, parts).comma
    /\ Queries!NoValue = Queries!Value("text", {})
    /\ \A value \in Queries!RowValues :
          /\ value.kind # "text" => value # Queries!NoValue
          /\ value.parts # {} => value # Queries!NoValue
    /\ "true" \in Queries!Words /\ "false" \in Queries!Words /\ "NaN" \in Queries!Words
    /\ "0" \in Queries!Words /\ Numerals \subseteq Parts /\ Parts \subseteq Queries!Words
    /\ "NaN" \notin Numerals
  BY DashboardAssumption
     DEF Queries!QueryAssumption, Queries!Value, Queries!NoValue, Queries!RowValues, Queries!Words

LEMMA ListAgain ==
    ASSUME NEW value \in Queries!RowValues
    PROVE  /\ Queries!ListOf(value) \in Queries!RowValues
           /\ Queries!ListOf(value).parts = value.parts
           /\ Queries!ListOf(Queries!ListOf(value)) = Queries!ListOf(value)
  <1>1. value.parts \in SUBSET Queries!Words
    BY DEF Queries!RowValues
  <1>2. QED
    BY <1>1, ValueTypes DEF Queries!ListOf

LEMMA NumberAgain ==
    ASSUME NEW value \in Queries!RowValues, Queries!IsNumber(value)
    PROVE  LET said == Queries!NumberOf(value) IN
           /\ said \in Queries!RowValues /\ said.kind = "number"
           /\ Queries!IsNumber(said) => Queries!NumberOf(said) = said
  <1>1. CASE value.kind = "truth"
    BY <1>1, ValueTypes DEF Queries!NumberOf, Queries!IsNumber
  <1>2. CASE value.kind # "truth"
    <2>1. Queries!NumberOf(value) = [value EXCEPT !.kind = "number"]
      BY <1>2 DEF Queries!NumberOf
    <2>2. [value EXCEPT !.kind = "number"] \in Queries!RowValues
      BY DEF Queries!RowValues
    <2>3. [value EXCEPT !.kind = "number"].kind = "number"
      BY DEF Queries!RowValues
    <2>4. Queries!NumberOf(Queries!NumberOf(value)) = Queries!NumberOf(value)
      BY <2>1, <2>2, <2>3 DEF Queries!NumberOf, Queries!RowValues
    <2>5. QED
      BY <2>1, <2>2, <2>3, <2>4
  <1>3. QED
    BY <1>1, <1>2

LEMMA TruthAgain ==
    ASSUME NEW value \in Queries!RowValues
    PROVE  LET said == Queries!TruthOf(value) IN
           /\ said \in Queries!RowValues /\ said.kind = "truth"
           /\ Queries!TruthOf(said) = said
  <1> DEFINE word == IF value.kind # "number" /\ value.parts = {"true"} /\ ~value.comma
                       THEN "true" ELSE "false"
             said == Queries!Value("truth", {word})
  <1>1. Queries!TruthOf(value) = said
    BY DEF Queries!TruthOf
  <1>2. word \in {"true", "false"}
    OBVIOUS
  <1> HIDE DEF word
  <1>3. {word} \in SUBSET Queries!Words
    BY <1>2, ValueTypes
  <1>4. /\ said \in Queries!RowValues /\ said.kind = "truth" /\ said.parts = {word}
        /\ ~said.comma
    BY <1>3, ValueTypes
  <1>5. Queries!TruthOf(said) = said
    BY <1>2, <1>4 DEF Queries!TruthOf
  <1>6. QED
    BY <1>1, <1>4, <1>5

LEMMA SizeAgain ==
    ASSUME NEW value \in Queries!RowValues
    PROVE  LET said == Queries!SizeOf(value) IN
           Number(said) /\ Queries!SizeOf(said) = said
  <1> DEFINE numerals == value.parts \cap Numerals
  <1>1. Number(Queries!SizeOf(value))
    <2>1. CASE Number(value)
      BY <2>1 DEF Number, Queries!SizeOf
    <2>2. CASE ~Number(value) /\ value.kind = "text" /\ numerals # {}
      <3>1. PICK p \in numerals : Queries!SizeOf(value) = Queries!Value("number", {p})
        BY <2>2 DEF Number, Queries!SizeOf
      <3>2. {p} \in SUBSET Queries!Words /\ {p} # {"NaN"}
        BY <3>1, ValueTypes
      <3>3. QED
        BY <3>1, <3>2, ValueTypes DEF Number
    <2>3. CASE ~Number(value) /\ ~(value.kind = "text" /\ numerals # {})
      <3>1. Queries!SizeOf(value) = Queries!Value("number", {"0"})
        BY <2>3 DEF Number, Queries!SizeOf
      <3>2. {"0"} \in SUBSET Queries!Words /\ {"0"} # {"NaN"}
        BY ValueTypes
      <3>3. QED
        BY <3>1, <3>2, ValueTypes DEF Number
    <2>4. QED
      BY <2>1, <2>2, <2>3
  <1>2. ASSUME NEW said, Number(said) PROVE Queries!SizeOf(said) = said
    BY <1>2 DEF Number, Queries!SizeOf
  <1>3. QED
    BY <1>1, <1>2

LEMMA SaidValues ==
    ASSUME NEW type, NEW op, NEW value \in Queries!RowValues,
           ~(type = "number" /\ op \in {"$exists", "$size"})
    PROVE  LET said == Queries!SaidValue(type, op, value) IN
           /\ said \in Queries!RowValues
           /\ Queries!SaidValue(type, op, said) = said
           /\ value # Queries!NoValue /\ (op = "$in" => value.parts # {})
                => said # Queries!NoValue
  <1> DEFINE said == Queries!SaidValue(type, op, value)
  <1>1. CASE op = "$in"
    <2>1. said = Queries!ListOf(value)
      BY <1>1 DEF Queries!SaidValue
    <2>2. said \in Queries!RowValues /\ said.parts = value.parts /\ Queries!ListOf(said) = said
      BY <2>1, ListAgain
    <2> HIDE DEF said
    <2>3. Queries!SaidValue(type, op, said) = said
      BY <1>1, <2>2 DEF Queries!SaidValue
    <2>4. QED
      BY <1>1, <2>2, <2>3, ValueTypes DEF said
  <1>2. CASE op # "$in" /\ type = "number" /\ Queries!IsNumber(value)
    <2>1. said = Queries!NumberOf(value)
      BY <1>2 DEF Queries!SaidValue
    <2>2. said \in Queries!RowValues /\ said.kind = "number"
          /\ (Queries!IsNumber(said) => Queries!NumberOf(said) = said)
      BY <1>2, <2>1, NumberAgain
    <2> HIDE DEF said
    <2>3. Queries!SaidValue(type, op, said) = said
      BY <1>2, <2>2 DEF Queries!SaidValue
    <2>4. QED
      BY <2>2, <2>3, ValueTypes DEF said
  <1>3. CASE op # "$in" /\ type # "number" /\ (type = "boolean" \/ op = "$exists")
    <2>1. said = Queries!TruthOf(value)
      BY <1>3 DEF Queries!SaidValue
    <2>2. said \in Queries!RowValues /\ said.kind = "truth" /\ Queries!TruthOf(said) = said
      BY <2>1, TruthAgain
    <2> HIDE DEF said
    <2>3. Queries!SaidValue(type, op, said) = said
      BY <1>3, <2>2 DEF Queries!SaidValue
    <2>4. QED
      BY <2>2, <2>3, ValueTypes DEF said
  <1>4. CASE op = "$size" /\ type # "number" /\ type # "boolean"
    <2>1. said = Queries!SizeOf(value)
      BY <1>4 DEF Queries!SaidValue
    <2>2. Number(said) /\ Queries!SizeOf(said) = said
      BY <2>1, SizeAgain
    <2> HIDE DEF said
    <2>3. Queries!SaidValue(type, op, said) = said
      BY <1>4, <2>2 DEF Queries!SaidValue
    <2>4. QED
      BY <2>2, <2>3, ValueTypes DEF said, Number
  <1>5. CASE said = value /\ op # "$in"
    BY <1>5
  <1>6. QED
    BY <1>1, <1>2, <1>3, <1>4, <1>5 DEF Queries!SaidValue

(* Whatever the type and the operator are, a conversion gives a value. *)
LEMMA SaidTypes ==
    ASSUME NEW type, NEW op, NEW value \in Queries!RowValues
    PROVE  Queries!SaidValue(type, op, value) \in Queries!RowValues
  BY ListAgain, NumberAgain, TruthAgain, SizeAgain DEF Queries!SaidValue, Number

LEMMA SaidRow ==
    ASSUME NEW row \in Queries!ProperRows
    PROVE  /\ Queries!Said(row) \in Queries!ProperRows
           /\ Queries!Said(row).field = row.field /\ Queries!Said(row).op = row.op
           /\ Queries!Said(row).value =
                 Queries!SaidValue(Queries!FieldType(row.field), row.op, row.value)
  <1>1. row.value \in Queries!RowValues
    BY DEF Queries!ProperRows
  <1>2. Queries!SaidValue(Queries!FieldType(row.field), row.op, row.value) \in Queries!RowValues
    BY <1>1, SaidTypes
  <1>3. QED
    BY <1>2 DEF Queries!Said, Queries!ProperRows

(* A condition that the exchange keeps is complete again, and says the same. *)
LEMMA SteadyRow ==
    ASSUME NEW row \in Queries!ProperRows, Queries!Complete(row), ~Queries!Unsteady(row)
    PROVE  /\ Queries!Complete(Queries!Said(row))
           /\ Queries!Said(Queries!Said(row)) = Queries!Said(row)
  <1> DEFINE type == Queries!FieldType(row.field)
             said == Queries!Said(row)
  <1>1. row.value \in Queries!RowValues /\ row.value # Queries!NoValue /\ row.field # None
    BY DEF Queries!ProperRows, Queries!Complete
  <1>2. /\ ~(type = "number" /\ row.op \in {"$exists", "$size"})
        /\ row.op = "$in" => row.value.parts # {}
    BY DEF Queries!Unsteady
  <1>3. /\ said \in Queries!ProperRows /\ said.field = row.field /\ said.op = row.op
        /\ said.value = Queries!SaidValue(type, row.op, row.value)
    BY SaidRow
  <1> HIDE DEF said
  <1>4. /\ Queries!SaidValue(type, row.op, said.value) = said.value
        /\ said.value # Queries!NoValue
    BY <1>1, <1>2, <1>3, SaidValues
  <1>5. Queries!Said(said) = [said EXCEPT !.value = said.value]
    BY <1>3, <1>4 DEF Queries!Said
  <1>6. [said EXCEPT !.value = said.value] = said
    BY <1>3 DEF Queries!ProperRows
  <1>7. QED
    BY <1>1, <1>3, <1>4, <1>5, <1>6 DEF Queries!Complete, said

LEMMA SaidRows ==
    ASSUME NEW rows \in Rows
    PROVE  /\ Said(rows) \in Rows /\ Len(Said(rows)) <= Len(rows)
           /\ \A i \in 1..Len(Said(rows)) :
                \E j \in 1..Len(rows) : Said(rows)[i] = rows[j] /\ Queries!Complete(rows[j])
  <1> DEFINE said == Said(rows)
             dropped == Queries!Incomplete(rows)
  <1>1. rows \in Seq(Queries!ProperRows) /\ Len(rows) <= MaxRows /\ MaxRows \in Nat
        /\ DOMAIN rows = 1..Len(rows)
    BY QueryTypes DEF Rows
  <1>2. said \in Seq(Queries!ProperRows) /\ Len(said) <= Len(rows)
        /\ \A i \in 1..Len(said) : \E j \in 1..Len(rows) : said[i] = rows[j] /\ rows[j] \notin dropped
    BY <1>1, WithoutSeq, WithoutLen, WithoutElements DEF Said
  <1>3. \A j \in 1..Len(rows) : rows[j] \notin dropped => Queries!Complete(rows[j])
    BY <1>1 DEF Queries!Incomplete
  <1> HIDE DEF said, dropped
  <1>4. said \in Rows
    BY <1>1, <1>2 DEF Rows
  <1>5. QED
    BY <1>2, <1>3, <1>4 DEF said

LEMMA ConditionRows ==
    ASSUME NEW rows \in Rows
    PROVE  /\ Conditions(rows) \in Rows /\ Len(Conditions(rows)) = Len(Said(rows))
           /\ \A i \in 1..Len(Said(rows)) : Conditions(rows)[i] = Queries!Said(Said(rows)[i])
  <1> DEFINE said == Said(rows)
  <1>1. said \in Seq(Queries!ProperRows) /\ Len(said) <= MaxRows /\ DOMAIN said = 1..Len(said)
        /\ Len(said) \in Nat
    BY SaidRows DEF Rows
  <1>2. \A i \in 1..Len(said) : Queries!Said(said[i]) \in Queries!ProperRows
    BY <1>1, SaidRow
  <1>3. Conditions(rows) = [i \in 1..Len(said) |-> Queries!Said(said[i])]
    BY <1>1 DEF Conditions
  <1> HIDE DEF said
  <1>4. Conditions(rows) \in Seq(Queries!ProperRows) /\ Len(Conditions(rows)) = Len(said)
    BY <1>1, <1>2, <1>3
  <1>5. QED
    BY <1>1, <1>3, <1>4 DEF Rows, said

(* A query that was built, or pasted, is read back into rows. *)
LEMMA QueryRows ==
    ASSUME NEW rows \in Rows, NEW left \in Rows, NEW logical \in {"$and", "$or"},
           NEW other \in {"$and", "$or"}
    PROVE  LET query == Queries!BuildQuery(rows, logical) IN
           /\ Queries!ParsedRows(query, left) \in Rows
           /\ Queries!ParsedLogical(query, other) \in {"$and", "$or"}
  <1> DEFINE query == Queries!BuildQuery(rows, logical)
  <1>1. query.rows = <<>> \/ query.rows = Conditions(rows)
    BY BuiltQuery DEF Queries!Everything, Queries!Query
  <1> HIDE DEF query
  <1>2. Queries!ParsedRows(query, left) \in Rows
    BY <1>1, ConditionRows DEF Queries!ParsedRows
  <1>3. Queries!ParsedLogical(query, other) \in {"$and", "$or"}
    BY DEF Queries!ParsedLogical
  <1>4. QED
    BY <1>2, <1>3 DEF query

(* Rows that were said once are all said again, as they are. *)
LEMMA SaidAgain ==
    ASSUME NEW rows \in Rows,
           \A i \in DOMAIN rows : ~Queries!Unsteady(rows[i])
    PROVE  Said(Conditions(rows)) = Conditions(rows)
           /\ Conditions(Conditions(rows)) = Conditions(rows)
  <1> DEFINE said == Said(rows)
             again == Conditions(rows)
  <1>1. /\ again \in Seq(Queries!ProperRows) /\ Len(again) = Len(said) /\ said \in Rows
        /\ again \in Rows /\ DOMAIN again = 1..Len(said) /\ DOMAIN rows = 1..Len(rows)
        /\ \A i \in 1..Len(said) : again[i] = Queries!Said(said[i])
    BY SaidRows, ConditionRows DEF Rows
  <1>2. ASSUME NEW i \in 1..Len(said)
        PROVE  Queries!Complete(again[i]) /\ Queries!Said(again[i]) = again[i]
               /\ again[i] \in Queries!ProperRows
    <2>1. PICK j \in 1..Len(rows) : said[i] = rows[j] /\ Queries!Complete(rows[j])
      BY SaidRows
    <2>2. rows[j] \in Queries!ProperRows /\ ~Queries!Unsteady(rows[j])
      BY <1>1 DEF Rows
    <2>3. again[i] = Queries!Said(rows[j])
      BY <1>1, <2>1
    <2>4. QED
      BY <2>1, <2>2, <2>3, SaidRow, SteadyRow
  <1>3. \A i \in 1..Len(again) : again[i] \notin Queries!Incomplete(again)
    BY <1>1, <1>2 DEF Queries!Incomplete
  <1> HIDE DEF again, said
  <1>4. Said(again) = again
    BY <1>1, <1>3, WithoutNothing DEF Said
  <1>5. Conditions(again) = [i \in 1..Len(said) |-> again[i]]
    BY <1>1, <1>2, <1>4 DEF Conditions
  <1>6. again = [i \in 1..Len(said) |-> again[i]]
    BY <1>1
  <1>7. QED
    BY <1>4, <1>5, <1>6 DEF again

LEMMA ReadBack ==
    ASSUME NEW rows \in Rows, NEW logical \in {"$and", "$or"},
           \A i \in DOMAIN rows : ~Queries!Unsteady(rows[i])
    PROVE  LET query == Queries!BuildQuery(rows, logical) IN
           Queries!BuildQuery(Queries!ParsedRows(query, rows),
                              Queries!ParsedLogical(query, logical)) = query
  <1> DEFINE again == Conditions(rows)
             said == Said(rows)
             query == Queries!BuildQuery(rows, logical)
  <1>1. again \in Rows /\ Len(again) = Len(said) /\ Len(said) \in Nat
        /\ Said(again) = again /\ Conditions(again) = again
    BY SaidRows, ConditionRows, SaidAgain DEF Rows
  <1> HIDE DEF again, said
  <1>2. CASE Len(said) = 0
    <2>1. query = Queries!Everything
      BY <1>2, BuiltQuery DEF said
    <2>2. Queries!ParsedRows(query, rows) = rows /\ Queries!ParsedLogical(query, logical) = logical
      BY <2>1 DEF Queries!Everything, Queries!Query, Queries!ParsedRows, Queries!ParsedLogical
    <2>3. QED
      BY <2>2
  <1>3. CASE Len(said) = 1
    <2>1. query = Queries!Query("one", again)
      BY <1>3, BuiltQuery DEF said, again
    <2>2. again # <<>>
      BY <1>1, <1>3
    <2>3. Queries!ParsedRows(query, rows) = again /\ Queries!ParsedLogical(query, logical) = logical
      BY <2>1, <2>2 DEF Queries!Query, Queries!ParsedRows, Queries!ParsedLogical
    <2>4. Len(Said(again)) = 1 /\ Len(Said(again)) # 0 /\ Conditions(again) = again
      BY <1>1, <1>3
    <2>5. Queries!BuildQuery(again, logical) = Queries!Query("one", Conditions(again))
      BY <2>4, BuiltQuery
    <2>6. QED
      BY <2>1, <2>3, <2>4, <2>5
  <1>4. CASE Len(said) > 1
    <2>1. query = Queries!Query(logical, again)
      <3>1. Len(said) # 0 /\ Len(said) # 1
        BY <1>1, <1>4
      <3>2. QED
        BY <3>1, BuiltQuery DEF said, again
    <2>2. again # <<>>
      BY <1>1, <1>4
    <2>3. Queries!ParsedRows(query, rows) = again /\ Queries!ParsedLogical(query, logical) = logical
      BY <2>1, <2>2 DEF Queries!Query, Queries!ParsedRows, Queries!ParsedLogical
    <2>4. Len(Said(again)) # 0 /\ Len(Said(again)) # 1 /\ Conditions(again) = again
      <3>1. Len(said) # 0 /\ Len(said) # 1
        BY <1>1, <1>4
      <3>2. Len(Said(again)) = Len(said)
        BY <1>1
      <3>3. QED
        BY <1>1, <3>1, <3>2
    <2>5. Queries!BuildQuery(again, logical) = Queries!Query(logical, Conditions(again))
      BY <2>4, BuiltQuery
    <2>6. QED
      BY <2>1, <2>3, <2>4, <2>5
  <1>5. QED
    BY <1>1, <1>2, <1>3, <1>4

LEMMA QueryTaskType ==
    ASSUME NEW op \in {"query", "load"}
    PROVE  LET t == Queries!Task(op) IN t \in QueryTask /\ t # Idle /\ t.op = op
  BY DEF Queries!Task, QueryTask, Idle

LEMMA QueryMounts == Mounts("query") => QueryInv'
  <1> SUFFICES ASSUME Mounts("query") PROVE QueryInv'
    OBVIOUS
  <1>1. ui' = Queries!First /\ tasks' = [s \in Slots |-> Idle]
    BY DEF Mounts, Starts, Queries!Starts, Queries!T!AllIdle, Idle
  <1>2. ui' \in QueryState /\ ~ui'.loading
    BY <1>1, QueryTypes DEF Queries!First, QueryState
  <1>3. Handles(Slots, QueryTask)'
    BY <1>1 DEF Handles, Table
  <1>4. QED
    BY <1>2, <1>3 DEF QueryInv

(* The rows after a change of one, or without one. *)
LEMMA RowsChanged ==
    ASSUME NEW rows \in Rows, NEW i \in DOMAIN rows, NEW row \in Queries!ProperRows
    PROVE  [rows EXCEPT ![i] = row] \in Rows
  BY DEF Rows

LEMMA RowsAdded ==
    ASSUME NEW rows \in Rows, NEW row \in Queries!ProperRows, Len(rows) < MaxRows
    PROVE  Append(rows, row) \in Rows
  <1>1. MaxRows \in Nat
    BY QueryTypes
  <1>2. QED
    BY <1>1 DEF Rows

LEMMA RowsLess ==
    ASSUME NEW rows \in Rows, NEW i \in DOMAIN rows
    PROVE  SubSeq(rows, 1, i - 1) \o SubSeq(rows, i + 1, Len(rows)) \in Rows
  <1> DEFINE P == Queries!ProperRows
             a == SubSeq(rows, 1, i - 1)
             b == SubSeq(rows, i + 1, Len(rows))
  <1>1. rows \in Seq(P) /\ i \in 1..Len(rows) /\ Len(rows) <= MaxRows /\ MaxRows \in Nat
        /\ Len(rows) \in Nat
    BY QueryTypes DEF Rows
  <1> HIDE DEF P
  <1>2. a \in Seq(P) /\ Len(a) = i - 1
    BY <1>1
  <1>3. b \in Seq(P) /\ Len(b) = Len(rows) - i
    BY <1>1
  <1> HIDE DEF a, b
  <1>4. a \o b \in Seq(P) /\ Len(a \o b) = Len(rows) - 1
    BY <1>1, <1>2, <1>3
  <1>5. QED
    BY <1>1, <1>4 DEF Rows, P, a, b

LEMMA RowTypes ==
    /\ Queries!NewRow \in Queries!ProperRows
    /\ \A row \in Queries!ProperRows, field \in Fields \cup {None} :
          Queries!WithField(row, field) \in Queries!ProperRows
    /\ \A row \in Queries!ProperRows, op \in UNION {Queries!Operators(Queries!FieldType(f)) :
                                                      f \in Fields} :
          [row EXCEPT !.op = op] \in Queries!ProperRows
    /\ \A row \in Queries!ProperRows, value \in Queries!RowValues :
          [row EXCEPT !.value = value] \in Queries!ProperRows
  <1> DEFINE Ops == UNION {Queries!Operators(Queries!FieldType(f)) : f \in Fields \cup {None}}
  <1>1. "$eq" \in Ops
    BY DEF Queries!Operators
  <1>2. Queries!NoValue \in Queries!RowValues
    BY ValueTypes
  <1>3. \A op \in UNION {Queries!Operators(Queries!FieldType(f)) : f \in Fields} : op \in Ops
    OBVIOUS
  <1>4. Queries!ProperRows = [field : Fields \cup {None}, op : Ops, value : Queries!RowValues]
    BY DEF Queries!ProperRows
  <1> HIDE DEF Ops
  <1>5. QED
    BY <1>1, <1>2, <1>3, <1>4 DEF Queries!NewRow, Queries!Row, Queries!WithField

LEMMA Enterables ==
    ASSUME NEW row, NEW value \in Queries!Enterable(row) PROVE value \in Queries!RowValues
  <1> DEFINE none == Queries!NoValue
             word(w) == Queries!Value("text", {w})
             texts == [kind : {"text"}, parts : SUBSET Parts, comma : BOOLEAN]
  <1>1. none \in Queries!RowValues
    <2>1. {} \in SUBSET Queries!Words
      OBVIOUS
    <2>2. QED
      BY <2>1, ValueTypes
  <1>2. ASSUME NEW w \in Queries!Words PROVE word(w) \in Queries!RowValues
    <2>1. {w} \in SUBSET Queries!Words
      OBVIOUS
    <2>2. QED
      BY <2>1, ValueTypes
  <1>3. \A text \in texts : text \in Queries!RowValues
    BY ValueTypes DEF Queries!RowValues
  <1>4. value = none \/ (\E w \in Queries!Words : value = word(w)) \/ value \in texts
    <2>1. \A p \in Parts \cup Numerals \cup {"true", "false"} : p \in Queries!Words
      BY ValueTypes
    <2> HIDE DEF word, texts
    <2>2. value \in {word("true"), word("false")} => \E w \in Queries!Words : value = word(w)
      BY <2>1
    <2>3. value \in {none} \cup {word(p) : p \in Numerals}
            => value = none \/ \E w \in Queries!Words : value = word(w)
      BY <2>1
    <2>4. value \in {none} \cup {word(p) : p \in Parts}
            => value = none \/ \E w \in Queries!Words : value = word(w)
      BY <2>1
    <2>5. \/ value \in {word("true"), word("false")} \cup {none}
          \/ value \in {none} \cup {word(p) : p \in Numerals}
          \/ value \in {none} \cup {word(p) : p \in Parts}
          \/ value \in texts
      BY DEF Queries!Enterable, word, texts
    <2>6. QED
      BY <2>2, <2>3, <2>4, <2>5
  <1>5. QED
    BY <1>1, <1>2, <1>3, <1>4

LEMMA QueryRun ==
    ASSUME QueryInv, NEW op \in {"query", "load"}, Queries!T!CanRun,
           Queries!T!Run(Queries!Task(op)), ui' \in QueryState,
           ui'.loading => ui.loading \/ op = "load"
    PROVE  QueryInv'
  <1> DEFINE t == Queries!Task(op)
  <1>1. t \in QueryTask /\ t # Idle /\ t.op = op
    BY QueryTaskType
  <1>2. Busy(Slots) # Slots /\ tasks' = [tasks EXCEPT ![Least(Slots \ Busy(Slots))] = t]
    BY DEF Least, Busy, Idle
  <1> HIDE DEF t
  <1>3. PICK n \in Slots \ Busy(Slots) : Puts(Slots, n, t) /\ Handles(Slots, QueryTask)'
    BY <1>1, <1>2, RunHandles, DashboardAssumption DEF QueryInv
  <1>4. n \in Slots /\ n \notin Busy(Slots)
    BY <1>3 DEF Busy
  <1>5. /\ Doing(Slots, {"load"}) \subseteq Doing(Slots, {"load"})'
        /\ op = "load" => n \in Doing(Slots, {"load"})'
    BY <1>1, <1>3, <1>4 DEF Puts, Doing, Busy
  <1>6. QED
    BY <1>3, <1>5 DEF QueryInv

LEMMA QuerySteps == QueryInv /\ Acts("query") => QueryInv'
  <1> SUFFICES ASSUME QueryInv, Acts("query") PROVE QueryInv'
    OBVIOUS
  <1>1. ui \in QueryState /\ ui.rows \in Rows /\ ui.logical \in {"$and", "$or"}
    BY DEF QueryInv, QueryState
  <1>2. ASSUME UNCHANGED tasks, ui' \in QueryState, ui'.loading = ui.loading PROVE QueryInv'
    BY <1>2 DEF QueryInv, Handles, Table, Doing
  <1>3. ASSUME NEW rows \in Rows, NEW logical \in {"$and", "$or"}, NEW raw \in BOOLEAN,
               NEW read \in BOOLEAN, UNCHANGED tasks,
               ui' = [ui EXCEPT !.rows = rows, !.logical = logical, !.raw = raw, !.read = read]
        PROVE  QueryInv'
    <2>1. ui' \in QueryState /\ ui'.loading = ui.loading
      BY <1>1, <1>3 DEF QueryState
    <2>2. QED
      BY <1>2, <1>3, <2>1
  <1>4. ASSUME NEW rows \in Rows, UNCHANGED tasks, ui' = [ui EXCEPT !.rows = rows, !.read = FALSE]
        PROVE  QueryInv'
    <2>1. ui' \in QueryState /\ ui'.loading = ui.loading
      BY <1>1, <1>4 DEF QueryState
    <2>2. QED
      BY <1>2, <1>4, <2>1
  <1>5. CASE Queries!AddCondition
    BY <1>1, <1>4, <1>5, RowsAdded, RowTypes DEF Queries!AddCondition
  <1>6. ASSUME NEW i \in DOMAIN ui.rows, Queries!RemoveCondition(i) PROVE QueryInv'
    BY <1>1, <1>4, <1>6, RowsLess DEF Queries!RemoveCondition
  <1>7. ASSUME NEW i \in DOMAIN ui.rows PROVE ui.rows[i] \in Queries!ProperRows
    BY <1>1 DEF Rows
  <1>8. ASSUME NEW i \in DOMAIN ui.rows, NEW f \in Fields \cup {None},
               Queries!ChooseField(i, f)
        PROVE  QueryInv'
    <2>1. ui' = [ui EXCEPT !.rows = [ui.rows EXCEPT ![i] = Queries!WithField(ui.rows[i], f)],
                           !.read = FALSE]
      BY <1>8 DEF Queries!ChooseField
    <2>2. QED
      BY <1>1, <1>4, <1>7, <1>8, <2>1, RowsChanged, RowTypes DEF Queries!ChooseField
  <1>9. ASSUME NEW i \in DOMAIN ui.rows,
               NEW op \in UNION {Queries!Operators(Queries!FieldType(f)) : f \in Fields},
               Queries!ChooseOperator(i, op)
        PROVE  QueryInv'
    <2>1. ui' = [ui EXCEPT !.rows = [ui.rows EXCEPT ![i] = [ui.rows[i] EXCEPT !.op = op]],
                           !.read = FALSE]
      BY <1>9 DEF Queries!ChooseOperator
    <2>2. [ui.rows[i] EXCEPT !.op = op] \in Queries!ProperRows
      BY <1>7, RowTypes
    <2>3. QED
      BY <1>1, <1>4, <1>9, <2>1, <2>2, RowsChanged DEF Queries!ChooseOperator
  <1>10. ASSUME NEW i \in DOMAIN ui.rows, NEW v \in Queries!Enterable(ui.rows[i]),
                Queries!EnterValue(i, v)
         PROVE  QueryInv'
    <2>1. ui' = [ui EXCEPT !.rows = [ui.rows EXCEPT ![i] = [ui.rows[i] EXCEPT !.value = v]],
                           !.read = FALSE]
      BY <1>10 DEF Queries!EnterValue
    <2>2. [ui.rows[i] EXCEPT !.value = v] \in Queries!ProperRows
      BY <1>7, <1>10, RowTypes, Enterables
    <2>3. QED
      BY <1>1, <1>4, <1>10, <2>1, <2>2, RowsChanged DEF Queries!EnterValue
  <1>11. CASE Queries!ChooseLogical \/ Queries!ToggleRaw \/ Queries!ClearResults
    <2>1. ui' \in QueryState /\ ui'.loading = ui.loading
      BY <1>1, <1>11 DEF QueryState, Queries!ChooseLogical, Queries!ToggleRaw, Queries!ClearResults
    <2>2. QED
      BY <1>2, <1>11, <2>1 DEF Queries!ChooseLogical, Queries!ToggleRaw, Queries!ClearResults
  <1>12. ASSUME NEW query \in Imports, Queries!ImportQuery(query) PROVE QueryInv'
    <2>1. /\ Queries!ParsedRows(query, ui.rows) \in Rows
          /\ Queries!ParsedLogical(query, ui.logical) \in {"$and", "$or"}
      BY <1>1, QueryTypes DEF Queries!ParsedRows, Queries!ParsedLogical
    <2>2. ui' \in QueryState /\ ui'.loading = ui.loading
      BY <1>1, <1>12, <2>1 DEF Queries!ImportQuery, QueryState
    <2>3. QED
      BY <1>2, <1>12, <2>2 DEF Queries!ImportQuery
  <1>13. CASE Queries!Feedback
    <2> DEFINE query == Queries!BuildQuery(ui.rows, ui.logical)
    <2>1. /\ Queries!ParsedRows(query, ui.rows) \in Rows
          /\ Queries!ParsedLogical(query, ui.logical) \in {"$and", "$or"}
      BY <1>1, QueryRows
    <2>2. ui' = [ui EXCEPT !.rows = Queries!ParsedRows(query, ui.rows), !.read = TRUE,
                           !.logical = Queries!ParsedLogical(query, ui.logical)]
      BY <1>13 DEF Queries!Feedback
    <2> HIDE DEF query
    <2>3. ui' \in QueryState /\ ui'.loading = ui.loading
      BY <1>1, <2>1, <2>2 DEF QueryState
    <2>4. QED
      BY <1>2, <1>13, <2>3 DEF Queries!Feedback
  <1>14. CASE Queries!Execute
    BY <1>1, <1>14, QueryRun DEF Queries!Execute
  <1>15. CASE Queries!Refresh
    <2>1. ui' \in QueryState
      BY <1>1, <1>15 DEF Queries!Refresh, QueryState
    <2>2. QED
      BY <1>15, <2>1, QueryRun DEF Queries!Refresh
  <1>16. ASSUME NEW s \in Slots, Queries!Serve(s) PROVE QueryInv'
    <2>1. tasks[s] \in QueryTask /\ UNCHANGED ui
      BY <1>16 DEF Queries!Serve, QueryInv, Handles, Idle
    <2>2. PICK t \in QueryTask : t.op = tasks[s].op /\ tasks' = [tasks EXCEPT ![s] = t]
      <3>1. /\ [tasks[s] EXCEPT !.status = "ok", !.data = None] \in QueryTask
            /\ [tasks[s] EXCEPT !.status = "failed"] \in QueryTask
        BY <2>1 DEF QueryTask
      <3>2. \E t \in QueryTask : t.op = tasks[s].op /\ tasks' = [tasks EXCEPT ![s] = t]
        BY <1>16, <2>1, <3>1 DEF Queries!Serve, QueryTask
      <3>3. QED
        BY <3>2
    <2>3. Puts(Slots, s, t) /\ Handles(Slots, QueryTask)'
      BY <2>2, SetHandles DEF QueryInv
    <2>4. t # Idle /\ tasks[s] # Idle
      BY <1>16 DEF QueryTask, Idle, Queries!Serve
    <2>5. Doing(Slots, {"load"})' = Doing(Slots, {"load"})
      BY <2>2, <2>3, <2>4 DEF Puts, Doing
    <2>6. QED
      BY <2>1, <2>3, <2>5 DEF QueryInv
  <1>17. ASSUME NEW s \in Slots, Queries!AfterQuery(s) PROVE QueryInv'
    <2>1. ui' \in QueryState /\ ui'.loading = ui.loading
      BY <1>1, <1>17 DEF Queries!AfterQuery, QueryState
    <2>2. Puts(Slots, s, Idle) /\ Handles(Slots, QueryTask)'
      BY <1>17, SetHandles DEF Queries!AfterQuery, QueryInv, Idle
    <2>3. tasks[s].op = "query"
      BY <1>17 DEF Queries!AfterQuery
    <2>4. Doing(Slots, {"load"})' = Doing(Slots, {"load"})
      BY <2>2, <2>3 DEF Puts, Doing
    <2>5. QED
      BY <2>1, <2>2, <2>4 DEF QueryInv
  <1>18. ASSUME NEW s \in Slots, Queries!AfterLoad(s) PROVE QueryInv'
    <2> DEFINE query == Queries!BuildQuery(ui.rows, ui.logical)
    <2>1. /\ Queries!ParsedRows(query, <<>>) \in Rows
          /\ Queries!ParsedLogical(query, "$and") \in {"$and", "$or"}
      BY <1>1, QueryRows, QueryTypes
    <2>2. ui' = [ui EXCEPT !.loading = FALSE, !.raw = FALSE,
                           !.rows = Queries!ParsedRows(query, <<>>),
                           !.logical = Queries!ParsedLogical(query, "$and")]
      BY <1>18 DEF Queries!AfterLoad
    <2> HIDE DEF query
    <2>3. ui' \in QueryState /\ ~ui'.loading
      BY <1>1, <2>1, <2>2 DEF QueryState
    <2>4. Handles(Slots, QueryTask)'
      BY <1>18, SetHandles DEF Queries!AfterLoad, QueryInv, Idle
    <2>5. QED
      BY <2>3, <2>4 DEF QueryInv
  <1>19. QED
    BY <1>5, <1>6, <1>8, <1>9, <1>10, <1>11, <1>12, <1>13, <1>14, <1>15, <1>16, <1>17, <1>18
       DEF Acts, User, Others, Runs, Queries!User, Queries!Runs

LEMMA QueryHolds == Spec => []OnQuery
  <1>1. Init => OnQuery
    BY DEF Init, OnQuery
  <1>2. OnQuery /\ UNCHANGED vars => OnQuery'
    BY DEF OnQuery, vars, QueryInv, Handles, Table, Doing
  <1>3. OnQuery /\ [Next]_vars => OnQuery'
    BY <1>2, PageSteps, QueryMounts, QuerySteps DEF OnQuery, Acts
  <1>4. QED
    BY <1>1, <1>3, PTL DEF Spec

(* Whatever the fields, their types and the rows are, what the builder and  *)
(* the page tell each other says the same query, if no list is made of      *)
(* commas alone and no number is asked whether it exists                    *)
(* (VisualQueryBuilder.jsx:38, 239, 290).                                   *)
THEOREM QueryStays == Spec => []QuerySurvives
  <1>1. OnQuery => QuerySurvives
    <2> SUFFICES ASSUME QueryInv PROVE Queries!QuerySurvives
      BY DEF OnQuery, QuerySurvives
    <2>1. ui.rows \in Rows /\ ui.logical \in {"$and", "$or"}
      BY DEF QueryInv, QueryState
    <2>2. QED
      BY <2>1, ReadBack DEF Queries!QuerySurvives, Queries!EveryQuerySurvives, Queries!Survives
  <1>2. QED
    BY <1>1, QueryHolds, PTL
=============================================================================
