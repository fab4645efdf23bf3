------------------------------- MODULE Tasks -------------------------------
(***************************************************************************)
(* The asynchronous handlers of a dashboard page.  A handler that awaits a  *)
(* request is a task: a record with what it captured, where it is ("at"),   *)
(* and the status of the request it awaits.  Handlers run to completion     *)
(* between two awaits, so each such piece is one step.                      *)
(***************************************************************************)
EXTENDS Naturals, FiniteSets

CONSTANT Slots  \* bound on the handlers under way at once

VARIABLE tasks

Idle == [op |-> "none"]
AllIdle == [s \in Slots |-> Idle]

Running == {s \in Slots : tasks[s] # Idle}
Quiet == Running = {}
CanRun == Running # Slots
At(where) == {s \in Running : tasks[s].at = where}
Doing(op) == {s \in Slots : tasks[s].op = op}

Run(task) ==
    tasks' = [tasks EXCEPT
                ![CHOOSE s \in Slots \ Running :
                    \A r \in Slots \ Running : s <= r] = task]

Set(s, task) == tasks' = [tasks EXCEPT ![s] = task]
End(s) == Set(s, Idle)

\* The request of task s is answered: by an error, or with data.
Fail(s) == Set(s, [tasks[s] EXCEPT !.status = "failed"])
Reply(s, data) == Set(s, [tasks[s] EXCEPT !.status = "ok", !.data = data])

Waits(s, where) == tasks[s] # Idle /\ tasks[s].at = where /\ tasks[s].status = "sent"
Back(s, where) == tasks[s] # Idle /\ tasks[s].at = where /\ tasks[s].status # "sent"
Ok(s) == tasks[s].status = "ok"
=============================================================================
