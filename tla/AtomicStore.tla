---------------------------- MODULE AtomicStore ----------------------------
(***************************************************************************)
(* What a collection should be to its clients: a set of documents on which *)
(* every request takes effect at one instant, at most once, and on the     *)
(* document as it is at that instant.                                      *)
(***************************************************************************)
CONSTANTS Requests, Ids,
          Effect(_, _, _)   \* a request, its document before and after

VARIABLES req,     \* the requests; never changes
          table,   \* the documents
          done     \* the requests that have taken effect

vars == <<req, table, done>>

Init == done = {}

Perform(r) ==
    /\ r \notin done
    /\ Effect(req[r], table[req[r].id], table'[req[r].id])
    /\ \A i \in Ids \ {req[r].id} : table'[i] = table[i]
    /\ done' = done \cup {r}
    /\ UNCHANGED req

Next == \E r \in Requests : Perform(r)

Spec == Init /\ [][Next]_vars
=============================================================================
