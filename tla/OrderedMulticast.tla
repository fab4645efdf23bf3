-------------------------- MODULE OrderedMulticast --------------------------
(***************************************************************************)
(* What the WebSocket hub promises a connection, without its goroutines,   *)
(* locks and rooms.  Multicasts are numbered in the order in which they    *)
(* are taken up.  A member is offered the multicast in progress at most    *)
(* once, through a bounded queue; messages may be lost, but what reaches   *)
(* the member does so in the common order.                                 *)
(***************************************************************************)
EXTENDS Naturals, Sequences

CONSTANTS Members, Cap

VARIABLES n,       \* number of the multicast in progress
          queue,   \* offered to a member, not yet delivered
          log      \* delivered to a member

vars == <<n, queue, log>>

Init ==
    /\ n = 0
    /\ queue = [c \in Members |-> <<>>]
    /\ log = [c \in Members |-> <<>>]

Begin == n' = n + 1 /\ UNCHANGED <<queue, log>>

Older(s) == \A i \in DOMAIN s : s[i] < n

Offer(c) ==
    /\ Len(queue[c]) < Cap /\ Older(queue[c]) /\ Older(log[c])
    /\ queue' = [queue EXCEPT ![c] = Append(@, n)]
    /\ UNCHANGED <<n, log>>

Deliver(c) ==
    /\ queue[c] # <<>>
    /\ queue' = [queue EXCEPT ![c] = Tail(@)]
    /\ log' = [log EXCEPT ![c] = Append(@, Head(queue[c]))]
    /\ UNCHANGED n

Lose(S) ==
    /\ \A c \in S : queue[c] # <<>>
    /\ queue' = [c \in Members |-> IF c \in S THEN Tail(queue[c]) ELSE queue[c]]
    /\ UNCHANGED <<n, log>>

Next ==
    \/ Begin
    \/ \E c \in Members : Offer(c) \/ Deliver(c)
    \/ \E S \in SUBSET Members : Lose(S)

Spec == Init /\ [][Next]_vars
=============================================================================
