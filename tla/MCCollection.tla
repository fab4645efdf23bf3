--------------------------- MODULE MCCollection ---------------------------
(* Constants of the model-checked instances of Collection. *)
EXTENDS Collection, TLC

CONSTANTS q1, q2, q3, d1, d2

TwoFields == {"x", "y"}
AllBodies == [TwoFields -> {1, Absent}]
NoFields == [f \in TwoFields |-> Absent]
OnlyX == [NoFields EXCEPT !["x"] = 1]
OnlyY == [NoFields EXCEPT !["y"] = 1]
XorY == {OnlyX, OnlyY}
AtMostOne == XorY \cup {NoFields}

(* The rule the Validate event enforces: x at most 1, and 1 not with y. *)
XAlone(d) == /\ d["x"] \in {0, 1, Absent}
             /\ d["x"] = 1 => d["y"] = Absent
(* What the Post and Put events set. *)
XToZero == [NoFields EXCEPT !["x"] = 0]
Anything(d) == TRUE

AnyKind == [r \in Requests |-> Kinds]
AnyTarget == [r \in Requests |-> Ids]

(* q1 updates d1, q2 deletes or reads it, q3 is busy with d2. *)
OneUpdater == q1 :> {"put", "set", "unset", "push"} @@ q2 :> {"get", "delete"}
              @@ q3 :> {"post"}
OwnTargets == q1 :> {d1} @@ q2 :> {d1} @@ q3 :> {d2}

Writers == [r \in Requests |-> {"post", "put", "delete", "inc"}]
Symmetry == Permutations(Requests)
XBodies == {OnlyX}

Puts == [r \in Requests |-> {"put"}]
=============================================================================
