------------------------------- MODULE MCHub -------------------------------
(* Constants of the model-checked instances of Hub. *)
EXTENDS Hub, TLC

CONSTANTS c1, c2, r1, r2

ClientSymmetry == Permutations({c1, c2})
RoomSymmetry == Permutations({r1, r2})
=============================================================================
