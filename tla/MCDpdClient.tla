---------------------------- MODULE MCDpdClient ----------------------------
(* Constants of the model-checked instances of DpdClient. *)
EXTENDS DpdClient

CONSTANTS a, b, l1, l2, q1, t1, t2
=============================================================================
