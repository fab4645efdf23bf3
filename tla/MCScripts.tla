----------------------------- MODULE MCScripts -----------------------------
(* Constants of the model-checked instances of Scripts: p1 is a script whose *)
(* source may return before its end, p2 one without a Run, and p3 neither.   *)
EXTENDS Scripts, TLC

CONSTANTS p1, p2, p3
=============================================================================
