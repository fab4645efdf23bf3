----------------------------- MODULE MCSession -----------------------------
(* Two tabs that share localStorage, and two sessions one after another.    *)
EXTENDS Session, TLC

Symmetry == Permutations(Tabs) \cup Permutations(Tokens)
=============================================================================
