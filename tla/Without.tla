------------------------------ MODULE Without ------------------------------
(* A sequence without the elements of a set.  SelectSeq says the same, but  *)
(* takes an operator, and the provers know nothing of it.                   *)
EXTENDS Naturals, Sequences

Without(s, dropped) ==
    LET kept[k \in 0..Len(s)] ==
          IF k = 0 THEN <<>>
          ELSE IF s[k] \in dropped THEN kept[k - 1] ELSE Append(kept[k - 1], s[k])
    IN  kept[Len(s)]

=============================================================================
