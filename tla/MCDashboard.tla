---------------------------- MODULE MCDashboard ----------------------------
(* Two collections on pages of one, one search term that matches the first;  *)
(* the rest says what a collection's page starts with.                       *)
EXTENDS Dashboard, TLC

CONSTANTS first, p1, p2, f, g, n, x, t1

\* No page tells one password from another.
PasswordSymmetry == Permutations({p1, p2})

MCMatches == [t \in {first} |-> {1}]

MCType ==
    [field \in {f, g, n} |->
       CASE field = f -> "string" [] field = g -> "boolean" [] field = n -> "number"]
Row(field, op, kind, part) ==
    [field |-> field, op |-> op, value |-> [kind |-> kind, parts |-> {part}, comma |-> FALSE]]
MCImports ==
    {[by |-> "$or", rows |-> <<Row(f, "$regex", "text", x), Row(g, "$eq", "truth", "true")>>],
     [by |-> "fields", rows |-> <<Row(f, "$in", "text", x), Row(n, "$gt", "number", x)>>]}

\* Property 9 belongs to the system.
Given(order) ==
    [p \in DOMAIN order \cup {9} |->
       IF p = 9 THEN [order |-> 9998, system |-> TRUE]
       ELSE [order |-> order[p], system |-> FALSE]]
MCSchemas == {Given(<<0, 0>>), Given(<<2, 1>>)}
MCSample == [p \in 1..2 |-> [order |-> 0, system |-> FALSE]]

MCTemplate == [t \in {"go", "js"} |-> t1]

MCMocked ==
    [title |-> [type |-> "string", required |-> TRUE],
     done |-> [type |-> "boolean", required |-> FALSE]]
=============================================================================
