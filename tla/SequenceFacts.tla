--------------------------- MODULE SequenceFacts ---------------------------
(***************************************************************************)
(* Induction, and what it shows of the operators that walk a sequence.      *)
(* NatInduction of the library takes the claim as an operator, which the    *)
(* provers cannot instantiate; here the claim is the set of the numbers     *)
(* that satisfy it.                                                         *)
(***************************************************************************)
EXTENDS Without, Integers, WellFoundedInduction, TLAPS

LEMMA LeastNumber ==
    ASSUME NEW T \in SUBSET Nat, T # {}
    PROVE  \E n \in T : \A m \in T : n <= m
  <1> DEFINE R == OpToRel(<, Nat)
  <1>1. IsWellFoundedOn(R, Nat)
    BY NatLessThanWellFounded
  <1>2. \A x, y \in Nat : x < y => <<x, y>> \in R
    BY DEF OpToRel
  <1> HIDE DEF R
  <1>3. PICK x \in T : \A y \in T : ~ (<<y, x>> \in R)
    BY <1>1, WFMin
  <1>4. \A m \in T : ~(m < x)
    BY <1>2, <1>3
  <1>5. QED
    BY <1>4

LEMMA Induction ==
    ASSUME NEW T \in SUBSET Nat, 0 \in T, \A n \in T : n + 1 \in T
    PROVE  T = Nat
  <1> DEFINE Rest == Nat \ T
  <1> SUFFICES ASSUME Rest # {} PROVE FALSE
    OBVIOUS
  <1>1. PICK n \in Rest : \A m \in Rest : n <= m
    BY LeastNumber
  <1>2. n \in Nat /\ n # 0 /\ n - 1 \in Nat /\ ~(n <= n - 1)
    BY <1>1
  <1>3. n - 1 \in T /\ (n - 1) + 1 = n
    BY <1>1, <1>2
  <1>4. QED
    BY <1>1, <1>3

---------------------------------------------------------------------------
(* A walk over a sequence: f[k] is what is known after k elements, F takes  *)
(* it from one element to the next.                                         *)
Folds(f, start, F, s, n) ==
    f[0] = start /\ \A k \in 1..n : f[k] = F[f[k - 1]][s[k]]

LEMMA FoldExists ==
    ASSUME NEW X, NEW S, NEW start \in X, NEW F \in [X -> [S -> X]], NEW s \in Seq(S)
    PROVE  \E f \in [0..Len(s) -> X] : Folds(f, start, F, s, Len(s))
  <1> DEFINE T == {n \in Nat : n <= Len(s) =>
                      \E f \in [0..n -> X] : Folds(f, start, F, s, n)}
  <1>1. 0 \in T
    <2>1. [k \in 0..0 |-> start] \in [0..0 -> X]
      OBVIOUS
    <2>2. Folds([k \in 0..0 |-> start], start, F, s, 0)
      BY DEF Folds
    <2>3. QED
      BY <2>1, <2>2
  <1>2. ASSUME NEW n \in T PROVE n + 1 \in T
    <2> SUFFICES ASSUME n + 1 <= Len(s)
                 PROVE  \E f \in [0..(n + 1) -> X] : Folds(f, start, F, s, n + 1)
      OBVIOUS
    <2>1. n \in Nat /\ n <= Len(s) /\ s[n + 1] \in S
      OBVIOUS
    <2>2. PICK f \in [0..n -> X] : Folds(f, start, F, s, n)
      BY <2>1
    <2> DEFINE next == F[f[n]][s[n + 1]]
               g == [k \in 0..(n + 1) |-> IF k = n + 1 THEN next ELSE f[k]]
    <2>3. next \in X
      <3>1. n \in 0..n
        BY <2>1
      <3>2. f[n] \in X
        BY <2>2, <3>1
      <3>3. F[f[n]] \in [S -> X]
        BY <3>2
      <3>4. QED
        BY <2>1, <3>3
    <2> HIDE DEF next
    <2>4. g \in [0..(n + 1) -> X]
      BY <2>1, <2>2, <2>3
    <2>5. /\ g[n + 1] = next
          /\ \A k \in 0..n : g[k] = f[k]
      BY <2>1
    <2> HIDE DEF g
    <2>6. g[0] = start
      BY <2>1, <2>2, <2>5 DEF Folds
    <2>7. ASSUME NEW k \in 1..(n + 1) PROVE g[k] = F[g[k - 1]][s[k]]
      <3>1. CASE k = n + 1
        <4>1. g[k - 1] = f[n] /\ n \in 0..n
          BY <2>1, <2>5, <3>1
        <4>2. QED
          BY <2>5, <3>1, <4>1 DEF next
      <3>2. CASE k \in 1..n
        <4>1. g[k] = f[k] /\ g[k - 1] = f[k - 1]
          <5>1. k \in 0..n /\ k - 1 \in 0..n
            BY <2>1, <3>2
          <5>2. QED
            BY <2>5, <5>1
        <4>2. QED
          BY <2>2, <3>2, <4>1 DEF Folds
      <3>3. QED
        BY <2>1, <3>1, <3>2
    <2>8. QED
      BY <2>4, <2>6, <2>7 DEF Folds
  <1>3. T = Nat
    <2> HIDE DEF T
    <2>1. QED
      BY <1>1, <1>2, Induction DEF T
  <1>4. Len(s) \in T
    <2>1. Len(s) \in Nat
      OBVIOUS
    <2> HIDE DEF T
    <2>2. QED
      BY <1>3, <2>1
  <1>5. QED
    BY <1>4

---------------------------------------------------------------------------
(* The elements of a sequence *)

Elems(s) == {s[i] : i \in DOMAIN s}
Distinct(s) == \A i, j \in DOMAIN s : s[i] = s[j] => i = j

LEMMA ElemsEmpty == Elems(<<>>) = {} /\ Distinct(<<>>)
  BY DEF Elems, Distinct

LEMMA ElemsAppend ==
    ASSUME NEW S, NEW s \in Seq(S), NEW e \in S
    PROVE  /\ Elems(Append(s, e)) = Elems(s) \cup {e}
           /\ Distinct(s) /\ e \notin Elems(s) => Distinct(Append(s, e))
  <1> DEFINE a == Append(s, e)
             n == Len(s)
  <1>1. /\ DOMAIN s = 1..n /\ DOMAIN a = 1..(n + 1)
        /\ n \in Nat /\ a[n + 1] = e /\ \A i \in 1..n : a[i] = s[i]
    OBVIOUS
  <1> HIDE DEF a, n
  <1>2. \A i \in 1..(n + 1) : i \in 1..n \/ i = n + 1
    BY <1>1
  <1>3. n + 1 \in 1..(n + 1) /\ \A i \in 1..n : i \in 1..(n + 1)
    BY <1>1
  <1>4. Elems(a) = Elems(s) \cup {e}
    BY <1>1, <1>2, <1>3 DEF Elems
  <1>5. ASSUME Distinct(s), e \notin Elems(s) PROVE Distinct(a)
    BY <1>1, <1>2, <1>5 DEF Elems, Distinct
  <1>6. QED
    BY <1>4, <1>5 DEF a

LEMMA ConcatAt ==
    ASSUME NEW S, NEW s \in Seq(S), NEW t \in Seq(S)
    PROVE  \A i \in 1..(Len(s) + Len(t)) :
              (s \o t)[i] = IF i <= Len(s) THEN s[i] ELSE t[i - Len(s)]
  OBVIOUS

---------------------------------------------------------------------------
(* Without *)

(* f[k] is what is left of the first k elements of s. *)
Walks(f, s, dropped, n) ==
    /\ f[0] = <<>>
    /\ \A k \in 1..n : f[k] = IF s[k] \in dropped THEN f[k - 1]
                              ELSE Append(f[k - 1], s[k])

LEMMA WalkExists ==
    ASSUME NEW S, NEW s \in Seq(S), NEW dropped
    PROVE  \E f \in [0..Len(s) -> Seq(S)] : Walks(f, s, dropped, Len(s))
  <1> DEFINE F == [q \in Seq(S) |-> [e \in S |-> IF e \in dropped THEN q ELSE Append(q, e)]]
  <1>1. F \in [Seq(S) -> [S -> Seq(S)]] /\ <<>> \in Seq(S)
    OBVIOUS
  <1>2. \A q \in Seq(S), e \in S : F[q][e] = IF e \in dropped THEN q ELSE Append(q, e)
    OBVIOUS
  <1> HIDE DEF F
  <1>3. PICK f \in [0..Len(s) -> Seq(S)] : Folds(f, <<>>, F, s, Len(s))
    BY <1>1, FoldExists
  <1>4. ASSUME NEW k \in 1..Len(s)
        PROVE  f[k] = IF s[k] \in dropped THEN f[k - 1] ELSE Append(f[k - 1], s[k])
    <2>1. f[k - 1] \in Seq(S) /\ s[k] \in S
      BY <1>3
    <2>2. QED
      BY <1>2, <1>3, <2>1 DEF Folds
  <1>5. QED
    BY <1>3, <1>4 DEF Folds, Walks

(* Two walks over sequences that begin alike agree. *)
LEMMA WalkUnique ==
    ASSUME NEW f, NEW g, NEW s, NEW t, NEW dropped, NEW n \in Nat,
           Walks(f, s, dropped, n), Walks(g, t, dropped, n),
           \A k \in 1..n : s[k] = t[k]
    PROVE  f[n] = g[n]
  <1> DEFINE T == {k \in Nat : k <= n => f[k] = g[k]}
  <1>1. 0 \in T
    BY DEF Walks
  <1>2. ASSUME NEW k \in T PROVE k + 1 \in T
    BY DEF Walks
  <1>3. T = Nat
    <2> HIDE DEF T
    <2>1. QED
      BY <1>1, <1>2, Induction DEF T
  <1>4. n \in T
    BY <1>3
  <1>5. QED
    BY <1>4

LEMMA WithoutWalk ==
    ASSUME NEW S, NEW s \in Seq(S), NEW dropped
    PROVE  \E f \in [0..Len(s) -> Seq(S)] :
              Walks(f, s, dropped, Len(s)) /\ Without(s, dropped) = f[Len(s)]
  <1> DEFINE G(f) == [k \in 0..Len(s) |->
                        IF k = 0 THEN <<>>
                        ELSE IF s[k] \in dropped THEN f[k - 1]
                             ELSE Append(f[k - 1], s[k])]
             w == CHOOSE f : f = G(f)
  <1>0. Len(s) \in Nat
    OBVIOUS
  <1>1. PICK f \in [0..Len(s) -> Seq(S)] : Walks(f, s, dropped, Len(s))
    BY WalkExists
  <1>2. f = G(f)
    <2>1. f = [k \in 0..Len(s) |-> f[k]]
      OBVIOUS
    <2>2. ASSUME NEW k \in 0..Len(s) PROVE f[k] = G(f)[k]
      <3>1. CASE k = 0
        BY <1>0, <1>1, <3>1 DEF Walks
      <3>2. CASE k # 0
        <4>1. k \in 1..Len(s)
          BY <1>0, <3>2
        <4>2. QED
          BY <1>1, <3>2, <4>1 DEF Walks
      <3>3. QED
        BY <3>1, <3>2
    <2>3. QED
      BY <2>1, <2>2
  <1>3. w = G(w)
    BY <1>2
  <1>4. Without(s, dropped) = w[Len(s)]
    BY DEF Without
  <1> HIDE DEF w
  <1>5. Walks(w, s, dropped, Len(s))
    <2>1. \A k \in 0..Len(s) : w[k] = G(w)[k]
      BY <1>3
    <2>2. w[0] = <<>>
      BY <1>0, <2>1
    <2>3. ASSUME NEW k \in 1..Len(s)
          PROVE  w[k] = IF s[k] \in dropped THEN w[k - 1] ELSE Append(w[k - 1], s[k])
      <3>1. k \in 0..Len(s) /\ k # 0
        BY <1>0
      <3>2. QED
        BY <2>1, <3>1
    <2>4. QED
      BY <2>2, <2>3 DEF Walks
  <1>6. w[Len(s)] = f[Len(s)]
    BY <1>0, <1>1, <1>5, WalkUnique
  <1>7. QED
    BY <1>1, <1>4, <1>6

LEMMA WithoutSeq ==
    ASSUME NEW S, NEW s \in Seq(S), NEW dropped
    PROVE  Without(s, dropped) \in Seq(S)
  <1>1. Len(s) \in 0..Len(s)
    OBVIOUS
  <1>2. QED
    BY <1>1, WithoutWalk

LEMMA WithoutEmpty == ASSUME NEW dropped PROVE Without(<<>>, dropped) = <<>>
  <1> DEFINE s == <<>>
  <1>1. s \in Seq({}) /\ Len(s) = 0
    OBVIOUS
  <1> HIDE DEF s
  <1>2. PICK f : Walks(f, s, dropped, Len(s)) /\ Without(s, dropped) = f[Len(s)]
    BY <1>1, WithoutWalk
  <1>3. QED
    BY <1>1, <1>2 DEF Walks, s

LEMMA WithoutAppend ==
    ASSUME NEW S, NEW s \in Seq(S), NEW e \in S, NEW dropped
    PROVE  Without(Append(s, e), dropped) =
              IF e \in dropped THEN Without(s, dropped)
              ELSE Append(Without(s, dropped), e)
  <1> DEFINE t == Append(s, e)
             n == Len(s)
  <1>1. /\ t \in Seq(S) /\ Len(t) = n + 1 /\ t[n + 1] = e
        /\ n \in Nat /\ \A k \in 1..n : s[k] = t[k]
    OBVIOUS
  <1>2. PICK f : Walks(f, s, dropped, n) /\ Without(s, dropped) = f[n]
    BY WithoutWalk
  <1> HIDE DEF t, n
  <1>3. PICK g : Walks(g, t, dropped, n + 1) /\ Without(t, dropped) = g[n + 1]
    <2>1. \E g : Walks(g, t, dropped, Len(t)) /\ Without(t, dropped) = g[Len(t)]
      BY <1>1, WithoutWalk
    <2>2. QED
      BY <1>1, <2>1
  <1>4. Walks(g, t, dropped, n)
    BY <1>1, <1>3 DEF Walks
  <1>5. f[n] = g[n]
    BY <1>1, <1>2, <1>4, WalkUnique
  <1>6. g[n + 1] = IF t[n + 1] \in dropped THEN g[(n + 1) - 1] ELSE Append(g[(n + 1) - 1], t[n + 1])
    BY <1>1, <1>3 DEF Walks
  <1>7. (n + 1) - 1 = n
    BY <1>1
  <1>8. QED
    BY <1>1, <1>2, <1>3, <1>5, <1>6, <1>7 DEF t, n

LEMMA TailAppend ==
    ASSUME NEW S, NEW s \in Seq(S), s # <<>>, NEW e \in S
    PROVE  /\ Append(s, e) # <<>>
           /\ Head(Append(s, e)) = Head(s)
           /\ Tail(Append(s, e)) = Append(Tail(s), e)
  <1> DEFINE a == Tail(Append(s, e))
             b == Append(Tail(s), e)
  <1>1. /\ Len(s) \in Nat /\ Len(s) > 0
        /\ Append(s, e) \in Seq(S) /\ Len(Append(s, e)) = Len(s) + 1
        /\ Tail(s) \in Seq(S) /\ Len(Tail(s)) = Len(s) - 1
    OBVIOUS
  <1>2. a \in Seq(S) /\ Len(a) = Len(s)
    BY <1>1
  <1>3. b \in Seq(S) /\ Len(b) = Len(s)
    BY <1>1
  <1>4. ASSUME NEW i \in 1..Len(s) PROVE a[i] = b[i]
    <2>1. CASE i \in 1..(Len(s) - 1)
      BY <1>1, <2>1
    <2>2. CASE i = Len(s)
      BY <1>1, <2>2
    <2>3. i \in 1..(Len(s) - 1) \/ i = Len(s)
      <3>1. \A n \in Nat : \A j \in 1..n : j \in 1..(n - 1) \/ j = n
        OBVIOUS
      <3>2. QED
        BY <1>1, <3>1
    <2>4. QED
      BY <2>1, <2>2, <2>3
  <1> HIDE DEF a, b
  <1>5. a = b
    BY <1>2, <1>3, <1>4
  <1>6. Append(s, e) # <<>> /\ Head(Append(s, e)) = Head(s)
    BY <1>1
  <1>7. QED
    BY <1>5, <1>6 DEF a, b

LEMMA WithoutTail ==
    ASSUME NEW S, NEW s \in Seq(S), s # <<>>, NEW dropped
    PROVE  /\ Head(s) \in dropped => Without(s, dropped) = Without(Tail(s), dropped)
           /\ Head(s) \notin dropped =>
                 /\ Without(s, dropped) # <<>>
                 /\ Head(Without(s, dropped)) = Head(s)
                 /\ Tail(Without(s, dropped)) = Without(Tail(s), dropped)
  <1> DEFINE t == Tail(s)
             n == Len(t)
             h == Head(s)
             Same(x, y) == IF h \in dropped THEN x = y
                           ELSE x # <<>> /\ Head(x) = h /\ Tail(x) = y
  <1>1. /\ t \in Seq(S) /\ n \in Nat /\ Len(s) = n + 1
        /\ h = s[1] /\ h \in S
        /\ \A k \in 1..n : t[k] = s[k + 1] /\ t[k] \in S
    OBVIOUS
  <1> HIDE DEF t, n, h, Same
  <1>2. PICK f \in [0..(n + 1) -> Seq(S)] :
           Walks(f, s, dropped, n + 1) /\ Without(s, dropped) = f[n + 1]
    <2>1. \E f \in [0..Len(s) -> Seq(S)] :
             Walks(f, s, dropped, Len(s)) /\ Without(s, dropped) = f[Len(s)]
      BY WithoutWalk
    <2>2. QED
      BY <1>1, <2>1
  <1>3. PICK g \in [0..n -> Seq(S)] : Walks(g, t, dropped, n) /\ Without(t, dropped) = g[n]
    <2>1. t \in Seq(S)
      BY <1>1
    <2>2. \E g \in [0..Len(t) -> Seq(S)] :
             Walks(g, t, dropped, Len(t)) /\ Without(t, dropped) = g[Len(t)]
      BY <2>1, WithoutWalk
    <2>3. QED
      BY <2>2 DEF n
  <1> DEFINE T == {k \in Nat : k <= n => Same(f[k + 1], g[k])}
  <1>4. 0 \in T
    <2>1. f[1] = IF h \in dropped THEN f[0] ELSE Append(f[0], h)
      <3>1. 1 \in 1..(n + 1) /\ 1 - 1 = 0
        BY <1>1
      <3>2. QED
        BY <1>1, <1>2, <3>1 DEF Walks
    <2>2. f[0] = <<>> /\ g[0] = <<>>
      BY <1>2, <1>3 DEF Walks
    <2>3. Append(<<>>, h) # <<>> /\ Head(Append(<<>>, h)) = h /\ Tail(Append(<<>>, h)) = <<>>
      BY <1>1
    <2>4. Same(f[1], g[0])
      BY <2>1, <2>2, <2>3 DEF Same
    <2>5. QED
      BY <2>4
  <1>5. ASSUME NEW k \in T PROVE k + 1 \in T
    <2> SUFFICES ASSUME k + 1 <= n PROVE Same(f[(k + 1) + 1], g[k + 1])
      OBVIOUS
    <2> DEFINE e == t[k + 1]
    <2>1. /\ k \in Nat /\ k \in 0..n /\ k + 1 \in 0..(n + 1)
          /\ k + 1 \in 1..n /\ (k + 1) + 1 \in 1..(n + 1)
          /\ (k + 1) - 1 = k /\ ((k + 1) + 1) - 1 = k + 1
          /\ e = s[(k + 1) + 1] /\ e \in S
      BY <1>1
    <2>2. Same(f[k + 1], g[k])
      BY <1>1, <2>1
    <2>3. f[k + 1] \in Seq(S) /\ g[k] \in Seq(S)
      BY <1>1, <1>2, <1>3, <2>1
    <2>4. f[(k + 1) + 1] = IF e \in dropped THEN f[k + 1] ELSE Append(f[k + 1], e)
      BY <1>2, <2>1 DEF Walks
    <2>5. g[k + 1] = IF e \in dropped THEN g[k] ELSE Append(g[k], e)
      BY <1>3, <2>1 DEF Walks
    <2>6. CASE e \in dropped \/ h \in dropped
      BY <2>2, <2>4, <2>5, <2>6 DEF Same
    <2>7. CASE e \notin dropped /\ h \notin dropped
      <3> DEFINE x == f[k + 1]
      <3>1. x \in Seq(S) /\ x # <<>> /\ e \in S
        BY <2>1, <2>2, <2>3, <2>7 DEF Same
      <3> HIDE DEF x, e
      <3>2. /\ Append(x, e) # <<>>
            /\ Head(Append(x, e)) = Head(x)
            /\ Tail(Append(x, e)) = Append(Tail(x), e)
        BY <3>1, TailAppend
      <3>3. QED
        BY <2>2, <2>4, <2>5, <2>7, <3>2 DEF Same, x
    <2>8. QED
      BY <2>6, <2>7
  <1>6. T = Nat
    <2> HIDE DEF T
    <2>1. QED
      BY <1>4, <1>5, Induction DEF T
  <1>7. Same(f[n + 1], g[n])
    <2>1. n \in T
      BY <1>1, <1>6
    <2>2. QED
      BY <1>1, <2>1
  <1>8. QED
    BY <1>2, <1>3, <1>7 DEF Same, t, h

LEMMA WithoutLen ==
    ASSUME NEW S, NEW s \in Seq(S), NEW dropped
    PROVE  Len(Without(s, dropped)) <= Len(s)
  <1>1. PICK f \in [0..Len(s) -> Seq(S)] :
           Walks(f, s, dropped, Len(s)) /\ Without(s, dropped) = f[Len(s)]
    BY WithoutWalk
  <1> DEFINE T == {k \in Nat : k <= Len(s) => Len(f[k]) <= k}
  <1>2. 0 \in T
    BY <1>1 DEF Walks
  <1>3. ASSUME NEW k \in T PROVE k + 1 \in T
    <2> SUFFICES ASSUME k + 1 <= Len(s) PROVE Len(f[k + 1]) <= k + 1
      OBVIOUS
    <2>1. /\ k \in Nat /\ k + 1 \in 1..Len(s) /\ (k + 1) - 1 = k /\ f[k] \in Seq(S)
          /\ Len(f[k]) <= k /\ Len(f[k]) \in Nat /\ s[k + 1] \in S
      OBVIOUS
    <2>2. f[k + 1] = IF s[k + 1] \in dropped THEN f[k] ELSE Append(f[k], s[k + 1])
      BY <1>1, <2>1 DEF Walks
    <2>3. Len(Append(f[k], s[k + 1])) = Len(f[k]) + 1
      BY <2>1
    <2>4. QED
      BY <2>1, <2>2, <2>3
  <1>4. T = Nat
    <2> HIDE DEF T
    <2>1. QED
      BY <1>2, <1>3, Induction DEF T
  <1>5. Len(s) \in T
    BY <1>4
  <1>6. QED
    BY <1>1, <1>5

(* What is left was there before, and is not what was to go. *)
LEMMA WithoutElements ==
    ASSUME NEW S, NEW s \in Seq(S), NEW dropped
    PROVE  \A i \in 1..Len(Without(s, dropped)) :
              \E j \in 1..Len(s) : Without(s, dropped)[i] = s[j] /\ s[j] \notin dropped
  <1>1. PICK f \in [0..Len(s) -> Seq(S)] :
           Walks(f, s, dropped, Len(s)) /\ Without(s, dropped) = f[Len(s)]
    BY WithoutWalk
  <1> DEFINE Left == {s[j] : j \in {i \in 1..Len(s) : s[i] \notin dropped}}
             T == {k \in Nat : k <= Len(s) => f[k] \in Seq(Left)}
  <1>2. 0 \in T
    BY <1>1 DEF Walks
  <1>3. ASSUME NEW k \in T PROVE k + 1 \in T
    <2> SUFFICES ASSUME k + 1 <= Len(s) PROVE f[k + 1] \in Seq(Left)
      OBVIOUS
    <2>1. /\ k \in Nat /\ k + 1 \in 1..Len(s) /\ (k + 1) - 1 = k
          /\ f[k] \in Seq(Left)
      OBVIOUS
    <2>2. f[k + 1] = IF s[k + 1] \in dropped THEN f[k] ELSE Append(f[k], s[k + 1])
      BY <1>1, <2>1 DEF Walks
    <2>3. CASE s[k + 1] \in dropped
      BY <2>1, <2>2, <2>3
    <2>4. CASE s[k + 1] \notin dropped
      <3>1. s[k + 1] \in Left
        BY <2>1, <2>4
      <3> HIDE DEF Left
      <3>2. Append(f[k], s[k + 1]) \in Seq(Left)
        BY <2>1, <3>1
      <3>3. QED
        BY <2>2, <2>4, <3>2
    <2>5. QED
      BY <2>3, <2>4
  <1>4. T = Nat
    <2> HIDE DEF T
    <2>1. QED
      BY <1>2, <1>3, Induction DEF T
  <1>5. Without(s, dropped) \in Seq(Left)
    <2>1. Len(s) \in T
      <3>1. Len(s) \in Nat
        OBVIOUS
      <3> HIDE DEF T
      <3>2. QED
        BY <1>4, <3>1
    <2>2. QED
      BY <1>1, <2>1
  <1>6. QED
    <2> SUFFICES ASSUME NEW i \in 1..Len(Without(s, dropped))
                 PROVE  Without(s, dropped)[i] \in Left
      OBVIOUS
    <2> HIDE DEF Left
    <2>1. QED
      BY <1>5

(* Nothing goes when nothing is to go. *)
LEMMA WithoutNothing ==
    ASSUME NEW S, NEW s \in Seq(S), NEW dropped, \A i \in 1..Len(s) : s[i] \notin dropped
    PROVE  Without(s, dropped) = s
  <1> DEFINE n == Len(s)
             g == [k \in 0..n |-> [i \in 1..k |-> s[i]]]
  <1>1. PICK f \in [0..n -> Seq(S)] : Walks(f, s, dropped, n) /\ Without(s, dropped) = f[n]
    BY WithoutWalk
  <1>2. n \in Nat /\ s = [i \in 1..n |-> s[i]]
    OBVIOUS
  <1>3. \A k \in 0..n : g[k] = [i \in 1..k |-> s[i]]
    OBVIOUS
  <1>4. g[0] = <<>>
    <2>1. g[0] \in Seq(S) /\ Len(g[0]) = 0
      BY <1>2
    <2>2. QED
      BY <2>1
  <1>5. ASSUME NEW k \in 1..n
        PROVE  g[k] = IF s[k] \in dropped THEN g[k - 1] ELSE Append(g[k - 1], s[k])
    <2>1. /\ k - 1 \in 0..n /\ k \in 0..n /\ s[k] \notin dropped /\ s[k] \in S
          /\ (k - 1) + 1 = k /\ k - 1 \in Nat /\ k \in Nat
      BY <1>2
    <2>2. \A i \in 1..k : s[i] \in S
      BY <1>2
    <2>3. g[k - 1] = [i \in 1..(k - 1) |-> s[i]] /\ g[k] = [i \in 1..k |-> s[i]]
      BY <1>3, <2>1
    <2> HIDE DEF g, n
    <2>4. g[k] \in Seq(S) /\ Len(g[k]) = k /\ g[k - 1] \in Seq(S) /\ Len(g[k - 1]) = k - 1
      BY <2>1, <2>2, <2>3
    <2> DEFINE a == Append(g[k - 1], s[k])
    <2>5. a \in Seq(S) /\ Len(a) = k /\ \A i \in 1..k : a[i] = s[i]
      BY <2>1, <2>2, <2>3, <2>4
    <2>6. \A i \in 1..k : g[k][i] = s[i]
      BY <2>3
    <2> HIDE DEF a
    <2>7. g[k] = a
      BY <2>4, <2>5, <2>6
    <2>8. QED
      BY <2>1, <2>7 DEF a
  <1>6. Walks(g, s, dropped, n)
    BY <1>4, <1>5 DEF Walks
  <1>7. f[n] = g[n]
    <2> HIDE DEF g, n
    <2>1. QED
      BY <1>1, <1>2, <1>6, WalkUnique
  <1>8. n \in 0..n
    BY <1>2
  <1>9. QED
    BY <1>1, <1>2, <1>3, <1>7, <1>8

=============================================================================
