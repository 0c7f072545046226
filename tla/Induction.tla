----------------------------- MODULE Induction ------------------------------
(***************************************************************************)
(* Induction and recursion over the natural numbers, with sets and         *)
(* functions for parameters where the library's theorems have operators:   *)
(* in this form the provers can use them.                                  *)
(***************************************************************************)
EXTENDS Naturals, WellFoundedInduction, TLAPS

\* A set of natural numbers has a least element.
LEMMA LeastNat ==
  ASSUME NEW T \in SUBSET Nat, T # {}
  PROVE  \E n \in T : \A m \in T : ~(m < n)
<1>1. PICK n \in T : \A m \in T : <<m, n>> \notin OpToRel(<, Nat)
  BY NatLessThanWellFounded, WFMin
<1>2. \A m \in T : m < n => <<m, n>> \in OpToRel(<, Nat)
  BY DEF OpToRel
<1> QED BY <1>1, <1>2

\* A set with zero and every successor of its members has them all.
LEMMA Induct ==
  ASSUME NEW S, 0 \in S, \A n \in Nat : n \in S => n + 1 \in S
  PROVE  \A n \in Nat : n \in S
<1> SUFFICES ASSUME \E n \in Nat : n \notin S PROVE FALSE
  OBVIOUS
<1> DEFINE T == Nat \ S
<1>1. T \in SUBSET Nat /\ T # {}
  OBVIOUS
<1>2. PICK n \in T : \A m \in T : ~(m < n)
  BY <1>1, LeastNat
<1>3. n \in Nat /\ n # 0 /\ n \notin S
  BY <1>2
<1>4. n - 1 \in Nat /\ n - 1 < n /\ (n - 1) + 1 = n
  BY <1>3
<1>5. n - 1 \in S
  BY <1>2, <1>4
<1> QED BY <1>3, <1>4, <1>5

\* f starts with base and goes from one value to the next by step.
Follows(f, N, base, step) ==
  f[0] = base /\ \A n \in 1 .. N : f[n] = step[<<n, f[n - 1]>>]

\* A recursion up to N defines a function.
LEMMA Recursion ==
  ASSUME NEW N \in Nat, NEW S, NEW base \in S, NEW step \in [(1 .. N) \X S -> S]
  PROVE  \E f \in [0 .. N -> S] : Follows(f, N, base, step)
<1> DEFINE P == {n \in Nat : n <= N => \E f \in [0 .. n -> S] : Follows(f, n, base, step)}
<1>1. 0 \in P
  <2> DEFINE f == [n \in 0 .. 0 |-> base]
  <2>1. f \in [0 .. 0 -> S] /\ Follows(f, 0, base, step)
    BY DEF Follows
  <2> QED BY <2>1
<1>2. ASSUME NEW n \in Nat, n \in P PROVE n + 1 \in P
  <2> SUFFICES ASSUME n + 1 <= N
               PROVE  \E g \in [0 .. n + 1 -> S] : Follows(g, n + 1, base, step)
    OBVIOUS
  <2>1. PICK f \in [0 .. n -> S] : Follows(f, n, base, step)
    BY <1>2
  <2> DEFINE g == [m \in 0 .. n + 1 |-> IF m = n + 1 THEN step[<<n + 1, f[n]>>] ELSE f[m]]
  <2>2. n + 1 \in 1 .. N /\ n \in 0 .. n
    OBVIOUS
  <2>3. step[<<n + 1, f[n]>>] \in S
    BY <2>1, <2>2
  <2>4. \A m \in 0 .. n + 1 : m # n + 1 => m \in 0 .. n
    OBVIOUS
  <2>5. g \in [0 .. n + 1 -> S]
    BY <2>1, <2>3, <2>4
  <2>6. g[0] = base
    BY <2>1 DEF Follows
  <2>7. ASSUME NEW m \in 1 .. n + 1 PROVE g[m] = step[<<m, g[m - 1]>>]
    <3>1. m \in 0 .. n + 1 /\ m - 1 \in 0 .. n + 1 /\ m - 1 # n + 1 /\ g[m - 1] = f[m - 1]
      OBVIOUS
    <3>2. CASE m = n + 1
      BY <3>1, <3>2
    <3>3. CASE m # n + 1
      <4>1. m \in 1 .. n
        BY <3>3
      <4> QED BY <2>1, <3>1, <3>3, <4>1 DEF Follows
    <3> QED BY <3>2, <3>3
  <2> QED BY <2>5, <2>6, <2>7 DEF Follows
<1> HIDE DEF P
<1>3. N \in P
  BY <1>1, <1>2, Induct
<1> QED BY <1>3 DEF P

-----------------------------------------------------------------------------
(***************************************************************************)
(* Sums, the way a loop adds them up: f[n] is b and the first n of a.      *)
(***************************************************************************)
IsSum(f, N, b, a) == f = [n \in 0 .. N |-> IF n = 0 THEN b ELSE f[n - 1] + a[n]]

AddsUp(f, N, b, a) ==
  f \in [0 .. N -> Nat] /\ f[0] = b /\ \A n \in 1 .. N : f[n] = f[n - 1] + a[n]

LEMMA SumExists ==
  ASSUME NEW N \in Nat, NEW b \in Nat, NEW a \in [1 .. N -> Nat]
  PROVE  \E f : IsSum(f, N, b, a)
<1> DEFINE step == [p \in (1 .. N) \X Nat |-> p[2] + a[p[1]]]
<1>1. step \in [(1 .. N) \X Nat -> Nat]
  OBVIOUS
<1>2. PICK f \in [0 .. N -> Nat] : Follows(f, N, b, step)
  BY <1>1, Recursion
<1>3. \A n \in 1 .. N : n - 1 \in 0 .. N /\ f[n - 1] \in Nat
  BY <1>2
<1>4. \A n \in 1 .. N : f[n] = f[n - 1] + a[n]
  BY <1>2, <1>3 DEF Follows
<1>5. \A n \in 0 .. N : n # 0 => n \in 1 .. N
  OBVIOUS
<1>6. \A n \in 0 .. N : f[n] = IF n = 0 THEN b ELSE f[n - 1] + a[n]
  BY <1>2, <1>4, <1>5 DEF Follows
<1> QED BY <1>2, <1>6 DEF IsSum

LEMMA SumTyped ==
  ASSUME NEW N \in Nat, NEW b \in Nat, NEW a \in [1 .. N -> Nat], NEW f, IsSum(f, N, b, a)
  PROVE  AddsUp(f, N, b, a)
<1>1. f[0] = b /\ \A n \in 1 .. N : f[n] = f[n - 1] + a[n]
  BY DEF IsSum
<1> DEFINE P == {n \in Nat : n <= N => f[n] \in Nat}
<1>2. 0 \in P
  BY <1>1
<1>3. ASSUME NEW n \in Nat, n \in P PROVE n + 1 \in P
  <2> SUFFICES ASSUME n + 1 <= N PROVE f[n + 1] \in Nat
    OBVIOUS
  <2>1. n + 1 \in 1 .. N /\ (n + 1) - 1 = n /\ n <= N
    OBVIOUS
  <2> QED BY <1>1, <1>3, <2>1
<1> HIDE DEF P
<1>4. \A n \in Nat : n \in P
  BY <1>2, <1>3, Induct
<1>5. \A n \in 0 .. N : f[n] \in Nat
  BY <1>4 DEF P
<1>6. f = [n \in 0 .. N |-> f[n]]
  BY DEF IsSum
<1> QED BY <1>1, <1>5, <1>6 DEF AddsUp

\* A sum of smaller terms is smaller, and keeps its distance.
LEMMA SumsCompare ==
  ASSUME NEW N \in Nat, NEW e \in Nat,
         NEW f \in [0 .. N -> Nat], NEW g \in [0 .. N -> Nat], f[0] + e <= g[0],
         \A n \in 1 .. N : f[n] - f[n - 1] <= g[n] - g[n - 1]
  PROVE  \A n \in 0 .. N : f[n] + e <= g[n]
<1> DEFINE P == {n \in Nat : n <= N => f[n] + e <= g[n]}
<1>1. 0 \in P
  OBVIOUS
<1>2. ASSUME NEW n \in Nat, n \in P PROVE n + 1 \in P
  <2> SUFFICES ASSUME n + 1 <= N PROVE f[n + 1] + e <= g[n + 1]
    OBVIOUS
  <2>1. n + 1 \in 1 .. N /\ (n + 1) - 1 = n /\ n \in 0 .. N /\ n + 1 \in 0 .. N /\ n <= N
    OBVIOUS
  <2>2. /\ f[n] \in Nat /\ g[n] \in Nat /\ f[n + 1] \in Nat /\ g[n + 1] \in Nat
        /\ f[n + 1] - f[n] <= g[n + 1] - g[n] /\ f[n] + e <= g[n]
    BY <1>2, <2>1
  <2> QED BY <2>2, SMTT(30)
<1> HIDE DEF P
<1>3. \A n \in Nat : n \in P
  BY <1>1, <1>2, Induct
<1> QED BY <1>3 DEF P

=============================================================================
