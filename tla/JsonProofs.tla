----------------------------- MODULE JsonProofs -----------------------------
(***************************************************************************)
(* Proofs about Json, for values of every length.                          *)
(***************************************************************************)
EXTENDS Json, Induction, SequenceTheorems, TLAPS

-----------------------------------------------------------------------------
(***************************************************************************)
(* The encoder.                                                            *)
(***************************************************************************)
ValueTyped == val \in Seq(Chars)

LEMMA SizeFacts ==
  ASSUME NEW c
  PROVE  /\ Size(c) \in Nat /\ Bytes(c) \in Nat /\ Size(c) <= 6 * Bytes(c)
         /\ c \in {"ctl", "quote"} => How(c) # "raw"
  BY DEF Size, Bytes, How

LEMMA SrcLenIs ==
  ASSUME ValueTyped
  PROVE  /\ SrcLen \in [0 .. Len(val) -> Nat] /\ SrcLen[0] = 0
         /\ \A k \in 1 .. Len(val) : SrcLen[k] = SrcLen[k - 1] + Bytes(val[k])
<1> DEFINE N == Len(val)
           a == [k \in 1 .. N |-> Bytes(val[k])]
<1>1. /\ N \in Nat /\ a \in [1 .. N -> Nat] /\ 0 \in Nat
      /\ \A k \in 1 .. N : a[k] = Bytes(val[k])
  BY SizeFacts DEF ValueTyped
<1> HIDE DEF N, a
<1>2. PICK f : IsSum(f, N, 0, a)
  BY <1>1, SumExists
<1>3. \A k \in 0 .. N : k = 0 \/ k \in 1 .. N
  BY <1>1
<1>4. f = [k \in 0 .. N |-> IF k = 0 THEN 0 ELSE f[k - 1] + Bytes(val[k])]
  BY <1>1, <1>2, <1>3, Zenon DEF IsSum
<1>5. SrcLen = [k \in 0 .. N |-> IF k = 0 THEN 0 ELSE SrcLen[k - 1] + Bytes(val[k])]
  BY <1>4 DEF SrcLen, N
<1>6. IsSum(SrcLen, N, 0, a)
  BY <1>1, <1>3, <1>5, Zenon DEF IsSum
<1>7. AddsUp(SrcLen, N, 0, a)
  BY <1>1, <1>6, SumTyped, Zenon
<1> QED BY <1>1, <1>7 DEF N, AddsUp

LEMMA DstLenIs ==
  ASSUME ValueTyped
  PROVE  /\ DstLen \in [0 .. Len(val) -> Nat] /\ DstLen[0] = 0
         /\ \A k \in 1 .. Len(val) : DstLen[k] = DstLen[k - 1] + Size(val[k])
<1> DEFINE N == Len(val)
           a == [k \in 1 .. N |-> Size(val[k])]
<1>1. /\ N \in Nat /\ a \in [1 .. N -> Nat] /\ 0 \in Nat
      /\ \A k \in 1 .. N : a[k] = Size(val[k])
  BY SizeFacts DEF ValueTyped
<1> HIDE DEF N, a
<1>2. PICK f : IsSum(f, N, 0, a)
  BY <1>1, SumExists
<1>3. \A k \in 0 .. N : k = 0 \/ k \in 1 .. N
  BY <1>1
<1>4. f = [k \in 0 .. N |-> IF k = 0 THEN 0 ELSE f[k - 1] + Size(val[k])]
  BY <1>1, <1>2, <1>3, Zenon DEF IsSum
<1>5. DstLen = [k \in 0 .. N |-> IF k = 0 THEN 0 ELSE DstLen[k - 1] + Size(val[k])]
  BY <1>4 DEF DstLen, N
<1>6. IsSum(DstLen, N, 0, a)
  BY <1>1, <1>3, <1>5, Zenon DEF IsSum
<1>7. AddsUp(DstLen, N, 0, a)
  BY <1>1, <1>6, SumTyped, Zenon
<1> QED BY <1>1, <1>7 DEF N, AddsUp

\* The buffer of six bytes per byte holds the whole value: the loop does not
\* end early.
LEMMA EncodedAll ==
  ASSUME ValueTyped
  PROVE  Encoded = Len(val) /\ Len(val) \in Nat
<1> DEFINE N == Len(val)
           six == [k \in 0 .. N |-> 6 * SrcLen[k]]
<1>1. N \in Nat
  BY DEF ValueTyped
<1>2. /\ SrcLen \in [0 .. N -> Nat] /\ SrcLen[0] = 0
      /\ \A k \in 1 .. N : SrcLen[k] = SrcLen[k - 1] + Bytes(val[k])
  BY SrcLenIs
<1>3. /\ DstLen \in [0 .. N -> Nat] /\ DstLen[0] = 0
      /\ \A k \in 1 .. N : DstLen[k] = DstLen[k - 1] + Size(val[k])
  BY DstLenIs
<1> HIDE DEF N
<1>4. six \in [0 .. N -> Nat] /\ \A k \in 0 .. N : six[k] = 6 * SrcLen[k]
  BY <1>2
<1> HIDE DEF six
<1>5. ASSUME NEW k \in 1 .. N PROVE DstLen[k] - DstLen[k - 1] <= six[k] - six[k - 1]
  <2>1. k \in 0 .. N /\ k - 1 \in 0 .. N
    BY <1>1
  <2> DEFINE x == SrcLen[k - 1]
             y == DstLen[k - 1]
             b == Bytes(val[k])
             z == Size(val[k])
  <2>2. x \in Nat /\ y \in Nat /\ b \in Nat /\ z \in Nat /\ z <= 6 * b
    BY <1>2, <1>3, <2>1, SizeFacts
  <2>3. SrcLen[k] = x + b /\ DstLen[k] = y + z /\ six[k] = 6 * SrcLen[k] /\ six[k - 1] = 6 * x
    BY <1>2, <1>3, <1>4, <2>1
  <2> HIDE DEF x, y, b, z
  <2>4. six[k] = 6 * (x + b) /\ DstLen[k - 1] = y
    BY <2>3 DEF y
  <2> QED BY <2>2, <2>3, <2>4
<1>6. \A k \in 0 .. N : DstLen[k] + 0 <= six[k]
  <2>1. 0 \in Nat /\ DstLen[0] + 0 <= six[0]
    BY <1>1, <1>2, <1>3, <1>4
  <2> QED BY <1>1, <1>3, <1>4, <1>5, <2>1, SumsCompare, Zenon
<1>7. DstLen[N] <= EscapeMul * SrcLen[N]
  <2> DEFINE x == SrcLen[N]
             y == DstLen[N]
  <2>1. N \in 0 .. N
    BY <1>1
  <2>2. x \in Nat /\ y \in Nat
    BY <1>2, <1>3, <2>1
  <2>3. y <= 6 * x
    <3>1. y + 0 <= six[N] /\ six[N] = 6 * x
      BY <1>4, <1>6, <2>1
    <3> QED BY <2>2, <3>1
  <2> HIDE DEF x, y
  <2>4. 6 * x <= EscapeMul * x
    BY <2>2, JsonAssumption
  <2>5. EscapeMul * x \in Nat
    BY <2>2, JsonAssumption
  <2> QED BY <2>2, <2>3, <2>4, <2>5 DEF x, y
<1> DEFINE K == {k \in 0 .. N : DstLen[k] <= EscapeMul * SrcLen[N]}
<1>8. N \in K /\ K \subseteq 0 .. N
  BY <1>1, <1>7
<1> HIDE DEF K
<1>9. Max(K) = N
  <2>1. \A k \in K : k \in Nat /\ N >= k
    BY <1>1, <1>8
  <2>2. \A x \in K : (\A k \in K : x >= k) => x = N
    BY <1>1, <1>8, <2>1
  <2> QED BY <1>8, <2>1, <2>2 DEF Max
<1> QED BY <1>1, <1>9 DEF Encoded, K, N

EscInv == ValueTyped /\ EscapedWhole

LEMMA EscStep == EscInv /\ [Next]_jvars => EscInv'
<1> SUFFICES ASSUME EscInv, [Next]_jvars PROVE EscInv'
  OBVIOUS
<1>1. CASE Finish
  <2>1. Encoded = Len(val) /\ Len(val) \in Nat
    BY EncodedAll DEF EscInv
  <2>2. esc' = [i \in 1 .. Len(val) |-> <<val[i], How(val[i])>>] /\ val' = val
    BY <1>1, <2>1 DEF Finish
  <2>3. val = [i \in 1 .. Len(val) |-> val[i]]
    BY DEF EscInv, ValueTyped
  <2>4. [i \in DOMAIN esc' |-> esc'[i][1]] = val
    BY <2>2, <2>3
  <2>5. \A i \in DOMAIN esc' : esc'[i][1] = val[i] /\ esc'[i][2] = How(val[i])
    BY <2>2
  <2>6. \A i \in DOMAIN esc' : esc'[i][1] \in {"ctl", "quote"} => esc'[i][2] # "raw"
    BY <2>5, SizeFacts
  <2> QED BY <2>2, <2>4, <2>6 DEF EscInv, ValueTyped, EscapedWhole
<1>2. ASSUME NEW c \in Alphabet, Read(c) PROVE EscInv'
  BY <1>2, JsonAssumption DEF Read, EscInv, ValueTyped, EscapedWhole
<1>3. CASE UNCHANGED jvars
  BY <1>3 DEF jvars, EscInv, ValueTyped, EscapedWhole
<1> QED BY <1>1, <1>2, <1>3 DEF Next

\* The buffer never cuts a value, however long, and no byte that JSON forbids
\* in a string goes out raw (jp_json_value_encoder).
THEOREM AlwaysEscapedWhole == Spec => []EscapedWhole
<1>1. Init => EscInv
  BY DEF Init, EscInv, ValueTyped, EscapedWhole
<1>2. EscInv => EscapedWhole
  BY DEF EscInv
<1> QED BY <1>1, <1>2, EscStep, PTL DEF Spec


-----------------------------------------------------------------------------
(***************************************************************************)
(* The automaton.  Each of its states stands for a shape of the bytes      *)
(* read: the number that the first i bytes of s are a part of.  Sign is    *)
(* the length of the sign, so a number starts at Sign + 1.                 *)
(***************************************************************************)
Sign(s) == IF s # << >> /\ s[1] = "-" THEN 1 ELSE 0

DigitsAt(s, a, b) == \A k \in a .. b : s[k] \in Digits

ZeroAt(s, i)     == i = Sign(s) + 1 /\ s[i] = "0"
DigitAt(s, i)    == i > Sign(s) /\ s[Sign(s) + 1] = "1" /\ DigitsAt(s, Sign(s) + 1, i)
IntAt(s, i)      == ZeroAt(s, i) \/ DigitAt(s, i)
DotAt(s, i)      == i > 1 /\ IntAt(s, i - 1) /\ s[i] = "."
FractionAt(s, i) ==
  \E k \in 2 .. i - 1 : DotAt(s, k) /\ DigitsAt(s, k + 1, i)
MantissaAt(s, i) == IntAt(s, i) \/ FractionAt(s, i)
ExpAt(s, i)      == i > 1 /\ MantissaAt(s, i - 1) /\ s[i] = "e"
ExpSignAt(s, i)  == i > 2 /\ ExpAt(s, i - 1) /\ s[i] \in {"+", "-"}
ExpDigitAt(s, i) ==
  \E k \in 2 .. i - 1 : (ExpAt(s, k) \/ ExpSignAt(s, k)) /\ DigitsAt(s, k + 1, i)

NumberShape(q, s, i) ==
  /\ q = "START" <=> i = 0
  /\ q = "MINUS" <=> i = 1 /\ Sign(s) = 1
  /\ q = "ZERO" <=> ZeroAt(s, i)
  /\ q = "DIGIT" <=> DigitAt(s, i)
  /\ q = "DOT" <=> DotAt(s, i)
  /\ q = "FRACTION" <=> FractionAt(s, i)
  /\ q = "EXP" <=> ExpAt(s, i)
  /\ q = "EXP_SIGN" <=> ExpSignAt(s, i)
  /\ q = "EXP_DIGIT" <=> ExpDigitAt(s, i)

States == {"START", "MINUS", "ZERO", "DIGIT", "DOT", "FRACTION", "EXP", "EXP_SIGN",
           "EXP_DIGIT", "REJECT"}

\* The edges as a function.
NextState(q, c) ==
  CASE q = "START" /\ c = "-"                                   -> "MINUS"
    [] q \in {"START", "MINUS"} /\ c = "0"                      -> "ZERO"
    [] q \in {"START", "MINUS"} /\ c = "1"                      -> "DIGIT"
    [] q = "DIGIT" /\ c \in Digits                              -> "DIGIT"
    [] q \in {"ZERO", "DIGIT"} /\ c = "."                       -> "DOT"
    [] q \in {"DOT", "FRACTION"} /\ c \in Digits                -> "FRACTION"
    [] q \in {"ZERO", "DIGIT", "FRACTION"} /\ c = "e"           -> "EXP"
    [] q = "EXP" /\ c \in {"+", "-"}                            -> "EXP_SIGN"
    [] q \in {"EXP", "EXP_SIGN", "EXP_DIGIT"} /\ c \in Digits   -> "EXP_DIGIT"
    [] OTHER                                                    -> "REJECT"

LEMMA StepIs ==
  ASSUME NEW q \in States, NEW c \in Chars
  PROVE  Step(q, c) = NextState(q, c) /\ Step(q, c) \in States
<1>1. \A t : t \in Targets(q, c) <=> \E e \in Edges : e[1] = q /\ c \in e[2] /\ t = e[3]
  BY Zenon DEF Targets
<1>2. \A t : t \in Targets(q, c) <=> t = NextState(q, c) /\ t # "REJECT"
  BY <1>1 DEF Edges, NextState, States, Chars, Digits
<1>3. NextState(q, c) \in States
  BY DEF NextState, States
<1> QED BY <1>2, <1>3 DEF Step

\* Each shape grows by a byte.
LEMMA Grow ==
  ASSUME NEW s \in Seq(Chars), NEW i \in Nat, i < Len(s)
  PROVE  /\ ZeroAt(s, i + 1) <=> i = Sign(s) /\ s[i + 1] = "0"
         /\ DigitAt(s, i + 1) <=> \/ i = Sign(s) /\ s[i + 1] = "1"
                                  \/ DigitAt(s, i) /\ s[i + 1] \in Digits
         /\ DotAt(s, i + 1) <=> i > 0 /\ IntAt(s, i) /\ s[i + 1] = "."
         /\ FractionAt(s, i + 1) <=>
              (DotAt(s, i) \/ FractionAt(s, i)) /\ s[i + 1] \in Digits
         /\ ExpAt(s, i + 1) <=> i > 0 /\ MantissaAt(s, i) /\ s[i + 1] = "e"
         /\ ExpSignAt(s, i + 1) <=> i > 1 /\ ExpAt(s, i) /\ s[i + 1] \in {"+", "-"}
         /\ ExpDigitAt(s, i + 1) <=>
              /\ ExpAt(s, i) \/ ExpSignAt(s, i) \/ ExpDigitAt(s, i)
              /\ s[i + 1] \in Digits
<1>1. Sign(s) \in {0, 1} /\ (i + 1) - 1 = i /\ Len(s) \in Nat
  BY DEF Sign
<1>2. \A a \in Nat : a <= i + 1 =>
        (DigitsAt(s, a, i + 1) <=> DigitsAt(s, a, i) /\ s[i + 1] \in Digits)
  BY DEF DigitsAt
<1>3. DigitsAt(s, i + 1, i)
  BY DEF DigitsAt
<1>4. ZeroAt(s, i + 1) <=> i = Sign(s) /\ s[i + 1] = "0"
  BY <1>1 DEF ZeroAt
<1>5. DigitAt(s, i + 1) <=> \/ i = Sign(s) /\ s[i + 1] = "1"
                            \/ DigitAt(s, i) /\ s[i + 1] \in Digits
  <2>1. CASE i = Sign(s)
    BY <1>1, <1>2, <1>3, <2>1 DEF DigitAt, Digits
  <2>2. CASE i # Sign(s)
    BY <1>1, <1>2, <2>2 DEF DigitAt
  <2> QED BY <2>1, <2>2
<1>6. DotAt(s, i + 1) <=> i > 0 /\ IntAt(s, i) /\ s[i + 1] = "."
  BY <1>1 DEF DotAt
<1>7. ExpAt(s, i + 1) <=> i > 0 /\ MantissaAt(s, i) /\ s[i + 1] = "e"
  BY <1>1 DEF ExpAt
<1>8. ExpSignAt(s, i + 1) <=> i > 1 /\ ExpAt(s, i) /\ s[i + 1] \in {"+", "-"}
  BY <1>1 DEF ExpSignAt
<1>9. FractionAt(s, i + 1) <=> (DotAt(s, i) \/ FractionAt(s, i)) /\ s[i + 1] \in Digits
  <2>1. FractionAt(s, i + 1) <=> \E k \in 2 .. i : DotAt(s, k) /\ DigitsAt(s, k + 1, i + 1)
    BY <1>1 DEF FractionAt
  <2>2. \A k \in 2 .. i : k + 1 \in Nat /\ k + 1 <= i + 1
    OBVIOUS
  <2>3. FractionAt(s, i + 1) <=>
          \E k \in 2 .. i : DotAt(s, k) /\ DigitsAt(s, k + 1, i) /\ s[i + 1] \in Digits
    BY <1>2, <2>1, <2>2, Zenon
  <2>4. DotAt(s, i) => i \in 2 .. i
    BY DEF DotAt
  <2>5. \A k : k \in 2 .. i <=> k \in 2 .. i - 1 \/ (k = i /\ i \in 2 .. i)
    OBVIOUS
  <2>6. FractionAt(s, i) <=> \E k \in 2 .. i - 1 : DotAt(s, k) /\ DigitsAt(s, k + 1, i)
    BY DEF FractionAt
  <2>7. ASSUME FractionAt(s, i + 1)
        PROVE  (DotAt(s, i) \/ FractionAt(s, i)) /\ s[i + 1] \in Digits
    <3>1. PICK k \in 2 .. i : DotAt(s, k) /\ DigitsAt(s, k + 1, i) /\ s[i + 1] \in Digits
      BY <2>3, <2>7
    <3> QED BY <2>5, <2>6, <3>1
  <2>8. ASSUME DotAt(s, i) \/ FractionAt(s, i), s[i + 1] \in Digits
        PROVE  FractionAt(s, i + 1)
    <3>1. CASE DotAt(s, i)
      BY <1>3, <2>3, <2>4, <2>8, <3>1
    <3>2. CASE FractionAt(s, i)
      BY <2>3, <2>5, <2>6, <2>8, <3>2
    <3> QED BY <2>8, <3>1, <3>2
  <2> QED BY <2>7, <2>8
<1>10. ExpDigitAt(s, i + 1) <=>
         /\ ExpAt(s, i) \/ ExpSignAt(s, i) \/ ExpDigitAt(s, i)
         /\ s[i + 1] \in Digits
  <2> DEFINE E(k) == ExpAt(s, k) \/ ExpSignAt(s, k)
  <2>1. ExpDigitAt(s, i + 1) <=> \E k \in 2 .. i : E(k) /\ DigitsAt(s, k + 1, i + 1)
    BY <1>1 DEF ExpDigitAt
  <2>2. \A k \in 2 .. i : k + 1 \in Nat /\ k + 1 <= i + 1
    OBVIOUS
  <2>4. E(i) => i \in 2 .. i
    BY DEF ExpAt, ExpSignAt
  <2>5. \A k : k \in 2 .. i <=> k \in 2 .. i - 1 \/ (k = i /\ i \in 2 .. i)
    OBVIOUS
  <2>6. ExpDigitAt(s, i) <=> \E k \in 2 .. i - 1 : E(k) /\ DigitsAt(s, k + 1, i)
    BY DEF ExpDigitAt
  <2> HIDE DEF E
  <2>3. ExpDigitAt(s, i + 1) <=>
          \E k \in 2 .. i : E(k) /\ DigitsAt(s, k + 1, i) /\ s[i + 1] \in Digits
    BY <1>2, <2>1, <2>2, Zenon
  <2>7. ASSUME ExpDigitAt(s, i + 1)
        PROVE  (E(i) \/ ExpDigitAt(s, i)) /\ s[i + 1] \in Digits
    <3>1. PICK k \in 2 .. i : E(k) /\ DigitsAt(s, k + 1, i) /\ s[i + 1] \in Digits
      BY <2>3, <2>7
    <3> QED BY <2>5, <2>6, <3>1
  <2>8. ASSUME E(i) \/ ExpDigitAt(s, i), s[i + 1] \in Digits
        PROVE  ExpDigitAt(s, i + 1)
    <3>1. CASE E(i)
      BY <1>3, <2>3, <2>4, <2>8, <3>1
    <3>2. CASE ExpDigitAt(s, i)
      BY <2>3, <2>5, <2>6, <2>8, <3>2
    <3> QED BY <2>8, <3>1, <3>2
  <2> QED BY <2>7, <2>8 DEF E
<1> QED BY <1>4, <1>5, <1>6, <1>7, <1>8, <1>9, <1>10

\* Nothing but the first i bytes decides about the shape they have.
LEMMA ShapeOfPrefix ==
  ASSUME NEW s \in Seq(Chars), NEW c \in Chars, NEW q, NumberShape(q, s, Len(s))
  PROVE  NumberShape(q, Append(s, c), Len(s))
<1> DEFINE t == Append(s, c)
           n == Len(s)
<1>1. t \in Seq(Chars) /\ Len(t) = n + 1 /\ n \in Nat /\ \A k \in 1 .. n : t[k] = s[k]
  OBVIOUS
<1>2. CASE n = 0
  BY <1>1, <1>2 DEF NumberShape, Sign, ZeroAt, DigitAt, IntAt, DotAt, FractionAt, ExpAt,
                    ExpSignAt, ExpDigitAt
<1>3. CASE n > 0
  <2>1. Sign(t) = Sign(s) /\ Sign(s) \in {0, 1}
    BY <1>1, <1>3 DEF Sign
  <2> HIDE DEF t
  <2>2. \A a \in 1 .. n + 1, k \in 0 .. n : DigitsAt(t, a, k) <=> DigitsAt(s, a, k)
    BY <1>1 DEF DigitsAt
  <2> HIDE DEF n
  <2>3. \A k \in 0 .. n : ZeroAt(t, k) <=> ZeroAt(s, k)
    BY <1>1, <2>1 DEF ZeroAt
  <2>4. \A k \in 0 .. n : DigitAt(t, k) <=> DigitAt(s, k)
    <3> SUFFICES ASSUME NEW k \in 0 .. n, k > Sign(s) PROVE DigitAt(t, k) <=> DigitAt(s, k)
      BY <2>1 DEF DigitAt
    <3>1. Sign(s) + 1 \in 1 .. n + 1 /\ Sign(s) + 1 \in 1 .. n
      BY <1>1, <2>1
    <3> QED BY <1>1, <2>1, <2>2, <3>1 DEF DigitAt
  <2>5. \A k \in 0 .. n : IntAt(t, k) <=> IntAt(s, k)
    BY <2>3, <2>4 DEF IntAt
  <2>6. \A k \in 0 .. n : DotAt(t, k) <=> DotAt(s, k)
    <3>1. \A k \in 0 .. n : k > 1 => k - 1 \in 0 .. n /\ t[k] = s[k]
      BY <1>1
    <3> QED BY <2>5, <3>1 DEF DotAt
  <2>7. \A k \in 0 .. n : \A m \in 2 .. k - 1 : m \in 0 .. n /\ m + 1 \in 1 .. n + 1
    BY <1>1
  <2>8. \A k \in 0 .. n : FractionAt(t, k) <=> FractionAt(s, k)
    BY <2>2, <2>6, <2>7 DEF FractionAt
  <2>9. \A k \in 0 .. n : MantissaAt(t, k) <=> MantissaAt(s, k)
    BY <2>5, <2>8 DEF MantissaAt
  <2>10. \A k \in 0 .. n : k > 1 => k - 1 \in 0 .. n /\ t[k] = s[k]
    BY <1>1
  <2>11. \A k \in 0 .. n : ExpAt(t, k) <=> ExpAt(s, k)
    BY <2>9, <2>10 DEF ExpAt
  <2>12. \A k \in 0 .. n : k > 2 => k - 1 \in 0 .. n /\ t[k] = s[k]
    BY <1>1
  <2>13. \A k \in 0 .. n : ExpSignAt(t, k) <=> ExpSignAt(s, k)
    BY <2>11, <2>12 DEF ExpSignAt
  <2>14. \A k \in 0 .. n : ExpDigitAt(t, k) <=> ExpDigitAt(s, k)
    BY <2>2, <2>7, <2>11, <2>13 DEF ExpDigitAt
  <2>15. n \in 0 .. n /\ NumberShape(q, s, n)
    BY <1>1 DEF n
  <2>16. NumberShape(q, t, n)
    BY <2>1, <2>3, <2>4, <2>6, <2>8, <2>11, <2>13, <2>14, <2>15 DEF NumberShape
  <2> QED BY <2>16 DEF n, t
<1> QED BY <1>1, <1>2, <1>3

\* A step of the automaton follows the shape.
LEMMA ShapeStep ==
  ASSUME NEW s \in Seq(Chars), NEW c \in Chars, NEW q \in States,
         NumberShape(q, s, Len(s))
  PROVE  NumberShape(Step(q, c), Append(s, c), Len(s) + 1)
<1> DEFINE t == Append(s, c)
           n == Len(s)
<1>1. t \in Seq(Chars) /\ Len(t) = n + 1 /\ n \in Nat /\ t[n + 1] = c /\ n < Len(t) /\ t # << >>
  OBVIOUS
<1>2. NumberShape(q, t, n)
  BY ShapeOfPrefix
<1>3. Sign(t) \in {0, 1} /\ (Sign(t) = 1 <=> t[1] = "-")
  BY <1>1 DEF Sign
<1> HIDE DEF t, n
<1>4. /\ ZeroAt(t, n + 1) <=> n = Sign(t) /\ c = "0"
      /\ DigitAt(t, n + 1) <=> (n = Sign(t) /\ c = "1") \/ (DigitAt(t, n) /\ c \in Digits)
      /\ DotAt(t, n + 1) <=> n > 0 /\ IntAt(t, n) /\ c = "."
      /\ FractionAt(t, n + 1) <=> (DotAt(t, n) \/ FractionAt(t, n)) /\ c \in Digits
      /\ ExpAt(t, n + 1) <=> n > 0 /\ MantissaAt(t, n) /\ c = "e"
      /\ ExpSignAt(t, n + 1) <=> n > 1 /\ ExpAt(t, n) /\ c \in {"+", "-"}
      /\ ExpDigitAt(t, n + 1) <=>
           (ExpAt(t, n) \/ ExpSignAt(t, n) \/ ExpDigitAt(t, n)) /\ c \in Digits
  BY <1>1, Grow
<1>5. c \in {"0", "1"} => (n = Sign(t) <=> q \in {"START", "MINUS"})
  BY <1>1, <1>2, <1>3 DEF NumberShape
<1>6. (IntAt(t, n) => n > 0) /\ (FractionAt(t, n) => n > 0) /\ (ExpAt(t, n) => n > 1)
  BY <1>1, <1>3 DEF IntAt, ZeroAt, DigitAt, FractionAt, ExpAt
<1>7. c = "-" => (n + 1 = 1 /\ Sign(t) = 1 <=> q = "START")
  BY <1>1, <1>2, <1>3 DEF NumberShape
<1>8. c # "-" => ~(n + 1 = 1 /\ Sign(t) = 1)
  BY <1>1, <1>3
<1>9. n + 1 # 0
  BY <1>1
<1>10. NumberShape(NextState(q, c), t, n + 1)
  <2> USE <1>2, <1>4, <1>5, <1>6, <1>7, <1>8, <1>9
      DEF NumberShape, NextState, IntAt, MantissaAt, States, Digits
  <2>1. CASE c = "0"
    BY <2>1
  <2>2. CASE c = "1"
    BY <2>2
  <2>3. CASE c = "-"
    BY <2>3
  <2>4. CASE c = "+"
    BY <2>4
  <2>5. CASE c = "."
    BY <2>5
  <2>6. CASE c = "e"
    BY <2>6
  <2>7. CASE c \in {"a", "quote", "ctl", "word"}
    BY <2>7
  <2> QED BY <2>1, <2>2, <2>3, <2>4, <2>5, <2>6, <2>7 DEF Chars
<1> QED BY <1>10, StepIs DEF t, n

\* A piece of a sequence, the way the proofs below use it.
LEMMA Piece ==
  ASSUME NEW s \in Seq(Chars), NEW x \in 1 .. Len(s) + 1, NEW y \in 0 .. Len(s), x <= y + 1
  PROVE  /\ SubSeq(s, x, y) \in Seq(Chars) /\ Len(SubSeq(s, x, y)) = (y - x) + 1
         /\ \A k \in 1 .. (y - x) + 1 : SubSeq(s, x, y)[k] = s[(x + k) - 1]
         /\ AllDigits(SubSeq(s, x, y)) <=> x <= y /\ DigitsAt(s, x, y)
         /\ x <= y => SubSeq(s, x, y) # << >> /\ Tail(SubSeq(s, x, y)) = SubSeq(s, x + 1, y)
<1> DEFINE u == SubSeq(s, x, y)
           m == (y - x) + 1
<1>1. m \in Nat /\ Len(s) \in Nat
  OBVIOUS
<1>2. u \in Seq(Chars) /\ Len(u) = m /\ \A k \in 1 .. m : u[k] = s[(x + k) - 1]
  OBVIOUS
<1>3. AllDigits(u) <=> x <= y /\ DigitsAt(s, x, y)
  <2>1. DOMAIN u = 1 .. m /\ (u # << >> <=> x <= y)
    BY <1>1, <1>2
  <2>2. ASSUME DigitsAt(s, x, y), NEW k \in 1 .. m PROVE u[k] \in Digits
    <3>1. (x + k) - 1 \in x .. y
      OBVIOUS
    <3> QED BY <1>2, <2>2, <3>1 DEF DigitsAt
  <2>3. ASSUME \A k \in 1 .. m : u[k] \in Digits, NEW k \in x .. y PROVE s[k] \in Digits
    <3>1. (k - x) + 1 \in 1 .. m /\ (x + ((k - x) + 1)) - 1 = k
      OBVIOUS
    <3> QED BY <1>2, <2>3, <3>1
  <2> QED BY <2>1, <2>2, <2>3 DEF AllDigits, DigitsAt
<1>4. ASSUME x <= y PROVE u # << >> /\ Tail(u) = SubSeq(s, x + 1, y)
  <2>1. x \in 1 .. Len(s) /\ y \in x .. Len(s)
    BY <1>1, <1>4
  <2>2. Tail(u) = SubSeq(s, x + 1, y)
    BY <2>1, HeadTailOfSubSeq
  <2>3. u # << >>
    <3> HIDE DEF u
    <3> QED BY <1>1, <1>2, <1>4
  <2> QED BY <2>2, <2>3
<1> QED BY <1>2, <1>3, <1>4

\* The grammar by positions: t is the number s without its sign.
Unsigned(s, t) ==
  Len(s) = Len(t) + Sign(s) /\ \A k \in 1 .. Len(t) : t[k] = s[k + Sign(s)]

FractionIn(s, t, i, j) ==
  \/ i = j
  \/ i + 2 <= j /\ t[i + 1] = "." /\ DigitsAt(s, (i + 2) + Sign(s), j + Sign(s))

ExponentIn(s, t, j) ==
  \/ j = Len(t)
  \/ /\ j + 2 <= Len(t) /\ t[j + 1] = "e"
     /\ \/ DigitsAt(s, (j + 2) + Sign(s), Len(s))
        \/ /\ j + 3 <= Len(t) /\ t[j + 2] \in {"+", "-"}
           /\ DigitsAt(s, (j + 3) + Sign(s), Len(s))

LEMMA Parts ==
  ASSUME NEW s \in Seq(Chars), NEW t \in Seq(Chars), Unsigned(s, t)
  PROVE  /\ \A i \in 0 .. Len(t) : JsonInt(SubSeq(t, 1, i)) <=> IntAt(s, i + Sign(s))
         /\ \A j \in 0 .. Len(t) : \A i \in 0 .. j :
              JsonFrac(SubSeq(t, i + 1, j)) <=> FractionIn(s, t, i, j)
         /\ \A j \in 0 .. Len(t) :
              JsonExp(SubSeq(t, j + 1, Len(t))) <=> ExponentIn(s, t, j)
<1> DEFINE M == Len(t)
           a == Sign(s)
<1>1. M \in Nat
  OBVIOUS
<1>0. a \in {0, 1} /\ Len(s) = Len(t) + a /\ \A k \in 1 .. Len(t) : t[k] = s[k + a]
  BY DEF Unsigned, Sign
<1> HIDE DEF a
<1> USE <1>0
<1>2. \A x \in 1 .. M + 1, y \in 0 .. M : DigitsAt(t, x, y) <=> DigitsAt(s, x + a, y + a)
  <2> SUFFICES ASSUME NEW x \in 1 .. M + 1, NEW y \in 0 .. M
               PROVE  DigitsAt(t, x, y) <=> DigitsAt(s, x + a, y + a)
    OBVIOUS
  <2>1. \A k \in x .. y : k \in 1 .. M /\ k + a \in x + a .. y + a
    BY <1>1
  <2>2. \A k \in x + a .. y + a : k - a \in x .. y /\ k - a \in 1 .. M /\ (k - a) + a = k
    BY <1>1
  <2>3. ASSUME DigitsAt(s, x + a, y + a) PROVE DigitsAt(t, x, y)
    BY <2>1, <2>3 DEF DigitsAt
  <2>4. ASSUME DigitsAt(t, x, y), NEW k \in x + a .. y + a PROVE s[k] \in Digits
    <3>1. t[k - a] \in Digits /\ t[k - a] = s[(k - a) + a]
      BY <2>2, <2>4 DEF DigitsAt
    <3> QED BY <2>2, <3>1
  <2> QED BY <2>3, <2>4 DEF DigitsAt
<1>3. ASSUME NEW i \in 0 .. M PROVE JsonInt(SubSeq(t, 1, i)) <=> IntAt(s, i + a)
  <2> DEFINE u == SubSeq(t, 1, i)
  <2>1. 1 \in 1 .. M + 1 /\ 1 <= i + 1
    BY <1>1
  <2>2. /\ Len(u) = (i - 1) + 1 /\ \A k \in 1 .. (i - 1) + 1 : u[k] = t[(1 + k) - 1]
        /\ AllDigits(u) <=> 1 <= i /\ DigitsAt(t, 1, i)
    BY <2>1, Piece
  <2>3. Len(u) = i /\ (1 <= i => u[1] = t[1] /\ t[1] = s[a + 1])
    BY <1>1, <2>2
  <2>4. AllDigits(u) <=> 1 <= i /\ DigitsAt(s, 1 + a, i + a)
    BY <1>2, <2>1, <2>2
  <2> HIDE DEF u
  <2>5. CASE i = 0
    BY <2>4, <2>5 DEF JsonInt, IntAt, ZeroAt, DigitAt, u, a
  <2>6. CASE i # 0
    <3>1. 1 <= i /\ i + a > a /\ (i + a = a + 1 <=> i = 1) /\ 1 + a = a + 1
      BY <1>1, <2>6
    <3>2. i = 1 /\ s[a + 1] \in Digits => DigitsAt(s, a + 1, i + a)
      BY DEF DigitsAt
    <3>3. DigitsAt(s, a + 1, i + a) => s[a + 1] \in {"0", "1"}
      BY <3>1 DEF DigitsAt, Digits
    <3>4. IntAt(s, i + a) <=> \/ i = 1 /\ s[a + 1] = "0"
                              \/ s[a + 1] = "1" /\ DigitsAt(s, a + 1, i + a)
      BY <3>1 DEF IntAt, ZeroAt, DigitAt, a
    <3>5. JsonInt(u) <=> DigitsAt(s, a + 1, i + a) /\ (s[a + 1] = "0" => i = 1)
      BY <2>3, <2>4, <3>1 DEF JsonInt
    <3> QED BY <3>2, <3>3, <3>4, <3>5 DEF u, Digits
  <2> QED BY <2>5, <2>6
<1>4. ASSUME NEW j \in 0 .. M, NEW i \in 0 .. j
      PROVE  JsonFrac(SubSeq(t, i + 1, j)) <=>
                 \/ i = j
                 \/ i + 2 <= j /\ t[i + 1] = "." /\ DigitsAt(s, (i + 2) + a, j + a)
  <2> DEFINE u == SubSeq(t, i + 1, j)
  <2>1. i + 1 \in 1 .. M + 1 /\ i + 1 <= j + 1
    BY <1>1
  <2>2. CASE i = j
    BY <2>2, SubSeqEmpty DEF JsonFrac
  <2>3. CASE i < j
    <3>0. i + 1 <= j
      BY <2>3
    <3>1. /\ \A k \in 1 .. (j - (i + 1)) + 1 : u[k] = t[((i + 1) + k) - 1]
          /\ u # << >> /\ Tail(u) = SubSeq(t, (i + 1) + 1, j)
      BY <2>1, <3>0, Piece, ZenonT(40)
    <3>2. u[1] = t[i + 1]
      BY <2>3, <3>1
    <3>3. (i + 1) + 1 = i + 2 /\ i + 2 \in 1 .. M + 1 /\ i + 2 <= j + 1
      BY <1>1, <2>3
    <3>4. AllDigits(SubSeq(t, i + 2, j)) <=> i + 2 <= j /\ DigitsAt(s, (i + 2) + a, j + a)
      BY <1>2, <3>3, Piece
    <3>5. Tail(u) = SubSeq(t, i + 2, j) /\ i # j
      BY <2>3, <3>1, <3>3
    <3> HIDE DEF u
    <3>6. JsonFrac(u) <=> t[i + 1] = "." /\ AllDigits(Tail(u))
      BY <3>1, <3>2 DEF JsonFrac
    <3>7. JsonFrac(u) <=>
             t[i + 1] = "." /\ i + 2 <= j /\ DigitsAt(s, (i + 2) + a, j + a)
      BY <3>4, <3>5, <3>6
    <3> QED BY <3>5, <3>7 DEF u
  <2> QED BY <2>2, <2>3
<1>5. ASSUME NEW j \in 0 .. M
      PROVE  JsonExp(SubSeq(t, j + 1, M)) <=>
                 \/ j = M
                 \/ /\ j + 2 <= M /\ t[j + 1] = "e"
                    /\ \/ DigitsAt(s, (j + 2) + a, Len(s))
                       \/ /\ j + 3 <= M /\ t[j + 2] \in {"+", "-"}
                          /\ DigitsAt(s, (j + 3) + a, Len(s))
  <2> DEFINE u == SubSeq(t, j + 1, M)
  <2>1. j + 1 \in 1 .. M + 1 /\ j + 1 <= M + 1 /\ M \in 0 .. M /\ M + a = Len(s)
    BY <1>1
  <2>2. CASE j = M
    BY <2>2, SubSeqEmpty DEF JsonExp
  <2>3. CASE j < M
    <3>0. j + 1 <= M
      BY <1>1, <2>3
    <3>1. /\ Len(u) = (M - (j + 1)) + 1
          /\ \A k \in 1 .. (M - (j + 1)) + 1 : u[k] = t[((j + 1) + k) - 1]
          /\ u # << >> /\ Tail(u) = SubSeq(t, (j + 1) + 1, M)
      BY <2>1, <3>0, Piece, ZenonT(40)
    <3>2. Len(u) = M - j /\ u[1] = t[j + 1] /\ (j + 2 <= M => u[2] = t[j + 2])
      BY <1>1, <2>3, <3>1
    <3>3. (j + 1) + 1 = j + 2 /\ j + 2 \in 1 .. M + 1 /\ j + 2 <= M + 1
      BY <1>1, <2>3
    <3>4. AllDigits(SubSeq(t, j + 2, M)) <=> j + 2 <= M /\ DigitsAt(s, (j + 2) + a, Len(s))
      BY <1>2, <2>1, <3>3, Piece, SMTT(30)
    <3>5. ASSUME j + 3 <= M
          PROVE  AllDigits(SubSeq(u, 3, Len(u))) <=> DigitsAt(s, (j + 3) + a, Len(s))
      <4>1. /\ j + 1 \in 1 .. M /\ M \in 1 .. M
            /\ 3 \in 1 .. (M - (j + 1)) + 1 /\ Len(u) \in 1 .. (M - (j + 1)) + 1
            /\ ((j + 1) + 3) - 1 = j + 3 /\ ((j + 1) + Len(u)) - 1 = M
        <5> HIDE DEF M, u
        <5> QED BY <1>1, <3>2, <3>5
      <4>2. SubSeq(u, 3, Len(u)) = SubSeq(t, ((j + 1) + 3) - 1, ((j + 1) + Len(u)) - 1)
        <5> HIDE DEF M
        <5>1. SubSeq(SubSeq(t, j + 1, M), 3, Len(u))
                = SubSeq(t, ((j + 1) + 3) - 1, ((j + 1) + Len(u)) - 1)
          BY <4>1, SubSeqOfSubSeq DEF M
        <5> QED BY <5>1
      <4>3. SubSeq(u, 3, Len(u)) = SubSeq(t, j + 3, M)
        BY <4>1, <4>2
      <4>4. j + 3 \in 1 .. M + 1 /\ j + 3 <= M + 1
        BY <1>1, <3>5
      <4>5. AllDigits(SubSeq(t, j + 3, M)) <=> DigitsAt(t, j + 3, M)
        BY <2>1, <3>5, <4>4, Piece
      <4>6. DigitsAt(t, j + 3, M) <=> DigitsAt(s, (j + 3) + a, M + a)
        BY <1>2, <2>1, <4>4
      <4> QED BY <2>1, <4>3, <4>5, <4>6
    <3>6. (Len(u) > 2 <=> j + 3 <= M) /\ (j + 3 <= M => j + 2 <= M) /\ j # M
      BY <1>1, <2>3, <3>2
    <3> QED BY <3>1, <3>2, <3>3, <3>4, <3>5, <3>6 DEF JsonExp
  <2> QED BY <2>2, <2>3
<1> QED BY <1>3, <1>4, <1>5 DEF FractionIn, ExponentIn, a

\* What the accepting states stand for is the grammar.
LEMMA NumberIs ==
  ASSUME NEW s \in Seq(Chars)
  PROVE  JsonNumber(s) <=> MantissaAt(s, Len(s)) \/ ExpDigitAt(s, Len(s))
<1> DEFINE t == IF s # << >> /\ s[1] = "-" THEN Tail(s) ELSE s
           a == Sign(s)
           M == Len(t)
           n == Len(s)
           Frac(i, j) == FractionIn(s, t, i, j)
           Exp(j) == ExponentIn(s, t, j)
<1>1. /\ t \in Seq(Chars) /\ a \in {0, 1} /\ n = M + a /\ M \in Nat /\ n \in Nat
      /\ \A k \in 1 .. M : t[k] = s[k + a]
  BY DEF Sign
<1>2. /\ \A i \in 0 .. M : JsonInt(SubSeq(t, 1, i)) <=> IntAt(s, i + a)
      /\ \A j \in 0 .. M : \A i \in 0 .. j : JsonFrac(SubSeq(t, i + 1, j)) <=> Frac(i, j)
      /\ \A j \in 0 .. M : JsonExp(SubSeq(t, j + 1, M)) <=> Exp(j)
  <2>1. Unsigned(s, t)
    BY <1>1 DEF Unsigned
  <2> HIDE DEF t
  <2> QED BY <1>1, <2>1, Parts
<1>3. JsonNumber(s) <=>
        \E i, j \in 0 .. M : /\ i <= j
                             /\ JsonInt(SubSeq(t, 1, i))
                             /\ JsonFrac(SubSeq(t, i + 1, j))
                             /\ JsonExp(SubSeq(t, j + 1, M))
  BY DEF JsonNumber
<1> HIDE DEF t, a, M, n, Frac, Exp
<1>4. \A i, j \in 0 .. M : i <= j => i \in 0 .. j
  BY <1>1
<1>5. JsonNumber(s) <=>
        \E i, j \in 0 .. M : i <= j /\ IntAt(s, i + a) /\ Frac(i, j) /\ Exp(j)
  BY <1>2, <1>3, <1>4
<1>6. \A k : IntAt(s, k) => k > a
  BY <1>1 DEF IntAt, ZeroAt, DigitAt, a
<1>7. ASSUME NEW i \in 0 .. M, NEW j \in 0 .. M, i <= j, IntAt(s, i + a), Frac(i, j)
      PROVE  MantissaAt(s, j + a)
  <2>1. CASE i = j
    BY <1>7, <2>1 DEF MantissaAt
  <2>2. CASE i # j
    <3> DEFINE k == (i + 1) + a
    <3>1. i + 2 <= j /\ t[i + 1] = "." /\ DigitsAt(s, (i + 2) + a, j + a)
      BY <1>7, <2>2 DEF Frac, FractionIn, a
    <3>2. i + a > a
      BY <1>6, <1>7
    <3>3. /\ i + 1 \in 1 .. M /\ k \in 2 .. (j + a) - 1 /\ k > 1
          /\ k - 1 = i + a /\ k + 1 = (i + 2) + a
      BY <1>1, <3>1, <3>2
    <3>4. s[k] = "."
      BY <1>1, <3>1, <3>3
    <3> HIDE DEF k
    <3>5. DotAt(s, k) /\ DigitsAt(s, k + 1, j + a)
      BY <1>7, <3>1, <3>3, <3>4 DEF DotAt
    <3>6. \E m \in 2 .. (j + a) - 1 : DotAt(s, m) /\ DigitsAt(s, m + 1, j + a)
      BY <3>3, <3>5, Zenon
    <3> QED BY <3>6 DEF MantissaAt, FractionAt
  <2> QED BY <2>1, <2>2
<1>8. ASSUME NEW j \in 0 .. M, MantissaAt(s, j + a)
      PROVE  \E i \in 0 .. M : i <= j /\ IntAt(s, i + a) /\ Frac(i, j)
  <2>1. CASE IntAt(s, j + a)
    BY <1>1, <2>1 DEF Frac, FractionIn, a
  <2>2. CASE FractionAt(s, j + a)
    <3>1. PICK k \in 2 .. (j + a) - 1 : DotAt(s, k) /\ DigitsAt(s, k + 1, j + a)
      BY <2>2 DEF FractionAt
    <3> DEFINE i == (k - 1) - a
    <3>2. IntAt(s, k - 1) /\ s[k] = "." /\ k - 1 > a
      BY <1>6, <3>1 DEF DotAt
    <3>3. /\ i \in 0 .. M /\ i <= j /\ i + a = k - 1 /\ i + 2 <= j /\ i + 1 \in 1 .. M
          /\ (i + 1) + a = k /\ (i + 2) + a = k + 1
      BY <1>1, <3>2
    <3>4. t[i + 1] = "."
      BY <1>1, <3>2, <3>3
    <3> HIDE DEF i
    <3> QED BY <3>1, <3>2, <3>3, <3>4 DEF Frac, FractionIn, a
  <2> QED BY <1>8, <2>1, <2>2 DEF MantissaAt
<1>9. JsonNumber(s) <=> \E j \in 0 .. M : MantissaAt(s, j + a) /\ Exp(j)
  BY <1>5, <1>7, <1>8
<1>10. \A k \in Nat : MantissaAt(s, k) => k > a
  BY <1>1, <1>6 DEF MantissaAt, FractionAt
<1>11. ASSUME NEW j \in 0 .. M, MantissaAt(s, j + a), Exp(j)
       PROVE  MantissaAt(s, n) \/ ExpDigitAt(s, n)
  <2>1. CASE j = M
    BY <1>1, <1>11, <2>1
  <2>2. CASE j # M
    <3> DEFINE k == (j + 1) + a
    <3>1. /\ j + 2 <= M /\ t[j + 1] = "e"
          /\ \/ DigitsAt(s, (j + 2) + a, n)
             \/ j + 3 <= M /\ t[j + 2] \in {"+", "-"} /\ DigitsAt(s, (j + 3) + a, n)
      BY <1>11, <2>2 DEF Exp, ExponentIn, M, a, n
    <3>2. j + a > a
      BY <1>1, <1>10, <1>11
    <3>3. /\ j + 1 \in 1 .. M /\ k \in 2 .. n - 1 /\ k > 1 /\ k - 1 = j + a
          /\ k + 1 = (j + 2) + a /\ j + 2 \in 1 .. M
          /\ j + 3 <= M => k + 1 \in 2 .. n - 1
          /\ (k + 1) + 1 = (j + 3) + a /\ k + 1 > 2 /\ (k + 1) - 1 = k
      BY <1>1, <3>1, <3>2
    <3>4. s[k] = "e" /\ s[k + 1] = t[j + 2]
      BY <1>1, <3>1, <3>3
    <3> HIDE DEF k
    <3>5. ExpAt(s, k)
      BY <1>11, <3>3, <3>4 DEF ExpAt
    <3>6. CASE DigitsAt(s, (j + 2) + a, n)
      BY <3>3, <3>5, <3>6 DEF ExpDigitAt
    <3>7. CASE j + 3 <= M /\ t[j + 2] \in {"+", "-"} /\ DigitsAt(s, (j + 3) + a, n)
      <4>1. ExpSignAt(s, k + 1)
        BY <3>3, <3>4, <3>5, <3>7 DEF ExpSignAt
      <4> QED BY <3>3, <3>7, <4>1 DEF ExpDigitAt
    <3> QED BY <3>1, <3>6, <3>7
  <2> QED BY <2>1, <2>2
<1>12. ASSUME MantissaAt(s, n) PROVE \E j \in 0 .. M : MantissaAt(s, j + a) /\ Exp(j)
  BY <1>1, <1>12 DEF Exp, ExponentIn, M, a, n
<1>13. ASSUME ExpDigitAt(s, n) PROVE \E j \in 0 .. M : MantissaAt(s, j + a) /\ Exp(j)
  <2>1. PICK k \in 2 .. n - 1 : (ExpAt(s, k) \/ ExpSignAt(s, k)) /\ DigitsAt(s, k + 1, n)
    BY <1>13 DEF ExpDigitAt
  <2>2. CASE ExpAt(s, k)
    <3> DEFINE j == (k - 1) - a
    <3>1. MantissaAt(s, k - 1) /\ s[k] = "e" /\ k - 1 > a
      BY <1>10, <2>2 DEF ExpAt
    <3>2. /\ j \in 0 .. M /\ j + a = k - 1 /\ j + 2 <= M /\ j + 1 \in 1 .. M
          /\ (j + 1) + a = k /\ (j + 2) + a = k + 1
      BY <1>1, <3>1
    <3>3. t[j + 1] = "e"
      BY <1>1, <3>1, <3>2
    <3> HIDE DEF j
    <3> QED BY <2>1, <3>1, <3>2, <3>3 DEF Exp, ExponentIn, M, a, n
  <2>3. CASE ExpSignAt(s, k)
    <3> DEFINE j == (k - 2) - a
    <3>1. k > 2 /\ ExpAt(s, k - 1) /\ s[k] \in {"+", "-"}
      BY <2>3 DEF ExpSignAt
    <3>2. MantissaAt(s, k - 2) /\ s[k - 1] = "e" /\ k - 2 > a
      <4>1. (k - 1) - 1 = k - 2 /\ k - 2 \in Nat
        BY <3>1
      <4> QED BY <1>10, <3>1, <4>1 DEF ExpAt
    <3>3. /\ j \in 0 .. M /\ j + a = k - 2 /\ j + 2 <= M /\ j + 3 <= M
          /\ j + 1 \in 1 .. M /\ j + 2 \in 1 .. M
          /\ (j + 1) + a = k - 1 /\ (j + 2) + a = k /\ (j + 3) + a = k + 1
      BY <1>1, <3>2
    <3>4. t[j + 1] = "e" /\ t[j + 2] \in {"+", "-"}
      BY <1>1, <3>1, <3>2, <3>3
    <3> HIDE DEF j
    <3> QED BY <2>1, <3>2, <3>3, <3>4 DEF Exp, ExponentIn, M, a, n
  <2> QED BY <2>1, <2>2, <2>3
<1> QED BY <1>9, <1>11, <1>12, <1>13 DEF n

\* The state of the automaton tells the shape of what was read.
BareInv ==
  /\ ValueTyped
  /\ num \in States /\ NumberShape(num, val, Len(val))
  /\ BareIffLiteral

LEMMA BareStep == BareInv /\ [Next]_jvars => BareInv'
<1> SUFFICES ASSUME BareInv, [Next]_jvars PROVE BareInv'
  OBVIOUS
<1>1. CASE Finish
  <2>1. JsonNumber(val) <=> MantissaAt(val, Len(val)) \/ ExpDigitAt(val, Len(val))
    BY NumberIs DEF BareInv, ValueTyped
  <2>2. num \in Accepting <=> JsonNumber(val)
    BY <2>1 DEF BareInv, NumberShape, Accepting, MantissaAt, IntAt
  <2> QED BY <1>1, <2>2 DEF Finish, IsString, BareInv, ValueTyped, BareIffLiteral
<1>2. ASSUME NEW c \in Alphabet, Read(c) PROVE BareInv'
  <2>1. c \in Chars /\ val \in Seq(Chars) /\ num \in States
    BY JsonAssumption DEF BareInv, ValueTyped
  <2>2. /\ val' = Append(val, c) /\ num' = Step(num, c)
        /\ field = "none" /\ field' = field
    BY <1>2 DEF Read
  <2>3. val' \in Seq(Chars) /\ Len(val') = Len(val) + 1
    BY <2>1, <2>2
  <2>4. NumberShape(num', val', Len(val'))
    BY <2>1, <2>2, <2>3, ShapeStep DEF BareInv
  <2>5. num' \in States
    BY <2>1, <2>2, StepIs
  <2> QED BY <2>2, <2>3, <2>4, <2>5 DEF BareInv, ValueTyped, BareIffLiteral
<1>3. CASE UNCHANGED jvars
  BY <1>3 DEF jvars, BareInv, ValueTyped, BareIffLiteral
<1> QED BY <1>1, <1>2, <1>3 DEF Next

\* Exactly the literals of RFC 8259 go out bare, for values of every length
\* (is_json_string_literal and its automaton).
THEOREM BareAreLiterals == Spec => []BareIffLiteral
<1>1. Init => BareInv
  <2> SUFFICES ASSUME Init PROVE BareInv
    OBVIOUS
  <2>1. val = << >> /\ Len(val) = 0 /\ num = "START" /\ field = "none" /\ Sign(val) = 0
    BY DEF Init, Sign
  <2>2. NumberShape(num, val, Len(val))
    BY <2>1 DEF NumberShape, ZeroAt, DigitAt, DotAt, FractionAt, ExpAt, ExpSignAt, ExpDigitAt
  <2> QED BY <2>1, <2>2 DEF BareInv, ValueTyped, States, BareIffLiteral
<1>2. BareInv => BareIffLiteral
  BY DEF BareInv
<1> QED BY <1>1, <1>2, BareStep, PTL DEF Spec

=============================================================================
