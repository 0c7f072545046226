----------------------------- MODULE FileProofs -----------------------------
(***************************************************************************)
(* Proofs about File, for every length of prefix, value and postfix, any   *)
(* number of records, and every way in which the kernel cuts the calls.    *)
(***************************************************************************)
EXTENDS File, SequenceTheorems, TLAPS

-----------------------------------------------------------------------------
(***************************************************************************)
(* Cutting sequences.                                                      *)
(***************************************************************************)

\* s2 is s without its first n elements.
Cut(S, s, s2, n) == \E q \in Seq(S) : Len(q) = n /\ s = q \o s2

LEMMA CutLeft ==
  ASSUME NEW S, NEW s \in Seq(S), NEW s2 \in Seq(S), NEW t \in Seq(S), NEW n, Cut(S, s, s2, n)
  PROVE  Cut(S, s \o t, s2 \o t, n)
<1>1. PICK q \in Seq(S) : Len(q) = n /\ s = q \o s2
  BY DEF Cut
<1>2. (q \o s2) \o t = q \o (s2 \o t)
  BY ConcatAssociative
<1>3. s \o t = q \o (s2 \o t)
  BY <1>1, <1>2
<1> QED BY <1>1, <1>3 DEF Cut

LEMMA CutRight ==
  ASSUME NEW S, NEW s \in Seq(S), NEW s2 \in Seq(S), NEW t \in Seq(S), NEW n, Cut(S, s, s2, n)
  PROVE  Cut(S, t \o s, s2, Len(t) + n)
<1>1. PICK q \in Seq(S) : Len(q) = n /\ s = q \o s2
  BY DEF Cut
<1>2. (t \o q) \o s2 = t \o (q \o s2)
  BY ConcatAssociative
<1>3. t \o q \in Seq(S) /\ Len(t \o q) = Len(t) + Len(q)
  BY ConcatProperties
<1>4. t \o s = (t \o q) \o s2 /\ Len(t \o q) = Len(t) + n
  BY <1>1, <1>2, <1>3
<1> QED BY <1>3, <1>4, Zenon DEF Cut

\* What is cut off is the beginning.
LEMMA CutIsPrefix ==
  ASSUME NEW S, NEW s \in Seq(S), NEW s2 \in Seq(S), NEW n, Cut(S, s, s2, n)
  PROVE  SubSeq(s, 1, n) \in Seq(S) /\ s = SubSeq(s, 1, n) \o s2
<1>1. PICK q \in Seq(S) : Len(q) = n /\ s = q \o s2
  BY DEF Cut
<1>2. /\ n \in Nat /\ Len(s2) \in Nat /\ Len(s) = n + Len(s2)
      /\ \A i \in 1 .. n + Len(s2) : s[i] = IF i <= n THEN q[i] ELSE s2[i - n]
  BY <1>1, ConcatProperties, LenProperties
<1>3. \A i \in 1 .. n : i \in 1 .. n + Len(s2) /\ i <= n
  BY <1>2
<1>4. \A i \in 1 .. n : s[i] = q[i] /\ s[i] \in S
  BY <1>1, <1>2, <1>3, ElementOfSeq
<1> DEFINE p == SubSeq(s, 1, n)
<1>5. /\ p \in Seq(S) /\ Len(p) = IF 1 <= n THEN n - 1 + 1 ELSE 0
      /\ \A i \in 1 .. n - 1 + 1 : p[i] = s[1 + i - 1]
  BY <1>2, <1>4, SubSeqProperties
<1> HIDE DEF p
<1>6. Len(p) = n /\ n - 1 + 1 = n /\ \A i \in 1 .. n : 1 + i - 1 = i
  BY <1>2, <1>5
<1>7. \A i \in 1 .. Len(p) : p[i] = q[i]
  BY <1>4, <1>5, <1>6
<1>8. p = q
  BY <1>1, <1>5, <1>6, <1>7, SeqEqual
<1> QED BY <1>1, <1>5, <1>8 DEF p

-----------------------------------------------------------------------------
(***************************************************************************)
(* The bytes an iovec describes.                                           *)
(***************************************************************************)
Marks == Elements \X Nat \X Nat

LEMMA BytesFacts ==
  ASSUME FileInv, NEW e \in Elements, NEW b \in Nat, NEW l \in Nat
  PROVE  /\ BytesOf(e, Elem(b, l)) \in Seq(Marks) /\ Len(BytesOf(e, Elem(b, l))) = l
         /\ \A i \in 1 .. l : BytesOf(e, Elem(b, l))[i] = ByteAt(e, b + i - 1)
<1>1. \A i \in 1 .. l : b + i - 1 \in Nat
  OBVIOUS
<1>2. \A off \in Nat : ByteAt(e, off) \in Marks
  <2>1. \A off \in Nat : off < BufLen => off \in 0 .. BufLen - 1
    BY LengthAssumption
  <2> QED BY <2>1 DEF ByteAt, Marks, FileInv
<1>3. BytesOf(e, Elem(b, l)) = [i \in 1 .. l |-> ByteAt(e, b + i - 1)]
  BY DEF BytesOf, Elem
<1> QED BY <1>1, <1>2, <1>3

\* Moving iov_base forward cuts off bytes.
LEMMA BytesCut ==
  ASSUME FileInv, NEW e \in Elements, NEW b \in Nat, NEW l \in Nat, NEW p \in 0 .. l
  PROVE  Cut(Marks, BytesOf(e, Elem(b, l)), BytesOf(e, Elem(b + p, l - p)), p)
<1> DEFINE s == BytesOf(e, Elem(b, l))
           t == BytesOf(e, Elem(b + p, l - p))
           q == BytesOf(e, Elem(b, p))
<1>1. /\ s \in Seq(Marks) /\ Len(s) = l
      /\ \A i \in 1 .. l : s[i] = ByteAt(e, b + i - 1)
  BY BytesFacts
<1>2. p \in Nat /\ b + p \in Nat /\ l - p \in Nat /\ p + (l - p) = l
  OBVIOUS
<1>3. /\ t \in Seq(Marks) /\ Len(t) = l - p
      /\ \A i \in 1 .. l - p : t[i] = ByteAt(e, (b + p) + i - 1)
  BY <1>2, BytesFacts
<1>4. /\ q \in Seq(Marks) /\ Len(q) = p
      /\ \A i \in 1 .. p : q[i] = ByteAt(e, b + i - 1)
  BY <1>2, BytesFacts
<1> HIDE DEF s, t, q
<1> DEFINE c == q \o t
<1>5. /\ c \in Seq(Marks) /\ Len(c) = Len(q) + Len(t)
      /\ \A i \in 1 .. Len(q) + Len(t) : c[i] = IF i <= Len(q) THEN q[i] ELSE t[i - Len(q)]
  BY <1>3, <1>4, ConcatProperties
<1> HIDE DEF c
<1>6. Len(c) = l /\ \A i \in 1 .. l : c[i] = IF i <= p THEN q[i] ELSE t[i - p]
  BY <1>2, <1>3, <1>4, <1>5
<1>7. ASSUME NEW i \in 1 .. l PROVE s[i] = c[i]
  <2>1. CASE i <= p
    <3>1. i \in 1 .. p
      BY <1>2, <2>1
    <3> QED BY <1>1, <1>4, <1>6, <2>1, <3>1
  <2>2. CASE ~(i <= p)
    <3>1. i - p \in 1 .. l - p /\ (b + p) + (i - p) - 1 = b + i - 1
      BY <1>2, <2>2
    <3> QED BY <1>1, <1>3, <1>6, <2>2, <3>1
  <2> QED BY <2>1, <2>2
<1>8. s = c
  BY <1>1, <1>5, <1>6, <1>7, SeqEqual
<1>9. Cut(Marks, s, t, p)
  BY <1>4, <1>8 DEF Cut, c
<1> QED BY <1>9 DEF s, t

LEMMA RestFacts ==
  ASSUME FileInv, NEW e \in Elements
  PROVE  /\ Rest(e) \in Seq(Marks)
         /\ Len(Rest(e)) = IF e < first THEN 0 ELSE iov[e].len
         /\ iov[e].base \in Nat /\ iov[e].len \in Nat /\ iov[e] = Elem(iov[e].base, iov[e].len)
<1>1. /\ iov[e].base \in Nat /\ iov[e].len \in Nat /\ iov[e] = Elem(iov[e].base, iov[e].len)
  BY DEF FileInv, Elem
<1>2. CASE e < first
  BY <1>1, <1>2 DEF Rest
<1>3. CASE ~(e < first)
  <2>1. /\ BytesOf(e, Elem(iov[e].base, iov[e].len)) \in Seq(Marks)
        /\ Len(BytesOf(e, Elem(iov[e].base, iov[e].len))) = iov[e].len
    BY <1>1, BytesFacts
  <2> QED BY <1>1, <1>3, <2>1 DEF Rest
<1> QED BY <1>2, <1>3

\* What UpTo counts.
LEMMA UpToFacts ==
  ASSUME FileInv
  PROVE  /\ Len(Rest(1)) \in Nat /\ Len(Rest(2)) \in Nat /\ Len(Rest(3)) \in Nat
         /\ UpTo(0) = 0 /\ UpTo(1) = Len(Rest(1)) /\ UpTo(2) = Len(Rest(1)) + Len(Rest(2))
         /\ UpTo(3) = Len(Rest(1)) + Len(Rest(2)) + Len(Rest(3))
         /\ UpTo(first - 1) = 0
<1>1. first \in 1 .. 4 /\ 1 \in Elements /\ 2 \in Elements /\ 3 \in Elements
  BY DEF FileInv, Elements
<1>2. /\ Len(Rest(1)) = (IF 1 < first THEN 0 ELSE iov[1].len) /\ iov[1].len \in Nat
      /\ Len(Rest(2)) = (IF 2 < first THEN 0 ELSE iov[2].len) /\ iov[2].len \in Nat
      /\ Len(Rest(3)) = (IF 3 < first THEN 0 ELSE iov[3].len) /\ iov[3].len \in Nat
  BY <1>1, RestFacts
<1>3. /\ \A d \in {1, 2, 3} : d \in first .. 3 <=> ~(d < first)
      /\ 1 \in first .. 1 <=> ~(1 < first)
      /\ 1 \in first .. 2 <=> ~(1 < first)
      /\ 2 \in first .. 2 <=> ~(2 < first)
      /\ \A d \in {1, 2, 3} : d \notin first .. 0 /\ d \notin first .. first - 1
      /\ 2 \notin first .. 1 /\ 3 \notin first .. 1 /\ 3 \notin first .. 2
  BY <1>1
<1>4. UpTo(0) = 0 /\ UpTo(first - 1) = 0
  BY <1>3 DEF UpTo, Share
<1>5. UpTo(1) = Len(Rest(1)) /\ UpTo(2) = Len(Rest(1)) + Len(Rest(2))
  BY <1>2, <1>3 DEF UpTo, Share
<1>6. UpTo(3) = Len(Rest(1)) + Len(Rest(2)) + Len(Rest(3))
  BY <1>2, <1>3 DEF UpTo, Share
<1> QED BY <1>2, <1>4, <1>5, <1>6

LEMMA PendingFacts ==
  ASSUME FileInv
  PROVE  Pending \in Seq(Marks) /\ Len(Pending) = UpTo(3)
<1>1. Rest(1) \in Seq(Marks) /\ Rest(2) \in Seq(Marks) /\ Rest(3) \in Seq(Marks)
  BY RestFacts DEF Elements
<1>2. Rest(1) \o Rest(2) \in Seq(Marks) /\ Len(Rest(1) \o Rest(2)) = Len(Rest(1)) + Len(Rest(2))
  BY <1>1, ConcatProperties
<1>3. Pending \in Seq(Marks) /\ Len(Pending) = Len(Rest(1) \o Rest(2)) + Len(Rest(3))
  BY <1>1, <1>2, ConcatProperties DEF Pending
<1> QED BY <1>2, <1>3, UpToFacts

\* The loop stops: at an element of which bytes are left, or behind the last.
LEMMA FirstOf ==
  ASSUME NEW f \in 1 .. 4, NEW W, 4 \in W
  PROVE  \E e \in f .. 4 : e \in W /\ \A d \in f .. e - 1 : d \notin W
<1>1. CASE f = 4
  BY <1>1
<1>2. CASE f = 3
  <2>1. CASE 3 \in W
    BY <1>2, <2>1
  <2>2. CASE 3 \notin W
    <3>1. 4 \in f .. 4 /\ \A d \in f .. 4 - 1 : d = 3
      BY <1>2
    <3> QED BY <2>2, <3>1
  <2> QED BY <2>1, <2>2
<1>3. CASE f = 2
  <2>1. CASE 2 \in W
    BY <1>3, <2>1
  <2>2. CASE 2 \notin W /\ 3 \in W
    <3>1. 3 \in f .. 4 /\ \A d \in f .. 3 - 1 : d = 2
      BY <1>3
    <3> QED BY <2>2, <3>1
  <2>3. CASE 2 \notin W /\ 3 \notin W
    <3>1. 4 \in f .. 4 /\ \A d \in f .. 4 - 1 : d \in {2, 3}
      BY <1>3
    <3> QED BY <2>3, <3>1
  <2> QED BY <2>1, <2>2, <2>3
<1>4. CASE f = 1
  <2>1. CASE 1 \in W
    BY <1>4, <2>1
  <2>2. CASE 1 \notin W /\ 2 \in W
    <3>1. 2 \in f .. 4 /\ \A d \in f .. 2 - 1 : d = 1
      BY <1>4
    <3> QED BY <2>2, <3>1
  <2>3. CASE 1 \notin W /\ 2 \notin W /\ 3 \in W
    <3>1. 3 \in f .. 4 /\ \A d \in f .. 3 - 1 : d \in {1, 2}
      BY <1>4
    <3> QED BY <2>3, <3>1
  <2>4. CASE 1 \notin W /\ 2 \notin W /\ 3 \notin W
    <3>1. 4 \in f .. 4 /\ \A d \in f .. 4 - 1 : d \in {1, 2, 3}
      BY <1>4
    <3> QED BY <2>4, <3>1
  <2> QED BY <2>1, <2>2, <2>3, <2>4
<1> QED BY <1>1, <1>2, <1>3, <1>4

LEMMA ReachedFacts ==
  ASSUME FileInv, NEW status \in Nat
  PROVE  /\ Reached(status) \in first .. 4 /\ first \in 1 .. 4
         /\ Reached(status) = 4 \/ UpTo(Reached(status)) > status
         /\ UpTo(Reached(status) - 1) \in Nat /\ UpTo(Reached(status) - 1) <= status
<1> DEFINE Stops(e) == /\ e = 4 \/ UpTo(e) > status
                       /\ \A d \in first .. e - 1 : UpTo(d) <= status
           W == {e \in 1 .. 4 : e = 4 \/ UpTo(e) > status}
           r == Reached(status)
<1>1. first \in 1 .. 4
  BY DEF FileInv
<1>2. /\ UpTo(0) \in Nat /\ UpTo(1) \in Nat /\ UpTo(2) \in Nat /\ UpTo(3) \in Nat
      /\ UpTo(first - 1) = 0
  BY UpToFacts
<1>3. \A d \in 0 .. 3 : UpTo(d) \in Nat
  <2>1. \A d \in 0 .. 3 : d \in {0, 1, 2, 3}
    OBVIOUS
  <2> QED BY <1>2, <2>1
<1>4. \E e \in first .. 4 : Stops(e)
  <2>1. 4 \in W
    OBVIOUS
  <2>2. PICK e \in first .. 4 : e \in W /\ \A d \in first .. e - 1 : d \notin W
    BY <1>1, <2>1, FirstOf
  <2>3. \A d \in first .. e - 1 : d \in 1 .. 4 /\ d \in 0 .. 3
    BY <1>1
  <2>4. \A d \in first .. e - 1 : UpTo(d) <= status
    BY <1>3, <2>2, <2>3
  <2> QED BY <2>2, <2>4
<1>5. r \in first .. 4 /\ Stops(r)
  BY <1>4 DEF Reached
<1> HIDE DEF r
<1>6. r - 1 = first - 1 \/ r - 1 \in first .. r - 1
  BY <1>1, <1>5
<1>7. r - 1 \in 0 .. 3
  BY <1>1, <1>5
<1>8. UpTo(r - 1) \in Nat /\ UpTo(r - 1) <= status
  BY <1>2, <1>3, <1>5, <1>6, <1>7
<1> QED BY <1>1, <1>5, <1>8 DEF r

\* The loop over the elements and the adjustment of the last one cut off
\* exactly the bytes that the kernel took.
LEMMA AdvanceCuts ==
  ASSUME FileInv, NEW status \in 1 .. Len(Pending), AdvanceIov(status), UNCHANGED stamp
  PROVE  /\ Cut(Marks, Pending, Pending', status) /\ Pending' \in Seq(Marks)
         /\ iov' \in [Elements -> [base : Nat, len : Nat]] /\ first' \in 1 .. 4
<1>0. status \in Nat /\ status <= UpTo(3)
  BY PendingFacts, UpToFacts
<1>e. PICK e \in 1 .. 4 : e = Reached(status)
  <2>1. Reached(status) \in first .. 4 /\ first \in 1 .. 4
    BY <1>0, ReachedFacts
  <2>2. \A r \in first .. 4 : r \in 1 .. 4
    BY <2>1
  <2> QED BY <2>1, <2>2
<1> DEFINE p == status - UpTo(e - 1)
           A == Rest(1)
           B == Rest(2)
           C == Rest(3)
<1>1. /\ e \in first .. 4 /\ first \in 1 .. 4
      /\ e = 4 \/ UpTo(e) > status
      /\ UpTo(e - 1) \in Nat /\ UpTo(e - 1) <= status
  BY <1>0, <1>e, ReachedFacts
<1>2. /\ first' = e
      /\ iov' = IF e = 4 \/ p = 0 THEN iov ELSE [iov EXCEPT ![e] = Elem(@.base + p, @.len - p)]
  BY <1>e DEF AdvanceIov
<1>3. /\ Len(A) \in Nat /\ Len(B) \in Nat /\ Len(C) \in Nat
      /\ UpTo(0) = 0 /\ UpTo(1) = Len(A) /\ UpTo(2) = Len(A) + Len(B)
      /\ UpTo(3) = Len(A) + Len(B) + Len(C)
  BY UpToFacts
<1>4. A \in Seq(Marks) /\ B \in Seq(Marks) /\ C \in Seq(Marks) /\ A \o B \in Seq(Marks)
  BY RestFacts, ConcatProperties DEF Elements
<1>5. /\ Pending = (A \o B) \o C /\ Len(A \o B) = Len(A) + Len(B)
      /\ Pending' = (Rest(1)' \o Rest(2)') \o Rest(3)'
  BY <1>4, ConcatProperties DEF Pending
<1>6. /\ iov \in [Elements -> [base : Nat, len : Nat]] /\ Elements = {1, 2, 3}
      /\ << >> \in Seq(Marks)
  BY DEF FileInv, Elements
<1>7. \A d \in Elements : d < e => Rest(d)' = << >>
  BY <1>2 DEF Rest
<1>8. ASSUME NEW d \in Elements, d > e PROVE Rest(d)' = Rest(d)
  <2>1. ~(d < e) /\ ~(d < first) /\ d # e
    BY <1>1, <1>6, <1>8
  <2>2. iov'[d] = iov[d]
    BY <1>2, <1>6, <2>1
  <2> QED BY <1>2, <2>1, <2>2 DEF Rest, BytesOf, ByteAt
<1>9. ASSUME e \in Elements
      PROVE  /\ Cut(Marks, Rest(e), Rest(e)', p) /\ Rest(e)' \in Seq(Marks)
             /\ iov' \in [Elements -> [base : Nat, len : Nat]]
  <2> DEFINE b == iov[e].base
             l == iov[e].len
  <2>1. /\ ~(e < first) /\ ~(e < e) /\ e # 4
    BY <1>1, <1>6, <1>9
  <2>2. /\ Len(Rest(e)) = l /\ b \in Nat /\ l \in Nat /\ iov[e] = Elem(b, l)
    BY <1>9, <2>1, RestFacts
  <2>3. p \in 0 .. l
    <3>1. UpTo(e) > status /\ UpTo(e - 1) \in Nat /\ UpTo(e - 1) <= status
      BY <1>1, <2>1
    <3>2. CASE e = 1
      BY <1>0, <1>3, <2>2, <3>1, <3>2
    <3>3. CASE e = 2
      BY <1>0, <1>3, <2>2, <3>1, <3>3, SMTT(30)
    <3>4. CASE e = 3
      BY <1>0, <1>3, <2>2, <3>1, <3>4, SMTT(30)
    <3> QED BY <1>6, <1>9, <3>2, <3>3, <3>4
  <2> HIDE DEF p
  <2>4. p \in Nat /\ b + p \in Nat /\ l - p \in Nat
    BY <2>2, <2>3
  <2>5. /\ iov'[e] = Elem(b + p, l - p)
        /\ iov' \in [Elements -> [base : Nat, len : Nat]]
    <3>1. CASE p = 0
      <4>1. b + p = b /\ l - p = l
        BY <2>2, <3>1
      <4> QED BY <1>2, <1>6, <2>2, <3>1, <4>1
    <3>2. CASE p # 0
      <4>1. iov' = [iov EXCEPT ![e] = Elem(@.base + p, @.len - p)]
        BY <1>2, <2>1, <3>2
      <4>2. Elem(b + p, l - p) \in [base : Nat, len : Nat]
        BY <2>4 DEF Elem
      <4> QED BY <1>6, <1>9, <4>1, <4>2
    <3> QED BY <3>1, <3>2
  <2>6. Rest(e) = BytesOf(e, Elem(b, l))
    BY <2>1, <2>2 DEF Rest
  <2>7. Rest(e)' = BytesOf(e, Elem(b + p, l - p))
    BY <1>2, <2>1, <2>5 DEF Rest, BytesOf, ByteAt
  <2>8. Cut(Marks, BytesOf(e, Elem(b, l)), BytesOf(e, Elem(b + p, l - p)), p)
    BY <1>9, <2>2, <2>3, BytesCut
  <2>9. BytesOf(e, Elem(b + p, l - p)) \in Seq(Marks)
    BY <1>9, <2>4, BytesFacts
  <2> QED BY <2>5, <2>6, <2>7, <2>8, <2>9
<1>10. << >> \o << >> = << >>
  OBVIOUS
<1>11. \A s \in Seq(Marks) : << >> \o s = s
  BY ConcatEmptySeq
<1>12. CASE e = 1
  <2> DEFINE A2 == Rest(1)'
  <2>1. Cut(Marks, A, A2, status) /\ A2 \in Seq(Marks)
    <3>1. Cut(Marks, Rest(e), Rest(e)', p) /\ Rest(e)' \in Seq(Marks)
      BY <1>6, <1>9, <1>12
    <3>2. p = status
      BY <1>0, <1>3, <1>12
    <3> QED BY <1>12, <3>1, <3>2
  <2>2. Rest(2)' = B /\ Rest(3)' = C
    BY <1>6, <1>8, <1>12
  <2> HIDE DEF A, B, C, A2
  <2>3. A2 \o B \in Seq(Marks) /\ Cut(Marks, A \o B, A2 \o B, status)
    BY <1>4, <2>1, CutLeft, ConcatProperties
  <2>4. (A2 \o B) \o C \in Seq(Marks) /\ Cut(Marks, (A \o B) \o C, (A2 \o B) \o C, status)
    BY <1>4, <2>3, CutLeft, ConcatProperties
  <2>5. Pending' = (A2 \o B) \o C
    BY <1>5, <2>2 DEF A2
  <2> QED BY <1>1, <1>2, <1>5, <1>6, <1>9, <1>12, <2>4, <2>5
<1>13. CASE e = 2
  <2> DEFINE B2 == Rest(2)'
  <2>1. Cut(Marks, B, B2, p) /\ B2 \in Seq(Marks) /\ Len(A) + p = status
    <3>1. Cut(Marks, Rest(e), Rest(e)', p) /\ Rest(e)' \in Seq(Marks)
      BY <1>6, <1>9, <1>13
    <3>2. Len(A) + p = status
      BY <1>0, <1>3, <1>13
    <3> QED BY <1>13, <3>1, <3>2
  <2>2. Rest(1)' = << >> /\ Rest(3)' = C
    BY <1>6, <1>7, <1>8, <1>13
  <2> HIDE DEF A, B, C, B2, p
  <2>3. Cut(Marks, A \o B, B2, status)
    BY <1>4, <2>1, CutRight
  <2>4. B2 \o C \in Seq(Marks) /\ Cut(Marks, (A \o B) \o C, B2 \o C, status)
    BY <1>4, <2>1, <2>3, CutLeft, ConcatProperties
  <2>5. Pending' = B2 \o C
    BY <1>5, <1>11, <2>1, <2>2 DEF B2
  <2> QED BY <1>1, <1>2, <1>5, <1>6, <1>9, <1>13, <2>4, <2>5
<1>14. CASE e = 3
  <2> DEFINE C2 == Rest(3)'
  <2>1. Cut(Marks, C, C2, p) /\ C2 \in Seq(Marks) /\ (Len(A) + Len(B)) + p = status
    <3>1. Cut(Marks, Rest(e), Rest(e)', p) /\ Rest(e)' \in Seq(Marks)
      BY <1>6, <1>9, <1>14
    <3>2. (Len(A) + Len(B)) + p = status
      BY <1>0, <1>3, <1>14
    <3> QED BY <1>14, <3>1, <3>2
  <2>2. Rest(1)' = << >> /\ Rest(2)' = << >>
    BY <1>6, <1>7, <1>14
  <2> HIDE DEF A, B, C, C2, p
  <2>3. Cut(Marks, (A \o B) \o C, C2, status)
    BY <1>4, <1>5, <2>1, CutRight
  <2>4. Pending' = C2
    BY <1>5, <1>10, <1>11, <2>1, <2>2 DEF C2
  <2> QED BY <1>1, <1>2, <1>5, <1>6, <1>9, <1>14, <2>1, <2>3, <2>4
<1>15. CASE e = 4
  <2>1. Rest(1)' = << >> /\ Rest(2)' = << >> /\ Rest(3)' = << >>
    BY <1>6, <1>7, <1>15
  <2>2. Pending' = << >>
    BY <1>5, <1>10, <2>1
  <2>3. status = UpTo(3)
    BY <1>0, <1>1, <1>3, <1>15
  <2>4. Pending \in Seq(Marks) /\ Len(Pending) = status /\ Pending = Pending \o << >>
    BY <2>3, PendingFacts, ConcatEmptySeq
  <2>5. Cut(Marks, Pending, << >>, status)
    BY <2>4 DEF Cut
  <2> QED BY <1>1, <1>2, <1>6, <1>15, <2>2, <2>5
<1> QED BY <1>1, <1>12, <1>13, <1>14, <1>15

-----------------------------------------------------------------------------
(***************************************************************************)
(* The inductive invariant.                                                *)
(***************************************************************************)
LEMMA InitFile == Init => FileInv
  BY LengthAssumption DEF Init, FileInv, CallConserves, Elements, Elem

\* What a call described is what it sent and what is pending.
LEMMA WritevConserves ==
  ASSUME FileInv, NEW status, Writev(status)
  PROVE  FileInv'
<1>1. /\ Cut(Marks, Pending, Pending', status) /\ Pending' \in Seq(Marks)
      /\ iov' \in [Elements -> [base : Nat, len : Nat]] /\ first' \in 1 .. 4
  BY AdvanceCuts DEF Writev
<1>2. Pending \in Seq(Marks)
  BY PendingFacts
<1> DEFINE q  == SubSeq(Pending, 1, status)
           P2 == Pending'
<1>3. q \in Seq(Marks) /\ Pending = q \o P2
  BY <1>1, <1>2, CutIsPrefix
<1>4. (sent \o q) \o P2 = sent \o (q \o P2)
  <2>1. sent \in Seq(Marks)
    BY DEF FileInv, Marks
  <2> QED BY <1>1, <1>3, <2>1, ConcatAssociative, SMTT(30)
<1>5. sent' = sent \o q /\ sent' \in Seq(Marks)
  <2>1. sent \in Seq(Marks)
    BY DEF FileInv, Marks
  <2>2. sent' = sent \o q
    BY DEF Writev
  <2> QED BY <1>3, <2>1, <2>2, ConcatProperties
<1>6. CallConserves'
  <2>1. want' = want /\ rec' = rec /\ (rec > 0 => want = sent \o Pending)
    BY DEF FileInv, CallConserves, Writev
  <2>2. sent \o Pending = sent' \o Pending'
    BY <1>3, <1>4, <1>5
  <2> QED BY <2>1, <2>2 DEF CallConserves
<1>7. /\ stamp' = stamp /\ rec' = rec
      /\ fpc' = IF first' = 4 THEN "encode" ELSE "writev"
  BY DEF Writev
<1> QED BY <1>1, <1>5, <1>6, <1>7 DEF FileInv, Marks

\* A new call describes the bytes it will send.
LEMMA EncodeConserves ==
  ASSUME FileInv, NEW n \in 0 .. BufLen, Encode(n)
  PROVE  FileInv'
<1>1. /\ iov' = [iov EXCEPT ![2].len = n] /\ rec' = rec + 1 /\ rec < Records /\ first' = 1
      /\ stamp' = [off \in DOMAIN stamp |-> IF off < n THEN rec' ELSE stamp[off]]
      /\ sent' = << >> /\ want' = Pending' /\ fpc' = "writev"
  BY DEF Encode
<1>2. /\ rec \in 0 .. Records /\ Records \in Nat /\ stamp \in [0 .. BufLen - 1 -> Nat]
      /\ n \in Nat /\ iov \in [Elements -> [base : Nat, len : Nat]]
  BY LengthAssumption DEF FileInv
<1>3. /\ rec' \in 0 .. Records /\ rec' \in Nat /\ rec' > 0
  BY <1>1, <1>2
<1>4. stamp' \in [0 .. BufLen - 1 -> Nat]
  BY <1>1, <1>2, <1>3
<1>5. iov' \in [Elements -> [base : Nat, len : Nat]]
  BY <1>1, <1>2
<1>6. \A e \in Elements : Rest(e)' \in Seq(Marks)
  <2> SUFFICES ASSUME NEW e \in Elements PROVE Rest(e)' \in Seq(Marks)
    OBVIOUS
  <2>1. iov'[e].base \in Nat /\ iov'[e].len \in Nat
    BY <1>5
  <2> DEFINE mark(off) == <<e, off, IF e = 2 /\ off < BufLen THEN stamp'[off] ELSE 0>>
             s == [i \in 1 .. iov'[e].len |-> mark(iov'[e].base + i - 1)]
  <2>2. \A off \in Nat : mark(off) \in Marks
    <3>1. \A off \in Nat : off < BufLen => off \in 0 .. BufLen - 1
      BY LengthAssumption
    <3> QED BY <1>4, <3>1 DEF Marks
  <2>3. \A i \in 1 .. iov'[e].len : iov'[e].base + i - 1 \in Nat
    BY <2>1
  <2>5. ~(e < first')
    BY <1>1 DEF Elements
  <2>6. Rest(e)' = s
    BY <2>5 DEF Rest, BytesOf, ByteAt
  <2> HIDE DEF mark
  <2>4. s \in Seq(Marks)
    BY <2>1, <2>2, <2>3, SMTT(30)
  <2> QED BY <2>4, <2>6
<1>7. Pending' \in Seq(Marks)
  <2>1. Rest(1)' \in Seq(Marks) /\ Rest(2)' \in Seq(Marks) /\ Rest(3)' \in Seq(Marks)
    BY <1>6 DEF Elements
  <2>2. Rest(1)' \o Rest(2)' \in Seq(Marks)
    BY <2>1, ConcatProperties
  <2> QED BY <2>1, <2>2, ConcatProperties DEF Pending
<1>8. CallConserves'
  <2>1. << >> \o Pending' = Pending'
    BY <1>7, ConcatEmptySeq
  <2> QED BY <1>1, <2>1 DEF CallConserves
<1> QED BY <1>1, <1>3, <1>4, <1>5, <1>8 DEF FileInv

LEMMA StepFile == FileInv /\ [Next]_fvars => FileInv'
<1> SUFFICES ASSUME FileInv, [Next]_fvars PROVE FileInv'
  OBVIOUS
<1>1. CASE \E n \in 0 .. BufLen : Encode(n)
  BY <1>1, EncodeConserves
<1>2. CASE \E status \in 1 .. PrefixLen + BufLen + PostfixLen : Writev(status)
  BY <1>2, WritevConserves
<1>3. CASE WritevFails \/ UNCHANGED fvars
  <2>1. /\ UNCHANGED <<iov, first, stamp, rec, want, sent>>
        /\ fpc' = fpc \/ fpc' = "failed"
    BY <1>3 DEF WritevFails, fvars
  <2>2. CallConserves'
    BY <2>1 DEF FileInv, CallConserves, Pending, Rest, BytesOf, ByteAt
  <2> QED BY <2>1, <2>2 DEF FileInv
<1> QED BY <1>1, <1>2, <1>3 DEF Next

\* The inductive invariant of jp_file_writev holds: it conserves the bytes of
\* a call, and a call that returned without error left nothing.
THEOREM FileInvariant == Spec => []FileInv
  BY InitFile, StepFile, PTL DEF Spec

\* However the kernel cuts the calls of writev, jp_file_writev sends the bytes
\* the iovec described in order, none twice and none left out.
THEOREM CallsConserve == Spec => []CallConserves
<1>1. FileInv => CallConserves
  BY DEF FileInv
<1> QED BY <1>1, FileInvariant, PTL

=============================================================================
