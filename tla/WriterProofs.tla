---------------------------- MODULE WriterProofs ----------------------------
(***************************************************************************)
(* Proofs about Writer, for every chunk size, every input and every way to *)
(* cut it into blocks.                                                     *)
(***************************************************************************)
EXTENDS Writer, Integers, SequenceTheorems, Induction, TLAPS

Chars == Bytes \cup {Newline}

\* left is ov, then the bytes of b from st on.
IsRest(left, ov, b, st) ==
  /\ left \in Seq(Chars)
  /\ Len(left) = Len(ov) + Len(b) - st
  /\ \A i \in 1 .. Len(ov) : left[i] = ov[i]
  /\ \A i \in st + 1 .. Len(b) : left[Len(ov) + i - st] = b[i]

-----------------------------------------------------------------------------
\* A set of naturals has a least element: memchr finds the first newline.
LEMMA Smallest ==
  ASSUME NEW S \in SUBSET Nat, S # {}
  PROVE  \E i \in S : \A j \in S : i <= j
<1>1. PICK i \in S : \A j \in S : ~(j < i)
  BY LeastNat
<1> QED BY <1>1

\* A block is a sequence of bytes.
LEMMA BlockSeq ==
  ASSUME NEW b \in Blocks \cup {<< >>}
  PROVE  b \in Seq(Chars) /\ Len(b) \in 0 .. ChunkSize
<1>1. CASE b = << >>
  BY <1>1, ChunkSizeAssumption
<1>2. CASE b \in Blocks
  <2>1. PICK n \in 1 .. ChunkSize : b \in [1 .. n -> Chars]
    BY <1>2 DEF Blocks, Chars
  <2>2. n \in Nat
    BY <2>1, ChunkSizeAssumption
  <2>3. b \in Seq(Chars) /\ Len(b) = n
    BY <2>1, <2>2
  <2> QED BY <2>1, <2>3
<1> QED BY <1>1, <1>2

\* The first newline that is left in the block, if there is one.
LEMMA DelimiterFacts ==
  ASSUME FrameTypeOK
  PROVE  /\ HasNewline =>
              /\ Delimiter \in start .. Len(block) - 1
              /\ block[Delimiter + 1] = Newline
              /\ \A i \in start + 1 .. Delimiter : block[i] # Newline
         /\ ~HasNewline => \A i \in start + 1 .. Len(block) : block[i] # Newline
<1>0. start \in Nat /\ Len(block) \in Nat
  BY BlockSeq, ChunkSizeAssumption DEF FrameTypeOK
<1>1. ASSUME HasNewline
      PROVE  Delimiter \in Newlines /\ \A j \in Newlines : Delimiter <= j
  <2>1. Newlines \in SUBSET Nat
    BY <1>0 DEF Newlines
  <2>2. \E i \in Newlines : \A j \in Newlines : i <= j
    BY <1>1, <2>1, Smallest DEF HasNewline
  <2> QED BY <2>2 DEF Delimiter
<1>2. ASSUME HasNewline, NEW i \in start + 1 .. Delimiter
      PROVE  block[i] # Newline
  <2>1. Delimiter \in start .. Len(block) - 1
    BY <1>1, <1>2 DEF Newlines
  <2>2. i - 1 \notin Newlines
    BY <1>0, <1>1, <1>2, <2>1
  <2>3. i - 1 \in start .. Len(block) - 1 /\ i - 1 + 1 = i
    BY <1>0, <1>2, <2>1
  <2> QED BY <2>2, <2>3 DEF Newlines
<1>3. ASSUME ~HasNewline, NEW i \in start + 1 .. Len(block)
      PROVE  block[i] # Newline
  <2>1. i - 1 \in start .. Len(block) - 1 /\ i - 1 + 1 = i
    BY <1>0
  <2> QED BY <1>3, <2>1 DEF HasNewline, Newlines
<1>4. HasNewline => Delimiter \in start .. Len(block) - 1 /\ block[Delimiter + 1] = Newline
  BY <1>1 DEF Newlines
<1> QED BY <1>2, <1>3, <1>4

\* A part of the block in which no newline is.
LEMMA SliceFacts ==
  ASSUME FrameTypeOK, NEW i \in start .. Len(block),
         \A j \in start + 1 .. i : block[j] # Newline
  PROVE  /\ Slice(i) \in Seq(Bytes) /\ Len(Slice(i)) = i - start
         /\ \A j \in 1 .. i - start : Slice(i)[j] = block[start + j]
<1>1. /\ start \in Nat /\ i \in Nat /\ i <= Len(block) /\ start <= i
      /\ block \in Seq(Chars)
  BY BlockSeq, ChunkSizeAssumption DEF FrameTypeOK
<1>2. \A j \in start + 1 .. i : block[j] \in Bytes
  BY <1>1, ElementOfSeq DEF Chars
<1> DEFINE s == SubSeq(block, start + 1, i)
<1>3. /\ s \in Seq(Bytes)
      /\ Len(s) = IF start + 1 <= i THEN i - (start + 1) + 1 ELSE 0
      /\ \A j \in 1 .. i - (start + 1) + 1 : s[j] = block[start + 1 + j - 1]
  BY <1>1, <1>2, SubSeqProperties
<1> QED BY <1>1, <1>3 DEF Slice

\* The bytes that are in no record yet: those that wait, then the rest of the
\* block.
LEMMA RestFacts ==
  ASSUME NEW ov \in Seq(Bytes), NEW b \in Blocks \cup {<< >>}, NEW st \in 0 .. Len(b),
         NEW left, left = ov \o SubSeq(b, st + 1, Len(b))
  PROVE  IsRest(left, ov, b, st)
<1>1. /\ st \in Nat /\ Len(b) \in Nat /\ st <= Len(b)
      /\ b \in Seq(Chars) /\ ov \in Seq(Chars) /\ Len(ov) \in Nat
  BY BlockSeq, ChunkSizeAssumption, SeqMonotonic DEF Chars
<1> DEFINE s == SubSeq(b, st + 1, Len(b))
<1>2. \A j \in st + 1 .. Len(b) : b[j] \in Chars
  BY <1>1, ElementOfSeq
<1>3. /\ s \in Seq(Chars)
      /\ Len(s) = IF st + 1 <= Len(b) THEN Len(b) - (st + 1) + 1 ELSE 0
      /\ \A j \in 1 .. Len(b) - (st + 1) + 1 : s[j] = b[st + 1 + j - 1]
  BY <1>1, <1>2, SubSeqProperties
<1>4. /\ s \in Seq(Chars) /\ Len(s) = Len(b) - st
      /\ \A j \in 1 .. Len(b) - st : s[j] = b[st + j]
  BY <1>1, <1>3
<1> HIDE DEF s
<1>5. /\ left \in Seq(Chars) /\ Len(left) = Len(ov) + Len(s)
      /\ \A i \in 1 .. Len(ov) + Len(s) :
           left[i] = IF i <= Len(ov) THEN ov[i] ELSE s[i - Len(ov)]
  BY <1>1, <1>4, ConcatProperties, SMTT(30) DEF s
<1>6. ASSUME NEW i \in st + 1 .. Len(b)
      PROVE  left[Len(ov) + i - st] = b[i]
  <2> DEFINE k == Len(ov) + i - st
  <2>1. /\ k \in 1 .. Len(ov) + Len(s) /\ ~(k <= Len(ov))
        /\ k - Len(ov) = i - st /\ i - st \in 1 .. Len(b) - st
        /\ st + (i - st) = i
    BY <1>1, <1>4
  <2> QED BY <1>4, <1>5, <2>1
<1> QED BY <1>1, <1>4, <1>5, <1>6, SMTT(30) DEF IsRest

LEMMA LeftFacts ==
  ASSUME FrameTypeOK
  PROVE  /\ Left \in Seq(Chars)
         /\ Len(Left) = Len(overflow) + Len(block) - start
         /\ \A i \in 1 .. Len(overflow) : Left[i] = overflow[i]
         /\ \A i \in start + 1 .. Len(block) : Left[Len(overflow) + i - start] = block[i]
<1>1. IsRest(Left, overflow, block, start)
  BY RestFacts DEF FrameTypeOK, Left
<1> QED BY <1>1 DEF IsRest

\* The numbers of the loop are lengths.
LEMMA Lengths ==
  ASSUME FrameTypeOK
  PROVE  /\ start \in Nat /\ Len(block) \in Nat /\ start <= Len(block)
         /\ Len(block) <= ChunkSize
         /\ Len(overflow) \in Nat /\ Len(overflow) <= ChunkSize
         /\ Len(input) \in Nat /\ ChunkSize \in Nat
<1>1. Len(block) \in 0 .. ChunkSize /\ ChunkSize \in Nat
  BY BlockSeq, ChunkSizeAssumption DEF FrameTypeOK
<1>2. Len(input) \in Nat /\ Len(overflow) \in Nat
  BY LenProperties DEF FrameTypeOK
<1> QED BY <1>1, <1>2 DEF FrameTypeOK

\* The copy into overflow: it fits, reads the block up to the newline at most,
\* and what is there afterwards is the beginning of what was left.
LEMMA CopyFacts ==
  ASSUME FrameTypeOK, Scanning
  PROVE  /\ CopyLen \in Nat /\ Len(overflow) + CopyLen <= ChunkSize
         /\ start + CopyLen <= Len(block)
         /\ HasNewline => start + CopyLen <= Delimiter
         /\ Copied \in Seq(Bytes) /\ Len(Copied) = Len(overflow) + CopyLen
         /\ \A i \in 1 .. Len(Copied) : Copied[i] = Left[i]
         /\ ReachedNewline =>
              /\ start + CopyLen < Len(block)
              /\ Left[Len(Copied) + 1] = Newline
         /\ MustFlush /\ ~ReachedNewline => Len(Copied) = ChunkSize
<1>1. /\ start \in Nat /\ Len(block) \in Nat /\ start < Len(block)
      /\ Len(overflow) \in Nat /\ Len(overflow) <= ChunkSize /\ ChunkSize \in Nat
  BY Lengths DEF Scanning
<1>2. HasNewline => Delimiter \in Nat /\ start <= Delimiter /\ Delimiter < Len(block)
  BY <1>1, DelimiterFacts
<1>3. /\ CopyLen \in Nat /\ Len(overflow) + CopyLen <= ChunkSize
      /\ start + CopyLen <= Len(block)
      /\ HasNewline => start + CopyLen <= Delimiter
      /\ HasNewline /\ start + CopyLen # Delimiter => Len(overflow) + CopyLen = ChunkSize
  BY <1>1, <1>2 DEF CopyLen, Remaining, Room
<1> DEFINE s == Slice(start + CopyLen)
<1>4. \A j \in start + 1 .. start + CopyLen : block[j] # Newline
  BY <1>1, <1>2, <1>3, DelimiterFacts
<1>5. /\ s \in Seq(Bytes) /\ Len(s) = CopyLen
      /\ \A j \in 1 .. CopyLen : s[j] = block[start + j]
  <2> DEFINE k == start + CopyLen
  <2>1. k \in start .. Len(block) /\ k - start = CopyLen
    BY <1>1, <1>3
  <2>2. \A j \in start + 1 .. k : block[j] # Newline
    BY <1>4
  <2> HIDE DEF k
  <2>3. /\ Slice(k) \in Seq(Bytes) /\ Len(Slice(k)) = k - start
        /\ \A j \in 1 .. k - start : Slice(k)[j] = block[start + j]
    BY <2>1, <2>2, SliceFacts
  <2> QED BY <2>1, <2>3 DEF k
<1>6. overflow \in Seq(Bytes)
  BY DEF FrameTypeOK
<1> HIDE DEF s
<1>7. /\ Copied \in Seq(Bytes) /\ Len(Copied) = Len(overflow) + CopyLen
      /\ \A i \in 1 .. Len(overflow) + CopyLen :
           Copied[i] = IF i <= Len(overflow) THEN overflow[i] ELSE s[i - Len(overflow)]
  <2>1. Copied = overflow \o s
    BY DEF Copied, s
  <2>2. /\ overflow \o s \in Seq(Bytes) /\ Len(overflow \o s) = Len(overflow) + Len(s)
        /\ \A i \in 1 .. Len(overflow) + Len(s) : (overflow \o s)[i] =
             IF i <= Len(overflow) THEN overflow[i] ELSE s[i - Len(overflow)]
    BY <1>5, <1>6, ConcatProperties
  <2> QED BY <1>5, <2>1, <2>2
<1>8. ASSUME NEW i \in 1 .. Len(Copied) PROVE Copied[i] = Left[i]
  <2>1. CASE i <= Len(overflow)
    <3>1. i \in 1 .. Len(overflow) /\ i \in 1 .. Len(overflow) + CopyLen
      BY <1>1, <1>3, <1>7, <2>1
    <3>2. Left[i] = overflow[i]
      BY <3>1, LeftFacts
    <3> QED BY <1>7, <2>1, <3>1, <3>2
  <2>2. CASE ~(i <= Len(overflow))
    <3> DEFINE k == start + (i - Len(overflow))
    <3>1. /\ k \in start + 1 .. Len(block) /\ Len(overflow) + k - start = i
          /\ i - Len(overflow) \in 1 .. CopyLen /\ i \in 1 .. Len(overflow) + CopyLen
      BY <1>1, <1>3, <1>7, <2>2
    <3> HIDE DEF k
    <3>2. Left[i] = block[k]
      BY <3>1, LeftFacts
    <3> USE DEF k
    <3> QED BY <1>5, <1>7, <2>2, <3>1, <3>2
  <2> QED BY <2>1, <2>2
<1>9. ASSUME ReachedNewline
      PROVE  start + CopyLen < Len(block) /\ Left[Len(Copied) + 1] = Newline
  <2>1. HasNewline /\ start + CopyLen = Delimiter
    BY <1>9 DEF ReachedNewline
  <2> DEFINE k == start + CopyLen + 1
  <2>2. k \in start + 1 .. Len(block) /\ Len(overflow) + k - start = Len(Copied) + 1
    BY <1>1, <1>2, <1>3, <1>7, <2>1
  <2>3. block[k] = Newline
    BY <2>1, DelimiterFacts
  <2>4. Left[Len(Copied) + 1] = block[k]
    BY <2>2, LeftFacts
  <2> QED BY <1>2, <2>1, <2>3, <2>4
<1>10. MustFlush /\ ~ReachedNewline => Len(Copied) = ChunkSize
  BY <1>3, <1>7 DEF MustFlush, ReachedNewline
<1> QED BY <1>3, <1>7, <1>8, <1>9, <1>10

-----------------------------------------------------------------------------
\* The iterations that do not write: the whole rest of the block is kept.
LEMMA TailFacts ==
  ASSUME FrameTypeOK, ~HasNewline, overflow = << >>
  PROVE  /\ Slice(Len(block)) \in Seq(Bytes)
         /\ Len(Slice(Len(block))) = Len(block) - start
         /\ \A i \in 1 .. Len(block) - start : Slice(Len(block))[i] = Left[i]
<1>1. Len(block) \in start .. Len(block) /\ start \in Nat /\ Len(block) \in Nat
  BY Lengths
<1>2. /\ Slice(Len(block)) \in Seq(Bytes) /\ Len(Slice(Len(block))) = Len(block) - start
      /\ \A i \in 1 .. Len(block) - start : Slice(Len(block))[i] = block[start + i]
  BY <1>1, DelimiterFacts, SliceFacts
<1>3. ASSUME NEW i \in 1 .. Len(block) - start PROVE Left[i] = block[start + i]
  <2>1. start + i \in start + 1 .. Len(block) /\ Len(overflow) + (start + i) - start = i
    BY <1>1
  <2> QED BY <2>1, LeftFacts
<1> QED BY <1>2, <1>3

\* A whole line inside the block.
LEMMA LineFacts ==
  ASSUME FrameTypeOK, HasNewline, overflow = << >>
  PROVE  /\ Delimiter \in Nat /\ start <= Delimiter /\ Delimiter < Len(block)
         /\ Slice(Delimiter) \in Seq(Bytes)
         /\ Len(Slice(Delimiter)) = Delimiter - start
         /\ \A i \in 1 .. Delimiter - start : Slice(Delimiter)[i] = Left[i]
         /\ Left[Delimiter - start + 1] = Newline
<1>1. /\ Delimiter \in Nat /\ start <= Delimiter /\ Delimiter < Len(block)
      /\ start \in Nat /\ Len(block) \in Nat /\ Len(overflow) = 0
  BY Lengths, DelimiterFacts
<1>2. Delimiter \in start .. Len(block)
  BY <1>1
<1>3. /\ Slice(Delimiter) \in Seq(Bytes) /\ Len(Slice(Delimiter)) = Delimiter - start
      /\ \A i \in 1 .. Delimiter - start : Slice(Delimiter)[i] = block[start + i]
  BY <1>2, DelimiterFacts, SliceFacts
<1>4. ASSUME NEW i \in 1 .. Delimiter - start + 1 PROVE Left[i] = block[start + i]
  <2>1. start + i \in start + 1 .. Len(block) /\ Len(overflow) + (start + i) - start = i
    BY <1>1
  <2> QED BY <2>1, LeftFacts
<1>5. Left[Delimiter - start + 1] = Newline
  <2>1. /\ Delimiter - start + 1 \in 1 .. Delimiter - start + 1
        /\ start + (Delimiter - start + 1) = Delimiter + 1
    BY <1>1
  <2> QED BY <1>4, <2>1, DelimiterFacts
<1>6. \A i \in 1 .. Delimiter - start : i \in 1 .. Delimiter - start + 1
  BY <1>1
<1> QED BY <1>1, <1>3, <1>4, <1>5, <1>6

\* An appended record is a record.
LEMMA RecordType ==
  ASSUME FrameTypeOK, NEW s \in Seq(Bytes), NEW eol \in BOOLEAN
  PROVE  Append(out, Record(s, eol)) \in Seq([text : Seq(Bytes), eol : BOOLEAN])
<1>1. Record(s, eol) \in [text : Seq(Bytes), eol : BOOLEAN]
  BY DEF Record
<1> QED BY <1>1, AppendProperties DEF FrameTypeOK

\* Every step keeps the buffers within their bounds.
LEMMA StepFrameType ==
  ASSUME FrameInv, [FrameNext]_wvars
  PROVE  FrameTypeOK'
<1>0. FrameTypeOK
  BY DEF FrameInv
<1>1. ASSUME NEW b \in Blocks, Pop(b) PROVE FrameTypeOK'
  <2>1. b \in Seq(Chars) /\ Len(b) \in Nat
    BY BlockSeq, ChunkSizeAssumption
  <2>2. input \o b \in Seq(Chars)
    BY <1>0, <2>1, ConcatProperties DEF FrameTypeOK, Chars
  <2> QED BY <1>0, <1>1, <2>1, <2>2 DEF FrameTypeOK, Pop, Chars
<1>2. CASE Extend /\ UNCHANGED block
  <2>1. start + CopyLen \in 0 .. Len(block)
    BY <1>0, <1>2, CopyFacts, Lengths DEF Extend
  <2> QED BY <1>0, <1>2, <2>1, CopyFacts DEF FrameTypeOK, Extend
<1>3. CASE Flush /\ UNCHANGED block
  <2>1. AfterCopy \in 0 .. Len(block)
    BY <1>0, <1>3, CopyFacts, Lengths, SMTT(30) DEF Flush, AfterCopy
  <2>2. ReachedNewline \in BOOLEAN
    BY DEF ReachedNewline, HasNewline
  <2>3. Append(out, Record(Copied, ReachedNewline)) \in Seq([text : Seq(Bytes), eol : BOOLEAN])
    BY <1>0, <1>3, <2>2, CopyFacts, RecordType DEF Flush
  <2> QED BY <1>0, <1>3, <2>1, <2>3, ChunkSizeAssumption DEF FrameTypeOK, Flush
<1>4. CASE KeepTail /\ UNCHANGED block
  <2>1. Len(block) \in 0 .. Len(block) /\ Len(block) - start <= ChunkSize
    BY <1>0, Lengths
  <2> QED BY <1>0, <1>4, <2>1, TailFacts DEF FrameTypeOK, KeepTail
<1>5. CASE EmitLine /\ UNCHANGED block
  <2>1. Delimiter + 1 \in 0 .. Len(block)
    BY <1>0, <1>5, LineFacts, Lengths DEF EmitLine
  <2>2. Append(out, Record(Slice(Delimiter), TRUE)) \in Seq([text : Seq(Bytes), eol : BOOLEAN])
    BY <1>0, <1>5, LineFacts, RecordType DEF EmitLine
  <2> QED BY <1>0, <1>5, <2>1, <2>2 DEF FrameTypeOK, EmitLine
<1>6. CASE WriteFails /\ UNCHANGED block
  BY <1>0, <1>6 DEF FrameTypeOK, WriteFails
<1>7. CASE Commit
  BY <1>0, <1>7 DEF FrameTypeOK, Commit
<1>8. CASE Shutdown
  BY <1>0, <1>8 DEF FrameTypeOK, Shutdown
<1>9. CASE UNCHANGED wvars
  BY <1>0, <1>9 DEF FrameTypeOK, wvars
<1> QED BY <1>1, <1>2, <1>3, <1>4, <1>5, <1>6, <1>7, <1>8, <1>9 DEF FrameNext, Scan

-----------------------------------------------------------------------------
\* l2 is l1 without its first n bytes.
Dropped(l1, l2, n) ==
  /\ n \in 0 .. Len(l1)
  /\ Len(l2) = Len(l1) - n
  /\ \A i \in 1 .. Len(l1) - n : l2[i] = l1[n + i]

LEMMA RestDropped ==
  ASSUME NEW b \in Blocks \cup {<< >>},
         NEW l1, NEW o1, NEW s1 \in 0 .. Len(b), Len(o1) \in Nat, IsRest(l1, o1, b, s1),
         NEW l2, NEW o2, NEW s2 \in 0 .. Len(b), Len(o2) \in Nat, IsRest(l2, o2, b, s2),
         s1 <= s2, NEW n \in Nat, n = (s2 - Len(o2)) - (s1 - Len(o1)),
         Len(o2) = 0 \/ (n = 0 /\ \A i \in 1 .. Len(o2) : o2[i] = l1[i])
  PROVE  Dropped(l1, l2, n)
<1>1. Len(b) \in Nat
  BY BlockSeq, ChunkSizeAssumption
<1>2. /\ Len(l1) = Len(o1) + Len(b) - s1
      /\ Len(l2) = Len(o2) + Len(b) - s2
  BY DEF IsRest
<1>3. Len(l2) = Len(l1) - n /\ n \in 0 .. Len(l1)
  BY <1>1, <1>2
<1>4. ASSUME NEW i \in 1 .. Len(l1) - n PROVE l2[i] = l1[n + i]
  <2>1. CASE i <= Len(o2)
    <3>1. n = 0 /\ l1[i] = o2[i] /\ i \in 1 .. Len(o2) /\ n + i = i
      BY <2>1, SMTT(30)
    <3> QED BY <3>1 DEF IsRest
  <2>2. CASE ~(i <= Len(o2))
    <3> DEFINE k == s2 + i - Len(o2)
    <3>1. /\ k \in s2 + 1 .. Len(b) /\ Len(o2) + k - s2 = i
          /\ k \in s1 + 1 .. Len(b) /\ Len(o1) + k - s1 = n + i
      BY <1>1, <1>2, <2>2, SMTT(30)
    <3> HIDE DEF k
    <3> QED BY <3>1 DEF IsRest
  <2> QED BY <2>1, <2>2
<1> QED BY <1>3, <1>4 DEF Dropped

\* One iteration takes n bytes off the front of what was left: none when the
\* bytes only move into overflow.
LEMMA ScanDrains ==
  ASSUME FrameTypeOK, FrameTypeOK', UNCHANGED block, NEW s2, s2 = start', start <= s2,
         NEW n \in Nat, n = (s2 - Len(overflow')) - (start - Len(overflow)),
         \/ overflow' = << >>
         \/ n = 0 /\ \A i \in 1 .. Len(overflow') : overflow'[i] = Left[i]
  PROVE  Dropped(Left, Left', n)
<1>1. IsRest(Left, overflow, block, start)
  BY RestFacts DEF FrameTypeOK, Left
<1>2. IsRest(Left', overflow', block, s2)
  BY RestFacts DEF FrameTypeOK, Left
<1>3. /\ block \in Blocks \cup {<< >>} /\ start \in 0 .. Len(block) /\ s2 \in 0 .. Len(block)
      /\ Len(overflow) \in Nat /\ Len(overflow') \in Nat
  BY LenProperties DEF FrameTypeOK
<1>4. Len(overflow') = 0 \/ (n = 0 /\ \A i \in 1 .. Len(overflow') : overflow'[i] = Left[i])
  OBVIOUS
<1> QED BY <1>1, <1>2, <1>3, <1>4, RestDropped

\* What each iteration takes.
LEMMA ExtendDrains ==
  ASSUME FrameTypeOK, FrameTypeOK', Extend, UNCHANGED block
  PROVE  Dropped(Left, Left', 0)
<1>1. /\ overflow' = Copied /\ Len(Copied) = Len(overflow) + CopyLen
      /\ start' = start + CopyLen /\ CopyLen \in Nat
      /\ \A i \in 1 .. Len(overflow') : overflow'[i] = Left[i]
  BY CopyFacts DEF Extend
<1>2. start <= start' /\ 0 = (start' - Len(overflow')) - (start - Len(overflow))
  BY <1>1, Lengths
<1> QED BY <1>1, <1>2, ScanDrains

LEMMA FlushDrains ==
  ASSUME FrameTypeOK, FrameTypeOK', Flush, UNCHANGED block
  PROVE  Dropped(Left, Left', Len(Copied) + (IF ReachedNewline THEN 1 ELSE 0))
<1> DEFINE n == Len(Copied) + (IF ReachedNewline THEN 1 ELSE 0)
<1>1. /\ overflow' = << >> /\ Len(Copied) = Len(overflow) + CopyLen
      /\ start' = start + CopyLen + (IF ReachedNewline THEN 1 ELSE 0) /\ CopyLen \in Nat
  BY CopyFacts DEF Flush, AfterCopy
<1>2. Len(overflow') = 0 /\ start \in Nat /\ Len(overflow) \in Nat
  BY <1>1, Lengths
<1>3. /\ start <= start' /\ n = (start' - Len(overflow')) - (start - Len(overflow))
      /\ n \in Nat
  BY <1>1, <1>2
<1> HIDE DEF n
<1>4. Dropped(Left, Left', n)
  BY <1>1, <1>3, ScanDrains
<1> QED BY <1>4 DEF n

LEMMA KeepTailDrains ==
  ASSUME FrameTypeOK, FrameTypeOK', KeepTail, UNCHANGED block
  PROVE  Dropped(Left, Left', 0)
<1>1. /\ Len(overflow') = Len(block) - start /\ Len(overflow) = 0
      /\ start' = Len(block)
      /\ \A i \in 1 .. Len(overflow') : overflow'[i] = Left[i]
  BY TailFacts DEF KeepTail
<1>2. start <= start' /\ 0 = (start' - Len(overflow')) - (start - Len(overflow))
  BY <1>1, Lengths
<1> QED BY <1>1, <1>2, ScanDrains

LEMMA EmitLineDrains ==
  ASSUME FrameTypeOK, FrameTypeOK', EmitLine, UNCHANGED block
  PROVE  Dropped(Left, Left', Delimiter - start + 1)
<1> DEFINE n == Delimiter - start + 1
<1>1. /\ overflow' = << >> /\ overflow = << >> /\ start' = Delimiter + 1
      /\ Delimiter \in Nat /\ start <= Delimiter
  BY LineFacts DEF EmitLine
<1>2. /\ start <= start' /\ n = (start' - Len(overflow')) - (start - Len(overflow))
      /\ n \in Nat
  BY <1>1, Lengths
<1> HIDE DEF n
<1>3. Dropped(Left, Left', n)
  BY <1>1, <1>2, ScanDrains
<1> QED BY <1>3 DEF n

\* Taking bytes off the front leaves the end of the input.
LEMMA DroppedKeepsEnd ==
  ASSUME FrameInv, FrameTypeOK', UNCHANGED input, wpc' # "pop", NEW n, Dropped(Left, Left', n)
  PROVE  FrameInv'
<1>1. /\ n \in Nat /\ n <= Len(Left) /\ Len(Left) \in Nat /\ Len(input) \in Nat
      /\ Len(Left) <= Len(input) /\ Len(Left') = Len(Left) - n
  BY Lengths, LeftFacts, LenProperties DEF Dropped, FrameInv
<1>2. ASSUME NEW i \in 1 .. Len(Left')
      PROVE  input[Len(input) - Len(Left') + i] = Left'[i]
  <2>1. /\ n + i \in 1 .. Len(Left) /\ i \in 1 .. Len(Left) - n
        /\ Len(input) - Len(Left') + i = Len(input) - Len(Left) + (n + i)
    BY <1>1
  <2> QED BY <2>1 DEF Dropped, FrameInv
<1> QED BY <1>1, <1>2 DEF FrameInv

\* A popped block comes in behind what is left.
LEMMA PopKeepsEnd ==
  ASSUME FrameInv, FrameTypeOK', NEW b \in Blocks, Pop(b)
  PROVE  /\ FrameInv'
         /\ Len(Left') = Len(Left) + Len(b) /\ Len(input') = Len(input) + Len(b)
         /\ Len(b) \in Nat \ {0} /\ SubSeq(input', 1, Len(input)) = input
<1>1. /\ FrameTypeOK /\ block = << >> /\ start = 0 /\ Len(block) = 0
      /\ overflow' = overflow /\ block' = b /\ start' = 0 /\ input' = input \o b
  BY DEF FrameInv, FrameTypeOK, Pop
<1>2. b \in Seq(Chars) /\ Len(b) \in Nat \ {0}
  <2>1. PICK n \in 1 .. ChunkSize : b \in [1 .. n -> Chars]
    BY DEF Blocks, Chars
  <2>2. n \in Nat \ {0}
    BY <2>1, ChunkSizeAssumption
  <2>3. Len(b) = n
    BY <2>1, <2>2
  <2> QED BY <2>2, <2>3, BlockSeq
<1>3. /\ IsRest(Left, overflow, block, start)
      /\ IsRest(Left', overflow, b, 0)
  BY <1>1, RestFacts DEF FrameTypeOK, Left
<1>4. /\ Len(Left) = Len(overflow) /\ Len(overflow) \in Nat
      /\ Len(Left') = Len(overflow) + Len(b)
      /\ \A i \in 1 .. Len(overflow) : Left'[i] = overflow[i] /\ Left[i] = overflow[i]
      /\ \A i \in 1 .. Len(b) : Left'[Len(overflow) + i] = b[i]
  <2>1. Len(overflow) \in Nat
    BY <1>1, Lengths
  <2>2. /\ Len(Left) = Len(overflow) /\ Len(Left') = Len(overflow) + Len(b)
        /\ \A i \in 1 .. Len(overflow) : Left'[i] = overflow[i] /\ Left[i] = overflow[i]
    BY <1>1, <1>2, <1>3, <2>1 DEF IsRest
  <2>3. ASSUME NEW i \in 1 .. Len(b) PROVE Left'[Len(overflow) + i] = b[i]
    <3>1. i \in 0 + 1 .. Len(b) /\ Len(overflow) + i - 0 = Len(overflow) + i
      BY <1>2, <2>1
    <3> QED BY <1>3, <3>1 DEF IsRest
  <2> QED BY <2>1, <2>2, <2>3
<1>5. input \in Seq(Chars) /\ Len(input) \in Nat /\ Len(overflow) <= Len(input)
  BY <1>1, <1>4, Lengths DEF FrameTypeOK, Chars, FrameInv
<1>6. /\ Len(input') = Len(input) + Len(b)
      /\ \A i \in 1 .. Len(input) : input'[i] = input[i]
      /\ \A i \in 1 .. Len(b) : input'[Len(input) + i] = b[i]
  <2>1. /\ Len(input \o b) = Len(input) + Len(b)
        /\ \A i \in 1 .. Len(input) + Len(b) :
             (input \o b)[i] = IF i <= Len(input) THEN input[i] ELSE b[i - Len(input)]
    BY <1>2, <1>5, ConcatProperties
  <2> QED BY <1>1, <1>2, <1>5, <2>1
<1>7. ASSUME NEW i \in 1 .. Len(Left')
      PROVE  input'[Len(input') - Len(Left') + i] = Left'[i]
  <2>1. Len(input') - Len(Left') + i = Len(input) - Len(overflow) + i /\ i \in Nat
    BY <1>2, <1>4, <1>5, <1>6
  <2>2. CASE i <= Len(overflow)
    <3>1. i \in 1 .. Len(Left) /\ Len(input) - Len(overflow) + i \in 1 .. Len(input)
      BY <1>4, <1>5, <2>2
    <3>2. input[Len(input) - Len(overflow) + i] = Left[i]
      BY <1>4, <3>1 DEF FrameInv
    <3> QED BY <1>4, <1>6, <2>1, <3>1, <3>2
  <2>3. CASE ~(i <= Len(overflow))
    <3> DEFINE j == i - Len(overflow)
    <3>1. /\ j \in 1 .. Len(b) /\ Len(overflow) + j = i
          /\ Len(input) - Len(overflow) + i = Len(input) + j
      BY <1>2, <1>4, <1>5, <2>1, <2>3
    <3> HIDE DEF j
    <3> QED BY <1>4, <1>6, <2>1, <3>1
  <2> QED BY <2>2, <2>3
<1>8. FrameInv'
  <2>1. Len(Left') <= Len(input')
    BY <1>2, <1>4, <1>5, <1>6
  <2> QED BY <1>7, <2>1 DEF FrameInv, Pop
<1>9. SubSeq(input', 1, Len(input)) = input
  BY <1>1, <1>2, <1>5, SubSeqOfConcat1
<1> QED BY <1>2, <1>4, <1>6, <1>8, <1>9

\* The popped block is not looked at again: nothing of it is left.
LEMMA CommitKeepsEnd ==
  ASSUME FrameInv, FrameTypeOK', Commit
  PROVE  FrameInv' /\ Left' = Left
<1>1. /\ FrameTypeOK /\ start = Len(block) /\ overflow \in Seq(Bytes)
      /\ overflow' = overflow /\ block' = << >> /\ start' = 0 /\ input' = input
  BY Lengths DEF FrameInv, FrameTypeOK, Commit
<1>2. Left = overflow /\ Left' = overflow
  BY <1>1, Lengths, SubSeqEmpty, ConcatEmptySeq DEF Left
<1> QED BY <1>1, <1>2 DEF FrameInv

-----------------------------------------------------------------------------
LEMMA InitFrame == FrameInit => FrameInv
<1> SUFFICES ASSUME FrameInit PROVE FrameInv
  OBVIOUS
<1>1. FrameTypeOK
  BY ChunkSizeAssumption DEF FrameInit, FrameTypeOK
<1>2. Len(Left) = 0
  BY <1>1, LeftFacts DEF FrameInit
<1> QED BY <1>1, <1>2 DEF FrameInit, FrameInv

\* Every step keeps the invariant.
LEMMA StepFrame == FrameInv /\ [FrameNext]_wvars => FrameInv'
<1> SUFFICES ASSUME FrameInv, [FrameNext]_wvars PROVE FrameInv'
  OBVIOUS
<1>0. FrameTypeOK /\ FrameTypeOK'
  BY StepFrameType DEF FrameInv
<1>1. CASE \E b \in Blocks : Pop(b)
  BY <1>0, <1>1, PopKeepsEnd
<1>2. CASE Scan /\ UNCHANGED block
  <2>1. UNCHANGED input /\ wpc' # "pop"
    BY <1>2 DEF Scan, Extend, Flush, KeepTail, EmitLine, Scanning
  <2>2. \E n : Dropped(Left, Left', n)
    BY <1>0, <1>2, ExtendDrains, FlushDrains, KeepTailDrains, EmitLineDrains DEF Scan
  <2> QED BY <1>0, <2>1, <2>2, DroppedKeepsEnd
<1>3. CASE Commit
  BY <1>0, <1>3, CommitKeepsEnd
<1>4. CASE Shutdown \/ (WriteFails /\ UNCHANGED block) \/ UNCHANGED wvars
  <2>1. UNCHANGED <<block, start, overflow, input>> /\ (wpc' = "pop" => wpc = "pop")
    BY <1>4 DEF Shutdown, WriteFails, wvars
  <2>2. Left' = Left
    BY <2>1 DEF Left
  <2> QED BY <1>0, <2>1, <2>2 DEF FrameInv
<1> QED BY <1>1, <1>2, <1>3, <1>4 DEF FrameNext

-----------------------------------------------------------------------------
(***************************************************************************)
(* The loop implements the line splitter.                                  *)
(***************************************************************************)

\* A record made of the first bytes that were left is the next one of Lines.
LEMMA EmitsNext ==
  ASSUME FrameInv, NEW s \in Seq(Bytes), NEW eol \in BOOLEAN,
         Len(s) <= ChunkSize, Len(s) <= Len(Left),
         \A i \in 1 .. Len(s) : s[i] = Left[i],
         eol => Len(s) < Len(Left) /\ Left[Len(s) + 1] = Newline,
         ~eol => Len(s) = ChunkSize,
         UNCHANGED input, out' = Append(out, Record(s, eol)),
         Len(Left') = Len(Left) - (Len(s) + (IF eol THEN 1 ELSE 0))
  PROVE  \E n \in 0 .. ChunkSize : FL!Emit(n, eol)
<1> DEFINE n    == Len(s)
           done == Len(input) - Len(Left)
           next == IF eol THEN done + n + 1 ELSE done + n
<1>1. /\ n \in Nat /\ Len(input) \in Nat /\ Len(Left) \in Nat /\ Len(Left) <= Len(input)
      /\ ChunkSize \in Nat /\ input \in Seq(Chars)
  BY Lengths, LeftFacts, LenProperties DEF FrameInv, FrameTypeOK, Chars
<1>2. n \in 0 .. ChunkSize /\ next <= Len(input) /\ next \in Nat /\ done \in Nat
  BY <1>1
<1>3. \A i \in 1 .. Len(Left) : input[done + i] = Left[i]
  BY DEF FrameInv
<1>4. ASSUME NEW i \in 1 .. n PROVE input[done + i] = s[i] /\ s[i] \in Bytes
  <2>1. i \in 1 .. Len(Left) /\ i \in 1 .. Len(s)
    BY <1>1
  <2> QED BY <1>3, <2>1, ElementOfSeq
<1>5. \A i \in 1 .. n : input[done + i] # Newline
  BY <1>4, NewlineAssumption
<1>6. eol => input[next] = Newline
  <2>1. eol => n + 1 \in 1 .. Len(Left) /\ done + (n + 1) = done + n + 1
    BY <1>1
  <2> QED BY <1>3, <2>1
<1>7. SubSeq(input, done + 1, done + n) = s
  <2> DEFINE t == SubSeq(input, done + 1, done + n)
  <2>1. \A i \in done + 1 .. done + n : input[i] \in Chars
    BY <1>1, <1>2, ElementOfSeq
  <2>2. /\ t \in Seq(Chars)
        /\ Len(t) = IF done + 1 <= done + n THEN (done + n) - (done + 1) + 1 ELSE 0
        /\ \A i \in 1 .. (done + n) - (done + 1) + 1 : t[i] = input[done + 1 + i - 1]
    BY <1>1, <1>2, <2>1, SubSeqProperties
  <2>3. Len(t) = n /\ \A i \in 1 .. n : t[i] = input[done + i]
    BY <1>1, <1>2, <2>2
  <2>4. s \in Seq(Chars)
    BY SeqMonotonic DEF Chars
  <2> HIDE DEF t
  <2>5. t = s
    BY <1>4, <2>2, <2>3, <2>4, SeqEqual
  <2> QED BY <2>5 DEF t
<1>8. Len(input') - Len(Left') = next
  BY <1>1
<1>9. FL!Emit(n, eol)
  BY <1>1, <1>2, <1>5, <1>6, <1>7, <1>8 DEF FL!Emit, Record
<1> QED BY <1>2, <1>9

\* Every step of the loop is a step of the line splitter, or none.
LEMMA LinesStep == FrameInv /\ [FrameNext]_wvars => [FL!Next]_(FL!lvars)
<1> SUFFICES ASSUME FrameInv, [FrameNext]_wvars PROVE [FL!Next]_(FL!lvars)
  OBVIOUS
<1>0. FrameTypeOK /\ FrameTypeOK' /\ Len(Left) \in Nat /\ Len(input) \in Nat
  BY StepFrameType, Lengths, LeftFacts, LenProperties DEF FrameInv
<1>1. ASSUME NEW b \in Blocks, Pop(b) PROVE FL!Accept
  <2>1. /\ Len(Left') = Len(Left) + Len(b) /\ Len(input') = Len(input) + Len(b)
        /\ Len(b) \in Nat \ {0} /\ SubSeq(input', 1, Len(input)) = input
    BY <1>0, <1>1, PopKeepsEnd
  <2>2. /\ Len(input') - Len(Left') = Len(input) - Len(Left)
        /\ Len(input) < Len(input')
    BY <1>0, <2>1
  <2> QED BY <1>1, <2>1, <2>2 DEF FL!Accept, Pop
<1>2. CASE Flush /\ UNCHANGED block
  <2>1. Dropped(Left, Left', Len(Copied) + (IF ReachedNewline THEN 1 ELSE 0))
    BY <1>0, <1>2, FlushDrains
  <2>2. ReachedNewline \in BOOLEAN
    BY DEF ReachedNewline, HasNewline
  <2>3. /\ Copied \in Seq(Bytes) /\ Len(Copied) \in Nat /\ Len(Copied) <= ChunkSize
        /\ \A i \in 1 .. Len(Copied) : Copied[i] = Left[i]
        /\ ReachedNewline => Left[Len(Copied) + 1] = Newline
        /\ ~ReachedNewline => Len(Copied) = ChunkSize
    BY <1>0, <1>2, CopyFacts, LenProperties DEF Flush
  <2>4. /\ Len(Left') = Len(Left) - (Len(Copied) + (IF ReachedNewline THEN 1 ELSE 0))
        /\ Len(Copied) <= Len(Left) /\ (ReachedNewline => Len(Copied) < Len(Left))
    BY <1>0, <2>1, <2>3 DEF Dropped
  <2>5. UNCHANGED input /\ out' = Append(out, Record(Copied, ReachedNewline))
    BY <1>2 DEF Flush
  <2>6. \E n \in 0 .. ChunkSize : FL!Emit(n, ReachedNewline)
    BY <2>2, <2>3, <2>4, <2>5, EmitsNext
  <2> QED BY <2>2, <2>6 DEF FL!Next
<1>3. CASE EmitLine /\ UNCHANGED block
  <2>1. Dropped(Left, Left', Delimiter - start + 1)
    BY <1>0, <1>3, EmitLineDrains
  <2> DEFINE s == Slice(Delimiter)
  <2>2. /\ s \in Seq(Bytes) /\ Len(s) = Delimiter - start /\ Len(s) \in Nat
        /\ Len(s) <= ChunkSize
        /\ \A i \in 1 .. Len(s) : s[i] = Left[i]
        /\ Left[Len(s) + 1] = Newline
    BY <1>0, <1>3, LineFacts, Lengths, SMTT(30) DEF EmitLine
  <2>3. UNCHANGED input /\ out' = Append(out, Record(s, TRUE))
    BY <1>3 DEF EmitLine
  <2> HIDE DEF s
  <2>4. /\ Len(Left') = Len(Left) - (Len(s) + (IF TRUE THEN 1 ELSE 0))
        /\ Len(s) <= Len(Left) /\ Len(s) < Len(Left)
    BY <1>0, <2>1, <2>2 DEF Dropped
  <2>5. \E n \in 0 .. ChunkSize : FL!Emit(n, TRUE)
    BY <2>2, <2>3, <2>4, EmitsNext
  <2> QED BY <2>5 DEF FL!Next
<1>4. CASE (Extend \/ KeepTail) /\ UNCHANGED block
  <2>1. Dropped(Left, Left', 0)
    BY <1>0, <1>4, ExtendDrains, KeepTailDrains
  <2>2. Len(Left') = Len(Left)
    BY <1>0, <2>1 DEF Dropped
  <2> QED BY <1>4, <2>2 DEF FL!lvars, Extend, KeepTail
<1>5. CASE Commit
  <2>1. Left' = Left
    BY <1>0, <1>5, CommitKeepsEnd
  <2> QED BY <1>5, <2>1 DEF FL!lvars, Commit
<1>6. CASE Shutdown \/ (WriteFails /\ UNCHANGED block) \/ UNCHANGED wvars
  <2>1. UNCHANGED <<block, start, overflow, input, out>>
    BY <1>6 DEF Shutdown, WriteFails, wvars
  <2> QED BY <2>1 DEF FL!lvars, Left
<1> QED BY <1>1, <1>2, <1>3, <1>4, <1>5, <1>6 DEF FrameNext, Scan, FL!Next

-----------------------------------------------------------------------------
(***************************************************************************)
(* The theorems.                                                           *)
(***************************************************************************)

\* No iteration of the loop reads past the block or writes past overflow, and
\* at any time the bytes that are in no record yet are the last ones that came
\* in: none was skipped, doubled or moved.
THEOREM WriterInvariant == FrameSpec => []FrameInv
  BY InitFrame, StepFrame, PTL DEF FrameSpec

\* Wherever the blocks are cut, the records are the lines of the input: see
\* SplitsLines.
THEOREM WriterRefinesLines == FrameSpec => SplitsLines
<1>1. FrameInit => FL!Init
  <2> SUFFICES ASSUME FrameInit PROVE FL!Init
    OBVIOUS
  <2>1. FrameTypeOK
    BY InitFrame DEF FrameInv
  <2>2. Len(Left) = 0 /\ Len(input) = 0
    BY <2>1, LeftFacts DEF FrameInit
  <2> QED BY <2>2 DEF FrameInit, FL!Init
<1> QED BY <1>1, LinesStep, WriterInvariant, PTL DEF FrameSpec, SplitsLines, FL!Spec

-----------------------------------------------------------------------------
(***************************************************************************)
(* The bytes of the records.                                               *)
(***************************************************************************)
Records == [text : Seq(Bytes), eol : BOOLEAN]

LEMMA FramedType ==
  ASSUME NEW r \in Records
  PROVE  Framed(r) \in Seq(Chars)
<1>1. r.text \in Seq(Chars) /\ Newline \in Chars
  BY SeqMonotonic DEF Records, Chars
<1> QED BY <1>1, AppendProperties DEF Framed

\* h[n] is the bytes of the first n of the records.
Joins(h, recs) ==
  /\ h[0] = << >>
  /\ \A n \in 1 .. Len(recs) : h[n - 1] \in Seq(Chars) /\ h[n] = h[n - 1] \o Framed(recs[n])
  /\ h[Len(recs)] \in Seq(Chars) /\ Joined(recs) = h[Len(recs)]

LEMMA JoinedIs ==
  ASSUME NEW recs \in Seq(Records)
  PROVE  \E h : Joins(h, recs)
<1> DEFINE N == Len(recs)
           S == Seq(Chars)
           step == [p \in (1 .. N) \X S |-> p[2] \o Framed(recs[p[1]])]
           next(g) == [n \in 0 .. N |-> IF n = 0 THEN << >> ELSE g[n - 1] \o Framed(recs[n])]
           h == CHOOSE g : g = next(g)
<1>1. N \in Nat /\ << >> \in S
  OBVIOUS
<1>2. \A n \in 1 .. N : \A s \in S : s \o Framed(recs[n]) \in S
  <2>1. \A n \in 1 .. N : Framed(recs[n]) \in S
    BY FramedType, ElementOfSeq
  <2> QED BY <2>1, ConcatProperties
<1>3. /\ step \in [(1 .. N) \X S -> S]
      /\ \A n \in 1 .. N : \A s \in S : step[<<n, s>>] = s \o Framed(recs[n])
  BY <1>2
<1>4. Joined(recs) = h[N]
  BY DEF Joined
<1> HIDE DEF S, step, N
<1>5. PICK f \in [0 .. N -> S] : Follows(f, N, << >>, step)
  BY <1>1, <1>3, Recursion
<1>6. \A n \in 0 .. N : n = 0 \/ n \in 1 .. N
  BY <1>1
<1>7. \A n \in 1 .. N : n - 1 \in 0 .. N
  BY <1>1
<1>8. \A n \in 1 .. N : f[n] = f[n - 1] \o Framed(recs[n])
  BY <1>3, <1>5, <1>7 DEF Follows
<1>9. \A n \in 0 .. N : f[n] = IF n = 0 THEN << >> ELSE f[n - 1] \o Framed(recs[n])
  BY <1>5, <1>6, <1>8 DEF Follows
<1>10. f = next(f)
  BY <1>5, <1>9
<1>11. h = next(h)
  BY <1>10
<1> HIDE DEF h
<1>12. 0 \in 0 .. N /\ \A n \in 1 .. N : n \in 0 .. N /\ n # 0
  BY <1>1
<1>13. h[0] = << >> /\ \A n \in 1 .. N : h[n] = h[n - 1] \o Framed(recs[n])
  BY <1>11, <1>12
<1> DEFINE P == {n \in Nat : n <= N => h[n] \in S}
<1>14. 0 \in P
  BY <1>1, <1>13
<1>15. ASSUME NEW n \in Nat, n \in P PROVE n + 1 \in P
  <2> SUFFICES ASSUME n + 1 <= N PROVE h[n + 1] \in S
    OBVIOUS
  <2>1. n + 1 \in 1 .. N /\ (n + 1) - 1 = n /\ n <= N
    BY <1>1
  <2>2. h[n] \in S /\ h[n + 1] = h[n] \o Framed(recs[n + 1])
    BY <1>13, <1>15, <2>1
  <2> QED BY <1>2, <2>1, <2>2
<1> HIDE DEF P
<1>16. \A n \in Nat : n \in P
  BY <1>14, <1>15, Induct
<1>17. \A n \in 0 .. N : h[n] \in S
  BY <1>1, <1>16 DEF P
<1>18. N \in 0 .. N
  BY <1>1
<1> QED BY <1>4, <1>7, <1>13, <1>17, <1>18 DEF Joins, N, S

LEMMA JoinedEmpty == Joined(<< >>) = << >>
<1>1. << >> \in Seq(Records) /\ Len(<< >>) = 0
  OBVIOUS
<1>2. PICK h : Joins(h, << >>)
  BY <1>1, JoinedIs
<1> QED BY <1>1, <1>2 DEF Joins

\* Another record adds its bytes.
LEMMA JoinedAppend ==
  ASSUME NEW recs \in Seq(Records), NEW r \in Records
  PROVE  Joined(recs) \in Seq(Chars) /\ Joined(Append(recs, r)) = Joined(recs) \o Framed(r)
<1> DEFINE N == Len(recs)
           more == Append(recs, r)
<1>1. /\ N \in Nat /\ more \in Seq(Records) /\ Len(more) = N + 1
      /\ more[N + 1] = r /\ \A n \in 1 .. N : more[n] = recs[n]
  BY AppendProperties, LenProperties
<1>2. PICK g : Joins(g, recs)
  BY JoinedIs
<1>3. PICK h : Joins(h, more)
  BY <1>1, JoinedIs
<1>4. /\ g[0] = << >> /\ \A n \in 1 .. N : g[n] = g[n - 1] \o Framed(recs[n])
      /\ g[N] \in Seq(Chars) /\ Joined(recs) = g[N]
  BY <1>2 DEF Joins
<1>5. /\ h[0] = << >> /\ \A n \in 1 .. N + 1 : h[n] = h[n - 1] \o Framed(more[n])
      /\ Joined(more) = h[N + 1]
  BY <1>1, <1>3 DEF Joins
<1> HIDE DEF N, more
<1> DEFINE P == {n \in Nat : n <= N => h[n] = g[n]}
<1>6. 0 \in P
  BY <1>4, <1>5
<1>7. ASSUME NEW n \in Nat, n \in P PROVE n + 1 \in P
  <2> SUFFICES ASSUME n + 1 <= N PROVE h[n + 1] = g[n + 1]
    OBVIOUS
  <2>1. n + 1 \in 1 .. N /\ n + 1 \in 1 .. N + 1 /\ (n + 1) - 1 = n /\ n <= N
    BY <1>1
  <2>2. h[n] = g[n] /\ more[n + 1] = recs[n + 1]
    BY <1>1, <1>7, <2>1
  <2>3. h[n + 1] = h[n] \o Framed(more[n + 1]) /\ g[n + 1] = g[n] \o Framed(recs[n + 1])
    BY <1>4, <1>5, <2>1
  <2> QED BY <2>2, <2>3
<1> HIDE DEF P
<1>8. \A n \in Nat : n \in P
  BY <1>6, <1>7, Induct
<1>9. h[N] = g[N]
  BY <1>1, <1>8 DEF P
<1>10. N + 1 \in 1 .. N + 1 /\ (N + 1) - 1 = N
  BY <1>1
<1>11. h[N + 1] = h[N] \o Framed(more[N + 1])
  BY <1>5, <1>10
<1> QED BY <1>1, <1>4, <1>5, <1>9, <1>11 DEF more

\* The end of a sequence from a on, up to b.
LEMMA CutFacts ==
  ASSUME NEW S, NEW s \in Seq(S), NEW a \in Nat, NEW b \in Nat, a <= b, b <= Len(s)
  PROVE  /\ SubSeq(s, a + 1, b) \in Seq(S) /\ Len(SubSeq(s, a + 1, b)) = b - a
         /\ \A i \in 1 .. b - a : SubSeq(s, a + 1, b)[i] = s[a + i]
<1> DEFINE t == SubSeq(s, a + 1, b)
<1>1. Len(s) \in Nat
  OBVIOUS
<1>2. \A i \in a + 1 .. b : s[i] \in S
  BY <1>1, ElementOfSeq
<1>3. /\ t \in Seq(S) /\ Len(t) = IF a + 1 <= b THEN b - (a + 1) + 1 ELSE 0
      /\ \A i \in 1 .. b - (a + 1) + 1 : t[i] = s[(a + 1) + i - 1]
  BY <1>1, <1>2, SubSeqProperties
<1> HIDE DEF t
<1>4. Len(t) = b - a /\ b - (a + 1) + 1 = b - a /\ \A i \in 1 .. b - a : (a + 1) + i - 1 = a + i
  BY <1>3
<1>5. \A i \in 1 .. b - a : t[i] = s[a + i]
  BY <1>3, <1>4
<1> QED BY <1>3, <1>4, <1>5 DEF t

\* The first bytes of s, and the next ones.
LEMMA CutJoins ==
  ASSUME NEW S, NEW s \in Seq(S), NEW a \in Nat, NEW b \in Nat, a <= b, b <= Len(s)
  PROVE  SubSeq(s, 1, a) \o SubSeq(s, a + 1, b) = SubSeq(s, 1, b)
<1> DEFINE p == SubSeq(s, 1, a)
           q == SubSeq(s, a + 1, b)
           t == SubSeq(s, 1, b)
           c == p \o q
<1>0. 0 \in Nat /\ 0 + 1 = 1 /\ a - 0 = a /\ b - 0 = b /\ a <= Len(s) /\ Len(s) \in Nat
  BY LenProperties
<1>1. /\ p \in Seq(S) /\ Len(p) = a /\ \A i \in 1 .. a : p[i] = s[i]
  <2>1. \A i \in 1 .. a : 0 + i = i
    OBVIOUS
  <2>2. /\ SubSeq(s, 0 + 1, a) \in Seq(S) /\ Len(SubSeq(s, 0 + 1, a)) = a - 0
        /\ \A i \in 1 .. a - 0 : SubSeq(s, 0 + 1, a)[i] = s[0 + i]
    BY <1>0, CutFacts
  <2> QED BY <1>0, <2>1, <2>2
<1>2. /\ t \in Seq(S) /\ Len(t) = b /\ \A i \in 1 .. b : t[i] = s[i]
  <2>1. \A i \in 1 .. b : 0 + i = i
    OBVIOUS
  <2>2. /\ SubSeq(s, 0 + 1, b) \in Seq(S) /\ Len(SubSeq(s, 0 + 1, b)) = b - 0
        /\ \A i \in 1 .. b - 0 : SubSeq(s, 0 + 1, b)[i] = s[0 + i]
    BY <1>0, CutFacts
  <2> QED BY <1>0, <2>1, <2>2
<1>3. /\ q \in Seq(S) /\ Len(q) = b - a /\ \A i \in 1 .. b - a : q[i] = s[a + i]
  BY CutFacts
<1> HIDE DEF p, q, t
<1>4. /\ c \in Seq(S) /\ Len(c) = Len(p) + Len(q)
      /\ \A i \in 1 .. Len(p) + Len(q) : c[i] = IF i <= Len(p) THEN p[i] ELSE q[i - Len(p)]
  BY <1>1, <1>3, ConcatProperties
<1> HIDE DEF c
<1>5. Len(c) = b /\ Len(p) + Len(q) = b
  BY <1>1, <1>3, <1>4
<1>6. ASSUME NEW i \in 1 .. b PROVE c[i] = t[i]
  <2>1. c[i] = IF i <= a THEN p[i] ELSE q[i - a]
    BY <1>1, <1>4, <1>5
  <2>2. CASE i <= a
    <3>1. i \in 1 .. a
      BY <2>2
    <3> QED BY <1>1, <1>2, <2>1, <2>2, <3>1
  <2>3. CASE ~(i <= a)
    <3>1. i - a \in 1 .. b - a /\ a + (i - a) = i
      BY <2>3
    <3>2. q[i - a] = s[i]
      BY <1>3, <3>1
    <3> QED BY <1>2, <2>1, <2>3, <3>2
  <2> QED BY <2>2, <2>3
<1>7. c = t
  BY <1>2, <1>4, <1>5, <1>6, SeqEqual
<1> QED BY <1>7 DEF c, p, q, t

\* A sequence that begins with s has the same first bytes.
LEMMA SameFirst ==
  ASSUME NEW S, NEW s \in Seq(S), NEW t \in Seq(S), NEW a \in Nat, a <= Len(s),
         Len(s) <= Len(t), SubSeq(t, 1, Len(s)) = s
  PROVE  SubSeq(t, 1, a) = SubSeq(s, 1, a)
<1> DEFINE n == Len(s)
<1>1. n \in Nat /\ Len(t) \in Nat /\ a <= n /\ n <= Len(t) /\ a <= Len(t)
  BY LenProperties
<1>2. \A u \in Seq(S) : \A b \in Nat : b <= Len(u) =>
        /\ SubSeq(u, 1, b) \in Seq(S) /\ Len(SubSeq(u, 1, b)) = b
        /\ \A i \in 1 .. b : SubSeq(u, 1, b)[i] = u[i]
  <2> SUFFICES ASSUME NEW u \in Seq(S), NEW b \in Nat, b <= Len(u)
               PROVE  /\ SubSeq(u, 1, b) \in Seq(S) /\ Len(SubSeq(u, 1, b)) = b
                      /\ \A i \in 1 .. b : SubSeq(u, 1, b)[i] = u[i]
    OBVIOUS
  <2>1. 0 \in Nat /\ 0 + 1 = 1 /\ b - 0 = b /\ \A i \in 1 .. b : 0 + i = i
    OBVIOUS
  <2>2. /\ SubSeq(u, 0 + 1, b) \in Seq(S) /\ Len(SubSeq(u, 0 + 1, b)) = b - 0
        /\ \A i \in 1 .. b - 0 : SubSeq(u, 0 + 1, b)[i] = u[0 + i]
    BY <2>1, CutFacts
  <2> QED BY <2>1, <2>2
<1> DEFINE p == SubSeq(t, 1, a)
           q == SubSeq(s, 1, a)
<1>3. p \in Seq(S) /\ Len(p) = a /\ \A i \in 1 .. a : p[i] = t[i]
  BY <1>1, <1>2
<1>4. q \in Seq(S) /\ Len(q) = a /\ \A i \in 1 .. a : q[i] = s[i]
  BY <1>1, <1>2
<1>5. \A i \in 1 .. n : s[i] = t[i]
  BY <1>1, <1>2
<1>6. \A i \in 1 .. a : i \in 1 .. n
  BY <1>1
<1> HIDE DEF p, q, n
<1>7. \A i \in 1 .. a : p[i] = q[i]
  BY <1>3, <1>4, <1>5, <1>6
<1>8. p = q
  BY <1>3, <1>4, <1>7, SeqEqual
<1> QED BY <1>8 DEF p, q

-----------------------------------------------------------------------------
(***************************************************************************)
(* Nothing is lost: the records are the bytes that are not left.           *)
(***************************************************************************)
Done == Len(input) - Len(Left)

Conserved == Joined(out) = SubSeq(input, 1, Done)

LEMMA DoneFacts ==
  ASSUME FrameInv
  PROVE  /\ input \in Seq(Chars) /\ Left \in Seq(Chars) /\ out \in Seq(Records)
         /\ Done \in Nat /\ Done <= Len(input) /\ Len(input) \in Nat
         /\ SubSeq(input, Done + 1, Len(input)) = Left
<1>1. /\ input \in Seq(Chars) /\ Left \in Seq(Chars) /\ out \in Seq(Records)
      /\ Len(input) \in Nat /\ Len(Left) \in Nat /\ Len(Left) <= Len(input)
  BY Lengths, LeftFacts, LenProperties DEF FrameInv, FrameTypeOK, Chars, Records
<1>2. Done \in Nat /\ Done <= Len(input) /\ Len(input) - Done = Len(Left)
  BY <1>1 DEF Done
<1> DEFINE t == SubSeq(input, Done + 1, Len(input))
<1>3. /\ t \in Seq(Chars) /\ Len(t) = Len(input) - Done
      /\ \A i \in 1 .. Len(input) - Done : t[i] = input[Done + i]
  BY <1>1, <1>2, CutFacts
<1>4. \A i \in 1 .. Len(Left) : input[Done + i] = Left[i]
  BY DEF FrameInv, Done
<1> HIDE DEF t
<1>5. t = Left
  BY <1>1, <1>2, <1>3, <1>4, SeqEqual
<1> QED BY <1>1, <1>2, <1>5 DEF t

\* In this form it says what NothingLost says.
LEMMA ConservedIs ==
  ASSUME FrameInv, Conserved
  PROVE  NothingLost
<1>1. /\ input \in Seq(Chars) /\ Done \in Nat /\ Done <= Len(input) /\ Len(input) \in Nat
      /\ SubSeq(input, Done + 1, Len(input)) = Left
  BY DoneFacts
<1>2. SubSeq(input, 1, Done) \o SubSeq(input, Done + 1, Len(input)) = SubSeq(input, 1, Len(input))
  <2> DEFINE e == Len(input)
  <2>1. e \in Nat /\ e <= Len(input) /\ Done <= e /\ input \in Seq(Chars) /\ Done \in Nat
    BY <1>1
  <2> HIDE DEF e
  <2>2. SubSeq(input, 1, Done) \o SubSeq(input, Done + 1, e) = SubSeq(input, 1, e)
    BY <2>1, CutJoins
  <2> QED BY <2>2 DEF e
<1>3. SubSeq(input, 1, Len(input)) = input
  BY <1>1
<1> QED BY <1>1, <1>2, <1>3 DEF Conserved, NothingLost

\* The next record of the line splitter has the next bytes.
LEMMA EmitConserves ==
  ASSUME FrameInv, FrameInv', Conserved, NEW n \in 0 .. ChunkSize, NEW eol \in BOOLEAN,
         FL!Emit(n, eol)
  PROVE  Conserved'
<1> DEFINE d    == Done
           next == IF eol THEN d + n + 1 ELSE d + n
           text == SubSeq(input, d + 1, d + n)
           r    == [text |-> text, eol |-> eol]
<1>1. /\ next <= Len(input) /\ (eol => input[next] = Newline)
      /\ out' = Append(out, r) /\ Done' = next /\ input' = input
  BY DEF FL!Emit, Done
<1>2. /\ input \in Seq(Chars) /\ out \in Seq(Records) /\ d \in Nat /\ d <= Len(input)
      /\ Len(input) \in Nat /\ n \in Nat /\ next \in Nat
  BY DoneFacts, ChunkSizeAssumption
<1>3. out' \in Seq(Records)
  BY DEF FrameInv, FrameTypeOK, Records
<1> HIDE DEF d, r
<1>4. r \in Records
  <2>1. Len(out) \in Nat /\ Len(Append(out, r)) = Len(out) + 1 /\ Append(out, r)[Len(out) + 1] = r
    BY <1>2
  <2>2. Len(out) + 1 \in 1 .. Len(out')
    BY <1>1, <2>1
  <2> QED BY <1>1, <1>3, <2>1, <2>2, ElementOfSeq
<1>5. Joined(out') = Joined(out) \o Framed(r)
  BY <1>1, <1>2, <1>4, JoinedAppend
<1>6. Framed(r) = SubSeq(input, d + 1, next)
  <2>1. r.text = text /\ r.eol = eol
    BY DEF r
  <2>2. CASE ~eol
    BY <2>1, <2>2 DEF Framed
  <2>3. CASE eol
    <3> DEFINE t == SubSeq(input, d + 1, next)
               u == Append(text, Newline)
    <3>1. next = d + n + 1 /\ d <= d + n /\ d + n \in Nat /\ d + n <= Len(input) /\ d <= next
      BY <1>1, <1>2, <2>3
    <3>2. /\ text \in Seq(Chars) /\ Len(text) = (d + n) - d
          /\ \A i \in 1 .. (d + n) - d : text[i] = input[d + i]
      BY <1>2, <3>1, CutFacts
    <3>3. /\ t \in Seq(Chars) /\ Len(t) = next - d
          /\ \A i \in 1 .. next - d : t[i] = input[d + i]
      BY <1>1, <1>2, <3>1, CutFacts
    <3> HIDE DEF t, text, next
    <3>4. (d + n) - d = n /\ next - d = n + 1 /\ d + (n + 1) = next
      BY <1>2, <3>1
    <3>5. /\ Newline \in Chars /\ u \in Seq(Chars) /\ Len(u) = n + 1 /\ u[n + 1] = Newline
          /\ \A i \in 1 .. n : u[i] = text[i]
      BY <1>2, <3>2, <3>4, AppendProperties DEF Chars
    <3>6. ASSUME NEW i \in 1 .. n + 1 PROVE u[i] = t[i]
      <4>1. t[i] = input[d + i]
        BY <3>3, <3>4
      <4>2. CASE i \in 1 .. n
        BY <3>2, <3>4, <3>5, <4>1, <4>2
      <4>3. CASE i = n + 1
        BY <1>1, <2>3, <3>4, <3>5, <4>1, <4>3
      <4>4. i \in 1 .. n \/ i = n + 1
        BY <1>2, <3>6
      <4> QED BY <4>2, <4>3, <4>4
    <3> HIDE DEF u
    <3>7. u = t
      BY <3>3, <3>4, <3>5, <3>6, SeqEqual
    <3> QED BY <2>1, <2>3, <3>7 DEF Framed, u, t
  <2> QED BY <2>2, <2>3
<1>7. SubSeq(input, 1, d) \o SubSeq(input, d + 1, next) = SubSeq(input, 1, next)
  <2>1. d <= next
    BY <1>2
  <2> QED BY <1>1, <1>2, <2>1, CutJoins
<1>8. Joined(out) = SubSeq(input, 1, d)
  BY DEF Conserved, d
<1> QED BY <1>1, <1>5, <1>6, <1>7, <1>8 DEF Conserved

LEMMA ConservedStep == FrameInv /\ Conserved /\ [FrameNext]_wvars => Conserved'
<1> SUFFICES ASSUME FrameInv, Conserved, [FrameNext]_wvars PROVE Conserved'
  OBVIOUS
<1>1. FrameInv' /\ [FL!Next]_(FL!lvars)
  BY StepFrame, LinesStep
<1>2. ASSUME NEW n \in 0 .. ChunkSize, NEW eol \in BOOLEAN, FL!Emit(n, eol) PROVE Conserved'
  BY <1>1, <1>2, EmitConserves
<1>3. CASE FL!Accept
  <2>1. /\ Len(input) < Len(input') /\ SubSeq(input', 1, Len(input)) = input
        /\ Done' = Done /\ out' = out
    BY <1>3 DEF FL!Accept, Done
  <2>2. /\ input \in Seq(Chars) /\ Done \in Nat /\ Done <= Len(input) /\ Len(input) \in Nat
    BY DoneFacts
  <2>3. input' \in Seq(Chars) /\ Len(input') \in Nat
    BY <1>1, LenProperties DEF FrameInv, FrameTypeOK, Chars
  <2>4. SubSeq(input', 1, Done) = SubSeq(input, 1, Done)
    <3>1. Len(input) <= Len(input')
      BY <2>1, <2>2, <2>3
    <3> QED BY <2>1, <2>2, <2>3, <3>1, SameFirst
  <2> QED BY <2>1, <2>4 DEF Conserved
<1>4. CASE UNCHANGED FL!lvars
  BY <1>4 DEF FL!lvars, Conserved, Done
<1> QED BY <1>1, <1>2, <1>3, <1>4 DEF FL!Next

\* The records and the bytes left are, byte for byte, what came in: the loop
\* of jp_writer_produce loses, doubles and moves nothing.
THEOREM WriterLosesNothing == FrameSpec => []NothingLost
<1>1. FrameInit => Conserved
  <2> SUFFICES ASSUME FrameInit PROVE Conserved
    OBVIOUS
  <2>1. input = << >> /\ out = << >> /\ FrameInv
    BY InitFrame DEF FrameInit
  <2>2. Done = 0
    <3>1. Done \in Nat /\ Done <= Len(input)
      BY <2>1, DoneFacts
    <3> QED BY <2>1, <3>1
  <2>3. SubSeq(input, 1, 0) = << >>
    BY <2>1
  <2> QED BY <2>1, <2>2, <2>3, JoinedEmpty DEF Conserved
<1>2. FrameInv /\ Conserved => NothingLost
  BY ConservedIs
<1> QED BY <1>1, <1>2, ConservedStep, WriterInvariant, PTL DEF FrameSpec

=============================================================================
