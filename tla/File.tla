-------------------------------- MODULE File --------------------------------
(***************************************************************************)
(* jp_file_writev (src/src/file.c) and how jp_writer_produce uses it: one  *)
(* iovec of prefix, encoded value and postfix, written record after        *)
(* record, while the kernel takes as many bytes as it likes per call.      *)
(*                                                                         *)
(* A byte is <<element, offset, stamp>>: where it lies and, for the        *)
(* buffer of the encoded value, the record that put it there.              *)
(***************************************************************************)
EXTENDS Naturals, Sequences, FiniteSets

CONSTANTS
  PrefixLen, PostfixLen,    \* lengths the encoders return
  BufLen,                   \* size of the buffer encoded_value
  Records                   \* bound on the records written

ASSUME LengthAssumption ==
  {PrefixLen, PostfixLen, Records} \subseteq Nat \ {0} /\ BufLen \in Nat

Elements == 1 .. 3          \* prefix, value, postfix

VARIABLES
  iov,          \* iov_base, as an offset into its buffer, and iov_len
  first,        \* the element "iov" points to: the ones before are written
  stamp,        \* which record wrote each byte of encoded_value
  rec,          \* number of records given to jp_file_writev
  want,         \* history: the bytes the iovec described when called
  sent,         \* bytes written by the call
  fpc           \* "encode", "writev", "failed"

fvars == <<iov, first, stamp, rec, want, sent, fpc>>

Elem(base, len) == [base |-> base, len |-> len]
ByteAt(e, off) == <<e, off, IF e = 2 /\ off < BufLen THEN stamp[off] ELSE 0>>
BytesOf(e, el) == [i \in 1 .. el.len |-> ByteAt(e, el.base + i - 1)]

\* The bytes described from the current element on.
Rest(e) == IF e < first THEN << >> ELSE BytesOf(e, iov[e])
Pending == Rest(1) \o Rest(2) \o Rest(3)

Init ==
  /\ iov = <<Elem(0, PrefixLen), Elem(0, 0), Elem(0, PostfixLen)>>
  /\ first = 1
  /\ stamp = [off \in 0 .. BufLen - 1 |-> 0]
  /\ rec = 0
  /\ want = << >> /\ sent = << >>
  /\ fpc = "encode"

\* The writer encodes a value of n bytes and calls jp_file_writev.  It sets
\* the length of the value's element and nothing else.
Encode(n) ==
  /\ fpc = "encode" /\ rec < Records
  /\ rec' = rec + 1
  /\ stamp' = [off \in DOMAIN stamp |-> IF off < n THEN rec' ELSE stamp[off]]
  /\ iov' = [iov EXCEPT ![2].len = n]
  /\ first' = 1
  /\ want' = Pending' /\ sent' = << >>
  /\ fpc' = "writev"

\* The bytes of the elements from the current one up to e.
Share(e, d) == IF d \in first .. e THEN iov[d].len ELSE 0
UpTo(e)     == Share(e, 1) + Share(e, 2) + Share(e, 3)

\* Variant that stays in an element written to its last byte.
ReachedLate(status) ==
  CHOOSE e \in first .. 4 : /\ e = 4 \/ UpTo(e) >= status
                            /\ \A d \in first .. e - 1 : UpTo(d) < status

\* The element in which the status-th byte lies, 4 if all were written.
Reached(status) ==
  CHOOSE e \in first .. 4 : /\ e = 4 \/ UpTo(e) > status
                            /\ \A d \in first .. e - 1 : UpTo(d) <= status

\* Variant that leaves the partly written element as it was.
AdvanceIovStale(status) == first' = Reached(status) /\ iov' = iov

\* The loop over whole elements, then the adjustment of the partial one.
AdvanceIov(status) ==
  LET e    == Reached(status)
      part == status - UpTo(e - 1)
  IN  /\ first' = e
      /\ iov' = IF e = 4 \/ part = 0 THEN iov
                ELSE [iov EXCEPT ![e] = Elem(@.base + part, @.len - part)]

\* writev takes status bytes.  EINTR just calls it again.
Writev(status) ==
  /\ fpc = "writev"
  /\ status \in 1 .. Len(Pending)
  /\ sent' = sent \o SubSeq(Pending, 1, status)
  /\ AdvanceIov(status)
  /\ fpc' = IF first' = 4 THEN "encode" ELSE "writev"
  /\ UNCHANGED <<stamp, rec, want>>

\* writev returns zero, or an error other than EINTR.
WritevFails ==
  /\ fpc = "writev"
  /\ fpc' = "failed"
  /\ UNCHANGED <<iov, first, stamp, rec, want, sent>>

Next ==
  \/ \E n \in 0 .. BufLen : Encode(n)
  \/ \E status \in 1 .. PrefixLen + BufLen + PostfixLen : Writev(status)
  \/ WritevFails

Spec == Init /\ [][Next]_fvars

\* The kernel does not interrupt or refuse for ever.
LiveSpec ==
  Spec /\ WF_fvars(\E status \in 1 .. PrefixLen + BufLen + PostfixLen : Writev(status))

-----------------------------------------------------------------------------
\* However the kernel cuts the call, the bytes go out in order, none twice
\* and none left out: what was sent and what is pending is what was asked.
CallConserves == rec > 0 => want = sent \o Pending

\* The inductive invariant: with the types, and a call that returned has
\* nothing left to write.
FileInv ==
  /\ iov \in [Elements -> [base : Nat, len : Nat]] /\ first \in 1 .. 4
  /\ stamp \in [0 .. BufLen - 1 -> Nat] /\ rec \in 0 .. Records
  /\ sent \in Seq(Elements \X Nat \X Nat)
  /\ fpc \in {"encode", "writev", "failed"}
  /\ fpc = "encode" /\ rec > 0 => first = 4
  /\ CallConserves

\* A call returns.
CallReturns == fpc = "writev" ~> fpc # "writev"

\* Length of the value of the current record.
ValueLen == Cardinality({off \in DOMAIN stamp : stamp[off] = rec})

\* README: "newline-delimited JSON (NDJSON), one JSON object per line".  A
\* record that was written without error is the whole prefix, its own value
\* and the whole postfix.
WholeRecord ==
  fpc = "encode" /\ rec > 0 =>
    sent = [i \in 1 .. PrefixLen |-> <<1, i - 1, 0>>]
             \o [i \in 1 .. ValueLen |-> <<2, i - 1, rec>>]
             \o [i \in 1 .. PostfixLen |-> <<3, i - 1, 0>>]

=============================================================================
