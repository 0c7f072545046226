------------------------------- MODULE Writer -------------------------------
(***************************************************************************)
(* The line framing of jp_writer_produce (src/src/writer.c): blocks of     *)
(* bytes come in, cut anywhere, and one record per line goes out.  Bytes   *)
(* of a line that the block does not finish wait in "overflow", a buffer   *)
(* of chunk_size bytes.                                                    *)
(*                                                                         *)
(* One step is one iteration of the loop over a block.  The encoders do    *)
(* not look across records, so a record is the bytes given to them.  A     *)
(* record also says whether a newline was consumed with it, which the      *)
(* output cannot show and the properties need.                             *)
(***************************************************************************)
EXTENDS Chunk, Sequences

CONSTANTS
  Newline,      \* the byte '\n'
  Bytes,        \* the other bytes
  MaxInput      \* bound on the bytes popped in a behaviour

ASSUME NewlineAssumption == Newline \notin Bytes

Blocks == UNION {[1 .. n -> Bytes \cup {Newline}] : n \in 1 .. ChunkSize}

VARIABLES
  block,        \* data of the popped block
  start,        \* start_ptr - block->data
  overflow,     \* overflow.data up to overflow.length
  out,          \* the records written so far
  input,        \* history: the bytes of all the blocks popped so far
  wpc           \* "pop", "scan" a block, or "exit"

wvars == <<block, start, overflow, out, input, wpc>>

FrameInit ==
  /\ block = << >> /\ start = 0 /\ overflow = << >>
  /\ out = << >> /\ input = << >>
  /\ wpc = "pop"

Pop(b) ==
  /\ wpc = "pop"
  /\ Len(input) + Len(b) <= MaxInput
  /\ input' = input \o b
  /\ block' = b
  /\ start' = 0
  /\ wpc' = "scan"
  /\ UNCHANGED <<overflow, out>>

\* JP_ESHUTTING_DOWN: the loop ends and the buffers are freed.
Shutdown ==
  /\ wpc = "pop"
  /\ wpc' = "exit"
  /\ UNCHANGED <<block, start, overflow, out, input>>

Scanning == wpc = "scan" /\ start < Len(block)

\* memchr: the offsets of the newlines left, and the first one.
Newlines    == {i \in start .. Len(block) - 1 : block[i + 1] = Newline}
HasNewline  == Newlines # {}
Delimiter   == CHOOSE i \in Newlines : \A j \in Newlines : i <= j
Slice(i)    == SubSeq(block, start + 1, i)
Record(s, eol) == [text |-> s, eol |-> eol]

\* Variant that forgets the room already used.
RoomAll == ChunkSize

Room      == ChunkSize - Len(overflow)
Remaining == (IF HasNewline THEN Delimiter ELSE Len(block)) - start
CopyLen   == IF Remaining < Room THEN Remaining ELSE Room

\* The newline is consumed with the record only if the copy reached it.
ReachedNewline == HasNewline /\ start + CopyLen = Delimiter
AfterCopy      == start + CopyLen + (IF ReachedNewline THEN 1 ELSE 0)
Copied         == overflow \o Slice(start + CopyLen)

\* Variant that flushes what it copied one byte too early.
MustFlushEarly == HasNewline \/ Len(Copied) + 1 >= ChunkSize

\* Variant that flushes at a newline only.
MustFlushNewline == HasNewline

MustFlush      == HasNewline \/ Len(Copied) = ChunkSize

\* overflow.length > 0, and the bytes copied end neither line nor buffer.
Extend ==
  /\ Scanning /\ overflow # << >>
  /\ ~MustFlush
  /\ overflow' = Copied
  /\ start' = start + CopyLen
  /\ UNCHANGED <<out, input, wpc>>

\* overflow.length > 0, and a record is due.
Flush ==
  /\ Scanning /\ overflow # << >>
  /\ MustFlush
  /\ out' = Append(out, Record(Copied, ReachedNewline))
  /\ overflow' = << >>
  /\ start' = AfterCopy
  /\ UNCHANGED <<input, wpc>>

\* Variant that overwrites what is already in the buffer.
KeepTailAlways ==
  /\ Scanning
  /\ ~HasNewline
  /\ overflow' = Slice(Len(block))
  /\ start' = Len(block)
  /\ UNCHANGED <<out, input, wpc>>

\* No newline left in the block: the rest is kept.
KeepTail ==
  /\ Scanning /\ overflow = << >>
  /\ ~HasNewline
  /\ overflow' = Slice(Len(block))
  /\ start' = Len(block)
  /\ UNCHANGED <<out, input, wpc>>

\* A whole line inside the block.
EmitLine ==
  /\ Scanning /\ overflow = << >>
  /\ HasNewline
  /\ out' = Append(out, Record(Slice(Delimiter), TRUE))
  /\ start' = Delimiter + 1
  /\ UNCHANGED <<overflow, input, wpc>>

\* jp_file_writev fails where Flush or EmitLine would have written.
WriteFails ==
  /\ Scanning
  /\ \/ overflow # << >> /\ MustFlush
     \/ overflow = << >> /\ HasNewline
  /\ wpc' = "exit"
  /\ UNCHANGED <<start, overflow, out, input>>

Scan == Extend \/ Flush \/ KeepTail \/ EmitLine

\* jp_queue_pop_commit: the block is not looked at again.
Commit ==
  /\ wpc = "scan" /\ start >= Len(block)
  /\ wpc' = "pop"
  /\ block' = << >> /\ start' = 0
  /\ UNCHANGED <<overflow, out, input>>

FrameNext ==
  \/ \E b \in Blocks : Pop(b)
  \/ Shutdown
  \/ (Scan \/ WriteFails) /\ UNCHANGED block
  \/ Commit

FrameSpec == FrameInit /\ [][FrameNext]_wvars

\* The loop over a block does not stop by itself.
FrameLiveSpec == FrameSpec /\ WF_wvars(Scan /\ UNCHANGED block)

-----------------------------------------------------------------------------
\* In particular no memcpy writes past overflow.data or reads past the block.
FrameTypeOK ==
  /\ block \in Blocks \cup {<< >>}
  /\ start \in 0 .. Len(block)
  /\ overflow \in Seq(Bytes) /\ Len(overflow) <= ChunkSize
  /\ out \in Seq([text : Seq(Bytes), eol : BOOLEAN])
  /\ input \in Seq(Bytes \cup {Newline})
  /\ wpc \in {"pop", "scan", "exit"}

\* The bytes a record stands for, and those not yet in a record.
Framed(r) == IF r.eol THEN Append(r.text, Newline) ELSE r.text
Left      == overflow \o SubSeq(block, start + 1, Len(block))

\* The inductive invariant: what is left is the end of what came in, and
\* between two blocks that is what waits in overflow.
FrameInv ==
  /\ FrameTypeOK
  /\ Len(Left) <= Len(input)
  /\ \A i \in 1 .. Len(Left) : input[Len(input) - Len(Left) + i] = Left[i]
  /\ wpc = "pop" => block = << >>

\* The bytes of records in a row.
Joined(recs) ==
  LET upto[n \in 0 .. Len(recs)] ==
        IF n = 0 THEN << >> ELSE upto[n - 1] \o Framed(recs[n])
  IN  upto[Len(recs)]

\* The records and what is left, put together, are the bytes that came in:
\* every line is there once, in order, whatever the cuts between blocks.
NothingLost == input = Joined(out) \o Left

FL == INSTANCE Lines WITH stream <- input, done <- Len(input) - Len(Left)

\* The loop implements the abstract line splitter: the iterations that write
\* put out the next line of what came in, or chunk_size bytes of a longer one,
\* and the others change nothing of that, wherever the blocks were cut.
SplitsLines == FL!Spec

\* The loop over a block ends (or a write fails): no iteration spins.
BlockFinished == wpc = "scan" ~> (wpc = "exit" \/ start >= Len(block))

=============================================================================
