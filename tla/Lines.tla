------------------------------- MODULE Lines --------------------------------
(***************************************************************************)
(* What jpipe promises of its output, without threads, blocks or buffers:  *)
(* the bytes it keeps of its input form a stream, and the records are the  *)
(* lines of that stream, in order, each once and whole.  A line longer     *)
(* than ChunkSize goes out in pieces of exactly ChunkSize bytes.           *)
(***************************************************************************)
EXTENDS Naturals, Sequences

CONSTANTS ChunkSize, Newline

VARIABLES
  stream,       \* the bytes kept so far
  done,         \* how many of them are in records
  out           \* the records: their text, and whether it ended a line

lvars == <<stream, done, out>>

Init == stream = << >> /\ done = 0 /\ out = << >>

\* More bytes are kept.
Accept ==
  /\ Len(stream) < Len(stream')
  /\ SubSeq(stream', 1, Len(stream)) = stream
  /\ UNCHANGED <<done, out>>

\* The next record has n bytes, and a newline behind them if it ends a line.
Emit(n, eol) ==
  LET next == IF eol THEN done + n + 1 ELSE done + n
  IN  /\ next <= Len(stream)
      /\ \A i \in 1 .. n : stream[done + i] # Newline
      /\ IF eol THEN n <= ChunkSize /\ stream[next] = Newline
                ELSE n = ChunkSize
      /\ out' = Append(out, [text |-> SubSeq(stream, done + 1, done + n), eol |-> eol])
      /\ done' = next
      /\ UNCHANGED stream

Next == Accept \/ \E n \in 0 .. ChunkSize, eol \in BOOLEAN : Emit(n, eol)

Spec == Init /\ [][Next]_lvars

=============================================================================
