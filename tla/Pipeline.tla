------------------------------ MODULE Pipeline ------------------------------
(***************************************************************************)
(* Reader, queue and writer together: the bytes of stdin become records.   *)
(* The reader is that of Reader, the writer that of Writer.  The writer    *)
(* does not copy the block it popped: what it sees of it, the variable     *)
(* "block" of Writer, is at any time what its slot of the ring holds.      *)
(*                                                                         *)
(* Byte i of the input is the number i, or a newline if i is in            *)
(* "newlines", which a behaviour chooses once.                             *)
(***************************************************************************)
EXTENDS Reader, Writer

CONSTANT NewlineSets    \* the places of the newlines tried

ASSUME InputAssumption == 1 .. MaxSent \subseteq Bytes /\ MaxSent <= MaxInput

VARIABLE newlines       \* external: where the lines end

wlocal == <<start, overflow, out, input, wpc>>
pvars  == <<qvars, env, rvars, newlines, block, wlocal>>

Text(s) == [i \in DOMAIN s |-> IF s[i] \in newlines THEN Newline ELSE s[i]]
Popped  == IF wblk = NoBlock THEN << >> ELSE Text(blocks[wblk])

\* jp_block_t* of the writer: it follows the memory.
InPlace == block' = Popped'

PInit ==
  /\ RInit
  /\ newlines \in NewlineSets
  /\ FrameInit

-----------------------------------------------------------------------------
(***************************************************************************)
(* The writer thread outside the queue.                                    *)
(***************************************************************************)
WriterPop ==
  /\ wpc = "pop"
  /\ CallQueue(Writer, "pop_length")
  /\ UNCHANGED wlocal

WriterScan ==
  /\ At(Writer, "idle")
  /\ Scan
  /\ UNCHANGED qvars

WriterFails ==
  /\ faults /\ At(Writer, "idle")
  /\ WriteFails
  /\ UNCHANGED qvars

WriterCommit ==
  /\ wpc = "scan" /\ start >= Len(block)
  /\ CallQueue(Writer, "pop_commit")
  /\ UNCHANGED wlocal

WriterExit ==
  /\ wpc = "exit"
  /\ FinalizeCall(Writer)
  /\ UNCHANGED wlocal

WriterStep ==
  /\ WriterPop \/ WriterScan \/ WriterFails \/ WriterCommit \/ WriterExit
  /\ UNCHANGED <<env, rvars, newlines>>
  /\ InPlace

\* The steps inside the queue.  Those that answer the writer move it on.
Told == ret[Writer] = "shutdown"

InQueue(t) ==
  /\ QueueStep(t)
  /\ UNCHANGED <<env, rvars, newlines>>
  /\ \/ wblk = NoBlock /\ wblk' # NoBlock /\ Pop(Popped')
     \/ wblk # NoBlock /\ wblk' = NoBlock /\ Commit
     \/ ~Told /\ Told' /\ Shutdown
     \/ wblk' = wblk /\ Told' = Told /\ UNCHANGED wlocal
  /\ InPlace

\* The watcher thread got its signal.
Signal(t) ==
  /\ t \in Finalizers
  /\ FinalizeCall(t)
  /\ UNCHANGED <<env, rvars, newlines, wlocal>>
  /\ InPlace

Spurious(t) ==
  /\ SpuriousWakeup(t)
  /\ UNCHANGED <<env, rvars, newlines, wlocal>>
  /\ InPlace

ReaderRuns == ReaderStep /\ UNCHANGED <<newlines, wlocal>> /\ InPlace

Peer ==
  /\ PeerClose \/ \E n \in 1 .. MaxSent : PeerWrite(n)
  /\ UNCHANGED <<newlines, wlocal>>
  /\ InPlace

PNext ==
  \/ Peer \/ ReaderRuns \/ WriterStep
  \/ \E t \in Threads : InQueue(t) \/ Spurious(t)
  \/ \E t \in Finalizers : Signal(t)

PSpec == PInit /\ [][PNext]_pvars

\* The threads keep running, inside and outside the queue.  Inside it only the
\* mutex makes a thread wait again and again, and a thread that keeps asking
\* for the mutex gets it.  The peer need not write, nor close.
FairReader ==
  /\ WF_pvars(ReaderRuns)
  /\ \A t \in Threads : SF_pvars(InQueue(t))

PLiveSpec == PSpec /\ FairReader /\ WF_pvars(WriterStep)

\* The writer may stop for good between two calls: its output is stuck.
PStuckSpec == PSpec /\ FairReader

-----------------------------------------------------------------------------
Written     == Len(input) - Len(Left)     \* bytes that are in records
Interrupted == \E t \in Finalizers : ~At(t, "idle")
Gone        == At(Reader, "done") /\ At(Writer, "done")

L == INSTANCE Lines WITH stream <- Text(kept), done <- Written

\* From stdin to the records: every byte read and not dropped is in the next
\* line written, once and in order, across partial reads, full blocks, wraps
\* of the ring, drops, errors and shutdown.
ImplementsLines == L!Spec

\* Reader and writer keep to the protocol on which the queue relies: they ask
\* for a block only without one, commit only blocks with data, and stop
\* asking once told of the shutdown.  What is proved of Queue holds here.
QueueContract == Spec

(***************************************************************************)
(* The inductive invariant behind the three: of the queue, of the writer's *)
(* loop, and of what ties them together.                                   *)
(***************************************************************************)

\* Where jp_reader_consume is while its thread is inside the queue, and what
\* it has read so far.
ReaderTurn ==
  /\ rpc \in {"start", "poll", "push", "pushed", "read", "full", "exit"}
  /\ pc[Reader] \in {"push_active", "push_length", "push_slow"} => rpc = "pushed"
  /\ ret[Reader] = "shutdown" => rpc \in {"pushed", "exit"}
  /\ rpc = "full" => At(Reader, "idle") /\ HasBlock /\ Block # Empty
  /\ sent \in 0 .. MaxSent /\ nread \in 0 .. sent
  /\ HasBlock => \A i \in DOMAIN Block : Block[i] <= nread
  /\ kept \in Seq(1 .. MaxSent)

\* The same for jp_writer_produce, which leaves its loop only when told to or
\* when a write fails.
WriterTurn ==
  /\ block = Popped
  /\ wpc = "pop" => wblk = NoBlock /\ ~Told
  /\ wpc = "scan" => wblk # NoBlock
  /\ pc[Writer] \in {"fin_active", "fin_slow", "done"} => wpc = "exit"
  /\ wpc = "exit" /\ ~faults => Told

\* s ends, behind its first n bytes, with the blocks of ch and then rest.
Laid(ch, rest, s, n) ==
  \E off \in [1 .. Len(ch) + 1 -> 0 .. Len(s)] :
    /\ off[1] = n
    /\ \A k \in 1 .. Len(ch) :
         /\ off[k + 1] = off[k] + Len(ch[k])
         /\ \A j \in 1 .. Len(ch[k]) : s[off[k] + j] = ch[k][j]
    /\ off[Len(ch) + 1] + Len(rest) = Len(s)
    /\ \A j \in 1 .. Len(rest) : s[off[Len(ch) + 1] + j] = rest[j]

\* What the reader kept is what the writer popped, then what is in the ring,
\* then what is in the reader's block.
Filling == IF HasBlock THEN Block ELSE << >>
Transit ==
  /\ Laid(chan, Filling, kept, Len(input) - Len(block))
  /\ Len(input) <= Len(kept)
  /\ \A i \in 1 .. Len(input) : input[i] = Text(kept)[i]

\* After the writer was told of the shutdown one more block can come, from a
\* reader that had been let in before.
LateBlock == Told => length = 0 \/ (length = 1 /\ ~admitted)

PInv == IInv /\ FrameInv /\ ReaderTurn /\ WriterTurn /\ Transit /\ LateBlock

\* A block is committed when it is full or when the input pauses or ends, so
\* with a non-blocking stdin the lines that arrived get written, although the
\* poller reports each arrival only once.
LinesArrive ==
  nonblock /\ ~faults ~> ~active \/ \A i \in newlines : i <= sent => i <= Written

\* At the end of the input both threads leave, blocking stdin or not, and
\* unless a signal came everything is written but a last line without newline.
EofDrains ==
  eof /\ ~faults ~>
    /\ Gone
    /\ \/ Interrupted
       \/ /\ nread = sent /\ input = Text(kept)
          /\ \A i \in DOMAIN Left : Left[i] # Newline

\* A signal costs at most one block: the one the reader had reserved when the
\* writer was told of the shutdown.
ShutdownLossBounded == Gone /\ ~faults => Len(kept) - Len(input) <= ChunkSize

\* README: "drop ... Preserves forward progress".  Under DROP the reader
\* catches up with its input even if the writer is stuck.
DropKeepsReading ==
  ~faults /\ Available > 0 ~> (Available = 0 \/ ~active)

\* README: "SIGINT and SIGTERM trigger graceful shutdown.  Active chunks are
\* flushed to disk before exit": after a signal both threads leave, and the
\* writer has popped what the reader had read.
GracefulShutdown == Interrupted /\ ~faults ~> Gone /\ input = Text(kept)

=============================================================================
