------------------------------- MODULE Reader -------------------------------
(***************************************************************************)
(* jp_reader_consume (src/src/reader.c) on top of the queue: an edge       *)
(* triggered poller (src/src/poller/), an inner loop that reads into the   *)
(* block it reserved, and the commits at a full block, at EAGAIN and at    *)
(* the end of the input.  Pipeline puts it together with the writer.       *)
(*                                                                         *)
(* The bytes of the input are the numbers 1, 2, 3, ... so that a block is  *)
(* a sequence of numbers and losses show.                                  *)
(***************************************************************************)
EXTENDS Queue, Chunk, SequencesExt

CONSTANT MaxSent        \* bound on the bytes the peer writes

ASSUME SentAssumption == MaxSent \in Nat

VARIABLES
  nonblock,     \* external: stdin is in non-blocking mode
  faults,       \* external: reads, polls and writes may fail
  sent, eof,    \* external: bytes written into the pipe, peer has closed it
  nread,        \* bytes read from it
  edge,         \* external: epoll or kqueue has an event for us
  rpc,          \* where jp_reader_consume is
  kept          \* history: the bytes read into blocks, oldest first

world == <<nonblock, faults>>
env   == <<world, sent, eof, edge>>
rvars == <<nread, rpc, kept>>

Available == sent - nread
\* Block contents: bytes sent, in order.
Chunks == {s \in BoundedSeq(1 .. MaxSent, ChunkSize) :
             s # << >> /\ \A i, j \in DOMAIN s : i < j => s[i] < s[j]}

ASSUME BlockAssumption == Data = Chunks /\ Empty = << >>

RInit ==
  /\ Init
  /\ nonblock \in BOOLEAN /\ faults \in BOOLEAN
  /\ sent = 0 /\ eof = FALSE /\ edge = FALSE
  /\ nread = 0 /\ rpc = "start" /\ kept = << >>

-----------------------------------------------------------------------------
(***************************************************************************)
(* The peer, and the edge triggered event it causes.                       *)
(***************************************************************************)
PeerWrite(n) ==
  /\ ~eof /\ sent + n <= MaxSent
  /\ sent' = sent + n
  /\ edge' = TRUE
  /\ UNCHANGED <<qvars, world, eof, rvars>>

PeerClose ==
  /\ ~eof
  /\ eof' = TRUE
  /\ edge' = TRUE
  /\ UNCHANGED <<qvars, world, sent, rvars>>

-----------------------------------------------------------------------------
(***************************************************************************)
(* The outer loop.                                                         *)
(***************************************************************************)
RGoto(from, to) ==
  /\ rpc = from /\ At(Reader, "idle")
  /\ rpc' = to

\* jp_poller_poll: registering reports what is already there.
Register ==
  /\ RGoto("start", "poll")
  /\ edge' = (Available > 0 \/ eof)
  /\ UNCHANGED <<qvars, faults, sent, eof, nread, kept>>

\* The poller of the build is epoll, or kqueue, which makes stdin non-blocking.
PollEpoll  == Register /\ UNCHANGED nonblock
PollKqueue == Register /\ nonblock' = TRUE

\* jp_poller_wait reports the edge once.  A timeout or EINTR polls again.
PollReady ==
  /\ RGoto("poll", "push")
  /\ edge
  /\ edge' = FALSE
  /\ UNCHANGED <<qvars, world, sent, eof, nread, kept>>

\* Creating or arming the poller fails, or waiting for it.
PollerFails(place) ==
  /\ faults
  /\ RGoto(place, "exit")
  /\ UNCHANGED <<qvars, env, nread, kept>>

CreateFails == PollerFails("start")
WaitFails   == PollerFails("poll")

-----------------------------------------------------------------------------
(***************************************************************************)
(* The inner loop.                                                         *)
(***************************************************************************)

\* A call of the queue, made where the code makes it; what the queue relies
\* on (PushCall, PushCommitCall, ...) is not assumed here.
CallQueue(t, operation) ==
  /\ At(t, "idle")
  /\ Goto(t, operation)
  /\ UNCHANGED <<ring, active, sync, rblk, wblk, ret>>

\* block == NULL: jp_queue_push_uncommitted, and what comes back.
PushBlock ==
  /\ RGoto("push", "pushed")
  /\ rblk = NoBlock
  /\ CallQueue(Reader, "push_active")
  /\ UNCHANGED <<env, nread, kept>>

\* block != NULL: it is filled further.
KeepBlock ==
  /\ RGoto("push", "read")
  /\ rblk # NoBlock
  /\ UNCHANGED <<qvars, env, nread, kept>>

Pushed ==
  /\ RGoto("pushed", IF ret[Reader] = "shutdown" THEN "exit" ELSE "read")
  /\ UNCHANGED <<qvars, env, nread, kept>>

Block    == blocks[rblk]
HasBlock == rblk # NoBlock

\* JP_EMSG_SHOULD_DROP: up to chunk_size bytes are read and forgotten.
ReadDrop(n) ==
  /\ RGoto("read", "push")
  /\ ~HasBlock
  /\ n \in 1 .. Available /\ n <= ChunkSize
  /\ nread' = nread + n
  /\ UNCHANGED <<qvars, env, kept>>

\* The next n bytes of the input.
Fresh(n) == [i \in 1 .. n |-> nread + i]

\* Bytes are read behind those of the block.
ReadBlock(n) ==
  /\ HasBlock
  /\ n \in 1 .. Available /\ n <= ChunkSize - Len(Block)
  /\ RGoto("read", IF Len(Block) + n = ChunkSize THEN "full" ELSE "push")
  /\ nread' = nread + n
  /\ Fill(Block \o Fresh(n))
  /\ kept' = kept \o Fresh(n)
  /\ UNCHANGED env

CommitFull ==
  /\ RGoto("full", "push")
  /\ CallQueue(Reader, "push_commit")
  /\ UNCHANGED <<env, nread, kept>>

\* Variant that commits a block without looking at its length.
CommitAnyRest ==
  IF HasBlock THEN CallQueue(Reader, "push_commit") ELSE UNCHANGED qvars

\* What is in the block is committed before the inner loop is left.
CommitRest ==
  IF HasBlock /\ Block # Empty THEN CallQueue(Reader, "push_commit") ELSE UNCHANGED qvars

ReadEof ==
  /\ RGoto("read", "exit")
  /\ Available = 0 /\ eof
  /\ CommitRest
  /\ UNCHANGED <<env, nread, kept>>

\* Variant that goes back to polling with the bytes in its hands.
ReadAgainKeep ==
  /\ RGoto("read", "poll")
  /\ nonblock /\ Available = 0 /\ ~eof
  /\ UNCHANGED <<qvars, env, nread, kept>>

\* EAGAIN.  A blocking read waits instead.
ReadAgain ==
  /\ RGoto("read", "poll")
  /\ nonblock /\ Available = 0 /\ ~eof
  /\ CommitRest
  /\ UNCHANGED <<env, nread, kept>>

\* EINTR goes back to the top of the inner loop, where a read that was to be
\* dropped asks for a block again.
ReadInterrupted ==
  /\ faults
  /\ RGoto("read", "push")
  /\ UNCHANGED <<qvars, env, nread, kept>>

\* Any other error leaves what is in the block behind.
ReadFails ==
  /\ faults
  /\ RGoto("read", "exit")
  /\ UNCHANGED <<qvars, env, nread, kept>>

\* clean_up: jp_queue_finalize.
ReaderExit ==
  /\ rpc = "exit"
  /\ FinalizeCall(Reader)
  /\ UNCHANGED <<env, rvars>>

ReaderStep ==
  \/ PollEpoll \/ PollKqueue \/ PollReady \/ CreateFails \/ WaitFails
  \/ PushBlock \/ KeepBlock \/ Pushed \/ CommitFull
  \/ \E n \in 1 .. ChunkSize : ReadDrop(n) \/ ReadBlock(n)
  \/ ReadEof \/ ReadAgain \/ ReadInterrupted \/ ReadFails
  \/ ReaderExit

=============================================================================
