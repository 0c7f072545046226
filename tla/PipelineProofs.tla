--------------------------- MODULE PipelineProofs ---------------------------
(***************************************************************************)
(* Proofs about Pipeline, for every capacity, chunk size and policy, any   *)
(* number of signals, every input and every way to read it.                *)
(***************************************************************************)
EXTENDS Pipeline, QueueProofs, WriterProofs

-----------------------------------------------------------------------------
\* A function on an initial part of the naturals is a sequence.
LEMMA FunSeq ==
  ASSUME NEW S, NEW m \in Nat, NEW s \in [1 .. m -> S]
  PROVE  s \in Seq(S) /\ Len(s) = m
  OBVIOUS

\* A block of data is a non-empty sequence of bytes in order.
LEMMA ChunkFacts ==
  ASSUME NEW s
  PROVE  s \in Data <=>
           /\ s \in Seq(1 .. MaxSent) /\ Len(s) \in 1 .. ChunkSize
           /\ \A i, j \in 1 .. Len(s) : i < j => s[i] < s[j]
<1>1. s \in BoundedSeq(1 .. MaxSent, ChunkSize) <=>
        \E m \in 0 .. ChunkSize : s \in [1 .. m -> 1 .. MaxSent]
  BY DEF BoundedSeq, SeqOf
<1>2. s \in BoundedSeq(1 .. MaxSent, ChunkSize) <=>
        s \in Seq(1 .. MaxSent) /\ Len(s) \in 0 .. ChunkSize
  <2>1. ASSUME NEW m \in 0 .. ChunkSize, s \in [1 .. m -> 1 .. MaxSent]
        PROVE  s \in Seq(1 .. MaxSent) /\ Len(s) \in 0 .. ChunkSize
    <3>1. m \in Nat
      BY ChunkSizeAssumption
    <3>2. s \in Seq(1 .. MaxSent) /\ Len(s) = m
      BY <2>1, <3>1, FunSeq
    <3> QED BY <3>2
  <2>2. ASSUME s \in Seq(1 .. MaxSent), Len(s) \in 0 .. ChunkSize
        PROVE  s \in [1 .. Len(s) -> 1 .. MaxSent]
    BY <2>2, LenProperties
  <2> QED BY <1>1, <2>1, <2>2
<1>3. s \in Seq(1 .. MaxSent) => DOMAIN s = 1 .. Len(s) /\ (s # << >> <=> Len(s) # 0) /\ Len(s) \in Nat
  BY LenProperties, EmptySeq
<1> QED BY <1>2, <1>3, BlockAssumption, ChunkSizeAssumption DEF Chunks

\* The bytes that are read come behind those of the block.
LEMMA ReadData ==
  ASSUME IInv, ReaderTurn, NEW n \in 1 .. ChunkSize, ReadBlock(n)
  PROVE  Block \o Fresh(n) \in Data
<1>1. /\ Block \in Data \cup {<< >>} /\ n \in Nat /\ n >= 1 /\ n <= Available
      /\ n <= ChunkSize - Len(Block)
  BY BlockAssumption, ChunkSizeAssumption DEF IInv, TypeOK, ReadBlock, HasBlock, Block
<1>2. /\ nread \in Nat /\ sent \in Nat /\ nread + n <= MaxSent /\ MaxSent \in Nat
  <2>1. sent \in 0 .. MaxSent /\ nread \in 0 .. sent
    BY DEF ReaderTurn
  <2> QED BY <1>1, <2>1, SentAssumption DEF Available
<1>3. /\ Block \in Seq(1 .. MaxSent) /\ Len(Block) \in Nat
      /\ \A i, j \in 1 .. Len(Block) : i < j => Block[i] < Block[j]
      /\ DOMAIN Block = 1 .. Len(Block)
  <2>1. CASE Block = << >>
    BY <2>1
  <2>2. CASE Block \in Data
    BY <2>2, ChunkFacts, LenProperties
  <2> QED BY <1>1, <2>1, <2>2
<1>4. \A i \in 1 .. Len(Block) : Block[i] <= nread
  BY <1>3 DEF ReaderTurn, ReadBlock
<1> DEFINE f == Fresh(n)
           s == Block \o f
<1>5. f \in Seq(1 .. MaxSent) /\ Len(f) = n /\ \A i \in 1 .. n : f[i] = nread + i
  <2>1. \A i \in 1 .. n : nread + i \in 1 .. MaxSent
    BY <1>1, <1>2
  <2> QED BY <1>1, <2>1 DEF Fresh
<1> HIDE DEF f
<1>6. /\ s \in Seq(1 .. MaxSent) /\ Len(s) = Len(Block) + n
      /\ \A i \in 1 .. Len(Block) + n : s[i] = IF i <= Len(Block) THEN Block[i] ELSE f[i - Len(Block)]
  BY <1>3, <1>5, ConcatProperties
<1> HIDE DEF s
<1>7. ASSUME NEW i \in 1 .. Len(s), NEW j \in 1 .. Len(s), i < j PROVE s[i] < s[j]
  <2>1. CASE j <= Len(Block)
    <3>1. i \in 1 .. Len(Block) /\ j \in 1 .. Len(Block) /\ i <= Len(Block)
      BY <1>3, <1>7, <2>1
    <3>2. s[i] = Block[i] /\ s[j] = Block[j]
      BY <1>6, <2>1, <3>1
    <3> QED BY <1>3, <1>7, <3>1, <3>2
  <2>2. CASE i <= Len(Block) /\ ~(j <= Len(Block))
    <3>1. i \in 1 .. Len(Block) /\ j - Len(Block) \in 1 .. n
      BY <1>1, <1>3, <1>6, <2>2
    <3>2. Block[i] \in 1 .. MaxSent
      BY <1>3, <3>1, ElementOfSeq
    <3>3. s[i] = Block[i] /\ Block[i] \in Nat /\ Block[i] <= nread
      BY <1>2, <1>4, <1>6, <2>2, <3>1, <3>2, SMTT(30)
    <3>4. s[j] = nread + (j - Len(Block))
      BY <1>5, <1>6, <2>2, <3>1
    <3> QED BY <1>2, <3>1, <3>3, <3>4
  <2>3. CASE ~(i <= Len(Block)) /\ ~(j <= Len(Block))
    <3>1. i - Len(Block) \in 1 .. n /\ j - Len(Block) \in 1 .. n
      BY <1>1, <1>3, <1>6, <2>3
    <3>2. s[i] = nread + (i - Len(Block)) /\ s[j] = nread + (j - Len(Block))
      BY <1>5, <1>6, <2>3, <3>1
    <3> QED BY <1>2, <1>3, <1>7, <3>2
  <2> QED BY <1>3, <1>6, <1>7, <2>1, <2>2, <2>3
<1>8. Len(s) \in 1 .. ChunkSize
  BY <1>1, <1>3, <1>6, ChunkSizeAssumption
<1> QED BY <1>6, <1>7, <1>8, ChunkFacts DEF s, f

-----------------------------------------------------------------------------
(***************************************************************************)
(* The protocol of the queue.                                              *)
(***************************************************************************)

\* Every step of the pipeline is a step of the queue, or none.
LEMMA ContractStep ==
  ASSUME IInv, ReaderTurn, WriterTurn, [PNext]_pvars
  PROVE  [Next]_qvars
<1>0. Reader \in Threads /\ Writer \in Threads /\ Finalizers \subseteq Threads
  BY DEF Threads
<1>1. CASE Peer
  BY <1>1 DEF Peer, PeerWrite, PeerClose
<1>2. CASE ReaderRuns
  <2>1. CASE PushBlock
    <3> PushCall
      BY <2>1 DEF PushBlock, PushCall, CallQueue, RGoto, ReaderTurn, At
    <3> QED BY DEF Next, Use
  <2>2. CASE CommitFull
    <3> PushCommitCall
      BY <2>2 DEF CommitFull, PushCommitCall, CallQueue, RGoto, ReaderTurn, Block, HasBlock
    <3> QED BY DEF Next, Use
  <2>3. CASE CommitRest
    <3>1. PushCommitCall \/ UNCHANGED qvars
      BY <2>3 DEF CommitRest, PushCommitCall, CallQueue, Block, HasBlock
    <3> QED BY <3>1 DEF Next, Use
  <2>4. ASSUME NEW n \in 1 .. ChunkSize, ReadBlock(n) PROVE Next
    <3> Block \o Fresh(n) \in Data /\ Fill(Block \o Fresh(n))
      BY <2>4, ReadData DEF ReadBlock
    <3> QED BY DEF Next, Use
  <2>5. CASE ReaderExit
    BY <1>0, <2>5 DEF ReaderExit, Next, Use
  <2> QED
    BY <1>2, <2>1, <2>2, <2>3, <2>4, <2>5
    DEF ReaderRuns, ReaderStep, PollEpoll, PollKqueue, Register, PollReady, CreateFails,
        WaitFails, PollerFails, KeepBlock, Pushed, ReadDrop, ReadEof, ReadAgain,
        ReadInterrupted, ReadFails
<1>3. CASE WriterStep
  <2>1. CASE WriterPop
    <3> PopCall
      BY <2>1 DEF WriterPop, PopCall, CallQueue, WriterTurn, Told
    <3> QED BY DEF Next, Use
  <2>2. CASE WriterCommit
    <3> PopCommitCall
      BY <2>2 DEF WriterCommit, PopCommitCall, CallQueue, WriterTurn
    <3> QED BY DEF Next, Use
  <2>3. CASE WriterExit
    BY <1>0, <2>3 DEF WriterExit, Next, Use
  <2>4. CASE WriterScan \/ WriterFails
    BY <2>4 DEF WriterScan, WriterFails
  <2> QED BY <1>3, <2>1, <2>2, <2>3, <2>4 DEF WriterStep
<1>4. CASE \E t \in Threads : InQueue(t) \/ Spurious(t)
  BY <1>4 DEF InQueue, Spurious, Next
<1>5. CASE \E t \in Finalizers : Signal(t)
  BY <1>0, <1>5 DEF Signal, Next, Use
<1>6. CASE UNCHANGED pvars
  BY <1>6 DEF pvars
<1> QED BY <1>1, <1>2, <1>3, <1>4, <1>5, <1>6 DEF PNext

\* The threads are different, and each has a place in the queue.
LEMMA Turns ==
  ASSUME IInv
  PROVE  /\ Reader \in Threads /\ Writer \in Threads /\ Reader # Writer
         /\ Reader \notin Finalizers /\ Writer \notin Finalizers
         /\ pc \in [Threads -> {"idle", "done"} \cup FastPath \cup Section]
         /\ ret \in [Threads -> {"none", "ok", "drop", "shutdown"}]
  BY ThreadAssumption DEF IInv, TypeOK, Threads, Reader, Writer

\* What the reader holds is not touched unless the reader does it.
LEMMA ReaderKept ==
  ASSUME ReaderTurn, UNCHANGED <<rpc, nread, kept>>, sent' \in 0 .. MaxSent, sent <= sent',
         UNCHANGED <<blocks, rblk>>, pc'[Reader] = pc[Reader], ret'[Reader] = ret[Reader]
  PROVE  ReaderTurn'
<1>1. sent \in Nat /\ sent' \in Nat /\ nread \in 0 .. sent
  BY SentAssumption DEF ReaderTurn
<1>2. nread \in 0 .. sent'
  BY <1>1
<1>3. Block' = Block /\ HasBlock' = HasBlock
  BY DEF Block, HasBlock
<1> QED BY <1>2, <1>3 DEF ReaderTurn, At

LEMMA ReaderInQueue ==
  ASSUME IInv, ReaderTurn, NEW t \in Threads, QueueStep(t), UNCHANGED <<env, rvars>>
  PROVE  ReaderTurn'
<1>0. sent' \in 0 .. MaxSent /\ sent <= sent' /\ sent' = sent /\ UNCHANGED <<rpc, nread, kept>>
  <2>1. sent' = sent /\ UNCHANGED <<rpc, nread, kept>>
    BY DEF env, rvars
  <2>2. sent \in 0 .. MaxSent
    BY DEF ReaderTurn
  <2> QED BY <2>1, <2>2, SentAssumption
<1> USE DEF ring, sync, At, Goto, Return, InSection
<1>1. CASE MutexLock(t) \/ (t = Writer /\ PopStep)
  BY <1>0, <1>1, Turns, ReaderKept
  DEF MutexLock, PopStep, PopLength, PopWait, PopShutdown, PopTake, PopCommit, Take
<1>2. CASE FinalizeStep(t)
  <2>1. CASE t # Reader
    BY <1>0, <1>2, <2>1, Turns, ReaderKept DEF FinalizeStep, FinalizeActive, Finalize
  <2>2. CASE t = Reader
    BY <1>0, <1>2, <2>2, Turns
    DEF FinalizeStep, FinalizeActive, Finalize, ReaderTurn, Block, HasBlock
  <2> QED BY <2>1, <2>2
<1>3. CASE t = Reader /\ (PushActive \/ PushWait \/ PushRefuse)
  BY <1>0, <1>3, Turns DEF PushActive, PushWait, PushRefuse, ReaderTurn, Block, HasBlock
<1>4. CASE t = Reader /\ (PushLength \/ PushReserve)
  <2>1. CASE Reserve
    <3>1. Block' = << >> /\ rblk' = tail
      BY <2>1, BlockAssumption DEF Reserve, Block, IInv, TypeOK
    <3>2. pc' = [pc EXCEPT ![Reader] = "idle"] /\ ret' = [ret EXCEPT ![Reader] = "ok"]
      BY <2>1 DEF Reserve
    <3>3. rpc = "pushed"
      BY <1>4 DEF PushLength, PushReserve, ReaderTurn
    <3> QED BY <1>0, <2>1, <3>1, <3>2, <3>3, Turns DEF ReaderTurn
  <2>2. CASE ~Reserve
    BY <1>0, <1>4, <2>2, Turns DEF PushLength, PushReserve, ReaderTurn, Block, HasBlock
  <2> QED BY <2>1, <2>2
<1>5. CASE t = Reader /\ PushCommit
  BY <1>0, <1>5, Turns DEF PushCommit, ReaderTurn, HasBlock
<1> QED BY <1>1, <1>2, <1>3, <1>4, <1>5 DEF QueueStep, PushStep

\* Reading into the block: what was read stays below what was counted.
LEMMA ReadKeepsTurn ==
  ASSUME IInv, ReaderTurn, NEW n \in 1 .. ChunkSize, ReadBlock(n)
  PROVE  /\ ReaderTurn' /\ Block' = Block \o Fresh(n) /\ Fresh(n) \in Seq(1 .. MaxSent)
         /\ Len(Fresh(n)) = n /\ UNCHANGED <<rblk, sent>>
<1>1. /\ rblk # NoBlock /\ rblk \in Slots /\ blocks \in [Slots -> Data \cup {<< >>}]
  BY BlockAssumption DEF ReadBlock, HasBlock, IInv, TypeOK
<1>2. blocks' = [blocks EXCEPT ![rblk] = Block \o Fresh(n)] /\ UNCHANGED <<rblk, pc, ret>>
  BY DEF ReadBlock, Fill
<1>3. Block' = Block \o Fresh(n) /\ HasBlock'
  BY <1>1, <1>2 DEF Block, HasBlock
<1>4. sent \in Nat /\ nread \in Nat /\ n \in Nat /\ n >= 1 /\ nread + n <= sent /\ sent <= MaxSent
  <2>1. sent \in 0 .. MaxSent /\ nread \in 0 .. sent
    BY DEF ReaderTurn
  <2> QED BY <2>1, SentAssumption, ChunkSizeAssumption DEF ReadBlock, Available
<1> DEFINE f == Fresh(n)
<1>5. /\ f \in Seq(1 .. MaxSent) /\ Len(f) = n /\ \A i \in 1 .. n : f[i] = nread + i
  <2>1. \A i \in 1 .. n : nread + i \in 1 .. MaxSent
    BY <1>4, SentAssumption
  <2>2. f \in [1 .. n -> 1 .. MaxSent] /\ \A i \in 1 .. n : f[i] = nread + i
    BY <2>1 DEF Fresh
  <2> HIDE DEF f
  <2> QED BY <1>4, <2>2, FunSeq
<1>6. Block \in Seq(1 .. MaxSent) /\ Len(Block) \in Nat /\ DOMAIN Block = 1 .. Len(Block)
  <2>1. CASE Block = << >>
    BY <2>1
  <2>2. CASE Block \in Data
    BY <2>2, ChunkFacts, LenProperties
  <2> QED BY <1>1, <2>1, <2>2 DEF Block
<1> HIDE DEF f
<1> DEFINE s == Block \o f
<1>7. /\ s \in Seq(1 .. MaxSent) /\ Len(s) = Len(Block) + n /\ DOMAIN s = 1 .. Len(Block) + n
      /\ \A i \in 1 .. Len(Block) + n : s[i] = IF i <= Len(Block) THEN Block[i] ELSE f[i - Len(Block)]
  BY <1>5, <1>6, ConcatProperties, LenProperties, SMTT(30)
<1>8. ASSUME NEW i \in DOMAIN s PROVE s[i] <= nread + n
  <2>0. i \in 1 .. Len(Block) + n
    BY <1>7
  <2>1. CASE i <= Len(Block)
    <3>1. i \in 1 .. Len(Block) /\ s[i] = Block[i]
      BY <1>6, <1>7, <2>0, <2>1
    <3>2. Block[i] \in 1 .. MaxSent
      BY <1>6, <3>1, ElementOfSeq
    <3>3. Block[i] <= nread
      BY <1>6, <3>1 DEF ReaderTurn, ReadBlock
    <3> QED BY <1>4, <3>1, <3>2, <3>3
  <2>2. CASE ~(i <= Len(Block))
    <3>1. i - Len(Block) \in 1 .. n /\ s[i] = f[i - Len(Block)]
      BY <1>4, <1>6, <1>7, <2>0, <2>2
    <3> QED BY <1>4, <1>5, <3>1
  <2> QED BY <2>1, <2>2
<1> HIDE DEF s
<1>9. s \in Data
  BY ReadData DEF s, f
<1>10. kept \o f \in Seq(1 .. MaxSent)
  BY <1>5, ConcatProperties DEF ReaderTurn
<1>11. /\ kept' = kept \o f /\ nread' = nread + n /\ sent' = sent
       /\ rpc = "read" /\ rpc' \in {"full", "push"} /\ At(Reader, "idle")
  BY DEF ReadBlock, RGoto, env, f
<1>12. nread + n \in 0 .. sent
  BY <1>4
<1>13. ReaderTurn'
  <2>1. ret[Reader] # "shutdown"
    BY <1>11 DEF ReaderTurn
  <2>2. Block' = s /\ Block' # Empty
    BY <1>3, <1>9, DataAssumption DEF s, f
  <2>3. sent \in 0 .. MaxSent
    BY DEF ReaderTurn
  <2> QED BY <1>2, <1>3, <1>8, <1>10, <1>11, <1>12, <2>1, <2>2, <2>3 DEF ReaderTurn, At
<1> QED BY <1>2, <1>3, <1>5, <1>11, <1>13 DEF f

\* Every step keeps the reader's part of the protocol.
LEMMA ReaderTurnStep ==
  ASSUME IInv, ReaderTurn, [PNext]_pvars
  PROVE  ReaderTurn'
<1>0. sent \in 0 .. MaxSent /\ nread \in 0 .. sent /\ sent \in Nat /\ nread \in Nat
  BY SentAssumption DEF ReaderTurn
<1> USE DEF ring, sync, At, Goto, env, world, rvars, wlocal
<1>1. CASE Peer
  <2>1. sent' \in 0 .. MaxSent /\ sent <= sent'
    BY <1>0, <1>1, SentAssumption DEF Peer, PeerClose, PeerWrite
  <2> QED BY <1>1, <2>1, ReaderKept DEF Peer, PeerClose, PeerWrite, qvars
<1>2. CASE ReaderRuns
  <2>1. ASSUME NEW n \in 1 .. ChunkSize, ReadBlock(n) PROVE ReaderTurn'
    BY <2>1, ReadKeepsTurn
  <2>2. ASSUME NEW n \in 1 .. ChunkSize, ReadDrop(n) PROVE ReaderTurn'
    <3>1. nread' \in 0 .. sent
      BY <1>0, <2>2 DEF ReadDrop, Available
    <3> QED BY <2>2, <3>1 DEF ReadDrop, RGoto, ReaderTurn, HasBlock, Block, qvars
  <2>3. CASE PushBlock \/ CommitFull
    BY <2>3, Turns DEF PushBlock, CommitFull, CallQueue, RGoto, ReaderTurn, HasBlock, Block
  <2>4. CASE KeepBlock \/ Pushed \/ ReadInterrupted \/ ReadFails
    BY <2>4 DEF KeepBlock, Pushed, ReadInterrupted, ReadFails, RGoto, ReaderTurn, HasBlock, Block, qvars
  <2>5. CASE PollEpoll \/ PollKqueue \/ PollReady \/ CreateFails \/ WaitFails
    BY <2>5 DEF PollEpoll, PollKqueue, Register, PollReady, CreateFails, WaitFails, PollerFails,
                RGoto, ReaderTurn, HasBlock, Block, qvars
  <2>6. CASE ReadEof \/ ReadAgain
    BY <2>6, Turns DEF ReadEof, ReadAgain, CommitRest, CallQueue, RGoto, ReaderTurn, HasBlock, Block, qvars
  <2>7. CASE ReaderExit
    BY <2>7, Turns DEF ReaderExit, FinalizeCall, ReaderTurn, HasBlock, Block
  <2> QED BY <1>2, <2>1, <2>2, <2>3, <2>4, <2>5, <2>6, <2>7 DEF ReaderRuns, ReaderStep
<1>3. CASE WriterStep
  <2>1. /\ UNCHANGED <<rpc, nread, kept, sent, blocks, rblk, ret>>
        /\ \E l : pc' = pc \/ pc' = [pc EXCEPT ![Writer] = l]
    BY <1>3 DEF WriterStep, WriterPop, WriterScan, WriterFails, WriterCommit, WriterExit,
                CallQueue, FinalizeCall, qvars
  <2>2. pc'[Reader] = pc[Reader]
    BY <2>1, Turns
  <2> QED BY <1>0, <2>1, <2>2, ReaderKept
<1>4. ASSUME NEW t \in Threads, InQueue(t) PROVE ReaderTurn'
  BY <1>4, ReaderInQueue DEF InQueue
<1>5. ASSUME NEW t \in Threads, Spurious(t) PROVE ReaderTurn'
  BY <1>0, <1>5, ReaderKept DEF Spurious, SpuriousWakeup
<1>6. ASSUME NEW t \in Finalizers, Signal(t) PROVE ReaderTurn'
  BY <1>0, <1>6, Turns, ReaderKept DEF Signal, FinalizeCall
<1>7. CASE UNCHANGED pvars
  BY <1>0, <1>7, ReaderKept DEF pvars, qvars
<1> QED BY <1>1, <1>2, <1>3, <1>4, <1>5, <1>6, <1>7 DEF PNext

-----------------------------------------------------------------------------
(***************************************************************************)
(* The writer.                                                             *)
(***************************************************************************)

\* What the steps inside the queue do to the writer.
LEMMA WriterInQueue ==
  ASSUME IInv, NEW t \in Threads, QueueStep(t)
  PROVE  /\ pc'[Writer] \in {"fin_active", "fin_slow", "done"} =>
              pc[Writer] \in {"fin_active", "fin_slow", "done"}
         /\ wblk # NoBlock /\ wblk' = NoBlock => ~Told'
<1> USE Turns DEF ring, sync, At, Goto, Return, InSection, Told
<1>0. wblk # NoBlock => ret[Writer] # "shutdown" /\ pc[Writer] \notin {"pop_length", "pop_slow"}
  BY DEF IInv, WriterInv
<1>1. CASE MutexLock(t)
  BY <1>0, <1>1 DEF MutexLock
<1>2. CASE t = Reader /\ PushStep
  BY <1>0, <1>2 DEF PushStep, PushActive, PushLength, PushWait, PushRefuse, PushReserve, PushCommit, Reserve
<1>3. CASE t = Writer /\ PopStep
  BY <1>0, <1>3 DEF PopStep, PopLength, PopWait, PopShutdown, PopTake, PopCommit, Take
<1>4. CASE FinalizeStep(t)
  BY <1>0, <1>4 DEF FinalizeStep, FinalizeActive, Finalize
<1> QED BY <1>1, <1>2, <1>3, <1>4 DEF QueueStep

\* The slot that the writer sees is the one that it holds.
LEMMA PlaceKept ==
  ASSUME IInv, WriterTurn, [PNext]_pvars
  PROVE  (block = Popped)'
<1>1. CASE PNext
  BY <1>1 DEF PNext, Peer, ReaderRuns, WriterStep, InQueue, Spurious, Signal, InPlace
<1>2. CASE UNCHANGED pvars
  <2>1. UNCHANGED <<block, wblk, blocks, newlines>>
    BY <1>2 DEF pvars, qvars
  <2> QED BY <2>1 DEF WriterTurn, Popped, Text
<1> QED BY <1>1, <1>2

\* The faults of a behaviour are chosen once.
LEMMA FaultsKept == [PNext]_pvars => faults' = faults /\ newlines' = newlines
  BY DEF PNext, pvars, Peer, PeerWrite, PeerClose, ReaderRuns, ReaderStep, PollEpoll, PollKqueue,
         Register, PollReady, CreateFails, WaitFails, PollerFails, PushBlock, KeepBlock, Pushed,
         CommitFull, ReadDrop, ReadBlock, ReadEof, ReadAgain, ReadInterrupted, ReadFails,
         ReaderExit, WriterStep, InQueue, Spurious, Signal, env, world

\* Every step keeps the writer's part of the protocol.
LEMMA WriterTurnStep ==
  ASSUME IInv, WriterTurn, [PNext]_pvars
  PROVE  WriterTurn'
<1>0. (block = Popped)' /\ faults' = faults
  BY PlaceKept, FaultsKept
<1> USE DEF ring, sync, At, Goto, Told, wlocal
<1>1. ASSUME UNCHANGED <<wpc, wblk, ret>>, pc'[Writer] = pc[Writer] PROVE WriterTurn'
  BY <1>0, <1>1 DEF WriterTurn
<1>2. CASE Peer
  BY <1>1, <1>2 DEF Peer, PeerWrite, PeerClose, qvars
<1>3. CASE ReaderRuns
  <2>1. /\ UNCHANGED <<wpc, wblk, ret>>
        /\ \E l : pc' = pc \/ pc' = [pc EXCEPT ![Reader] = l]
    BY <1>3
    DEF ReaderRuns, ReaderStep, PollEpoll, PollKqueue, Register, PollReady, CreateFails,
        WaitFails, PollerFails, PushBlock, KeepBlock, Pushed, CommitFull, ReadDrop, ReadBlock,
        ReadEof, ReadAgain, ReadInterrupted, ReadFails, ReaderExit, CommitRest, CallQueue,
        FinalizeCall, Fill, qvars
  <2> QED BY <1>1, <2>1, Turns
<1>4. CASE WriterStep
  <2>1. CASE WriterScan \/ WriterFails
    BY <1>0, <2>1 DEF WriterScan, WriterFails, WriteFails, Scan, Extend, Flush, KeepTail, EmitLine,
                      Scanning, WriterTurn, qvars
  <2>2. CASE WriterPop \/ WriterCommit \/ WriterExit
    BY <1>0, <2>2, Turns DEF WriterPop, WriterCommit, WriterExit, CallQueue, FinalizeCall, WriterTurn
  <2> QED BY <1>4, <2>1, <2>2 DEF WriterStep
<1>5. ASSUME NEW t \in Threads, InQueue(t) PROVE WriterTurn'
  BY <1>0, <1>5, WriterInQueue DEF InQueue, Pop, Commit, Shutdown, WriterTurn
<1>6. ASSUME NEW t \in Threads, Spurious(t) PROVE WriterTurn'
  BY <1>1, <1>6 DEF Spurious, SpuriousWakeup
<1>7. ASSUME NEW t \in Finalizers, Signal(t) PROVE WriterTurn'
  BY <1>1, <1>7, Turns DEF Signal, FinalizeCall
<1>8. CASE UNCHANGED pvars
  BY <1>1, <1>8 DEF pvars, qvars
<1> QED BY <1>2, <1>3, <1>4, <1>5, <1>6, <1>7, <1>8 DEF PNext

\* The text of bytes of the input is as long as they are.
LEMMA TextFacts ==
  ASSUME NEW s \in Seq(1 .. MaxSent), NEW nl,
         NEW t, t = [i \in DOMAIN s |-> IF s[i] \in nl THEN Newline ELSE s[i]]
  PROVE  /\ t \in Seq(Chars) /\ Len(t) = Len(s) /\ DOMAIN t = 1 .. Len(s)
         /\ \A i \in 1 .. Len(s) : t[i] = IF s[i] \in nl THEN Newline ELSE s[i]
<1>1. DOMAIN s = 1 .. Len(s) /\ Len(s) \in Nat /\ s \in [1 .. Len(s) -> 1 .. MaxSent]
  BY LenProperties
<1>2. \A i \in 1 .. Len(s) : s[i] \in Bytes
  BY <1>1, InputAssumption
<1>3. t \in [1 .. Len(s) -> Chars]
  BY <1>1, <1>2 DEF Chars
<1>4. t \in Seq(Chars) /\ Len(t) = Len(s)
  BY <1>1, <1>3, FunSeq
<1> QED BY <1>1, <1>3, <1>4

\* The writer pops blocks that its loop is made for.
LEMMA PoppedIsBlock ==
  ASSUME IInv', wblk' # NoBlock
  PROVE  /\ Popped' \in Blocks /\ blocks'[wblk'] \in Data
         /\ Len(Popped') = Len(blocks'[wblk'])
<1> DEFINE s == blocks'[wblk']
           t == Popped'
<1>1. /\ head' \in Slots /\ length' \in 0 .. Capacity /\ wblk' = head' /\ length' > 0
  BY DEF IInv, TypeOK, WriterInv
<1>2. \A k \in 0 .. length' - 1 : blocks'[Slot(k)'] \in Data
  BY DEF IInv, RingInv
<1>3. 0 \in 0 .. length' - 1 /\ Slot(0)' = head'
  <2>1. \A h \in Slots : (IF h + 0 < Capacity THEN h + 0 ELSE h + 0 - Capacity) = h
    BY CapacityAssumption DEF Slots
  <2>2. \A l \in 0 .. Capacity : l > 0 => 0 \in 0 .. l - 1
    BY CapacityAssumption
  <2>3. Slot(0)' = head'
    BY <1>1, <2>1 DEF Slot
  <2> QED BY <1>1, <2>2, <2>3
<1>4. s \in Data
  BY <1>1, <1>2, <1>3
<1>5. t = [i \in DOMAIN s |-> IF s[i] \in newlines' THEN Newline ELSE s[i]]
  BY DEF Popped, Text
<1> HIDE DEF s, t
<1>6. s \in Seq(1 .. MaxSent) /\ Len(s) \in 1 .. ChunkSize
  BY <1>4, ChunkFacts
<1>7. t \in Seq(Chars) /\ Len(t) = Len(s)
  BY <1>5, <1>6, TextFacts
<1>8. t \in [1 .. Len(t) -> Chars]
  BY <1>7, LenProperties
<1>9. t \in Blocks
  BY <1>6, <1>7, <1>8 DEF Blocks, Chars
<1> QED BY <1>4, <1>7, <1>9 DEF s, t

\* Nobody writes to the block under the writer's hands.
LEMMA BlockStill ==
  ASSUME IInv, ReaderTurn, WriterTurn, [PNext]_pvars, wblk' = wblk
  PROVE  UNCHANGED block
<1>0. block = Popped /\ (block = Popped)' /\ newlines' = newlines
  BY PlaceKept, FaultsKept DEF WriterTurn
<1>1. CASE wblk = NoBlock
  BY <1>0, <1>1 DEF Popped
<1>2. CASE wblk # NoBlock
  <2>1. blocks'[wblk'] = blocks[wblk]
    BY <1>2, ContractStep, HeldStep
  <2> QED BY <1>0, <1>2, <2>1 DEF Popped, Text
<1> QED BY <1>1, <1>2

\* Every step of the pipeline is a step of the writer's loop, or none.
LEMMA FrameStep ==
  ASSUME IInv, IInv', ReaderTurn, WriterTurn, [PNext]_pvars
  PROVE  [FrameNext]_wvars
<1>1. wblk' = wblk => UNCHANGED block
  BY BlockStill
<1> USE DEF wlocal
<1>2. ASSUME wblk' = wblk, UNCHANGED wlocal PROVE UNCHANGED wvars
  BY <1>1, <1>2 DEF wvars
<1>3. CASE Peer
  BY <1>2, <1>3 DEF Peer, PeerWrite, PeerClose, qvars
<1>4. CASE ReaderRuns
  <2>1. wblk' = wblk
    BY <1>4
    DEF ReaderRuns, ReaderStep, PollEpoll, PollKqueue, Register, PollReady, CreateFails,
        WaitFails, PollerFails, PushBlock, KeepBlock, Pushed, CommitFull, ReadDrop, ReadBlock,
        ReadEof, ReadAgain, ReadInterrupted, ReadFails, ReaderExit, CommitRest, CallQueue,
        FinalizeCall, Fill, qvars
  <2> QED BY <1>2, <1>4, <2>1 DEF ReaderRuns
<1>5. CASE WriterStep
  <2>1. CASE WriterScan \/ WriterFails
    BY <1>1, <2>1 DEF WriterScan, WriterFails, FrameNext, qvars
  <2>2. CASE WriterPop \/ WriterCommit \/ WriterExit
    BY <1>2, <2>2 DEF WriterPop, WriterCommit, WriterExit, CallQueue, FinalizeCall
  <2> QED BY <1>5, <2>1, <2>2 DEF WriterStep
<1>6. ASSUME NEW t \in Threads, InQueue(t) PROVE [FrameNext]_wvars
  <2>1. CASE wblk' # NoBlock /\ Pop(Popped')
    <3>1. Popped' \in Blocks
      BY <2>1, PoppedIsBlock
    <3> QED BY <2>1, <3>1 DEF FrameNext
  <2>2. CASE Commit \/ Shutdown
    BY <2>2 DEF FrameNext
  <2>3. CASE wblk' = wblk /\ UNCHANGED wlocal
    BY <1>2, <2>3
  <2> QED BY <1>6, <2>1, <2>2, <2>3 DEF InQueue
<1>7. ASSUME NEW t \in Threads, Spurious(t) PROVE UNCHANGED wvars
  BY <1>2, <1>7 DEF Spurious, SpuriousWakeup
<1>8. ASSUME NEW t \in Finalizers, Signal(t) PROVE UNCHANGED wvars
  BY <1>2, <1>8 DEF Signal, FinalizeCall
<1>9. CASE UNCHANGED pvars
  BY <1>9 DEF pvars, wvars
<1> QED BY <1>3, <1>4, <1>5, <1>6, <1>7, <1>8, <1>9 DEF PNext

-----------------------------------------------------------------------------
(***************************************************************************)
(* The bytes between the two.                                              *)
(***************************************************************************)
\* c is in s behind its first n bytes.
Holds(s, n, c) == n + Len(c) <= Len(s) /\ \A j \in 1 .. Len(c) : s[n + j] = c[j]

\* The oldest block comes first.
LEMMA LaidHead ==
  ASSUME NEW S, NEW ch \in Seq(Seq(S)), NEW rest \in Seq(S), NEW s \in Seq(S), NEW n,
         Laid(ch, rest, s, n), Len(ch) > 0
  PROVE  Holds(s, n, ch[1])
<1>1. PICK off \in [1 .. Len(ch) + 1 -> 0 .. Len(s)] :
        /\ off[1] = n
        /\ \A k \in 1 .. Len(ch) :
             /\ off[k + 1] = off[k] + Len(ch[k])
             /\ \A j \in 1 .. Len(ch[k]) : s[off[k] + j] = ch[k][j]
  BY DEF Laid
<1>2. Len(ch) \in Nat /\ Len(s) \in Nat /\ 1 \in 1 .. Len(ch)
  BY LenProperties
<1>3. ch[1] \in Seq(S)
  BY <1>2, ElementOfSeq
<1>4. 1 \in 1 .. Len(ch) + 1 /\ 2 \in 1 .. Len(ch) + 1 /\ 1 + 1 = 2
  BY <1>2
<1>5. off[1] \in 0 .. Len(s) /\ off[2] \in 0 .. Len(s) /\ off[2] = off[1] + Len(ch[1])
  BY <1>1, <1>2, <1>4
<1> QED BY <1>1, <1>2, <1>3, <1>5, LenProperties, SMTT(30) DEF Holds

\* The offsets of the blocks, as a witness for Laid; m, a and b are lengths.
LaidAt(off, ch, rest, s, n, m, a, b) ==
  /\ off \in [1 .. m + 1 -> 0 .. a]
  /\ off[1] = n
  /\ \A k \in 1 .. m :
       /\ off[k + 1] = off[k] + Len(ch[k])
       /\ \A j \in 1 .. Len(ch[k]) : s[off[k] + j] = ch[k][j]
  /\ off[m + 1] + b = a
  /\ \A j \in 1 .. b : s[off[m + 1] + j] = rest[j]

LEMMA LaidBy ==
  ASSUME NEW off, NEW ch, NEW rest, NEW s, NEW n, NEW m, NEW a, NEW b,
         LaidAt(off, ch, rest, s, n, m, a, b), Len(ch) = m, Len(s) = a, Len(rest) = b
  PROVE  Laid(ch, rest, s, n)
  BY Zenon DEF Laid, LaidAt

\* What is behind the end moves with it.
Moves(e, a, b, m) ==
  /\ e + (b + m) = a + m
  /\ \A j \in 1 .. b + m :
       /\ e + j \in 1 .. a + m
       /\ j <= b <=> e + j <= a
       /\ (e + j) - a = j - b

LEMMA EndMoves ==
  ASSUME NEW e \in Nat, NEW a \in Nat, NEW b \in Nat, NEW m \in Nat, e + b = a
  PROVE  Moves(e, a, b, m)
  BY DEF Moves

\* The reader reads on.
LEMMA LaidFill ==
  ASSUME NEW S, NEW ch \in Seq(Seq(S)), NEW rest \in Seq(S), NEW s \in Seq(S), NEW f \in Seq(S),
         NEW n, Laid(ch, rest, s, n)
  PROVE  Laid(ch, rest \o f, s \o f, n)
<1> DEFINE r2 == rest \o f
           s2 == s \o f
<1>1. PICK off \in [1 .. Len(ch) + 1 -> 0 .. Len(s)] :
        /\ off[1] = n
        /\ \A k \in 1 .. Len(ch) :
             /\ off[k + 1] = off[k] + Len(ch[k])
             /\ \A j \in 1 .. Len(ch[k]) : s[off[k] + j] = ch[k][j]
        /\ off[Len(ch) + 1] + Len(rest) = Len(s)
        /\ \A j \in 1 .. Len(rest) : s[off[Len(ch) + 1] + j] = rest[j]
  BY DEF Laid
<1>2. Len(ch) \in Nat /\ Len(s) \in Nat /\ Len(f) \in Nat /\ Len(rest) \in Nat
  BY LenProperties
<1>3. /\ Len(s2) = Len(s) + Len(f)
      /\ \A i \in 1 .. Len(s) + Len(f) : s2[i] = IF i <= Len(s) THEN s[i] ELSE f[i - Len(s)]
  BY ConcatProperties
<1>4. /\ Len(r2) = Len(rest) + Len(f)
      /\ \A i \in 1 .. Len(rest) + Len(f) : r2[i] = IF i <= Len(rest) THEN rest[i] ELSE f[i - Len(rest)]
  BY ConcatProperties
<1> HIDE DEF r2, s2
<1>5. off \in [1 .. Len(ch) + 1 -> 0 .. Len(s2)]
  BY <1>2, <1>3
<1>6. ASSUME NEW k \in 1 .. Len(ch), NEW j \in 1 .. Len(ch[k])
      PROVE  s2[off[k] + j] = ch[k][j]
  <2>1. k \in 1 .. Len(ch) + 1 /\ k + 1 \in 1 .. Len(ch) + 1
    BY <1>2
  <2>2. off[k] \in 0 .. Len(s) /\ off[k + 1] \in 0 .. Len(s) /\ off[k + 1] = off[k] + Len(ch[k])
    BY <1>1, <2>1
  <2>3. ch[k] \in Seq(S)
    BY ElementOfSeq
  <2>4. off[k] + j \in 1 .. Len(s) + Len(f) /\ off[k] + j <= Len(s)
    BY <1>2, <2>2, <2>3, LenProperties, SMTT(30)
  <2>5. s[off[k] + j] = ch[k][j]
    BY <1>1
  <2> QED BY <1>3, <2>4, <2>5
<1> DEFINE e == off[Len(ch) + 1]
<1>7. e \in 0 .. Len(s) /\ e + Len(rest) = Len(s)
  BY <1>1, <1>2, SMTT(30)
<1>8. \A j \in 1 .. Len(rest) : s[e + j] = rest[j]
  BY <1>1
<1> HIDE DEF e
<1>9. /\ e + (Len(rest) + Len(f)) = Len(s) + Len(f)
      /\ \A j \in 1 .. Len(rest) + Len(f) :
           /\ e + j \in 1 .. Len(s) + Len(f)
           /\ j <= Len(rest) <=> e + j <= Len(s)
           /\ (e + j) - Len(s) = j - Len(rest)
  <2>1. e \in Nat
    BY <1>2, <1>7
  <2>2. Moves(e, Len(s), Len(rest), Len(f))
    BY <1>2, <1>7, <2>1, EndMoves
  <2> QED BY <2>2, Zenon DEF Moves
<1>10. ASSUME NEW j \in 1 .. Len(rest) + Len(f) PROVE s2[e + j] = r2[j]
  <2>1. CASE j <= Len(rest)
    <3>1. j \in 1 .. Len(rest)
      BY <1>2, <2>1
    <3>2. s2[e + j] = s[e + j] /\ r2[j] = rest[j]
      BY <1>3, <1>4, <1>9, <2>1
    <3> QED BY <1>8, <3>1, <3>2
  <2>2. CASE ~(j <= Len(rest))
    BY <1>3, <1>4, <1>9, <2>2, ZenonT(40)
  <2> QED BY <2>1, <2>2
<1>11. Laid(ch, r2, s2, n)
  <2>1. off \in [1 .. Len(ch) + 1 -> 0 .. Len(s) + Len(f)]
    BY <1>3, <1>5
  <2>2. \A k \in 1 .. Len(ch) : /\ off[k + 1] = off[k] + Len(ch[k])
                               /\ \A j \in 1 .. Len(ch[k]) : s2[off[k] + j] = ch[k][j]
    BY <1>1, <1>6
  <2>3. off[1] = n /\ off[Len(ch) + 1] + (Len(rest) + Len(f)) = Len(s) + Len(f)
    BY <1>1, <1>9 DEF e
  <2>4. \A j \in 1 .. Len(rest) + Len(f) : s2[off[Len(ch) + 1] + j] = r2[j]
    BY <1>10 DEF e
  <2>5. LaidAt(off, ch, r2, s2, n, Len(ch), Len(s) + Len(f), Len(rest) + Len(f))
    BY <2>1, <2>2, <2>3, <2>4, Zenon DEF LaidAt
  <2> QED BY <1>3, <1>4, <2>5, LaidBy, Zenon
<1> QED BY <1>11 DEF r2, s2

\* The reader commits its block.
LEMMA LaidPush ==
  ASSUME NEW S, NEW ch \in Seq(Seq(S)), NEW rest \in Seq(S), NEW s \in Seq(S), NEW n,
         Laid(ch, rest, s, n)
  PROVE  Laid(Append(ch, rest), << >>, s, n)
<1> DEFINE c2 == Append(ch, rest)
           m  == Len(ch)
<1>1. PICK off \in [1 .. m + 1 -> 0 .. Len(s)] :
        /\ off[1] = n
        /\ \A k \in 1 .. m :
             /\ off[k + 1] = off[k] + Len(ch[k])
             /\ \A j \in 1 .. Len(ch[k]) : s[off[k] + j] = ch[k][j]
        /\ off[m + 1] + Len(rest) = Len(s)
        /\ \A j \in 1 .. Len(rest) : s[off[m + 1] + j] = rest[j]
  BY DEF Laid
<1>2. m \in Nat /\ Len(s) \in Nat /\ Len(rest) \in Nat
  BY LenProperties
<1>3. Len(c2) = m + 1 /\ c2[m + 1] = rest /\ \A k \in 1 .. m : c2[k] = ch[k]
  BY AppendProperties
<1> HIDE DEF c2, m
<1> DEFINE o2 == [k \in 1 .. m + 2 |-> IF k <= m + 1 THEN off[k] ELSE Len(s)]
<1>4. /\ o2 \in [1 .. m + 2 -> 0 .. Len(s)]
      /\ \A k \in 1 .. m + 1 : o2[k] = off[k]
      /\ o2[m + 2] = Len(s)
  BY <1>2
<1> HIDE DEF o2
<1>5. 1 \in 1 .. m + 1 /\ m + 1 \in 1 .. m + 1 /\ (m + 1) + 1 = m + 2
  BY <1>2
<1>6. ASSUME NEW k \in 1 .. m + 1
      PROVE  /\ o2[k + 1] = o2[k] + Len(c2[k])
             /\ \A j \in 1 .. Len(c2[k]) : s[o2[k] + j] = c2[k][j]
  <2>1. CASE k = m + 1
    BY <1>1, <1>3, <1>4, <1>5, <2>1
  <2>2. CASE k # m + 1
    <3>1. k \in 1 .. m /\ k + 1 \in 1 .. m + 1
      BY <1>2, <2>2
    <3>2. c2[k] = ch[k] /\ o2[k] = off[k] /\ o2[k + 1] = off[k + 1]
      BY <1>3, <1>4, <3>1
    <3>3. /\ off[k + 1] = off[k] + Len(ch[k])
          /\ \A j \in 1 .. Len(ch[k]) : s[off[k] + j] = ch[k][j]
      BY <1>1, <3>1
    <3> QED BY <3>2, <3>3
  <2> QED BY <2>1, <2>2
<1>7. o2[1] = n /\ o2[m + 2] + 0 = Len(s)
  BY <1>1, <1>2, <1>4, <1>5
<1>8. Len(<< >>) = 0 /\ 1 .. 0 = {}
  OBVIOUS
<1>9. Laid(c2, << >>, s, n)
  <2>1. o2 \in [1 .. (m + 1) + 1 -> 0 .. Len(s)] /\ o2[(m + 1) + 1] + 0 = Len(s)
    BY <1>4, <1>5, <1>7
  <2>2. \A j \in 1 .. 0 : s[o2[(m + 1) + 1] + j] = << >>[j]
    BY <1>8
  <2>3. LaidAt(o2, c2, << >>, s, n, m + 1, Len(s), 0)
    BY <1>6, <1>7, <2>1, <2>2, Zenon DEF LaidAt
  <2> QED BY <1>3, <1>8, <2>3, LaidBy, Zenon
<1> QED BY <1>9 DEF c2

\* The writer is done with the oldest block.
LEMMA LaidPop ==
  ASSUME NEW S, NEW ch \in Seq(Seq(S)), NEW rest \in Seq(S), NEW s \in Seq(S), NEW n,
         Laid(ch, rest, s, n), ch # << >>
  PROVE  Laid(Tail(ch), rest, s, n + Len(ch[1]))
<1> DEFINE c2 == Tail(ch)
           m  == Len(ch)
<1>1. PICK off \in [1 .. m + 1 -> 0 .. Len(s)] :
        /\ off[1] = n
        /\ \A k \in 1 .. m :
             /\ off[k + 1] = off[k] + Len(ch[k])
             /\ \A j \in 1 .. Len(ch[k]) : s[off[k] + j] = ch[k][j]
        /\ off[m + 1] + Len(rest) = Len(s)
        /\ \A j \in 1 .. Len(rest) : s[off[m + 1] + j] = rest[j]
  BY DEF Laid
<1>2. m \in Nat /\ m >= 1
  BY LenProperties, EmptySeq
<1>3. Len(c2) = m - 1 /\ \A k \in 1 .. m - 1 : c2[k] = ch[k + 1]
  BY HeadTailProperties
<1> HIDE DEF c2, m
<1> DEFINE o2 == [k \in 1 .. m |-> off[k + 1]]
<1>4. /\ \A k \in 1 .. m : k + 1 \in 1 .. m + 1
      /\ \A k \in 1 .. m - 1 : k \in 1 .. m /\ k + 1 \in 1 .. m
      /\ 1 \in 1 .. m /\ m \in 1 .. m /\ (m - 1) + 1 = m /\ 1 + 1 = 2
  BY <1>2
<1>5. o2 \in [1 .. m -> 0 .. Len(s)] /\ \A k \in 1 .. m : o2[k] = off[k + 1]
  BY <1>4
<1> HIDE DEF o2
<1>6. ASSUME NEW k \in 1 .. m - 1
      PROVE  /\ o2[k + 1] = o2[k] + Len(c2[k])
             /\ \A j \in 1 .. Len(c2[k]) : s[o2[k] + j] = c2[k][j]
  <2>1. k + 1 \in 1 .. m /\ k \in 1 .. m
    BY <1>4
  <2>2. c2[k] = ch[k + 1] /\ o2[k] = off[k + 1] /\ o2[k + 1] = off[(k + 1) + 1]
    BY <1>3, <1>5, <2>1
  <2>3. /\ off[(k + 1) + 1] = off[k + 1] + Len(ch[k + 1])
        /\ \A j \in 1 .. Len(ch[k + 1]) : s[off[k + 1] + j] = ch[k + 1][j]
    BY <1>1, <2>1
  <2> QED BY <2>2, <2>3
<1>7. o2[1] = n + Len(ch[1]) /\ o2[m] = off[m + 1]
  BY <1>1, <1>4, <1>5
<1>8. Laid(c2, rest, s, n + Len(ch[1]))
  <2>1. o2 \in [1 .. (m - 1) + 1 -> 0 .. Len(s)] /\ o2[(m - 1) + 1] + Len(rest) = Len(s)
    BY <1>1, <1>4, <1>5, <1>7
  <2>2. \A j \in 1 .. Len(rest) : s[o2[(m - 1) + 1] + j] = rest[j]
    BY <1>1, <1>4, <1>7, ZenonT(40)
  <2>3. LaidAt(o2, c2, rest, s, n + Len(ch[1]), m - 1, Len(s), Len(rest))
    BY <1>6, <1>7, <2>1, <2>2, Zenon DEF LaidAt
  <2> QED BY <1>3, <2>3, LaidBy, Zenon
<1> QED BY <1>8 DEF c2

\* How far the end is when the ring holds no block, or one.
LaidOut(ch, rest, s, n) ==
  /\ Len(ch) = 0 => n + Len(rest) = Len(s)
  /\ Len(ch) = 1 => (n + Len(ch[1])) + Len(rest) = Len(s)

LEMMA LaidEnd ==
  ASSUME NEW S, NEW ch \in Seq(Seq(S)), NEW rest \in Seq(S), NEW s \in Seq(S), NEW n,
         Laid(ch, rest, s, n)
  PROVE  LaidOut(ch, rest, s, n)
<1>1. PICK off \in [1 .. Len(ch) + 1 -> 0 .. Len(s)] :
        /\ off[1] = n
        /\ \A k \in 1 .. Len(ch) : off[k + 1] = off[k] + Len(ch[k])
        /\ off[Len(ch) + 1] + Len(rest) = Len(s)
  BY DEF Laid
<1>2. 0 + 1 = 1 /\ 1 + 1 = 2 /\ 1 \in 1 .. 1
  OBVIOUS
<1>3. Len(ch) = 0 => n + Len(rest) = Len(s)
  BY <1>1, <1>2
<1>4. Len(ch) = 1 => (n + Len(ch[1])) + Len(rest) = Len(s)
  BY <1>1, <1>2
<1> QED BY <1>3, <1>4 DEF LaidOut

\* What is in the ring, in the reader's block and on the way are bytes.
LEMMA TransitTypes ==
  ASSUME IInv, FrameInv, ReaderTurn
  PROVE  /\ chan \in Seq(Seq(1 .. MaxSent)) /\ Len(chan) = length
         /\ Filling \in Seq(1 .. MaxSent) /\ kept \in Seq(1 .. MaxSent)
         /\ Text(kept) \in Seq(Chars) /\ Len(Text(kept)) = Len(kept)
         /\ input \in Seq(Chars) /\ block \in Seq(Chars)
         /\ Len(kept) \in Nat /\ Len(input) \in Nat /\ Len(block) \in Nat
<1>1. Data \subseteq Seq(1 .. MaxSent)
  BY ChunkFacts
<1>2. chan \in Seq(Seq(1 .. MaxSent)) /\ Len(chan) = length
  BY <1>1, ChanSeq, SeqMonotonic
<1>3. Filling \in Data \cup {<< >>}
  BY BlockAssumption DEF IInv, TypeOK, Filling, Block, HasBlock
<1>4. << >> \in Seq(1 .. MaxSent)
  OBVIOUS
<1>5. Filling \in Seq(1 .. MaxSent)
  BY <1>1, <1>3, <1>4
<1>6. kept \in Seq(1 .. MaxSent)
  BY DEF ReaderTurn
<1>7. Text(kept) \in Seq(Chars) /\ Len(Text(kept)) = Len(kept)
  BY <1>6, TextFacts DEF Text
<1>8. input \in Seq(Chars) /\ block \in Seq(Chars)
  BY BlockSeq DEF FrameInv, FrameTypeOK, Chars
<1> QED BY <1>2, <1>5, <1>6, <1>7, <1>8, LenProperties

\* Steps that move no byte.
LEMMA TransitStill ==
  ASSUME Transit, chan' = chan, Filling' = Filling, UNCHANGED <<kept, input, block, newlines>>
  PROVE  Transit'
<1>1. Laid(chan, Filling, kept, Len(input) - Len(block))'
  BY DEF Transit
<1>2. Text(kept)' = Text(kept)
  BY DEF Text
<1> QED BY <1>1, <1>2 DEF Transit

LEMMA RingStill ==
  ASSUME IInv, UNCHANGED <<ring, rblk>>
  PROVE  chan' = chan /\ Filling' = Filling
<1>1. UNCHANGED <<head, tail, length, blocks, rblk>>
  BY DEF ring
<1> QED BY <1>1, ChanSame DEF Filling, Block, HasBlock

\* The text of what was kept only grows.
IsText(t, s, nl) == t = [i \in DOMAIN s |-> IF s[i] \in nl THEN Newline ELSE s[i]]
Begins(c, s) == Len(s) <= Len(c) /\ \A i \in 1 .. Len(s) : c[i] = s[i]

LEMMA TextGrows ==
  ASSUME NEW s \in Seq(1 .. MaxSent), NEW c \in Seq(1 .. MaxSent), Begins(c, s),
         NEW nl, NEW t1, IsText(t1, s, nl), NEW t2, IsText(t2, c, nl)
  PROVE  /\ t1 \in Seq(Chars) /\ Len(t1) = Len(s) /\ t2 \in Seq(Chars) /\ Len(t2) = Len(c)
         /\ Begins(t2, t1)
<1>1. Len(s) \in Nat /\ Len(c) \in Nat /\ Len(s) <= Len(c)
  BY LenProperties DEF Begins
<1>2. /\ t2 \in Seq(Chars) /\ Len(t2) = Len(c)
      /\ \A i \in 1 .. Len(c) : t2[i] = IF c[i] \in nl THEN Newline ELSE c[i]
  BY TextFacts DEF IsText
<1>3. /\ t1 \in Seq(Chars) /\ Len(t1) = Len(s)
      /\ \A i \in 1 .. Len(s) : t1[i] = IF s[i] \in nl THEN Newline ELSE s[i]
  BY TextFacts DEF IsText
<1>4. ASSUME NEW i \in 1 .. Len(s) PROVE t2[i] = t1[i]
  <2>1. i \in 1 .. Len(c)
    BY <1>1
  <2> QED BY <1>2, <1>3, <2>1 DEF Begins
<1> QED BY <1>1, <1>2, <1>3, <1>4 DEF Begins

\* What a read adds to what was kept, and to its text.
LEMMA KeptGrows ==
  ASSUME IInv, ReaderTurn, NEW n \in 1 .. ChunkSize, ReadBlock(n), UNCHANGED newlines
  PROVE  /\ Len(kept') = Len(kept) + n /\ Len(kept) \in Nat /\ n \in Nat \ {0}
         /\ Text(kept) \in Seq(Chars) /\ Len(Text(kept)) = Len(kept)
         /\ Text(kept)' \in Seq(Chars) /\ Len(Text(kept)') = Len(kept')
         /\ Begins(Text(kept)', Text(kept))
<1> DEFINE f == Fresh(n)
           c == kept'
<1>1. /\ f \in Seq(1 .. MaxSent) /\ Len(f) = n /\ c = kept \o f /\ kept \in Seq(1 .. MaxSent)
  BY ReadKeepsTurn DEF ReadBlock, ReaderTurn
<1> HIDE DEF f, c
<1>2. Len(kept) \in Nat /\ n \in Nat \ {0} /\ Len(f) \in Nat
  BY <1>1, LenProperties, ChunkSizeAssumption
<1>3. /\ c \in Seq(1 .. MaxSent) /\ Len(c) = Len(kept) + Len(f)
      /\ \A i \in 1 .. Len(kept) + Len(f) : c[i] = IF i <= Len(kept) THEN kept[i] ELSE f[i - Len(kept)]
  BY <1>1, ConcatProperties
<1>4. Len(kept) <= Len(c) /\ \A i \in 1 .. Len(kept) : i \in 1 .. Len(kept) + Len(f) /\ i <= Len(kept)
  BY <1>1, <1>2, <1>3
<1>5. Begins(c, kept)
  BY <1>3, <1>4 DEF Begins
<1>6. IsText(Text(kept)', c, newlines) /\ IsText(Text(kept), kept, newlines)
  BY DEF Text, IsText, c
<1>7. /\ Text(kept) \in Seq(Chars) /\ Len(Text(kept)) = Len(kept)
      /\ Text(kept)' \in Seq(Chars) /\ Len(Text(kept)') = Len(c)
      /\ Begins(Text(kept)', Text(kept))
  <2>1. kept \in Seq(1 .. MaxSent) /\ c \in Seq(1 .. MaxSent)
    BY <1>1, <1>3
  <2> QED BY <1>5, <1>6, <2>1, TextGrows
<1> QED BY <1>1, <1>2, <1>3, <1>7 DEF c

\* The reader reads into its block.
LEMMA TransitRead ==
  ASSUME IInv, FrameInv, ReaderTurn, Transit, NEW n \in 1 .. ChunkSize, ReadBlock(n),
         UNCHANGED <<input, block, newlines>>
  PROVE  Transit'
<1>1. /\ Block' = Block \o Fresh(n) /\ Fresh(n) \in Seq(1 .. MaxSent)
      /\ rblk' = rblk /\ kept' = kept \o Fresh(n) /\ HasBlock
  BY ReadKeepsTurn DEF ReadBlock
<1>2. Filling' = Filling \o Fresh(n)
  BY <1>1 DEF Filling, HasBlock
<1>3. chan' = chan
  BY ChanSame DEF ReadBlock, Fill, HasBlock, IInv, ReaderInv
<1>4. Laid(chan, Filling \o Fresh(n), kept \o Fresh(n), Len(input) - Len(block))
  BY <1>1, TransitTypes, LaidFill DEF Transit
<1>5. /\ Len(kept') = Len(kept) + n /\ n \in Nat
      /\ \A i \in 1 .. Len(kept) : Text(kept)'[i] = Text(kept)[i]
  BY KeptGrows DEF Begins
<1>6. Len(input) \in Nat /\ Len(kept) \in Nat /\ Len(input) <= Len(kept)
  BY TransitTypes DEF Transit
<1>7. \A m \in Nat : /\ Len(input) <= Len(kept) + m
                     /\ \A i \in 1 .. Len(input) : i \in 1 .. Len(kept)
  BY <1>6
<1>8. \A i \in 1 .. Len(input) : input[i] = Text(kept)[i]
  BY DEF Transit
<1>9. Laid(chan, Filling, kept, Len(input) - Len(block))'
  BY <1>1, <1>2, <1>3, <1>4
<1> QED BY <1>5, <1>7, <1>8, <1>9 DEF Transit

\* The reader is given an empty block.
LEMMA TransitReserve ==
  ASSUME IInv, rblk = NoBlock, Transit, Reserve, HasRoom, UNCHANGED <<kept, input, block, newlines>>
  PROVE  Transit'
<1>1. chan' = chan
  BY ChanSame DEF Reserve, HasRoom
<1>2. /\ tail \in Slots /\ tail # NoBlock /\ rblk' = tail /\ blocks'[tail] = Empty
  BY CapacityAssumption DEF IInv, TypeOK, Reserve, Slots, NoBlock
<1>3. Filling = << >> /\ Filling' = << >>
  BY <1>2, BlockAssumption DEF Filling, HasBlock, Block
<1> QED BY <1>1, <1>3, TransitStill

\* The reader's block becomes the last one of the ring.
LEMMA TransitPush ==
  ASSUME IInv, IInv', FrameInv, ReaderTurn, Transit, PushCommit,
         UNCHANGED <<kept, input, block, newlines>>
  PROVE  Transit'
<1>1. rblk = tail /\ rblk # NoBlock /\ rblk' = NoBlock
  BY DEF PushCommit, IInv, ReaderInv, InSection, At
<1>2. Filling = blocks[tail] /\ Filling' = << >>
  BY <1>1 DEF Filling, HasBlock, Block
<1>3. chan' = Append(chan, Filling)
  BY <1>2, ChanPush
<1>4. Laid(Append(chan, Filling), << >>, kept, Len(input) - Len(block))
  BY TransitTypes, LaidPush DEF Transit
<1>5. Laid(chan, Filling, kept, Len(input) - Len(block))'
  BY <1>2, <1>3, <1>4
<1>6. Text(kept)' = Text(kept)
  BY DEF Text
<1> QED BY <1>5, <1>6 DEF Transit

\* The oldest block of the ring is the one the writer holds.
LEMMA HeldIsFirst ==
  ASSUME IInv, length > 0
  PROVE  /\ Len(chan) > 0 /\ chan # << >> /\ chan[1] = blocks[head]
         /\ chan[1] \in Data /\ head \in Slots /\ head # NoBlock
<1>1. /\ length \in Nat /\ 1 \in 1 .. length /\ 1 - 1 = 0 /\ head \in Slots
  BY DEF IInv, TypeOK
<1>2. chan \in Seq(Data) /\ Len(chan) = length /\ chan[1] = blocks[Slot(1 - 1)]
  BY <1>1, ChanSeq
<1>3. Slot(1 - 1) = head
  BY <1>1, SlotFacts
<1>4. chan[1] \in Data
  BY <1>1, <1>2, ElementOfSeq
<1>5. head # NoBlock
  BY <1>1, CapacityAssumption DEF Slots, NoBlock
<1>6. chan # << >>
  BY <1>1, <1>2
<1> QED BY <1>1, <1>2, <1>3, <1>4, <1>5, <1>6

\* The writer is done with its block.
LEMMA TransitPop ==
  ASSUME IInv, FrameInv, ReaderTurn, WriterTurn, Transit, PopCommit, block' = << >>,
         UNCHANGED <<kept, input, newlines>>
  PROVE  Transit'
<1>1. wblk = head /\ wblk # NoBlock /\ length > 0 /\ UNCHANGED <<blocks, rblk>>
  BY DEF PopCommit, IInv, WriterInv, InSection, At
<1>2. chan # << >> /\ chan' = Tail(chan) /\ chan[1] = blocks[head] /\ chan[1] \in Data
  BY <1>1, ChanPop, HeldIsFirst
<1>3. block = Text(chan[1])
  BY <1>1, <1>2 DEF WriterTurn, Popped
<1>4. Len(block) = Len(chan[1])
  <2>1. chan[1] \in Seq(1 .. MaxSent)
    BY <1>2, ChunkFacts
  <2>2. IsText(block, chan[1], newlines)
    BY <1>3 DEF IsText, Text
  <2> QED BY <2>1, <2>2, TextFacts DEF IsText
<1>5. Laid(Tail(chan), Filling, kept, (Len(input) - Len(block)) + Len(chan[1]))
  BY <1>2, TransitTypes, LaidPop DEF Transit
<1>6. (Len(input) - Len(block)) + Len(chan[1]) = Len(input) /\ Len(input) - 0 = Len(input)
  BY <1>4, TransitTypes
<1>7. Filling' = Filling /\ Len(block') = 0
  BY <1>1 DEF Filling, HasBlock, Block
<1>8. Laid(chan, Filling, kept, Len(input) - Len(block))'
  BY <1>2, <1>5, <1>6, <1>7
<1>9. Text(kept)' = Text(kept)
  BY DEF Text
<1> QED BY <1>8, <1>9 DEF Transit

\* What the writer pops continues what it popped before.
LEMMA PopContinues ==
  ASSUME NEW kp \in Seq(1 .. MaxSent), NEW inp \in Seq(Chars), NEW c \in Seq(1 .. MaxSent),
         NEW nl, NEW t, IsText(t, kp, nl), NEW b, IsText(b, c, nl), Begins(t, inp),
         Holds(kp, Len(inp), c)
  PROVE  Begins(t, inp \o b) /\ Len(inp \o b) = Len(inp) + Len(c) /\ Len(b) = Len(c)
<1> DEFINE n  == Len(inp)
           i2 == inp \o b
<1>1. /\ n \in Nat /\ Len(c) \in Nat /\ Len(kp) \in Nat /\ n + Len(c) <= Len(kp)
  BY LenProperties DEF Holds
<1>2. /\ Len(t) = Len(kp)
      /\ \A i \in 1 .. Len(kp) : t[i] = IF kp[i] \in nl THEN Newline ELSE kp[i]
  BY TextFacts DEF IsText
<1>3. /\ b \in Seq(Chars) /\ Len(b) = Len(c)
      /\ \A i \in 1 .. Len(c) : b[i] = IF c[i] \in nl THEN Newline ELSE c[i]
  BY TextFacts DEF IsText
<1>4. /\ Len(i2) = n + Len(c)
      /\ \A i \in 1 .. n + Len(c) : i2[i] = IF i <= n THEN inp[i] ELSE b[i - n]
  <2>1. /\ Len(i2) = n + Len(b)
        /\ \A i \in 1 .. n + Len(b) : i2[i] = IF i <= n THEN inp[i] ELSE b[i - n]
    BY <1>3, ConcatProperties, ZenonT(40)
  <2> HIDE DEF i2, n
  <2> QED BY <1>3, <2>1
<1>5. \A j \in 1 .. Len(c) : kp[n + j] = c[j]
  BY DEF Holds
<1>6. \A i \in 1 .. n : t[i] = inp[i]
  BY DEF Begins
<1> HIDE DEF n, i2
<1>7. ASSUME NEW i \in 1 .. n + Len(c) PROVE t[i] = i2[i]
  <2>1. CASE i <= n
    <3>1. i \in 1 .. n
      BY <1>1, <2>1
    <3> QED BY <1>4, <1>6, <2>1, <3>1
  <2>2. CASE ~(i <= n)
    <3> DEFINE j == i - n
    <3>1. j \in 1 .. Len(c) /\ n + j = i /\ i \in 1 .. Len(kp)
      BY <1>1, <2>2
    <3>2. i2[i] = b[j]
      BY <1>4, <2>2
    <3> HIDE DEF j
    <3>3. kp[i] = c[j]
      BY <1>5, <3>1
    <3> QED BY <1>2, <1>3, <3>1, <3>2, <3>3
  <2> QED BY <2>1, <2>2
<1> QED BY <1>1, <1>2, <1>3, <1>4, <1>7 DEF Begins, n, i2

\* The writer takes the oldest block.
LEMMA TransitTake ==
  ASSUME IInv, FrameInv, ReaderTurn, WriterTurn, Transit, wblk = NoBlock, length > 0,
         wblk' = head, Pop(Popped'), UNCHANGED <<ring, rblk, kept, newlines>>
  PROVE  Transit'
<1>1. chan' = chan /\ Filling' = Filling
  BY RingStill
<1>2. chan[1] = blocks[head] /\ chan[1] \in Data /\ head # NoBlock /\ Len(chan) > 0
  BY HeldIsFirst
<1>3. block = << >> /\ Len(block) = 0
  BY DEF WriterTurn, Popped
<1> DEFINE n == Len(input)
           c == chan[1]
           b == block'
           t == Text(kept)
<1>4. b = Popped' /\ input' = input \o b
  BY DEF Pop
<1>5. IsText(b, c, newlines) /\ IsText(t, kept, newlines)
  <2>1. blocks' = blocks /\ newlines' = newlines
    BY DEF ring
  <2>2. b = Text(c)
    BY <1>2, <1>4, <2>1 DEF Popped, Text
  <2> QED BY <2>2 DEF Text, IsText
<1>6. Laid(chan, Filling, kept, n) /\ n - 0 = n
  <2>1. n - 0 = n
    BY TransitTypes
  <2> QED BY <1>3, <2>1 DEF Transit
<1>7. Holds(kept, n, c)
  BY <1>2, <1>6, LaidHead, TransitTypes
<1>8. Begins(t, input)
  BY TransitTypes DEF Transit, Begins
<1>9. c \in Seq(1 .. MaxSent) /\ kept \in Seq(1 .. MaxSent) /\ input \in Seq(Chars)
  BY <1>2, ChunkFacts, TransitTypes
<1> HIDE DEF c, b, t
<1>10. Begins(t, input') /\ Len(input') = n + Len(c) /\ Len(b) = Len(c)
  BY <1>4, <1>5, <1>7, <1>8, <1>9, PopContinues
<1>11. (n + Len(c)) - Len(c) = n
  BY <1>9, TransitTypes, LenProperties
<1>12. Len(kept) = Len(t) /\ t = Text(kept)'
  BY TransitTypes DEF t, Text
<1>13. Laid(chan, Filling, kept, Len(input) - Len(block))'
  BY <1>1, <1>6, <1>10, <1>11 DEF b
<1> QED BY <1>10, <1>12, <1>13 DEF Transit, Begins

\* The steps inside the queue, as far as they concern blocks.
LEMMA BlockMoves ==
  ASSUME IInv, NEW t \in Threads, QueueStep(t)
  PROVE  \/ UNCHANGED <<ring, rblk, wblk>>
         \/ /\ Reserve /\ HasRoom /\ rblk = NoBlock /\ wblk' = wblk
         \/ PushCommit /\ wblk' = wblk
         \/ /\ UNCHANGED <<ring, rblk>> /\ wblk = NoBlock /\ length > 0 /\ wblk' = head
            /\ wblk' # NoBlock /\ ~Told'
         \/ PopCommit /\ wblk # NoBlock /\ wblk' = NoBlock /\ Told' = Told
<1> USE DEF ring, sync, At, Goto, Return, InSection
<1>1. CASE MutexLock(t) \/ FinalizeStep(t)
  BY <1>1 DEF MutexLock, FinalizeStep, FinalizeActive, Finalize
<1>2. CASE PushStep
  <2>1. CASE PushActive \/ PushWait \/ PushRefuse
    BY <2>1 DEF PushActive, PushWait, PushRefuse
  <2>2. CASE PushLength \/ PushReserve
    BY <2>2 DEF PushLength, PushReserve, Reserve, IInv, ReaderInv
  <2>3. CASE PushCommit
    BY <2>3 DEF PushCommit
  <2> QED BY <1>2, <2>1, <2>2, <2>3 DEF PushStep
<1>3. CASE PopStep
  <2>0. CASE Take /\ length > 0 /\ pc[Writer] \in {"pop_length", "pop_slow"}
    <3>1. head # NoBlock
      BY <2>0, HeldIsFirst
    <3>2. ret'[Writer] = "ok"
      BY <2>0, Turns DEF Take
    <3> QED BY <2>0, <3>1, <3>2 DEF Take, IInv, WriterInv, Told
  <2>1. CASE PopWait \/ PopShutdown
    BY <2>1 DEF PopWait, PopShutdown
  <2>2. CASE PopLength
    BY <2>0, <2>2 DEF PopLength
  <2>3. CASE PopTake
    <3>1. length > 0
      BY <2>3 DEF PopTake, IInv, TypeOK
    <3> QED BY <2>0, <2>3, <3>1 DEF PopTake
  <2>4. CASE PopCommit
    BY <2>4 DEF PopCommit, IInv, WriterInv, Told
  <2> QED BY <1>3, <2>1, <2>2, <2>3, <2>4 DEF PopStep
<1> QED BY <1>1, <1>2, <1>3 DEF QueueStep

LEMMA TransitInQueue ==
  ASSUME IInv, IInv', FrameInv, ReaderTurn, WriterTurn, Transit, NEW t \in Threads, InQueue(t),
         wblk' = wblk => UNCHANGED block
  PROVE  Transit'
<1>1. QueueStep(t) /\ UNCHANGED <<kept, newlines>>
  BY DEF InQueue, rvars
<1>2. ASSUME wblk' = wblk PROVE UNCHANGED <<kept, newlines, input, block>>
  BY <1>1, <1>2 DEF InQueue, Shutdown, wlocal
<1>3. CASE UNCHANGED <<ring, rblk, wblk>>
  BY <1>2, <1>3, RingStill, TransitStill
<1>4. CASE Reserve /\ HasRoom /\ rblk = NoBlock /\ wblk' = wblk
  BY <1>2, <1>4, TransitReserve
<1>5. CASE PushCommit /\ wblk' = wblk
  BY <1>2, <1>5, TransitPush
<1>6. CASE /\ UNCHANGED <<ring, rblk>> /\ wblk = NoBlock /\ length > 0 /\ wblk' = head
           /\ wblk' # NoBlock /\ ~Told'
  BY <1>1, <1>6, TransitTake DEF InQueue
<1>7. CASE PopCommit /\ wblk # NoBlock /\ wblk' = NoBlock /\ Told' = Told
  BY <1>1, <1>7, TransitPop DEF InQueue, Commit
<1> QED BY <1>1, <1>3, <1>4, <1>5, <1>6, <1>7, BlockMoves

\* Every step leaves the bytes where they are or moves them on.
LEMMA TransitStep ==
  ASSUME IInv, IInv', FrameInv, ReaderTurn, WriterTurn, Transit, [PNext]_pvars
  PROVE  Transit'
<1>0. newlines' = newlines /\ (wblk' = wblk => UNCHANGED block)
  BY FaultsKept, BlockStill
<1>1. ASSUME UNCHANGED <<ring, rblk, wblk, kept, input>> PROVE Transit'
  BY <1>0, <1>1, RingStill, TransitStill
<1>2. CASE Peer
  BY <1>1, <1>2 DEF Peer, PeerWrite, PeerClose, qvars, rvars, wlocal, ring
<1>3. CASE ReaderRuns
  <2>1. ASSUME NEW n \in 1 .. ChunkSize, ReadBlock(n) PROVE Transit'
    BY <1>0, <1>3, <2>1, TransitRead DEF ReaderRuns, ReadBlock, Fill, wlocal
  <2>2. CASE ~ \E n \in 1 .. ChunkSize : ReadBlock(n)
    BY <1>1, <1>3, <2>2
    DEF ReaderRuns, ReaderStep, PollEpoll, PollKqueue, Register, PollReady, CreateFails,
        WaitFails, PollerFails, PushBlock, KeepBlock, Pushed, CommitFull, ReadDrop,
        ReadEof, ReadAgain, ReadInterrupted, ReadFails, ReaderExit, CommitRest, CallQueue,
        FinalizeCall, qvars, rvars, wlocal, ring
  <2> QED BY <2>1, <2>2
<1>4. CASE WriterStep
  BY <1>1, <1>4
  DEF WriterStep, WriterPop, WriterScan, WriterFails, WriterCommit, WriterExit, CallQueue,
      FinalizeCall, WriteFails, Scan, Extend, Flush, KeepTail, EmitLine, qvars, rvars, wlocal, ring
<1>5. ASSUME NEW t \in Threads, InQueue(t) PROVE Transit'
  BY <1>0, <1>5, TransitInQueue
<1>6. ASSUME NEW t \in Threads, Spurious(t) PROVE Transit'
  BY <1>1, <1>6 DEF Spurious, SpuriousWakeup, rvars, wlocal
<1>7. ASSUME NEW t \in Finalizers, Signal(t) PROVE Transit'
  BY <1>1, <1>7 DEF Signal, FinalizeCall, rvars, wlocal
<1>8. CASE UNCHANGED pvars
  BY <1>1, <1>8 DEF pvars, qvars, rvars, wlocal, ring
<1> QED BY <1>2, <1>3, <1>4, <1>5, <1>6, <1>7, <1>8 DEF PNext

LEMMA ChanLenNext ==
  ASSUME IInv'
  PROVE  Len(chan') = length'
<1> DEFINE g    == chan'
           l    == length'
           S    == {blocks'[Slot(k - 1)'] : k \in 1 .. l}
<1>1. l \in Nat
  BY DEF IInv, TypeOK
<1>2. g \in [1 .. l -> S]
  BY DEF chan
<1> HIDE DEF g, l, S
<1> QED BY <1>1, <1>2, FunSeq DEF g, l

\* After the shutdown only the admitted reader adds a block.
LEMMA LateBlockStep ==
  ASSUME IInv, IInv', LateBlock, [Next]_qvars
  PROVE  LateBlock'
<1>1. [C!Next]_(C!vars)
  BY ChannelStep
<1>2. /\ chan \in Seq(Data) /\ Len(chan) = length /\ length \in Nat
  BY ChanSeq DEF IInv, TypeOK
<1>3. Len(chan') = length'
  BY ChanLenNext
<1>4. Told => ~active
  BY DEF IInv, WriterInv, Told
<1>5. CASE UNCHANGED <<chan, eos>> /\ (admitted' = admitted \/ admitted' = FALSE \/ active)
  BY <1>2, <1>3, <1>4, <1>5 DEF LateBlock, Told, eos
<1>6. ASSUME NEW v \in Data, C!Send(v) PROVE LateBlock'
  <2>1. length' = length + 1
    BY <1>2, <1>3, <1>6, AppendProperties DEF C!Send
  <2> QED BY <1>2, <1>6, <2>1 DEF C!Send, LateBlock, Told, eos
<1>7. CASE C!Receive
  BY <1>7 DEF C!Receive, LateBlock, Told, eos
<1>8. CASE C!EndOfStream
  <2>1. length' = 0
    BY <1>3, <1>8 DEF C!EndOfStream
  <2> QED BY <2>1 DEF LateBlock
<1> QED BY <1>1, <1>5, <1>6, <1>7, <1>8 DEF C!Next, C!vars, C!Admit, C!Refuse, C!Close

-----------------------------------------------------------------------------
(***************************************************************************)
(* The inductive invariant.                                                *)
(***************************************************************************)
LEMMA InitPInv == PInit => PInv
<1> SUFFICES ASSUME PInit PROVE PInv
  OBVIOUS
<1>1. IInv /\ FrameInv
  BY InitIInv, InitFrame DEF PInit, RInit
<1>2. ReaderTurn /\ WriterTurn /\ LateBlock
  BY SentAssumption
  DEF PInit, RInit, Init, FrameInit, ReaderTurn, WriterTurn, LateBlock, Told, Popped, At, HasBlock,
      Threads, admitted
<1>3. Transit
  <2>1. /\ Len(chan) = 0 /\ Filling = << >> /\ kept = << >> /\ Len(input) = 0 /\ Len(block) = 0
    BY <1>1, ChanSeq DEF PInit, RInit, Init, FrameInit, Filling, HasBlock
  <2> DEFINE off == [k \in 1 .. 1 |-> 0]
  <2>2. LaidAt(off, chan, << >>, << >>, 0, 0, 0, 0)
    BY DEF LaidAt
  <2>3. Laid(chan, Filling, kept, Len(input) - Len(block))
    BY <2>1, <2>2, LaidBy
  <2> QED BY <2>1, <2>3 DEF Transit
<1> QED BY <1>1, <1>2, <1>3 DEF PInv

LEMMA StepPInv == PInv /\ [PNext]_pvars => PInv'
<1> SUFFICES ASSUME PInv, [PNext]_pvars PROVE PInv'
  OBVIOUS
<1> USE DEF PInv
<1>1. [Next]_qvars
  BY ContractStep
<1>2. IInv'
  BY <1>1, StepIInv
<1>3. FrameInv'
  BY <1>2, FrameStep, StepFrame
<1>4. ReaderTurn' /\ WriterTurn'
  BY ReaderTurnStep, WriterTurnStep
<1>5. Transit'
  BY <1>2, TransitStep
<1>6. LateBlock'
  BY <1>1, <1>2, LateBlockStep
<1> QED BY <1>2, <1>3, <1>4, <1>5, <1>6

-----------------------------------------------------------------------------
(***************************************************************************)
(* From stdin to the records.                                              *)
(***************************************************************************)
LEMMA SamePart ==
  ASSUME NEW t \in Seq(Chars), NEW inp \in Seq(Chars), Begins(t, inp),
         NEW d \in Nat, NEW n \in Nat, d + n <= Len(inp)
  PROVE  SubSeq(t, d + 1, d + n) = SubSeq(inp, d + 1, d + n)
<1> DEFINE u == SubSeq(t, d + 1, d + n)
           v == SubSeq(inp, d + 1, d + n)
           k == IF d + 1 <= d + n THEN (d + n) - (d + 1) + 1 ELSE 0
<1>1. Len(t) \in Nat /\ Len(inp) \in Nat /\ Len(inp) <= Len(t)
  BY LenProperties DEF Begins
<1>2. \A i \in d + 1 .. d + n : i \in 1 .. Len(inp) /\ i \in 1 .. Len(t)
  BY <1>1
<1>3. \A i \in d + 1 .. d + n : t[i] \in Chars /\ inp[i] \in Chars /\ t[i] = inp[i]
  BY <1>2, ElementOfSeq DEF Begins
<1>4. d + 1 \in Int /\ d + n \in Int
  OBVIOUS
<1>5. /\ u \in Seq(Chars) /\ Len(u) = k
      /\ \A i \in 1 .. (d + n) - (d + 1) + 1 : u[i] = t[d + 1 + i - 1]
  BY <1>3, <1>4, SubSeqProperties
<1>6. /\ v \in Seq(Chars) /\ Len(v) = k
      /\ \A i \in 1 .. (d + n) - (d + 1) + 1 : v[i] = inp[d + 1 + i - 1]
  BY <1>3, <1>4, SubSeqProperties
<1>7. \A i \in 1 .. k : i \in 1 .. (d + n) - (d + 1) + 1 /\ d + 1 + i - 1 \in d + 1 .. d + n
  OBVIOUS
<1> HIDE DEF u, v, k
<1>8. \A i \in 1 .. Len(u) : u[i] = v[i]
  BY <1>3, <1>5, <1>6, <1>7
<1>9. u = v
  BY <1>5, <1>6, <1>8, SeqEqual
<1> QED BY <1>9 DEF u, v

\* A record that continues what was popped continues what was kept.
LEMMA EmitsKept ==
  ASSUME PInv, Text(kept)' = Text(kept), NEW n \in 0 .. ChunkSize, NEW eol \in BOOLEAN,
         FL!Emit(n, eol)
  PROVE  L!Emit(n, eol)
<1> DEFINE t    == Text(kept)
           d    == Len(input) - Len(Left)
           next == IF eol THEN d + n + 1 ELSE d + n
<1>1. /\ t \in Seq(Chars) /\ input \in Seq(Chars) /\ Begins(t, input)
      /\ Len(t) \in Nat /\ Len(input) \in Nat /\ Len(input) <= Len(t)
  BY TransitTypes DEF PInv, Transit, Begins
<1>2. d \in Nat /\ n \in Nat
  <2>1. Len(Left) \in Nat /\ Len(Left) <= Len(input)
    BY LeftFacts, LenProperties DEF PInv, FrameInv
  <2> QED BY <1>1, <2>1, ChunkSizeAssumption
<1>3. /\ next <= Len(input)
      /\ \A i \in 1 .. n : input[d + i] # Newline
      /\ IF eol THEN n <= ChunkSize /\ input[next] = Newline ELSE n = ChunkSize
      /\ out' = Append(out, [text |-> SubSeq(input, d + 1, d + n), eol |-> eol])
      /\ (Len(input) - Len(Left))' = next
  BY DEF FL!Emit
<1> HIDE DEF t, d
<1>4. \A i \in 1 .. Len(input) : t[i] = input[i]
  BY <1>1 DEF Begins
<1>5. d + n <= Len(input) /\ next <= Len(t) /\ (eol => next \in 1 .. Len(input))
  BY <1>1, <1>2, <1>3
<1>6. \A i \in 1 .. n : d + i \in 1 .. Len(input)
  BY <1>1, <1>2, <1>5
<1>7. \A i \in 1 .. n : t[d + i] # Newline
  BY <1>3, <1>4, <1>6
<1>8. SubSeq(t, d + 1, d + n) = SubSeq(input, d + 1, d + n)
  BY <1>1, <1>2, <1>5, SamePart, ZenonT(40)
<1>9. eol => t[next] = Newline
  BY <1>3, <1>4, <1>5
<1> QED BY <1>3, <1>5, <1>7, <1>8, <1>9 DEF L!Emit, Written, t, d

\* Bytes the reader keeps come behind those it kept before.
LEMMA ReadAccepts ==
  ASSUME PInv, [PNext]_pvars, NEW n \in 1 .. ChunkSize, ReadBlock(n), UNCHANGED wlocal
  PROVE  L!Accept
<1> DEFINE t1 == Text(kept)
           t2 == Text(kept)'
<1>1. newlines' = newlines /\ UNCHANGED block
  BY FaultsKept, BlockStill DEF PInv, ReadBlock, Fill
<1>2. UNCHANGED <<Written, out>>
  BY <1>1 DEF Written, Left, wlocal
<1>3. /\ t1 \in Seq(Chars) /\ t2 \in Seq(Chars) /\ Begins(t2, t1)
      /\ Len(t1) \in Nat /\ Len(t1) < Len(t2)
  <2>1. /\ Len(kept') = Len(kept) + n /\ Len(kept) \in Nat /\ n \in Nat \ {0}
        /\ t1 \in Seq(Chars) /\ Len(t1) = Len(kept)
        /\ t2 \in Seq(Chars) /\ Len(t2) = Len(kept') /\ Begins(t2, t1)
    BY <1>1, KeptGrows DEF PInv
  <2> HIDE DEF t1, t2
  <2> QED BY <2>1
<1> HIDE DEF t1, t2
<1>4. SubSeq(t2, 1, Len(t1)) = t1
  <2> DEFINE u == SubSeq(t2, 1, Len(t1))
  <2>1. Len(t2) \in Nat
    BY <1>3, LenProperties
  <2>2. \A i \in 1 .. Len(t1) : i \in 1 .. Len(t2) /\ 1 + i - 1 = i
    BY <1>3, <2>1
  <2>3. \A i \in 1 .. Len(t1) : t2[i] \in Chars /\ t2[i] = t1[i]
    BY <1>3, <2>2, ElementOfSeq DEF Begins
  <2>4. /\ u \in Seq(Chars) /\ Len(u) = IF 1 <= Len(t1) THEN Len(t1) - 1 + 1 ELSE 0
        /\ \A i \in 1 .. Len(t1) - 1 + 1 : u[i] = t2[1 + i - 1]
    BY <1>3, <2>3, SubSeqProperties
  <2> HIDE DEF u
  <2>5. Len(t1) - 1 + 1 = Len(t1) /\ Len(u) = Len(t1)
    BY <1>3, <2>4
  <2>6. \A i \in 1 .. Len(u) : u[i] = t1[i]
    BY <2>2, <2>3, <2>4, <2>5
  <2>7. u = t1
    BY <1>3, <2>4, <2>5, <2>6, SeqEqual
  <2> QED BY <2>7 DEF u
<1> QED BY <1>2, <1>3, <1>4 DEF L!Accept, t1, t2

\* Who changes what was kept.
LEMMA KeptByReadOnly ==
  ASSUME [PNext]_pvars
  PROVE  \/ kept' = kept
         \/ UNCHANGED wlocal /\ \E n \in 1 .. ChunkSize : ReadBlock(n)
  BY DEF PNext, pvars, Peer, PeerWrite, PeerClose, ReaderRuns, ReaderStep, PollEpoll, PollKqueue,
         Register, PollReady, CreateFails, WaitFails, PollerFails, PushBlock, KeepBlock, Pushed,
         CommitFull, ReadDrop, ReadEof, ReadAgain, ReadInterrupted, ReadFails,
         ReaderExit, WriterStep, InQueue, Spurious, Signal, rvars

LEMMA PipelineLines == PInv /\ [PNext]_pvars => [L!Next]_(L!lvars)
<1> SUFFICES ASSUME PInv, [PNext]_pvars PROVE [L!Next]_(L!lvars)
  OBVIOUS
<1>1. CASE UNCHANGED wlocal /\ \E n \in 1 .. ChunkSize : ReadBlock(n)
  BY <1>1, ReadAccepts DEF L!Next
<1>2. CASE kept' = kept
  <2>1. Text(kept)' = Text(kept)
    BY <1>2, FaultsKept DEF Text
  <2>2. [FrameNext]_wvars
    BY StepPInv, FrameStep DEF PInv
  <2>3. [FL!Next]_(FL!lvars)
    BY <2>2, LinesStep DEF PInv
  <2>4. ASSUME NEW n \in 0 .. ChunkSize, NEW eol \in BOOLEAN, FL!Emit(n, eol)
        PROVE  L!Next
    BY <2>1, <2>4, EmitsKept DEF L!Next
  <2>5. CASE FL!Accept \/ UNCHANGED FL!lvars
    BY <2>1, <2>5 DEF FL!Accept, FL!lvars, L!lvars, Written
  <2> QED BY <2>3, <2>4, <2>5 DEF FL!Next
<1> QED BY <1>1, <1>2, KeptByReadOnly

-----------------------------------------------------------------------------
(***************************************************************************)
(* The theorems.                                                           *)
(***************************************************************************)

\* At any time reader, queue and writer agree on where every byte is that was
\* read and not dropped: in a record, in overflow, in the block under the
\* writer's hands, in the ring, or in the reader's block.
THEOREM PipelineInvariant == PSpec => []PInv
  BY InitPInv, StepPInv, PTL DEF PSpec

\* Reader and writer use the queue as its proofs assume, see QueueContract, so
\* that what QueueProofs shows of the queue holds in the program.
THEOREM PipelineKeepsContract == PSpec => QueueContract
<1>1. PInit => Init
  BY DEF PInit, RInit
<1>2. PInv /\ [PNext]_pvars => [Next]_qvars
  BY ContractStep DEF PInv
<1> QED BY <1>1, <1>2, PipelineInvariant, PTL DEF PSpec, QueueContract, Spec

\* The records are the lines of what was read and not dropped: see
\* ImplementsLines.
THEOREM PipelineRefinesLines == PSpec => ImplementsLines
<1>1. PInit => L!Init
  <2> SUFFICES ASSUME PInit PROVE L!Init
    OBVIOUS
  <2>1. FrameTypeOK
    BY InitFrame DEF PInit, FrameInv
  <2>2. Len(Left) = 0 /\ Len(input) = 0 /\ out = << >>
    BY <2>1, LeftFacts DEF PInit, FrameInit
  <2>3. kept = << >> /\ DOMAIN kept = {}
    BY DEF PInit, RInit
  <2>4. Text(kept) = << >>
    BY <2>3 DEF Text
  <2> QED BY <2>2, <2>4 DEF L!Init, Written
<1> QED BY <1>1, PipelineLines, PipelineInvariant, PTL DEF PSpec, ImplementsLines, L!Spec

\* When both threads are gone without an error, the bytes that were read and
\* not popped fit in one block: see ShutdownLossBounded.
THEOREM LossIsBounded == PSpec => []ShutdownLossBounded
<1>1. PInv => ShutdownLossBounded
  <2> SUFFICES ASSUME PInv, Gone, ~faults PROVE Len(kept) - Len(input) <= ChunkSize
    BY DEF ShutdownLossBounded
  <2>1. Told
    BY DEF PInv, WriterTurn, Gone, At
  <2>2. block = << >> /\ Len(block) = 0
    BY <2>1 DEF PInv, IInv, WriterInv, WriterTurn, Popped, Told
  <2>3. /\ Len(kept) \in Nat /\ Len(input) \in Nat /\ Len(chan) = length
        /\ Len(input) - Len(block) = Len(input)
    BY <2>2, TransitTypes DEF PInv
  <2>4. /\ Len(chan) = 0 => Len(input) + Len(Filling) = Len(kept)
        /\ Len(chan) = 1 => (Len(input) + Len(chan[1])) + Len(Filling) = Len(kept)
    <3>1. Laid(chan, Filling, kept, Len(input))
      BY <2>3 DEF PInv, Transit
    <3>2. /\ chan \in Seq(Seq(1 .. MaxSent)) /\ Filling \in Seq(1 .. MaxSent)
          /\ kept \in Seq(1 .. MaxSent)
      BY TransitTypes DEF PInv
    <3>3. LaidOut(chan, Filling, kept, Len(input))
      BY <3>1, <3>2, LaidEnd
    <3> QED BY <3>3 DEF LaidOut
  <2>5. Len(Filling) \in 0 .. ChunkSize
    <3>1. Filling \in Data \cup {<< >>}
      BY BlockAssumption DEF PInv, IInv, TypeOK, Filling, Block, HasBlock
    <3>2. CASE Filling = << >>
      BY <3>2, ChunkSizeAssumption
    <3>3. CASE Filling \in Data
      BY <3>3, ChunkFacts, ChunkSizeAssumption
    <3> QED BY <3>1, <3>2, <3>3
  <2>6. CASE length = 0
    BY <2>3, <2>4, <2>5, <2>6, ChunkSizeAssumption
  <2>7. CASE length = 1 /\ ~admitted
    <3>1. Filling = << >> /\ Len(Filling) = 0
      BY <2>7 DEF admitted, Filling, HasBlock
    <3>2. Len(chan[1]) \in 1 .. ChunkSize
      BY <2>7, HeldIsFirst, ChunkFacts DEF PInv
    <3> QED BY <2>3, <2>4, <2>7, <3>1, <3>2, ChunkSizeAssumption
  <2> QED BY <2>1, <2>6, <2>7 DEF PInv, LateBlock
<1> QED BY <1>1, PipelineInvariant, PTL

=============================================================================
