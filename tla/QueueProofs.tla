---------------------------- MODULE QueueProofs ----------------------------
(***************************************************************************)
(* Proofs about Queue, for every capacity, both policies and any number of *)
(* finalizing threads.                                                     *)
(***************************************************************************)
EXTENDS Queue, SequenceTheorems, TLAPS

\* The cursor of the ring without the modulo.
LEMMA AdvanceWraps ==
  ASSUME NEW i \in Slots
  PROVE  Advance(i) = IF i + 1 = Capacity THEN 0 ELSE i + 1
<1>1. CASE i + 1 = Capacity
  BY <1>1, CapacityAssumption DEF Advance, Slots
<1>2. CASE i + 1 # Capacity
  BY <1>2, CapacityAssumption DEF Advance, Slots
<1> QED BY <1>1, <1>2

\* Counting slots from the head: they are slots of the ring, and different
\* ones as long as the count stays below the capacity.
LEMMA SlotFacts ==
  ASSUME head \in Slots
  PROVE  /\ \A k \in 0 .. Capacity : Slot(k) \in Slots
         /\ \A j, k \in 0 .. Capacity - 1 : Slot(j) = Slot(k) => j = k
         /\ Slot(0) = head
         /\ Slot(Capacity) = head
  BY CapacityAssumption DEF Slots, Slot

\* The ring after a commit of either side.
LEMMA SlotAfterPush ==
  ASSUME head \in Slots, length \in 0 .. Capacity - 1, tail = Slot(length)
  PROVE  Advance(tail) = Slot(length + 1)
<1>1. tail \in Slots
  BY SlotFacts, CapacityAssumption
<1> QED BY <1>1, AdvanceWraps, CapacityAssumption DEF Slots, Slot

LEMMA SlotAfterPop ==
  ASSUME head \in Slots, head' = Advance(head)
  PROVE  /\ head' \in Slots
         /\ \A k \in 0 .. Capacity - 1 : Slot(k)' = Slot(k + 1)
<1>1. head' = IF head + 1 = Capacity THEN 0 ELSE head + 1
  BY AdvanceWraps
<1> QED BY <1>1, CapacityAssumption DEF Slots, Slot

\* Writing the slot after the last committed one leaves the committed ones
\* alone.
LEMMA FreeSlotWrite ==
  ASSUME TypeOK, RingInv, length < Capacity, NEW v,
         blocks' = [blocks EXCEPT ![tail] = v]
  PROVE  /\ blocks'[tail] = v
         /\ \A k \in 0 .. length - 1 : blocks'[Slot(k)] = blocks[Slot(k)]
<1>1. \A k \in 0 .. length - 1 : Slot(k) # tail /\ Slot(k) \in Slots
  BY SlotFacts, CapacityAssumption DEF TypeOK, RingInv
<1> QED BY <1>1 DEF TypeOK

\* Reserving a block keeps the ring.
LEMMA ReserveRing ==
  ASSUME TypeOK, RingInv, length < Capacity, Reserve
  PROVE  /\ blocks' \in [Slots -> Data \cup {Empty}]
         /\ RingInv'
<1>1. blocks' \in [Slots -> Data \cup {Empty}]
  BY DEF TypeOK, Reserve
<1>2. \A k \in 0 .. length - 1 : blocks'[Slot(k)] \in Data
  BY FreeSlotWrite DEF Reserve, RingInv
<1> QED BY <1>1, <1>2 DEF Reserve, RingInv, Slot

-----------------------------------------------------------------------------
\* jp_queue_create establishes the invariant.
LEMMA InitIInv == Init => IInv
  BY CapacityAssumption, DataAssumption, ThreadAssumption
  DEF Init, IInv, TypeOK, LockInv, RingInv, ReaderInv, WriterInv, NoLostWakeup,
      Slots, Slot, Threads, Labels, FastPath, Section, NoBlock, NoThread

\* Threads stay where they belong.
LEMMA GotoType ==
  ASSUME TypeOK, NEW t \in Threads, NEW l \in Labels(t), Goto(t, l)
  PROVE  /\ pc' \in [Threads -> {"idle", "done"} \cup FastPath \cup Section]
         /\ \A u \in Threads : pc'[u] \in Labels(u)
  BY DEF TypeOK, Goto, Labels, FastPath, Section

LEMMA ReturnType ==
  ASSUME TypeOK, NEW t \in Threads, Return(t, "ok") \/ Return(t, "drop") \/ Return(t, "shutdown")
  PROVE  /\ pc' \in [Threads -> {"idle", "done"} \cup FastPath \cup Section]
         /\ \A u \in Threads : pc'[u] \in Labels(u)
         /\ ret' \in [Threads -> {"none", "ok", "drop", "shutdown"}]
<1>1. "idle" \in Labels(t) /\ Goto(t, "idle")
  BY DEF Labels, Return
<1>2. ret' \in [Threads -> {"none", "ok", "drop", "shutdown"}]
  BY DEF TypeOK, Return
<1> QED BY <1>1, <1>2, GotoType

\* At most one thread waits on each condition variable, so a signal leaves
\* none.
LEMMA SignalOne ==
  ASSUME NEW t, NEW W \in SUBSET {t}, NEW X \in Signalled(W)
  PROVE  X = {}
<1>1. W = {} \/ W = {t}
  OBVIOUS
<1> QED BY <1>1 DEF Signalled

-----------------------------------------------------------------------------
\* Every step keeps the types.
LEMMA StepTypeOK == IInv /\ [Next]_qvars => TypeOK'
<1> SUFFICES ASSUME IInv, [Next]_qvars PROVE TypeOK'
  OBVIOUS
<1> USE DEF IInv, ring, sync
<1>a. /\ Reader \in Threads /\ Writer \in Threads
      /\ {"push_active", "push_length", "push_slow", "push_commit"} \subseteq Labels(Reader)
      /\ {"pop_length", "pop_slow", "pop_commit"} \subseteq Labels(Writer)
      /\ \A t \in Threads : {"idle", "fin_active", "fin_slow", "done"} \subseteq Labels(t)
  BY DEF Threads, Labels
<1>1. CASE PushCall
  BY <1>1, <1>a, GotoType DEF TypeOK, PushCall
<1>2. CASE PushActive
  <2>1. CASE active
    BY <1>2, <1>a, <2>1, GotoType DEF TypeOK, PushActive
  <2>2. CASE ~active
    BY <1>2, <1>a, <2>2, ReturnType DEF TypeOK, PushActive
  <2> QED BY <2>1, <2>2
<1>3. CASE PushLength
  <2>1. CASE HasRoom
    <3> Reserve
      BY <1>3, <2>1 DEF PushLength
    <3> QED BY <1>3, <1>a, <2>1, ReturnType, ReserveRing DEF TypeOK, PushLength, Reserve, HasRoom
  <2>2. CASE ~HasRoom
    BY <1>3, <1>a, <2>2, GotoType DEF TypeOK, PushLength
  <2> QED BY <2>1, <2>2
<1>4. CASE PushWait
  BY <1>4, <1>a, TRUE DEF TypeOK, PushWait, Unlock
<1>5. CASE PushRefuse
  BY <1>5, <1>a, ReturnType DEF TypeOK, PushRefuse, Unlock
<1>6. CASE PushReserve
  BY <1>6, <1>a, ReserveRing, ReturnType DEF TypeOK, PushReserve, Reserve, HasRoom, Unlock
<1>7. CASE PushCommitCall
  BY <1>7, <1>a, GotoType DEF TypeOK, PushCommitCall
<1>8. CASE PushCommit
  <2>1. length < Capacity /\ tail' \in Slots
    BY <1>8, AdvanceWraps, CapacityAssumption DEF TypeOK, ReaderInv, PushCommit, InSection, At, Slots
  <2>2. notEmpty' = {}
    BY <1>8, SignalOne DEF TypeOK, PushCommit
  <2>3. length' \in 0 .. Capacity
    BY <1>8, <2>1, CapacityAssumption DEF TypeOK, PushCommit
  <2> QED BY <1>8, <1>a, <2>1, <2>2, <2>3, GotoType DEF TypeOK, PushCommit, Unlock
<1>9. CASE PopCall
  BY <1>9, <1>a, GotoType DEF TypeOK, PopCall
<1>10. CASE PopLength
  <2>1. CASE length > 0
    BY <1>10, <1>a, <2>1, ReturnType DEF TypeOK, PopLength, Take
  <2>2. CASE ~(length > 0)
    BY <1>10, <1>a, <2>2, GotoType DEF TypeOK, PopLength
  <2> QED BY <2>1, <2>2
<1>11. CASE PopWait
  BY <1>11, <1>a, TRUE DEF TypeOK, PopWait, Unlock
<1>12. CASE PopShutdown
  BY <1>12, <1>a, ReturnType DEF TypeOK, PopShutdown, Unlock
<1>13. CASE PopTake
  BY <1>13, <1>a, ReturnType DEF TypeOK, PopTake, Take, Unlock
<1>14. CASE PopCommitCall
  BY <1>14, <1>a, GotoType DEF TypeOK, PopCommitCall
<1>15. CASE PopCommit
  <2>1. length > 0 /\ head' \in Slots
    BY <1>15, SlotAfterPop DEF TypeOK, WriterInv, PopCommit, InSection, At
  <2>2. notFull' = {}
    BY <1>15, SignalOne DEF TypeOK, PopCommit
  <2>3. length' \in 0 .. Capacity
    BY <1>15, <2>1, CapacityAssumption DEF TypeOK, PopCommit
  <2> QED BY <1>15, <1>a, <2>1, <2>2, <2>3, GotoType DEF TypeOK, PopCommit, Unlock
<1>16. CASE \E v \in Data : Fill(v)
  BY <1>16, <1>a, TRUE DEF TypeOK, Fill
<1>17. CASE \E t \in Threads : MutexLock(t)
  BY <1>17, <1>a, TRUE DEF TypeOK, MutexLock
<1>18. CASE \E t \in Threads : SpuriousWakeup(t)
  BY <1>18, <1>a, TRUE DEF TypeOK, SpuriousWakeup
<1>19. CASE \E t \in Threads : FinalizeCall(t)
  BY <1>19, <1>a, GotoType DEF TypeOK, FinalizeCall
<1>20. CASE \E t \in Threads : FinalizeActive(t)
  BY <1>20, <1>a, GotoType DEF TypeOK, FinalizeActive
<1>21. CASE \E t \in Threads : Finalize(t)
  BY <1>21, <1>a, GotoType DEF TypeOK, Finalize, Unlock
<1>22. CASE UNCHANGED qvars
  BY <1>22, <1>a, TRUE DEF TypeOK, qvars
<1> QED
  BY <1>1, <1>2, <1>3, <1>4, <1>5, <1>6, <1>7, <1>8, <1>9, <1>10, <1>11, <1>12, <1>13, <1>14, <1>15, <1>16, <1>17, <1>18, <1>19, <1>20, <1>21, <1>22
  DEF Next, Use, QueueStep, PushStep, PopStep, FinalizeStep

\* Every step keeps the ring.
LEMMA StepRing == IInv /\ [Next]_qvars => RingInv'
<1> SUFFICES ASSUME IInv, [Next]_qvars PROVE RingInv'
  OBVIOUS
<1> USE DEF IInv
<1>1. CASE UNCHANGED ring
  BY <1>1 DEF RingInv, Slot, ring
<1>2. CASE Reserve /\ HasRoom
  BY <1>2, ReserveRing DEF HasRoom
<1>3. CASE \E v \in Data : Fill(v)
  BY <1>3, FreeSlotWrite DEF RingInv, Slot, ReaderInv, Fill
<1>4. CASE PushCommit
  <2>1. length < Capacity /\ tail = Slot(length) /\ blocks[tail] \in Data
    BY <1>4 DEF RingInv, ReaderInv, PushCommit, InSection, At
  <2>2. tail' = Slot(length + 1)
    BY <1>4, <2>1, SlotAfterPush, CapacityAssumption DEF TypeOK, PushCommit
  <2>3. \A k \in 0 .. length : blocks[Slot(k)] \in Data
    BY <2>1 DEF RingInv, TypeOK
  <2> QED BY <1>4, <2>1, <2>2, <2>3 DEF RingInv, Slot, PushCommit, TypeOK
<1>5. CASE PopCommit
  <2> DEFINE S(k) == IF head' + k < Capacity THEN head' + k ELSE head' + k - Capacity
  <2>1. \A k \in 0 .. Capacity - 1 : S(k) = Slot(k + 1)
    BY <1>5, SlotAfterPop DEF TypeOK, PopCommit, Slot
  <2>2. /\ length > 0 /\ length \in 0 .. Capacity /\ tail = Slot(length)
        /\ length' = length - 1 /\ tail' = tail /\ blocks' = blocks
    BY <1>5 DEF PopCommit, WriterInv, RingInv, InSection, At, TypeOK
  <2> HIDE DEF S
  <2>3. tail' = S(length')
    BY <2>1, <2>2, CapacityAssumption
  <2>4. \A k \in 0 .. length' - 1 : blocks'[S(k)] \in Data
    BY <2>1, <2>2, CapacityAssumption DEF RingInv
  <2> QED BY <2>3, <2>4 DEF RingInv, S, Slot
<1> QED
  BY <1>1, <1>2, <1>3, <1>4, <1>5
  DEF Next, Use, QueueStep, PushStep, PopStep, FinalizeStep, MutexLock, SpuriousWakeup,
      PushCall, PushActive, PushLength, PushWait, PushRefuse, PushReserve, PushCommitCall,
      PopCall, PopLength, PopWait, PopShutdown, PopTake, Take, PopCommitCall,
      FinalizeCall, FinalizeActive, Finalize, ring, qvars

-----------------------------------------------------------------------------
\* Every step keeps the rest of the invariant: who is in a critical section,
\* which blocks are held, who sleeps and why.
LEMMA StepIInv == IInv /\ [Next]_qvars => IInv'
<1> SUFFICES ASSUME IInv, [Next]_qvars
             PROVE  LockInv' /\ ReaderInv' /\ WriterInv' /\ NoLostWakeup'
  BY StepTypeOK, StepRing DEF IInv
<1> USE CapacityAssumption, DataAssumption, ThreadAssumption
        DEF IInv, LockInv, ReaderInv, WriterInv, NoLostWakeup, TypeOK, RingInv,
            Slots, Threads, Labels, Section, NoBlock, NoThread, Reader, Writer,
            ring, sync, At, Goto, Return, InSection, Unlock, HasRoom
<1>1. CASE PushCall
  BY <1>1 DEF PushCall
<1>2. CASE PushActive
  BY <1>2 DEF PushActive
<1>3. CASE PushLength
  BY <1>3 DEF PushLength, Reserve
<1>4. CASE PushWait
  BY <1>4 DEF PushWait
<1>5. CASE PushRefuse
  BY <1>5 DEF PushRefuse
<1>6. CASE PushReserve
  BY <1>6 DEF PushReserve, Reserve
<1>7. CASE PushCommitCall
  BY <1>7 DEF PushCommitCall
<1>8. CASE PushCommit
  <2>1. notEmpty' = {}
    BY <1>8, SignalOne DEF PushCommit
  <2>2. length' > 0 /\ rblk' = NoBlock
    BY <1>8 DEF PushCommit
  <2> QED BY <1>8, <2>1, <2>2 DEF PushCommit
<1>9. CASE PopCall
  BY <1>9 DEF PopCall
<1>10. CASE PopLength
  BY <1>10 DEF PopLength, Take
<1>11. CASE PopWait
  BY <1>11 DEF PopWait
<1>12. CASE PopShutdown
  BY <1>12 DEF PopShutdown
<1>13. CASE PopTake
  BY <1>13 DEF PopTake, Take
<1>14. CASE PopCommitCall
  BY <1>14 DEF PopCommitCall
<1>15. CASE PopCommit
  <2>1. notFull' = {}
    BY <1>15, SignalOne DEF PopCommit
  <2>2. length' < Capacity /\ wblk' = NoBlock
    BY <1>15 DEF PopCommit
  <2> QED BY <1>15, <2>1, <2>2 DEF PopCommit
<1>16. CASE \E v \in Data : Fill(v)
  BY <1>16 DEF Fill
<1>17. CASE \E t \in Threads : MutexLock(t)
  BY <1>17 DEF MutexLock
<1>18. CASE \E t \in Threads : SpuriousWakeup(t)
  BY <1>18 DEF SpuriousWakeup
<1>19. CASE \E t \in Threads : FinalizeCall(t)
  BY <1>19 DEF FinalizeCall
<1>20. CASE \E t \in Threads : FinalizeActive(t)
  BY <1>20 DEF FinalizeActive
<1>21. CASE \E t \in Threads : Finalize(t)
  BY <1>21 DEF Finalize
<1>22. CASE UNCHANGED qvars
  BY <1>22 DEF qvars
<1> QED
  BY <1>1, <1>2, <1>3, <1>4, <1>5, <1>6, <1>7, <1>8, <1>9, <1>10, <1>11, <1>12, <1>13, <1>14, <1>15, <1>16, <1>17, <1>18, <1>19, <1>20, <1>21, <1>22
  DEF Next, Use, QueueStep, PushStep, PopStep, FinalizeStep

-----------------------------------------------------------------------------
(***************************************************************************)
(* The theorems.                                                           *)
(***************************************************************************)

\* The invariant of the queue, its types included, holds in every reachable
\* state.
THEOREM QueueInvariant == Spec => []IInv
  BY InitIInv, StepIInv, PTL DEF Spec

\* The two fast paths never hand the same block to reader and writer.
THEOREM NeverShared == Spec => []NoSharedBlock
<1>1. IInv => NoSharedBlock
  BY SlotFacts, CapacityAssumption
  DEF IInv, TypeOK, RingInv, ReaderInv, WriterInv, NoSharedBlock, Slots, NoBlock
<1> QED BY <1>1, QueueInvariant, PTL

\* No thread sleeps through the event it waits for.
THEOREM NeverLostWakeup == Spec => []NoLostWakeup
<1>1. IInv => NoLostWakeup
  BY DEF IInv
<1> QED BY <1>1, QueueInvariant, PTL

\* A step leaves the block that the writer holds before and after it alone.
LEMMA HeldStep ==
  ASSUME IInv, [Next]_qvars, wblk # NoBlock, wblk' # NoBlock
  PROVE  wblk' = wblk /\ blocks'[wblk] = blocks[wblk]
<1>1. 0 \in 0 .. length - 1 /\ wblk = Slot(0)
  BY SlotFacts DEF IInv, TypeOK, WriterInv
<1>2. CASE Reserve /\ HasRoom
  BY <1>1, <1>2, FreeSlotWrite DEF IInv, Reserve, HasRoom
<1>3. CASE \E v \in Data : Fill(v)
  BY <1>1, <1>3, FreeSlotWrite DEF IInv, ReaderInv, Fill
<1>4. CASE UNCHANGED <<blocks, wblk>>
  BY <1>4
<1>5. ~PopLength /\ ~PopTake /\ ~PopCommit
  BY DEF PopLength, PopTake, PopCommit, IInv, WriterInv, InSection, At
<1> QED
  BY <1>2, <1>3, <1>4, <1>5
  DEF Next, Use, QueueStep, PushStep, PopStep, FinalizeStep, MutexLock, SpuriousWakeup,
      PushCall, PushActive, PushLength, PushWait, PushRefuse, PushReserve,
      PushCommitCall, PushCommit, PopCall, PopWait, PopShutdown, PopCommitCall,
      FinalizeCall, FinalizeActive, Finalize, ring, qvars

\* The block the writer drains does not change under it.
THEOREM HeldIsStable == Spec => HeldBlockStable
<1>1. IInv /\ [Next]_qvars /\ wblk # NoBlock /\ wblk' # NoBlock
        => wblk' = wblk /\ blocks'[wblk] = blocks[wblk]
  BY HeldStep
<1> QED BY <1>1, QueueInvariant, PTL DEF Spec, HeldBlockStable

-----------------------------------------------------------------------------
(***************************************************************************)
(* The queue implements the channel.                                       *)
(***************************************************************************)

\* The committed slots, read from the head, are a sequence of data.
LEMMA ChanSeq ==
  ASSUME IInv
  PROVE  /\ chan \in Seq(Data) /\ Len(chan) = length
         /\ \A k \in 1 .. length : chan[k] = blocks[Slot(k - 1)]
<1>1. \A k \in 1 .. length : blocks[Slot(k - 1)] \in Data
  BY DEF IInv, TypeOK, RingInv
<1>2. length \in Nat
  BY DEF IInv, TypeOK
<1> QED BY <1>1, <1>2 DEF chan

\* Filling the free slot does not change the channel.
LEMMA ChanSame ==
  ASSUME IInv, UNCHANGED <<head, length>>,
         \/ UNCHANGED blocks
         \/ length < Capacity /\ \E v : blocks' = [blocks EXCEPT ![tail] = v]
  PROVE  chan' = chan
<1>1. \A k \in 0 .. length - 1 : blocks'[Slot(k)] = blocks[Slot(k)]
  BY FreeSlotWrite DEF IInv
<1>2. \A k \in 1 .. length : blocks'[Slot(k - 1)] = blocks[Slot(k - 1)]
  BY <1>1 DEF IInv, TypeOK
<1> QED BY <1>2 DEF chan, Slot

\* jp_queue_push_commit appends to the channel.
LEMMA ChanPush ==
  ASSUME IInv, IInv', PushCommit
  PROVE  /\ length < Capacity /\ blocks[tail] \in Data
         /\ chan' = Append(chan, blocks[tail])
<1>1. /\ length < Capacity /\ tail = Slot(length) /\ blocks[tail] \in Data
      /\ length' = length + 1 /\ length \in Nat
  BY DEF PushCommit, IInv, TypeOK, RingInv, ReaderInv, InSection, At
<1>2. chan' = [k \in 1 .. length + 1 |-> blocks[Slot(k - 1)]]
  BY <1>1 DEF chan, PushCommit, Slot
<1>3. \A k \in 1 .. length + 1 : blocks[Slot(k - 1)] \in Data
  BY <1>1 DEF IInv, RingInv
<1>4. chan' \in Seq(Data) /\ Len(chan') = length + 1
  BY <1>1, <1>2, <1>3
<1> DEFINE a == Append(chan, blocks[tail])
<1>5. a \in Seq(Data) /\ Len(a) = length + 1
  BY <1>1, ChanSeq, AppendProperties
<1>6. ASSUME NEW k \in 1 .. length + 1 PROVE chan'[k] = a[k]
  <2>1. CASE k = length + 1
    BY <1>1, <1>2, <2>1, ChanSeq, AppendProperties
  <2>2. CASE k # length + 1
    <3>1. k \in 1 .. length
      BY <1>1, <2>2
    <3> QED BY <1>1, <1>2, <3>1, ChanSeq, AppendProperties
  <2> QED BY <2>1, <2>2
<1> HIDE DEF a
<1>7. chan' = a
  BY <1>4, <1>5, <1>6, SeqEqual
<1> QED BY <1>1, <1>7 DEF a

\* jp_queue_pop_commit removes the oldest item of the channel.
LEMMA ChanPop ==
  ASSUME IInv, PopCommit
  PROVE  chan # << >> /\ chan' = Tail(chan)
<1>1. length \in 1 .. Capacity /\ length' = length - 1 /\ blocks' = blocks
  BY DEF PopCommit, IInv, TypeOK, WriterInv, InSection, At
<1> DEFINE S(k) == IF head' + k < Capacity THEN head' + k ELSE head' + k - Capacity
<1>2. \A k \in 0 .. Capacity - 1 : S(k) = Slot(k + 1)
  BY SlotAfterPop DEF IInv, TypeOK, PopCommit, Slot
<1>3. chan' = [k \in 1 .. length - 1 |-> blocks[S(k - 1)]]
  BY <1>1 DEF chan, Slot
<1> HIDE DEF S
<1>4. \A k \in 1 .. length - 1 : blocks[S(k - 1)] = chan[k + 1]
  BY <1>1, <1>2, ChanSeq, CapacityAssumption
<1>5. chan \in Seq(Data) /\ Len(chan) = length /\ chan # << >>
  BY <1>1, ChanSeq
<1>6. /\ Tail(chan) \in Seq(Data) /\ Len(Tail(chan)) = length - 1
      /\ \A k \in 1 .. length - 1 : Tail(chan)[k] = chan[k + 1]
  BY <1>5, HeadTailProperties
<1>7. \A k \in 1 .. length - 1 : blocks[S(k - 1)] \in Data
  BY <1>1, <1>4, <1>5, ElementOfSeq
<1>8. chan' \in Seq(Data) /\ Len(chan') = length - 1
  BY <1>1, <1>3, <1>7
<1>9. chan' = Tail(chan)
  BY <1>3, <1>4, <1>6, <1>8, SeqEqual
<1> QED BY <1>5, <1>9

\* Every step of the queue is a step of the channel, or none.
LEMMA ChannelStep ==
  ASSUME IInv, IInv', [Next]_qvars
  PROVE  [C!Next]_(C!vars)
<1> DEFINE Same == UNCHANGED <<chan, active, admitted, eos>>
<1> USE DEF IInv, At, Goto, Return, InSection, admitted, eos, ring, sync
<1>a. UNCHANGED <<head, length, blocks>> => chan' = chan
  BY ChanSame
<1>b. Reserve /\ HasRoom => chan' = chan
  BY ChanSame DEF Reserve, HasRoom
<1>c. /\ pc \in [Threads -> {"idle", "done"} \cup FastPath \cup Section]
      /\ ret \in [Threads -> {"none", "ok", "drop", "shutdown"}]
      /\ Reader \in Threads /\ Writer \in Threads /\ Reader # Writer
      /\ Writer \notin Finalizers /\ Reader \notin Finalizers
  BY ThreadAssumption DEF TypeOK, Threads, Reader, Writer
<1> USE <1>c
<1>1. CASE PushCall
  <2> Same
    BY <1>a, <1>1 DEF PushCall
  <2> QED BY DEF C!vars
<1>2. CASE PushActive
  <2>1. CASE active
    <3> C!Admit
      BY <1>a, <1>2, <2>1 DEF PushActive, ReaderInv, C!Admit
    <3> QED BY DEF C!Next
  <2>2. CASE ~active
    <3> Same
      BY <1>a, <1>2, <2>2 DEF PushActive
    <3> QED BY DEF C!vars
  <2> QED BY <2>1, <2>2
<1>3. CASE PushLength
  <2>1. CASE HasRoom
    <3> Same
      BY <1>b, <1>3, <2>1 DEF PushLength, Reserve, TypeOK, Slots, NoBlock
    <3> QED BY DEF C!vars
  <2>2. CASE ~HasRoom
    <3> Same
      BY <1>a, <1>3, <2>2 DEF PushLength
    <3> QED BY DEF C!vars
  <2> QED BY <2>1, <2>2
<1>4. CASE PushWait
  <2> Same
    BY <1>a, <1>4 DEF PushWait
  <2> QED BY DEF C!vars
<1>5. CASE PushRefuse
  <2>1. ~active \/ (Policy = "drop" /\ Len(chan) = Capacity)
    BY <1>5, ChanSeq, CapacityAssumption DEF PushRefuse, HasRoom, TypeOK
  <2> C!Refuse
    BY <1>a, <1>5, <2>1 DEF PushRefuse, ReaderInv, C!Refuse
  <2> QED BY DEF C!Next
<1>6. CASE PushReserve
  <2> Same
    BY <1>a, <1>6, <1>b DEF PushReserve, Reserve, TypeOK, Slots, NoBlock, ReaderInv
  <2> QED BY DEF C!vars
<1>7. CASE PushCommitCall
  <2> Same
    BY <1>a, <1>7 DEF PushCommitCall
  <2> QED BY DEF C!vars
<1>8. CASE PushCommit
  <2> C!Send(blocks[tail]) /\ blocks[tail] \in Data
    BY <1>8, ChanPush, ChanSeq DEF PushCommit, ReaderInv, C!Send
  <2> QED BY DEF C!Next
<1>9. CASE PopCall
  <2> Same
    BY <1>a, <1>9 DEF PopCall
  <2> QED BY DEF C!vars
<1>10. CASE PopLength
  <2> Same
    BY <1>a, <1>10 DEF PopLength, Take, WriterInv
  <2> QED BY DEF C!vars
<1>11. CASE PopWait
  <2> Same
    BY <1>a, <1>11 DEF PopWait
  <2> QED BY DEF C!vars
<1>12. CASE PopShutdown
  <2> C!EndOfStream
    BY <1>a, <1>12, ChanSeq DEF PopShutdown, C!EndOfStream
  <2> QED BY DEF C!Next
<1>13. CASE PopTake
  <2> Same
    BY <1>a, <1>13 DEF PopTake, Take, WriterInv
  <2> QED BY DEF C!vars
<1>14. CASE PopCommitCall
  <2> Same
    BY <1>a, <1>14 DEF PopCommitCall
  <2> QED BY DEF C!vars
<1>15. CASE PopCommit
  <2> C!Receive
    BY <1>a, <1>15, ChanPop DEF PopCommit, WriterInv, C!Receive
  <2> QED BY DEF C!Next
<1>16. CASE \E v \in Data : Fill(v)
  <2> Same
    BY <1>16, ChanSame DEF Fill, ReaderInv
  <2> QED BY DEF C!vars
<1>17. CASE \E t \in Threads : MutexLock(t)
  <2> Same
    BY <1>a, <1>17 DEF MutexLock
  <2> QED BY DEF C!vars
<1>18. CASE \E t \in Threads : SpuriousWakeup(t)
  <2> Same
    BY <1>a, <1>18 DEF SpuriousWakeup
  <2> QED BY DEF C!vars
<1>19. CASE \E t \in Threads : FinalizeCall(t)
  <2> Same
    BY <1>a, <1>19 DEF FinalizeCall
  <2> QED BY DEF C!vars
<1>20. CASE \E t \in Threads : FinalizeActive(t)
  <2> Same
    BY <1>a, <1>20 DEF FinalizeActive
  <2> QED BY DEF C!vars
<1>21. CASE \E t \in Threads : Finalize(t)
  <2> C!Close
    BY <1>a, <1>21, TRUE DEF Finalize, C!Close
  <2> QED BY DEF C!Next
<1>22. CASE UNCHANGED qvars
  <2> Same
    BY <1>a, <1>22 DEF qvars
  <2> QED BY DEF C!vars
<1> QED
  BY <1>1, <1>2, <1>3, <1>4, <1>5, <1>6, <1>7, <1>8, <1>9, <1>10, <1>11, <1>12, <1>13, <1>14, <1>15, <1>16, <1>17, <1>18, <1>19, <1>20, <1>21, <1>22
  DEF Next, Use, QueueStep, PushStep, PopStep, FinalizeStep

\* The queue implements the channel: see ImplementsChannel.
THEOREM QueueRefinesChannel == Spec => ImplementsChannel
<1>1. Init => C!Init
  <2> SUFFICES ASSUME Init PROVE C!Init
    OBVIOUS
  <2>1. chan = << >>
    BY InitIInv, ChanSeq DEF Init
  <2> QED BY <2>1 DEF Init, C!Init, admitted, eos, Threads
<1>2. IInv /\ IInv' /\ [Next]_qvars => [C!Next]_(C!vars)
  BY ChannelStep
<1> QED BY <1>1, <1>2, QueueInvariant, PTL DEF Spec, ImplementsChannel, C!Spec

=============================================================================
