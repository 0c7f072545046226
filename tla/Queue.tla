------------------------------- MODULE Queue -------------------------------
(***************************************************************************)
(* The bounded block queue of src/src/queue.c: a ring of Capacity blocks,  *)
(* one mutex, two condition variables, and lock-free fast paths on the     *)
(* atomics "active" and "length".                                          *)
(*                                                                         *)
(* One thread pushes (the reader thread, jp_reader_consume), one thread    *)
(* pops (the writer thread, jp_writer_produce), and every thread may call  *)
(* jp_queue_finalize.  A push and a pop are two-phased: *_uncommitted      *)
(* hands out a block of the ring, which the caller fills or drains without *)
(* any lock, and *_commit publishes or recycles it.                        *)
(*                                                                         *)
(* Each load on a fast path is a step, so is acquiring the mutex, and so   *)
(* is a critical section up to its unlock or wait: what a section writes   *)
(* is read by others either under the mutex or by a single atomic load.    *)
(***************************************************************************)
EXTENDS Integers, Sequences

CONSTANTS
  Capacity,     \* queue->capacity
  Policy,       \* queue->policy: "wait" or "drop"
  Data,         \* what a filled block can hold
  Empty,        \* a block with length = 0
  Finalizers    \* the threads, other than reader and writer, that finalize

Reader == "reader"
Writer == "writer"
Threads == {Reader, Writer} \cup Finalizers

NoThread == "none"      \* the mutex is free
NoBlock  == -1          \* a jp_block_t* that is NULL
Slots    == 0 .. Capacity - 1

ASSUME CapacityAssumption == Capacity \in Nat \ {0}
ASSUME PolicyAssumption   == Policy \in {"wait", "drop"}
ASSUME DataAssumption     == Empty \notin Data
ASSUME ThreadAssumption   == {Reader, Writer, NoThread} \cap Finalizers = {}

VARIABLES
  head, tail,   \* cursors of the ring
  length,       \* atomic number of committed blocks
  active,       \* atomic flag, cleared by jp_queue_finalize
  blocks,       \* contents of the ring
  lock,         \* holder of queue->lock
  notFull,      \* threads blocked in pthread_cond_wait on not_full
  notEmpty,     \* threads blocked in pthread_cond_wait on not_empty
  rblk, wblk,   \* the block the reader, the writer holds
  pc,           \* where each thread is inside the queue's code
  ret           \* result of the last *_uncommitted call of each thread

ring == <<head, tail, length, blocks>>
sync == <<lock, notFull, notEmpty>>
qvars == <<head, tail, length, active, blocks, lock, notFull, notEmpty,
           rblk, wblk, pc, ret>>

\* Control points: "idle" outside the queue, "done" for good, the fast paths,
\* and the critical sections, which a thread runs once it has the mutex.
FastPath == {"push_active", "push_length", "pop_length", "fin_active"}
Section  == {"push_slow", "push_commit", "pop_slow", "pop_commit", "fin_slow"}

At(t, label)   == pc[t] = label
Goto(t, label) == pc' = [pc EXCEPT ![t] = label]
Return(t, res) == Goto(t, "idle") /\ ret' = [ret EXCEPT ![t] = res]

-----------------------------------------------------------------------------
(***************************************************************************)
(* The mutex and the condition variables.                                  *)
(***************************************************************************)

\* pthread_mutex_lock, and the end of pthread_cond_wait for a thread that
\* was taken off the condition variable.
MutexLock(t) ==
  /\ pc[t] \in Section
  /\ t \notin notFull \cup notEmpty
  /\ lock = NoThread
  /\ lock' = t
  /\ UNCHANGED <<ring, active, notFull, notEmpty, rblk, wblk, pc, ret>>

InSection(t, label) == At(t, label) /\ lock = t
Unlock == lock' = NoThread

\* pthread_cond_signal wakes one waiter, if there is one.
Signalled(waiters) ==
  IF waiters = {} THEN {{}} ELSE {waiters \ {t} : t \in waiters}

\* POSIX allows pthread_cond_wait to return without a signal.
SpuriousWakeup(t) ==
  /\ t \in notFull \cup notEmpty
  /\ notFull' = notFull \ {t}
  /\ notEmpty' = notEmpty \ {t}
  /\ UNCHANGED <<ring, active, lock, rblk, wblk, pc, ret>>

-----------------------------------------------------------------------------
\* jp_queue_create, successful case.
Init ==
  /\ head = 0 /\ tail = 0 /\ length = 0
  /\ active = TRUE
  /\ blocks = [i \in Slots |-> Empty]
  /\ lock = NoThread
  /\ notFull = {} /\ notEmpty = {}
  /\ rblk = NoBlock /\ wblk = NoBlock
  /\ pc = [t \in Threads |-> "idle"]
  /\ ret = [t \in Threads |-> "none"]

-----------------------------------------------------------------------------
(***************************************************************************)
(* jp_queue_push_uncommitted.  The reader asks for a block when it has     *)
(* none, and stops asking once it was told of the shutdown.                *)
(***************************************************************************)
PushCall ==
  /\ At(Reader, "idle")
  /\ rblk = NoBlock
  /\ ret[Reader] # "shutdown"
  /\ Goto(Reader, "push_active")
  /\ UNCHANGED <<ring, active, sync, rblk, wblk, ret>>

\* Variant that does not look at the flag.
PushActiveBlind ==
  /\ At(Reader, "push_active")
  /\ Goto(Reader, "push_length")
  /\ UNCHANGED <<ring, active, sync, rblk, wblk, ret>>

PushActive ==
  /\ At(Reader, "push_active")
  /\ IF active THEN Goto(Reader, "push_length") /\ UNCHANGED ret
               ELSE Return(Reader, "shutdown")
  /\ UNCHANGED <<ring, active, sync, rblk, wblk>>

HasRoom == length < Capacity

\* The caller resets the length of the block it is given at once.
Reserve ==
  /\ rblk' = tail
  /\ blocks' = [blocks EXCEPT ![tail] = Empty]
  /\ Return(Reader, "ok")
  /\ UNCHANGED <<head, tail, length, active, notFull, notEmpty, wblk>>

\* Variant with the comparison off by one.
PushLengthOffByOne ==
  /\ At(Reader, "push_length")
  /\ IF length <= Capacity
       THEN Reserve
       ELSE /\ Goto(Reader, "push_slow")
            /\ UNCHANGED <<ring, active, notFull, notEmpty, rblk, wblk, ret>>
  /\ UNCHANGED lock

PushLength ==
  /\ At(Reader, "push_length")
  /\ IF HasRoom
       THEN Reserve
       ELSE /\ Goto(Reader, "push_slow")
            /\ UNCHANGED <<ring, active, notFull, notEmpty, rblk, wblk, ret>>
  /\ UNCHANGED lock

\* Variant that waits under both policies.
PushWaitAlways ==
  /\ InSection(Reader, "push_slow")
  /\ active /\ ~HasRoom
  /\ notFull' = notFull \cup {Reader}
  /\ Unlock
  /\ UNCHANGED <<ring, active, notEmpty, rblk, wblk, pc, ret>>

\* pthread_cond_wait releases the mutex and starts to wait in one step.
PushWait ==
  /\ InSection(Reader, "push_slow")
  /\ Policy = "wait" /\ active /\ ~HasRoom
  /\ notFull' = notFull \cup {Reader}
  /\ Unlock
  /\ UNCHANGED <<ring, active, notEmpty, rblk, wblk, pc, ret>>

\* A finalized queue refuses the push; a full one drops it.
PushRefuse ==
  /\ InSection(Reader, "push_slow")
  /\ \/ ~active /\ Return(Reader, "shutdown")
     \/ active /\ Policy = "drop" /\ ~HasRoom /\ Return(Reader, "drop")
  /\ Unlock
  /\ UNCHANGED <<ring, active, notFull, notEmpty, rblk, wblk>>

PushReserve ==
  /\ InSection(Reader, "push_slow")
  /\ active /\ HasRoom
  /\ Reserve
  /\ Unlock

-----------------------------------------------------------------------------
(***************************************************************************)
(* The reader fills the block it holds, in one or several steps, and       *)
(* commits it if it is not empty: jp_queue_push_commit.  After the commit  *)
(* it forgets the block.                                                   *)
(***************************************************************************)
Fill(v) ==
  /\ At(Reader, "idle")
  /\ rblk # NoBlock
  /\ blocks' = [blocks EXCEPT ![rblk] = v]
  /\ UNCHANGED <<head, tail, length, active, sync, rblk, wblk, pc, ret>>

PushCommitCall ==
  /\ At(Reader, "idle")
  /\ rblk # NoBlock
  /\ blocks[rblk] # Empty
  /\ Goto(Reader, "push_commit")
  /\ UNCHANGED <<ring, active, sync, rblk, wblk, ret>>

\* Variant that wraps one slot too late.
AdvanceLate(i) == (i + 1) % (Capacity + 1)

Advance(i) == (i + 1) % Capacity

PushCommit ==
  /\ InSection(Reader, "push_commit")
  /\ tail' = Advance(tail)
  /\ length' = length + 1
  /\ notEmpty' \in Signalled(notEmpty)
  /\ rblk' = NoBlock
  /\ Goto(Reader, "idle")
  /\ Unlock
  /\ UNCHANGED <<head, active, blocks, notFull, wblk, ret>>

-----------------------------------------------------------------------------
(***************************************************************************)
(* jp_queue_pop_uncommitted.  The writer asks for a block when it has      *)
(* none, and stops asking once it was told of the shutdown.                *)
(***************************************************************************)
PopCall ==
  /\ At(Writer, "idle")
  /\ wblk = NoBlock
  /\ ret[Writer] # "shutdown"
  /\ Goto(Writer, "pop_length")
  /\ UNCHANGED <<ring, active, sync, rblk, wblk, ret>>

Take ==
  /\ wblk' = head
  /\ Return(Writer, "ok")
  /\ UNCHANGED <<ring, active, notFull, notEmpty, rblk>>

PopLength ==
  /\ At(Writer, "pop_length")
  /\ IF length > 0
       THEN Take
       ELSE /\ Goto(Writer, "pop_slow")
            /\ UNCHANGED <<ring, active, notFull, notEmpty, rblk, wblk, ret>>
  /\ UNCHANGED lock

PopWait ==
  /\ InSection(Writer, "pop_slow")
  /\ length = 0 /\ active
  /\ notEmpty' = notEmpty \cup {Writer}
  /\ Unlock
  /\ UNCHANGED <<ring, active, notFull, rblk, wblk, pc, ret>>

\* Variant that ends the stream although blocks are left.
PopShutdownEarly ==
  /\ InSection(Writer, "pop_slow")
  /\ ~active
  /\ Return(Writer, "shutdown")
  /\ Unlock
  /\ UNCHANGED <<ring, active, notFull, notEmpty, rblk, wblk>>

PopShutdown ==
  /\ InSection(Writer, "pop_slow")
  /\ length = 0 /\ ~active
  /\ Return(Writer, "shutdown")
  /\ Unlock
  /\ UNCHANGED <<ring, active, notFull, notEmpty, rblk, wblk>>

PopTake ==
  /\ InSection(Writer, "pop_slow")
  /\ length # 0
  /\ Take
  /\ Unlock

-----------------------------------------------------------------------------
\* jp_queue_pop_commit, once the writer is done with its block.
PopCommitCall ==
  /\ At(Writer, "idle")
  /\ wblk # NoBlock
  /\ Goto(Writer, "pop_commit")
  /\ UNCHANGED <<ring, active, sync, rblk, wblk, ret>>

\* Variant that forgets pthread_cond_signal.
PopCommitSilent ==
  /\ InSection(Writer, "pop_commit")
  /\ head' = Advance(head)
  /\ length' = length - 1
  /\ wblk' = NoBlock
  /\ Goto(Writer, "idle")
  /\ Unlock
  /\ UNCHANGED <<tail, active, blocks, notFull, notEmpty, rblk, ret>>

PopCommit ==
  /\ InSection(Writer, "pop_commit")
  /\ head' = Advance(head)
  /\ length' = length - 1
  /\ notFull' \in Signalled(notFull)
  /\ wblk' = NoBlock
  /\ Goto(Writer, "idle")
  /\ Unlock
  /\ UNCHANGED <<tail, active, blocks, notEmpty, rblk, ret>>

-----------------------------------------------------------------------------
\* jp_queue_finalize, by any thread.  It is the last thing the reader and the
\* writer do with the queue, whether or not they hold a block.
FinalizeCall(t) ==
  /\ At(t, "idle")
  /\ Goto(t, "fin_active")
  /\ UNCHANGED <<ring, active, sync, rblk, wblk, ret>>

FinalizeActive(t) ==
  /\ At(t, "fin_active")
  /\ Goto(t, IF active THEN "fin_slow" ELSE "done")
  /\ UNCHANGED <<ring, active, sync, rblk, wblk, ret>>

\* Variant that wakes the threads waiting on not_full only.
FinalizeHalf(t) ==
  /\ InSection(t, "fin_slow")
  /\ active' = FALSE
  /\ notFull' = {}
  /\ Goto(t, "done")
  /\ Unlock
  /\ UNCHANGED <<ring, notEmpty, rblk, wblk, ret>>

Finalize(t) ==
  /\ InSection(t, "fin_slow")
  /\ active' = FALSE
  /\ notEmpty' = {} /\ notFull' = {}
  /\ Goto(t, "done")
  /\ Unlock
  /\ UNCHANGED <<ring, rblk, wblk, ret>>

-----------------------------------------------------------------------------
\* The steps of an operation that was called.
PushStep == PushActive \/ PushLength \/ PushWait \/ PushRefuse \/ PushReserve
              \/ PushCommit
PopStep  == PopLength \/ PopWait \/ PopShutdown \/ PopTake \/ PopCommit
FinalizeStep(t) == FinalizeActive(t) \/ Finalize(t)

QueueStep(t) ==
  \/ MutexLock(t)
  \/ t = Reader /\ PushStep
  \/ t = Writer /\ PopStep
  \/ FinalizeStep(t)

\* What the users of the queue do.
Use ==
  \/ PushCall \/ PushCommitCall \/ \E v \in Data : Fill(v)
  \/ PopCall \/ PopCommitCall
  \/ \E t \in Threads : FinalizeCall(t)

Next ==
  \/ Use
  \/ \E t \in Threads : QueueStep(t) \/ SpuriousWakeup(t)

Spec == Init /\ [][Next]_qvars

-----------------------------------------------------------------------------
(***************************************************************************)
(* Safety.                                                                 *)
(***************************************************************************)

\* Where each thread can be: only the reader pushes, only the writer pops.
Labels(t) ==
  {"idle", "fin_active", "fin_slow", "done"}
    \cup (IF t = Reader
            THEN {"push_active", "push_length", "push_slow", "push_commit"}
            ELSE {})
    \cup (IF t = Writer THEN {"pop_length", "pop_slow", "pop_commit"} ELSE {})

\* The type of every variable of jp_queue_t and of the threads' locals; in
\* particular the unsigned counter "length" never wraps below zero and never
\* passes the capacity.
TypeOK ==
  /\ head \in Slots /\ tail \in Slots
  /\ length \in 0 .. Capacity
  /\ active \in BOOLEAN
  /\ blocks \in [Slots -> Data \cup {Empty}]
  /\ lock \in Threads \cup {NoThread}
  /\ notFull \subseteq {Reader} /\ notEmpty \subseteq {Writer}
  /\ rblk \in Slots \cup {NoBlock} /\ wblk \in Slots \cup {NoBlock}
  /\ pc \in [Threads -> {"idle", "done"} \cup FastPath \cup Section]
  /\ \A t \in Threads : pc[t] \in Labels(t)
  /\ ret \in [Threads -> {"none", "ok", "drop", "shutdown"}]

\* The k-th slot of the ring counted from the head.
Slot(k) == IF head + k < Capacity THEN head + k ELSE head + k - Capacity

\* Whoever holds the mutex is in a critical section and does not wait.
LockInv ==
  lock # NoThread => pc[lock] \in Section /\ lock \notin notFull \cup notEmpty

\* The cursors and the counter describe the same ring, and every committed
\* slot holds data.
RingInv ==
  /\ tail = Slot(length)
  /\ \A k \in 0 .. length - 1 : blocks[Slot(k)] \in Data

\* The reader can only hold the first free slot, and commits only data.
ReaderInv ==
  /\ rblk # NoBlock => rblk = tail /\ length < Capacity
  /\ pc[Reader] \in {"push_active", "push_length", "push_slow"} => rblk = NoBlock
  /\ pc[Reader] = "push_commit" => rblk # NoBlock /\ blocks[rblk] \in Data

\* The writer can only hold the oldest committed slot.
WriterInv ==
  /\ wblk # NoBlock => wblk = head /\ length > 0
  /\ pc[Writer] \in {"pop_length", "pop_slow"} => wblk = NoBlock
  /\ pc[Writer] = "pop_commit" => wblk # NoBlock
  /\ ret[Writer] = "shutdown" =>
       /\ ~active /\ wblk = NoBlock
       /\ pc[Writer] \in {"idle", "fin_active", "fin_slow", "done"}

\* A thread sleeps on a condition variable only as long as what it waits for
\* has not happened: no commit and no finalize slips in between the test of
\* the loop and the wait (queue.c 70-74, 107-111).
NoLostWakeup ==
  /\ Reader \in notFull =>
       At(Reader, "push_slow") /\ Policy = "wait" /\ active /\ ~HasRoom
  /\ Writer \in notEmpty =>
       At(Writer, "pop_slow") /\ active /\ length = 0

IInv ==
  TypeOK /\ LockInv /\ RingInv /\ ReaderInv /\ WriterInv /\ NoLostWakeup

\* Reader and writer work on their blocks without a lock, so the fast paths
\* must never hand the same block to both.
NoSharedBlock == rblk = wblk => rblk = NoBlock

\* What the writer is draining is not overwritten until it commits the pop.
HeldBlockStable ==
  [][wblk # NoBlock /\ wblk' # NoBlock =>
       wblk' = wblk /\ blocks'[wblk] = blocks[wblk]]_qvars

-----------------------------------------------------------------------------
(***************************************************************************)
(* The queue implements the channel.                                       *)
(***************************************************************************)
chan     == [k \in 1 .. length |-> blocks[Slot(k - 1)]]
admitted == pc[Reader] \in {"push_length", "push_slow"} \/ rblk # NoBlock
eos      == ret[Writer] = "shutdown"

C == INSTANCE Channel WITH
       chan <- chan, open <- active, admitted <- admitted, eos <- eos,
       Lossy <- (Policy = "drop")

\* Committed blocks come out once, in order and unchanged; only a full DROP
\* queue or a finalized one refuses a push; the writer is told of the
\* shutdown only when every committed block was popped.
ImplementsChannel == C!Spec

-----------------------------------------------------------------------------
(***************************************************************************)
(* Liveness.                                                               *)
(*                                                                         *)
(* A thread that runs inside the queue keeps running: weak fairness of its *)
(* steps.  The mutex is contended by design, a default pthread mutex does  *)
(* not hand over in order, so that a thread that asks while the mutex      *)
(* becomes free again and again gets it is strong fairness of MutexLock.   *)
(* The writer's client never stops between two calls.                      *)
(***************************************************************************)
FairQueue ==
  \A t \in Threads :
    /\ SF_qvars(MutexLock(t))
    /\ WF_qvars(t = Reader /\ PushStep)
    /\ WF_qvars(t = Writer /\ PopStep)
    /\ WF_qvars(FinalizeStep(t))

FairWriter == WF_qvars(PopCall) /\ WF_qvars(PopCommitCall)

LiveSpec == Spec /\ FairQueue /\ FairWriter

\* The writer may stop for good while it holds a block (a stuck output).
StuckWriterSpec == Spec /\ FairQueue

\* A reader that calls jp_queue_push_uncommitted gets an answer: under WAIT
\* because the writer pops or somebody finalizes, under DROP by itself.
PushAnswered == At(Reader, "push_active") ~> At(Reader, "idle")

\* Once the queue is finalized the writer drains it and is told so, or leaves
\* by itself, and nobody stays behind inside the queue.
FinalizeEndsStream ==
  ~active ~> /\ ret[Writer] = "shutdown" \/ At(Writer, "done")
             /\ \A t \in Threads : pc[t] \in {"idle", "done"}

=============================================================================
