------------------------------- MODULE Worker -------------------------------
(***************************************************************************)
(* The life of the threads: orchestrate_threads and the end of             *)
(* jp_wrk_exec (src/src/worker.c) around the queue.  The main thread       *)
(* starts the consumer (reader), the producer (writer) and a detached      *)
(* watcher, joins the first two, finalizes and destroys the queue, and     *)
(* the process ends.  If a thread cannot be created, the ones that run are *)
(* cancelled first.                                                        *)
(*                                                                         *)
(* Cancellation is deferred: it acts in a cancellation point, that is in   *)
(* epoll_wait, read or writev (outside the queue) or in pthread_cond_wait, *)
(* which takes the mutex again before the cleanup handler runs.  The       *)
(* handler finds the mutex held by its own thread: it locks it once more   *)
(* and hangs, or sees that the queue is finalized and ends without an      *)
(* unlock.                                                                 *)
(*                                                                         *)
(* Each thread has an error context of its own (Errno) and prints it when  *)
(* it ends; the exit status is computed from what the threads return.      *)
(***************************************************************************)
EXTENDS Queue, Errno

CONSTANT Faults     \* pthread_create, reads, writes, allocations can fail

Main    == "main"
Watcher == "watcher"
Workers == {Reader, Writer}

ASSUME WorkerThreads == Finalizers = {Main, Watcher}

VARIABLES
  created,      \* threads that were started
  cancelled,    \* threads asked to cancel
  exited,       \* threads that have ended
  mpc,          \* where the main thread is
  destroyed,    \* jp_queue_destroy was called
  error,        \* thread-local error context of errno.c
  result,       \* what jp_reader_consume, jp_writer_produce returned
  failure,      \* err of orchestrate_threads is not 0
  printed       \* history: threads that printed an error

life  == <<created, cancelled, exited, mpc, destroyed>>
errs  == <<error, result, failure, printed>>
mvars == <<life, errs>>
vars  == <<qvars, mvars>>

WInit ==
  /\ Init
  /\ created = {} /\ cancelled = {} /\ exited = {}
  /\ mpc = Reader
  /\ destroyed = FALSE
  /\ error = [t \in Threads |-> Clean]
  /\ result = [t \in Workers |-> "OK"]
  /\ failure = FALSE /\ printed = {}

Running(t) == t \in created \ exited /\ mpc # "end"

\* JP_ERRNO_DUMP.
Dump(t) == printed' = printed \cup {x \in {t} : IsRaised(error[x])}

-----------------------------------------------------------------------------
(***************************************************************************)
(* The main thread.                                                        *)
(***************************************************************************)

\* The three pthread_create, in this order.
After(t) == CASE t = Reader -> Writer [] t = Writer -> Watcher [] t = Watcher -> "join"

Create(t) ==
  /\ mpc = t
  /\ created' = created \cup {t}
  /\ mpc' = After(t)
  /\ UNCHANGED <<qvars, cancelled, exited, destroyed, errs>>

\* The rest is not created; the threads that run are cancelled.
CreateFails(t) ==
  /\ Faults /\ mpc = t
  /\ mpc' = "cancel"
  /\ failure' = TRUE
  /\ error' = [error EXCEPT ![Main] = RaisedPosix("ESYS_ERR", 1)]
  /\ UNCHANGED <<qvars, created, cancelled, exited, destroyed, result, printed>>

\* Variant that cancels the producer only.
CancelProducer ==
  /\ mpc = "cancel"
  /\ cancelled' = created \cap {Writer}
  /\ mpc' = "join"
  /\ UNCHANGED <<qvars, created, exited, destroyed, errs>>

Cancel ==
  /\ mpc = "cancel"
  /\ cancelled' = created
  /\ mpc' = "join"
  /\ UNCHANGED <<qvars, created, exited, destroyed, errs>>

\* Variant that assigns what it should add up.
JoinedErrLast == result[Writer] # "OK"

\* err += the value of each thread that was created; a cancelled one counts 0.
\* pthread_join itself has no error for a joinable thread that only main joins,
\* and pthread_cancel none for a thread that was not joined yet.
JoinedErr == failure \/ \E t \in Workers \cap created : result[t] # "OK"

\* Variant that joins the consumer only.
JoinConsumer ==
  /\ mpc = "join"
  /\ {Reader} \cap created \subseteq exited
  /\ mpc' = "finalize"
  /\ FinalizeCall(Main)
  /\ failure' = JoinedErr
  /\ UNCHANGED <<created, cancelled, exited, destroyed, error, result, printed>>

\* Both joins, then jp_queue_finalize.
Join ==
  /\ mpc = "join"
  /\ {Reader, Writer} \cap created \subseteq exited
  /\ mpc' = "finalize"
  /\ FinalizeCall(Main)
  /\ failure' = JoinedErr
  /\ UNCHANGED <<created, cancelled, exited, destroyed, error, result, printed>>

\* jp_queue_destroy, and the return from main, which ends every thread.
Destroy ==
  /\ mpc = "finalize" /\ At(Main, "done")
  /\ destroyed' = TRUE
  /\ mpc' = "destroyed"
  /\ UNCHANGED <<qvars, created, cancelled, exited, errs>>

ProcessExit ==
  /\ mpc = "destroyed"
  /\ mpc' = "end"
  /\ Dump(Main)
  /\ UNCHANGED <<qvars, created, cancelled, exited, destroyed, error, result, failure>>

MainStep ==
  \/ \E t \in {Reader, Writer, Watcher} : Create(t) \/ CreateFails(t)
  \/ Cancel \/ Join \/ Destroy \/ ProcessExit

-----------------------------------------------------------------------------
(***************************************************************************)
(* The threads.                                                            *)
(***************************************************************************)

\* jp_reader_consume fills each block it gets and commits it.  A pending
\* cancellation does not let read return.
ReaderUse ==
  /\ Running(Reader)
  /\ \/ PushCall \/ PushCommitCall
     \/ /\ rblk # NoBlock /\ blocks[rblk] = Empty
        /\ Reader \notin cancelled
        /\ \E v \in Data : Fill(v)
  /\ UNCHANGED mvars

\* A thread returns an error code, which it has raised, or 0.
Returns(t, e, no) ==
  /\ result' = [result EXCEPT ![t] = e]
  /\ error' = [error EXCEPT ![t] = IF e = "OK" THEN @ ELSE RaisedPosix(e, no)]
  /\ UNCHANGED <<life, failure, printed>>

\* The queue refused a push, the input ends, or poller or read fail.
ReaderLeaves ==
  /\ Running(Reader)
  /\ FinalizeCall(Reader)
  /\ \/ Returns(Reader, "OK", 0)
     \/ Faults /\ ret[Reader] # "shutdown" /\ Returns(Reader, "EREAD_FAILED", 1)

WriterUse ==
  /\ Running(Writer)
  /\ PopCall \/ PopCommitCall
  /\ UNCHANGED mvars

\* jp_writer_produce was told of the shutdown, or a write failed; a writev
\* that returns 0 need not have set errno.
WriterLeaves ==
  /\ Running(Writer)
  /\ FinalizeCall(Writer)
  /\ \/ ret[Writer] = "shutdown" /\ Returns(Writer, "OK", 0)
     \/ /\ Faults /\ wblk # NoBlock
        /\ \E no \in {0, 1} : Returns(Writer, "EWRITE_FAILED", no)

\* sigwait returns in the watcher.
Signal ==
  /\ Running(Watcher)
  /\ FinalizeCall(Watcher)
  /\ UNCHANGED mvars

\* pthread_exit.  The cleanup handler of reader and writer finalizes again,
\* which does nothing, and prints and resets the error.
ThreadExit(t) ==
  /\ Running(t) /\ At(t, "done")
  /\ exited' = exited \cup {t}
  /\ Dump(t)
  /\ error' = [error EXCEPT ![t] = Clean]
  /\ UNCHANGED <<qvars, created, cancelled, mpc, destroyed, result, failure>>

\* jp_mem_malloc and jp_mem_calloc print the error and abort.  Reader and
\* writer allocate before they use the queue.
OutOfMemory(t) ==
  /\ Faults /\ Running(t)
  /\ At(t, "idle") /\ ret[t] = "none"
  /\ error' = [error EXCEPT ![t] = RaisedPosix("ENOMEMORY", 1)]
  /\ printed' = printed \cup {t}
  /\ mpc' = "end" /\ failure' = TRUE
  /\ UNCHANGED <<qvars, created, cancelled, exited, destroyed, result>>

\* The request is met in a blocking call of the thread: thread_cleanup runs
\* jp_queue_finalize.
CancelOutside(t) ==
  /\ Running(t) /\ t \in cancelled
  /\ t = Writer => wblk # NoBlock
  /\ FinalizeCall(t)
  /\ UNCHANGED mvars

\* The request is met in pthread_cond_wait: the thread leaves the condition
\* variable and asks for the mutex.  (A thread that a signal has woken does
\* not use it up if it is cancelled, so this step comes before the signal.)
CancelInWait(t) ==
  /\ Running(t) /\ t \in cancelled
  /\ t \in notFull \cup notEmpty
  /\ notFull' = notFull \ {t} /\ notEmpty' = notEmpty \ {t}
  /\ Goto(t, "unwind")
  /\ UNCHANGED <<ring, active, lock, rblk, wblk, ret, mvars>>

\* The wait ends with the mutex, and thread_cleanup starts.
CancelledLock(t) ==
  /\ Running(t) /\ At(t, "unwind")
  /\ lock = NoThread
  /\ lock' = t
  /\ Goto(t, "cleanup")
  /\ UNCHANGED <<ring, active, notFull, notEmpty, rblk, wblk, ret, mvars>>

\* jp_queue_finalize by a thread that holds the mutex: it locks it a second
\* time ("relock"; the mutex is of the default kind, so nothing follows), or
\* returns at once, and the thread ends with the mutex.
CancelledFinalize(t) ==
  /\ Running(t) /\ At(t, "cleanup")
  /\ Goto(t, IF active THEN "relock" ELSE "done")
  /\ UNCHANGED <<ring, active, sync, rblk, wblk, ret, mvars>>

\* pthread_cond_wait returns without a signal.
Spurious(t) == Running(t) /\ SpuriousWakeup(t) /\ UNCHANGED mvars

InQueue(t) == QueueStep(t) /\ mpc # "end" /\ UNCHANGED mvars

WNext ==
  \/ MainStep
  \/ ReaderUse \/ ReaderLeaves \/ WriterUse \/ WriterLeaves \/ Signal
  \/ \E t \in Workers :
       \/ CancelOutside(t) \/ CancelInWait(t) \/ CancelledLock(t) \/ CancelledFinalize(t)
       \/ Spurious(t) \/ OutOfMemory(t)
  \/ \E t \in Workers \cup {Watcher} : ThreadExit(t)
  \/ \E t \in Threads : InQueue(t)

WSpec == WInit /\ [][WNext]_vars

\* Every thread that can run does; the mutex is granted to whoever keeps
\* asking; a request to cancel is met by whoever keeps calling
\* pthread_cond_wait.  The input need not end, and no signal need come, but a
\* reader that was refused a push leaves.
WLiveSpec ==
  /\ WSpec
  /\ WF_vars(MainStep)
  /\ WF_vars(WriterUse) /\ WF_vars(WriterLeaves /\ ret[Writer] = "shutdown")
  /\ WF_vars(ReaderLeaves /\ ret[Reader] = "shutdown")
  /\ \A t \in Workers :
       /\ WF_vars(CancelOutside(t)) /\ SF_vars(CancelInWait(t))
       /\ SF_vars(CancelledLock(t)) /\ WF_vars(CancelledFinalize(t))
  /\ \A t \in Workers \cup {Watcher} : WF_vars(ThreadExit(t))
  /\ \A t \in Threads : WF_vars(InQueue(t)) /\ SF_vars(MutexLock(t) /\ InQueue(t))

-----------------------------------------------------------------------------
\* When the queue is destroyed the threads that were joined are out of it, on
\* the error paths too, and nobody sleeps in it.  The mutex is not theirs
\* unless a thread could not be created: then a worker that was cancelled in
\* its sleep may have ended with it (queue.c 133-136 under thread_cleanup).
WorkersGoneAtDestroy ==
  destroyed =>
    /\ Workers \cap created \subseteq exited
    /\ notFull = {} /\ notEmpty = {}
    /\ Watcher \in created => lock \notin Workers

\* When a thread could not be created, the cancelled ones end, whatever they are
\* doing, and so does the process; the one exception is the worker that
\* locks the mutex it holds.  In particular a mutex left behind by a thread
\* that ended stops nobody.
CancelledEnd == mpc = "cancel" ~> mpc = "end" \/ \E t \in Workers : At(t, "relock")

\* Once the reader has left a process in which all threads were created, the
\* writer drains the queue, both are joined and the process ends.
ProcessEnds == At(Reader, "done") /\ Watcher \in created ~> mpc = "end"

\* The exit status tells a failure exactly if some thread said why on stderr,
\* whichever threads fail, are cancelled or never started.
FailureExplained == mpc = "end" => (failure <=> printed # {})

\* The row that jp_errno_ctx_print formats fits its buffer: the size it passes
\* on, size - offset, does not wrap.
ErrorRowFits == \A t \in Threads : RowLen(error[t]) <= RowMax

\* Whoever holds the mutex is inside the queue, or has ended after it was
\* cancelled in its sleep, when the queue was finalized before; whoever waits
\* is inside; a thread that was not created, or has exited, is not.
InsideInv ==
  /\ lock # NoThread => \/ pc[lock] \in Section \cup {"cleanup", "relock"}
                        \/ At(lock, "done") /\ lock \in cancelled /\ ~active
  /\ \A t \in Threads : pc[t] \in {"unwind", "cleanup", "relock"} => t \in cancelled
  /\ lock \notin notFull \cup notEmpty
  /\ notFull \subseteq {Reader} /\ (notFull # {} => active /\ At(Reader, "push_slow"))
  /\ notEmpty \subseteq {Writer} /\ (notEmpty # {} => active /\ At(Writer, "pop_slow"))
  /\ \A t \in Workers \ created : At(t, "idle")
  /\ \A t \in exited : At(t, "done")

\* Past the joins no worker is left, and none is created any more.  Threads
\* are cancelled only if one is missing.
JoinInv ==
  /\ cancelled \subseteq created
  /\ mpc \in {Reader, Writer, Watcher, "cancel"} => cancelled = {} /\ Watcher \notin created
  /\ Watcher \in created => cancelled = {}
  /\ exited \subseteq created
  /\ mpc \in {"finalize", "destroyed"} \/ destroyed => Workers \cap created \subseteq exited
  /\ destroyed => mpc \in {"destroyed", "end"}

\* Until the process ends, a worker that fails has its error raised until it
\* exits and printed from then on, and only then; main, which prints last,
\* counts its own failure before the joins and everybody's after them.
BlameInv ==
  mpc # "end" =>
    /\ printed \subseteq Workers \cap exited
    /\ \A t \in Workers :
         /\ result[t] # "OK" => pc[t] \in {"fin_active", "fin_slow", "done"}
         /\ result[t] # "OK" <=> (IF t \in exited THEN t \in printed ELSE IsRaised(error[t]))
    /\ ~IsRaised(error[Watcher])
    /\ failure <=> \/ IsRaised(error[Main])
                   \/ mpc \in {"finalize", "destroyed"} /\ printed # {}

\* The types, and the three parts: the inductive invariant.
WTypeOK ==
  /\ pc \in [Threads -> {"idle", "done", "unwind", "cleanup", "relock"}
                          \cup FastPath \cup Section]
  /\ lock \in Threads \cup {NoThread}
  /\ created \subseteq Workers \cup {Watcher}
  /\ error \in [Threads -> Contexts]
  /\ result \in [Workers -> {"OK", "EREAD_FAILED", "EWRITE_FAILED"}]
  /\ failure \in BOOLEAN

WInv == WTypeOK /\ InsideInv /\ JoinInv /\ BlameInv /\ FailureExplained

\* README: "Memory-Safe".  Nobody is inside the queue once it is destroyed.
NoUseAfterDestroy ==
  destroyed /\ mpc # "end" => \A t \in Threads : pc[t] \in {"idle", "done"}

=============================================================================
