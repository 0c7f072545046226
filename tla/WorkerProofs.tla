---------------------------- MODULE WorkerProofs ----------------------------
(***************************************************************************)
(* Proofs about Worker, for every capacity, policy and data, with or       *)
(* without faults.                                                         *)
(***************************************************************************)
EXTENDS Worker, TLAPS

-----------------------------------------------------------------------------
(***************************************************************************)
(* The error contexts.                                                     *)
(***************************************************************************)

\* Every way to raise leaves a context, with what fits of the detail.
LEMMA ContextTypes ==
  /\ Clean \in Contexts /\ ~IsRaised(Clean)
  /\ \A e \in Codes, n \in Nat : Raised(e) \in Contexts /\ RaisedF(e, n) \in Contexts
  /\ \A e \in Codes, no \in Nat :
       RaisedPosix(e, no) \in Contexts /\ (IsRaised(RaisedPosix(e, no)) <=> e # "OK")
<1>1. \A n \in Nat : AtMost(n, MsgMax - 1) \in 0 .. MsgMax - 1
  BY DEF AtMost, MsgMax
<1>2. 0 \in 0 .. MsgMax - 1 /\ "OK" \in Codes
  BY DEF MsgMax, Codes
<1> QED BY <1>1, <1>2 DEF Clean, Raised, RaisedF, RaisedPosix, Context, Contexts, IsRaised

\* The row of any context fits the buffer of jp_errno_ctx_print, however long
\* the texts of the system are.
LEMMA RowFits ==
  ASSUME NEW c \in Contexts
  PROVE  RowLen(c) <= RowMax
<1>1. ASSUME NEW n \in Nat PROVE Text128(n) \in 0 .. 128
  BY DEF Text128, AtMost, MsgMax
<1>2. c.detail \in Nat
  BY DEF Contexts
<1>3. Text128(TextLen) \in 0 .. 128 /\ Text128(c.detail) \in 0 .. 128
  BY <1>1, <1>2, TextAssumption
<1> DEFINE t == Text128(TextLen)
           d == Text128(c.detail)
<1>4. t \in Nat /\ t <= 128 /\ d \in Nat /\ d <= 128
  BY <1>3
<1>5. RowLen(c) = 18 + t + (IF c.detail > 0 THEN 3 + d ELSE 0)
                    + (IF c.src = "posix" /\ c.sys_err > 0 THEN 7 + IntLen + t ELSE 0)
                    + (IF c.src # "none" THEN 6 + t + IntLen ELSE 0) + 2
  BY DEF RowLen
<1> HIDE DEF t, d
<1> QED BY <1>4, <1>5 DEF RowMax, MsgMax, IntLen

-----------------------------------------------------------------------------
\* The threads are different.
LEMMA ThreadFacts ==
  /\ Reader \in Threads /\ Writer \in Threads /\ Main \in Threads /\ Watcher \in Threads
  /\ Workers \subseteq Threads /\ NoThread \notin Threads
  /\ Main \notin Workers /\ Watcher \notin Workers /\ Main # Watcher
  BY WorkerThreads, ThreadAssumption
  DEF Threads, Workers, Reader, Writer, Main, Watcher, NoThread

LEMMA InitWInv == WInit => WInv
<1> SUFFICES ASSUME WInit PROVE WInv
  OBVIOUS
<1>1. WTypeOK
  BY ContextTypes, ThreadFacts DEF WInit, Init, WTypeOK
<1>2. InsideInv /\ JoinInv
  BY ThreadFacts DEF WInit, Init, InsideInv, JoinInv, At, Reader
<1>3. BlameInv /\ FailureExplained
  BY ContextTypes, ThreadFacts DEF WInit, Init, BlameInv, FailureExplained, Reader
<1> QED BY <1>1, <1>2, <1>3 DEF WInv

-----------------------------------------------------------------------------
(***************************************************************************)
(* The steps, as far as they are steps of the queue.                       *)
(***************************************************************************)
QueueTypeOK ==
  /\ pc \in [Threads -> {"idle", "done", "unwind", "cleanup", "relock"}
                          \cup FastPath \cup Section]
  /\ lock \in Threads \cup {NoThread} /\ exited \subseteq Threads

Leaving == {"fin_active", "fin_slow", "done"}

\* What the queue does keeps the queue's part of the invariant, and a thread
\* that is leaving goes on leaving.
QueuePart ==
  /\ QueueTypeOK' /\ InsideInv'
  /\ \A t \in Threads : pc[t] \in Leaving => pc'[t] \in Leaving

\* The steps of an operation that was called.
LEMMA QueueStepInside ==
  ASSUME QueueTypeOK, InsideInv, NEW t \in Threads, QueueStep(t),
         UNCHANGED <<created, cancelled, exited>>
  PROVE  QueuePart
<1> USE ThreadFacts
    DEF QueueTypeOK, InsideInv, QueuePart, Leaving, FastPath, Section, NoThread, Reader, Writer,
        Workers, ring, sync, At, Goto, Return, InSection, Unlock
<1>1. CASE MutexLock(t)
  BY <1>1 DEF MutexLock
<1>2. CASE PushActive
  BY <1>2 DEF PushActive
<1>3. CASE PushLength
  BY <1>3, ZenonT(40) DEF PushLength, Reserve
<1>4. CASE PushWait
  BY <1>4 DEF PushWait
<1>5. CASE PushRefuse
  <2>1. /\ pc[Reader] = "push_slow" /\ lock = Reader /\ lock' = NoThread
        /\ pc' = [pc EXCEPT ![Reader] = "idle"]
        /\ UNCHANGED <<active, notFull, notEmpty>>
    BY <1>5 DEF PushRefuse
  <2> QED BY <2>1, ZenonT(40)
<1>6. CASE PushReserve
  BY <1>6, ZenonT(40) DEF PushReserve, Reserve
<1>7. CASE PushCommit
  <2>1. notEmpty' \subseteq notEmpty
    BY <1>7 DEF PushCommit, Signalled
  <2> QED BY <1>7, <2>1, ZenonT(40) DEF PushCommit
<1>8. CASE PopLength
  BY <1>8, ZenonT(40) DEF PopLength, Take
<1>9. CASE PopWait
  BY <1>9 DEF PopWait
<1>10. CASE PopShutdown
  BY <1>10 DEF PopShutdown
<1>11. CASE PopTake
  BY <1>11, ZenonT(40) DEF PopTake, Take
<1>12. CASE PopCommit
  <2>1. notFull' \subseteq notFull
    BY <1>12 DEF PopCommit, Signalled
  <2> QED BY <1>12, <2>1, ZenonT(40) DEF PopCommit
<1>13. CASE FinalizeActive(t)
  BY <1>13 DEF FinalizeActive
<1>14. CASE Finalize(t)
  BY <1>14 DEF Finalize
<1> QED
  BY <1>1, <1>2, <1>3, <1>4, <1>5, <1>6, <1>7, <1>8, <1>9, <1>10, <1>11, <1>12, <1>13, <1>14
  DEF QueueStep, PushStep, PopStep, FinalizeStep

\* A thread outside the queue calls one of its operations.
LEMMA CallInside ==
  ASSUME QueueTypeOK, InsideInv, NEW t \in Threads, At(t, "idle"),
         NEW l \in FastPath \cup Section, Goto(t, l),
         UNCHANGED <<active, lock, notFull, notEmpty, exited, created, cancelled>>,
         t \in Workers => t \in created
  PROVE  QueuePart
  BY ThreadFacts
  DEF QueueTypeOK, InsideInv, QueuePart, Leaving, FastPath, Section, NoThread, Reader, Writer,
      Workers, At, Goto

\* Cancellation in pthread_cond_wait, the mutex, and the cleanup handler.
LEMMA CancelInside ==
  ASSUME QueueTypeOK, InsideInv, NEW t \in Workers,
         CancelInWait(t) \/ CancelledLock(t) \/ CancelledFinalize(t)
  PROVE  QueuePart
<1>0. t \in created /\ UNCHANGED <<active, created, cancelled, exited>>
  BY DEF CancelInWait, CancelledLock, CancelledFinalize, Running, mvars, life
<1> USE ThreadFacts
    DEF QueueTypeOK, InsideInv, QueuePart, Leaving, NoThread, Reader, Writer, Workers, At, Goto
<1>1. CASE CancelInWait(t)
  <2>1. /\ t \in cancelled /\ lock' = lock /\ lock # t
        /\ pc' = [pc EXCEPT ![t] = "unwind"] /\ pc[t] \in {"push_slow", "pop_slow"}
        /\ notFull' = notFull \ {t} /\ notEmpty' = notEmpty \ {t}
    BY <1>1 DEF CancelInWait
  <2> QED BY <1>0, <2>1
<1>2. CASE CancelledLock(t)
  <2>1. /\ pc[t] = "unwind" /\ lock' = t
        /\ pc' = [pc EXCEPT ![t] = "cleanup"] /\ UNCHANGED <<notFull, notEmpty>>
    BY <1>2 DEF CancelledLock
  <2> QED BY <1>0, <2>1
<1>3. CASE CancelledFinalize(t)
  <2>1. /\ pc[t] = "cleanup" /\ UNCHANGED <<lock, notFull, notEmpty>> /\ t \in cancelled
        /\ pc' = [pc EXCEPT ![t] = IF active THEN "relock" ELSE "done"]
    BY <1>3 DEF CancelledFinalize, sync
  <2> QED BY <1>0, <2>1
<1> QED BY <1>1, <1>2, <1>3

\* A wakeup without a signal.
LEMMA SpuriousInside ==
  ASSUME QueueTypeOK, InsideInv, NEW t \in Workers, Spurious(t)
  PROVE  QueuePart
  BY ThreadFacts
  DEF Spurious, SpuriousWakeup, QueueTypeOK, InsideInv, QueuePart, At, mvars, life

\* Nothing of the queue changes.
LEMMA SameInside ==
  ASSUME QueueTypeOK, InsideInv, UNCHANGED <<pc, lock, notFull, notEmpty, active, exited>>,
         created \subseteq created', cancelled \subseteq cancelled'
  PROVE  QueuePart
  BY DEF QueueTypeOK, InsideInv, QueuePart, At

-----------------------------------------------------------------------------
(***************************************************************************)
(* The invariant.                                                          *)
(***************************************************************************)
LEMMA WInvQueueType == WInv => QueueTypeOK
  BY ThreadFacts DEF WInv, WTypeOK, JoinInv, QueueTypeOK

\* A step of the queue alone.
LEMMA QueueOnly ==
  ASSUME WInv, QueuePart, UNCHANGED mvars
  PROVE  WInv'
<1>1. WTypeOK'
  BY DEF WInv, WTypeOK, QueuePart, QueueTypeOK, mvars, life, errs
<1>2. JoinInv' /\ FailureExplained'
  BY DEF WInv, JoinInv, FailureExplained, mvars, life, errs
<1>3. BlameInv'
  BY ThreadFacts DEF WInv, BlameInv, QueuePart, Leaving, mvars, life, errs
<1> QED BY <1>1, <1>2, <1>3 DEF WInv, QueuePart

\* A worker returns from its loop and finalizes the queue.
LEMMA LeaveKeeps ==
  ASSUME WInv, NEW t \in Workers, Running(t), FinalizeCall(t),
         NEW e \in {"OK", "EREAD_FAILED", "EWRITE_FAILED"}, NEW no \in Nat, Returns(t, e, no)
  PROVE  WInv'
<1>0. /\ QueueTypeOK /\ InsideInv /\ t \in Threads /\ t \in created /\ t \notin exited
      /\ mpc # "end" /\ At(t, "idle") /\ t # Main /\ t # Watcher /\ e \in Codes
  BY WInvQueueType, ThreadFacts DEF WInv, Running, FinalizeCall, Codes
<1>1. QueuePart /\ pc'[t] = "fin_active"
  <2>1. QueuePart
    BY <1>0, CallInside DEF FinalizeCall, Returns, life, sync, FastPath
  <2> QED BY <1>0, <2>1 DEF FinalizeCall, Goto, QueueTypeOK
<1>2. /\ result[t] = "OK" /\ ~IsRaised(error[t])
  BY <1>0 DEF WInv, BlameInv, At
<1>3. /\ result' = [result EXCEPT ![t] = e]
      /\ error' = [error EXCEPT ![t] = IF e = "OK" THEN error[t] ELSE RaisedPosix(e, no)]
      /\ UNCHANGED <<created, cancelled, exited, mpc, destroyed, failure, printed>>
  BY DEF Returns, life
<1>4. /\ result' \in [Workers -> {"OK", "EREAD_FAILED", "EWRITE_FAILED"}] /\ result'[t] = e
      /\ \A u \in Workers : u # t => result'[u] = result[u]
  BY <1>3 DEF WInv, WTypeOK
<1>5. /\ error' \in [Threads -> Contexts] /\ (IsRaised(error'[t]) <=> e # "OK")
      /\ \A u \in Threads : u # t => error'[u] = error[u]
  <2>1. RaisedPosix(e, no) \in Contexts /\ (IsRaised(RaisedPosix(e, no)) <=> e # "OK")
    BY <1>0, ContextTypes
  <2> QED BY <1>0, <1>2, <1>3, <2>1 DEF WInv, WTypeOK
<1>6. WTypeOK'
  BY <1>1, <1>3, <1>4, <1>5 DEF WInv, WTypeOK, QueuePart, QueueTypeOK
<1>7. JoinInv' /\ FailureExplained'
  BY <1>3 DEF WInv, JoinInv, FailureExplained
<1>8. BlameInv'
  <2>1. ASSUME NEW u \in Workers
        PROVE  /\ result'[u] # "OK" => pc'[u] \in Leaving
               /\ result'[u] # "OK" <=> (IF u \in exited THEN u \in printed ELSE IsRaised(error'[u]))
    BY <1>0, <1>1, <1>4, <1>5, <2>1, ThreadFacts DEF WInv, BlameInv, QueuePart, Leaving
  <2>2. error'[Main] = error[Main] /\ error'[Watcher] = error[Watcher]
    BY <1>0, <1>5, ThreadFacts
  <2> QED BY <1>0, <1>3, <2>1, <2>2 DEF WInv, BlameInv, Leaving
<1> QED BY <1>1, <1>6, <1>7, <1>8 DEF WInv, QueuePart

\* A thread exits, and what it has raised is printed.
LEMMA ExitKeeps ==
  ASSUME WInv, NEW t \in Workers \cup {Watcher}, ThreadExit(t)
  PROVE  WInv'
<1>0. /\ QueueTypeOK /\ InsideInv /\ t \in Threads /\ t \in created /\ t \notin exited
      /\ mpc # "end" /\ At(t, "done") /\ t # Main
  BY WInvQueueType, ThreadFacts DEF WInv, Running, ThreadExit
<1>1. /\ exited' = exited \cup {t}
      /\ printed' = printed \cup {x \in {t} : IsRaised(error[x])}
      /\ error' = [error EXCEPT ![t] = Clean]
      /\ UNCHANGED <<pc, lock, notFull, notEmpty, active, created, cancelled, mpc, destroyed,
                     result, failure>>
  BY DEF ThreadExit, Dump, qvars
<1>2. WTypeOK'
  BY <1>1, ContextTypes DEF WInv, WTypeOK
<1>3. InsideInv'
  BY <1>0, <1>1 DEF InsideInv, At
<1>4. JoinInv' /\ FailureExplained'
  BY <1>0, <1>1 DEF WInv, JoinInv, FailureExplained
<1>5. BlameInv'
  <2>1. /\ \A u \in Threads : u # t => error'[u] = error[u]
        /\ error'[Main] = error[Main] /\ ~IsRaised(error'[Watcher])
    BY <1>0, <1>1, ThreadFacts, ContextTypes DEF WInv, WTypeOK, BlameInv
  <2>2. printed' = IF IsRaised(error[t]) THEN printed \cup {t} ELSE printed
    BY <1>1
  <2>3. printed' \subseteq Workers \cap exited'
    BY <1>0, <1>1, <2>2, ThreadFacts DEF WInv, BlameInv
  <2>4. ASSUME NEW u \in Workers
        PROVE  /\ result[u] # "OK" => pc[u] \in {"fin_active", "fin_slow", "done"}
               /\ result[u] # "OK" <=>
                    (IF u \in exited' THEN u \in printed' ELSE IsRaised(error'[u]))
    BY <1>0, <1>1, <2>1, <2>2, ThreadFacts DEF WInv, BlameInv
  <2>5. mpc \in {"finalize", "destroyed"} => printed' = printed
    BY <1>0, <1>1, <2>2, ThreadFacts DEF WInv, BlameInv, JoinInv
  <2> QED BY <1>0, <1>1, <2>1, <2>3, <2>4, <2>5 DEF WInv, BlameInv
<1> QED BY <1>2, <1>3, <1>4, <1>5 DEF WInv

\* The steps of the main thread.
LEMMA MainKeeps ==
  ASSUME WInv, MainStep
  PROVE  WInv'
<1>0. QueueTypeOK /\ InsideInv /\ Main \in Threads /\ Watcher \in Threads
  BY WInvQueueType, ThreadFacts DEF WInv
<1> USE DEF errs, life
<1>1. CASE \E t \in {Reader, Writer, Watcher} : Create(t)
  <2>1. PICK t \in {Reader, Writer, Watcher} : Create(t)
    BY <1>1
  <2>2. /\ mpc = t /\ created' = created \cup {t}
        /\ mpc' \in {Writer, Watcher, "join"} /\ (t = Watcher => mpc' = "join")
        /\ UNCHANGED <<pc, lock, notFull, notEmpty, active, exited, cancelled, destroyed, error, result,
                       failure, printed>>
    BY <2>1 DEF Create, After, qvars, Reader, Writer, Watcher
  <2>3. QueuePart
    BY <1>0, <2>2, SameInside
  <2>4. WTypeOK' /\ JoinInv' /\ FailureExplained' /\ BlameInv'
    BY <2>2
    DEF WInv, WTypeOK, JoinInv, FailureExplained, BlameInv, Workers, Reader, Writer, Watcher
  <2> QED BY <2>3, <2>4 DEF WInv, QueuePart
<1>2. CASE \E t \in {Reader, Writer, Watcher} : CreateFails(t)
  <2>1. PICK t \in {Reader, Writer, Watcher} : CreateFails(t)
    BY <1>2
  <2>2. /\ mpc = t /\ mpc' = "cancel" /\ failure' = TRUE
        /\ error' = [error EXCEPT ![Main] = RaisedPosix("ESYS_ERR", 1)]
        /\ UNCHANGED <<pc, lock, notFull, notEmpty, active, exited, created, cancelled, destroyed,
                       result, printed>>
    BY <2>1 DEF CreateFails, qvars
  <2>3. QueuePart
    BY <1>0, <2>2, SameInside
  <2>4. /\ error' \in [Threads -> Contexts] /\ IsRaised(error'[Main])
        /\ \A u \in Threads : u # Main => error'[u] = error[u]
    <3>1. RaisedPosix("ESYS_ERR", 1) \in Contexts /\ IsRaised(RaisedPosix("ESYS_ERR", 1))
      BY ContextTypes DEF Codes
    <3> QED BY <1>0, <2>2, <3>1 DEF WInv, WTypeOK
  <2>5. WTypeOK' /\ JoinInv' /\ FailureExplained'
    BY <2>2, <2>4 DEF WInv, WTypeOK, JoinInv, FailureExplained, Reader, Writer, Watcher
  <2>6. BlameInv'
    BY <1>0, <2>2, <2>4, ThreadFacts DEF WInv, BlameInv, Reader, Writer, Watcher
  <2> QED BY <2>3, <2>5, <2>6 DEF WInv, QueuePart
<1>3. CASE Cancel
  <2>1. /\ mpc = "cancel" /\ mpc' = "join" /\ cancelled = {} /\ cancelled' = created
        /\ UNCHANGED <<pc, lock, notFull, notEmpty, active, exited, created, destroyed, error,
                       result, failure, printed>>
    BY <1>3 DEF Cancel, qvars, WInv, JoinInv
  <2>2. QueuePart
    BY <1>0, <2>1, SameInside
  <2>3. WTypeOK' /\ JoinInv' /\ FailureExplained' /\ BlameInv'
    BY <2>1
    DEF WInv, WTypeOK, JoinInv, FailureExplained, BlameInv, Reader, Writer, Watcher
  <2> QED BY <2>2, <2>3 DEF WInv, QueuePart
<1>4. CASE Join
  <2>1. /\ mpc = "join" /\ mpc' = "finalize" /\ Workers \cap created \subseteq exited
        /\ failure' = JoinedErr /\ FinalizeCall(Main)
        /\ UNCHANGED <<exited, created, cancelled, destroyed, error, result, printed>>
    BY <1>4 DEF Join, Workers
  <2>2. QueuePart
    BY <1>0, <2>1, ThreadFacts, CallInside DEF FinalizeCall, sync, FastPath
  <2>3. WTypeOK' /\ JoinInv' /\ FailureExplained'
    BY <2>1, <2>2
    DEF WInv, WTypeOK, JoinInv, FailureExplained, JoinedErr, QueuePart, QueueTypeOK,
        Reader, Writer, Watcher
  <2>4. failure' <=> IsRaised(error[Main]) \/ printed # {}
    <3>1. failure <=> IsRaised(error[Main])
      BY <2>1 DEF WInv, BlameInv
    <3>2. (\E t \in Workers \cap created : result[t] # "OK") <=> printed # {}
      BY <2>1 DEF WInv, BlameInv, JoinInv
    <3> QED BY <2>1, <3>1, <3>2 DEF JoinedErr
  <2>5. BlameInv'
    BY <2>1, <2>2, <2>4, ThreadFacts DEF WInv, BlameInv, QueuePart, Leaving
  <2> QED BY <2>2, <2>3, <2>5 DEF WInv, QueuePart
<1>5. CASE Destroy
  <2>1. /\ mpc = "finalize" /\ mpc' = "destroyed" /\ destroyed'
        /\ UNCHANGED <<pc, lock, notFull, notEmpty, active, exited, created, cancelled, error,
                       result, failure, printed>>
    BY <1>5 DEF Destroy, qvars
  <2>2. QueuePart
    BY <1>0, <2>1, SameInside
  <2>3. WTypeOK' /\ JoinInv' /\ FailureExplained' /\ BlameInv'
    BY <2>1
    DEF WInv, WTypeOK, JoinInv, FailureExplained, BlameInv, Reader, Writer, Watcher
  <2> QED BY <2>2, <2>3 DEF WInv, QueuePart
<1>6. CASE ProcessExit
  <2>1. /\ mpc = "destroyed" /\ mpc' = "end"
        /\ printed' = printed \cup {x \in {Main} : IsRaised(error[x])}
        /\ UNCHANGED <<pc, lock, notFull, notEmpty, active, exited, created, cancelled, destroyed,
                       error, result, failure>>
    BY <1>6 DEF ProcessExit, Dump, qvars
  <2>2. QueuePart
    BY <1>0, <2>1, SameInside
  <2>3. WTypeOK' /\ JoinInv' /\ BlameInv'
    BY <2>1 DEF WInv, WTypeOK, JoinInv, BlameInv, Reader, Writer, Watcher
  <2>4. FailureExplained'
    BY <2>1 DEF WInv, BlameInv, FailureExplained
  <2> QED BY <2>2, <2>3, <2>4 DEF WInv, QueuePart
<1> QED BY <1>1, <1>2, <1>3, <1>4, <1>5, <1>6 DEF MainStep

\* An allocation fails: the process ends, and says so.
LEMMA OutOfMemoryKeeps ==
  ASSUME WInv, NEW t \in Workers, OutOfMemory(t)
  PROVE  WInv'
<1>0. QueueTypeOK /\ InsideInv /\ t \in Threads
  BY WInvQueueType, ThreadFacts DEF WInv
<1>1. /\ error' = [error EXCEPT ![t] = RaisedPosix("ENOMEMORY", 1)]
      /\ printed' = printed \cup {t} /\ mpc' = "end" /\ failure' = TRUE /\ mpc # "end"
      /\ UNCHANGED <<pc, lock, notFull, notEmpty, active, exited, created, cancelled, destroyed, result>>
      /\ t \in created \ exited
  BY DEF OutOfMemory, Running, qvars
<1>2. QueuePart
  BY <1>0, <1>1, SameInside
<1>3. WTypeOK'
  <2>1. RaisedPosix("ENOMEMORY", 1) \in Contexts
    BY ContextTypes DEF Codes
  <2> QED BY <1>0, <1>1, <2>1 DEF WInv, WTypeOK
<1>4. JoinInv' /\ FailureExplained' /\ BlameInv'
  BY <1>0, <1>1 DEF WInv, JoinInv, FailureExplained, BlameInv, Reader, Writer, Watcher
<1> QED BY <1>2, <1>3, <1>4 DEF WInv, QueuePart

\* Every step keeps the invariant.
LEMMA StepWInv == WInv /\ [WNext]_vars => WInv'
<1> SUFFICES ASSUME WInv, [WNext]_vars PROVE WInv'
  OBVIOUS
<1>0. /\ QueueTypeOK /\ InsideInv
      /\ Reader \in Threads /\ Writer \in Threads /\ Watcher \in Threads
      /\ Reader \in Workers /\ Writer \in Workers /\ Watcher \notin Workers
  BY WInvQueueType, ThreadFacts DEF WInv, Workers
<1>a. UNCHANGED mvars => UNCHANGED <<created, cancelled, exited>>
  BY DEF mvars, life
<1>1. CASE MainStep
  BY <1>1, MainKeeps
<1>2. CASE ReaderUse
  <2>1. Reader \in created /\ UNCHANGED mvars
    BY <1>2 DEF ReaderUse, Running
  <2>2. CASE PushCall
    <3>1. QueuePart
      BY <1>0, <1>a, <2>1, <2>2, CallInside DEF PushCall, sync, FastPath
    <3> QED BY <2>1, <3>1, QueueOnly
  <2>3. CASE PushCommitCall
    <3>1. QueuePart
      BY <1>0, <1>a, <2>1, <2>3, CallInside DEF PushCommitCall, sync, Section
    <3> QED BY <2>1, <3>1, QueueOnly
  <2>4. CASE \E v \in Data : Fill(v)
    <3>1. QueuePart
      BY <1>0, <1>a, <2>1, <2>4, SameInside DEF Fill, sync
    <3> QED BY <2>1, <3>1, QueueOnly
  <2> QED BY <1>2, <2>2, <2>3, <2>4 DEF ReaderUse
<1>3. CASE ReaderLeaves
  BY <1>0, <1>3, LeaveKeeps DEF ReaderLeaves
<1>4. CASE WriterUse
  <2>1. Writer \in created /\ UNCHANGED mvars
    BY <1>4 DEF WriterUse, Running
  <2>2. CASE PopCall
    <3>1. QueuePart
      BY <1>0, <1>a, <2>1, <2>2, CallInside DEF PopCall, sync, FastPath
    <3> QED BY <2>1, <3>1, QueueOnly
  <2>3. CASE PopCommitCall
    <3>1. QueuePart
      BY <1>0, <1>a, <2>1, <2>3, CallInside DEF PopCommitCall, sync, Section
    <3> QED BY <2>1, <3>1, QueueOnly
  <2> QED BY <1>4, <2>2, <2>3 DEF WriterUse
<1>5. CASE WriterLeaves
  BY <1>0, <1>5, LeaveKeeps DEF WriterLeaves
<1>6. CASE Signal
  <2>1. QueuePart
    BY <1>0, <1>a, <1>6, CallInside DEF Signal, FinalizeCall, sync, FastPath
  <2> QED BY <1>6, <2>1, QueueOnly DEF Signal
<1>7. ASSUME NEW t \in Workers, CancelOutside(t) PROVE WInv'
  <2>1. QueuePart
    BY <1>0, <1>a, <1>7, ThreadFacts, CallInside
    DEF CancelOutside, Running, FinalizeCall, sync, FastPath
  <2> QED BY <1>7, <2>1, QueueOnly DEF CancelOutside
<1>8. ASSUME NEW t \in Workers, CancelInWait(t) \/ CancelledLock(t) \/ CancelledFinalize(t)
      PROVE  WInv'
  <2>1. QueuePart
    BY <1>0, <1>8, CancelInside
  <2> QED BY <1>8, <2>1, QueueOnly DEF CancelInWait, CancelledLock, CancelledFinalize
<1>b. ASSUME NEW t \in Workers, Spurious(t) PROVE WInv'
  <2>1. QueuePart
    BY <1>0, <1>b, SpuriousInside
  <2> QED BY <1>b, <2>1, QueueOnly DEF Spurious
<1>9. ASSUME NEW t \in Workers, OutOfMemory(t) PROVE WInv'
  BY <1>9, OutOfMemoryKeeps
<1>10. ASSUME NEW t \in Workers \cup {Watcher}, ThreadExit(t) PROVE WInv'
  BY <1>10, ExitKeeps
<1>11. ASSUME NEW t \in Threads, InQueue(t) PROVE WInv'
  <2>1. QueuePart
    BY <1>0, <1>a, <1>11, QueueStepInside DEF InQueue
  <2> QED BY <1>11, <2>1, QueueOnly DEF InQueue
<1>12. CASE UNCHANGED vars
  <2>1. UNCHANGED mvars /\ UNCHANGED <<pc, lock, notFull, notEmpty, active>>
    BY <1>12 DEF vars, qvars
  <2>2. QueuePart
    BY <1>0, <1>a, <2>1, SameInside
  <2> QED BY <2>1, <2>2, QueueOnly
<1> QED BY <1>1, <1>2, <1>3, <1>4, <1>5, <1>6, <1>7, <1>8, <1>b, <1>9, <1>10, <1>11, <1>12
       DEF WNext

-----------------------------------------------------------------------------
(***************************************************************************)
(* The theorems.                                                           *)
(***************************************************************************)

\* The invariant of the threads' lives holds in every reachable state.
THEOREM WorkerInvariant == WSpec => []WInv
  BY InitWInv, StepWInv, PTL DEF WSpec

\* When jp_queue_destroy runs, no thread that was joined is inside the queue or
\* waits in it, whichever of the threads were created, failed or were
\* cancelled, and if all were created none of them has the mutex.
THEOREM WorkersAreGone == WSpec => []WorkersGoneAtDestroy
<1>1. WInv => WorkersGoneAtDestroy
  <2> SUFFICES ASSUME WInv, destroyed
               PROVE  /\ Workers \cap created \subseteq exited
                      /\ notFull = {} /\ notEmpty = {}
                      /\ Watcher \in created => lock \notin Workers
    BY DEF WorkersGoneAtDestroy
  <2>1. Workers \cap created \subseteq exited
    BY DEF WInv, JoinInv
  <2>2. \A t \in Workers : pc[t] \in {"idle", "done"}
    BY <2>1 DEF WInv, InsideInv, At
  <2>3. notFull = {} /\ notEmpty = {}
    BY <2>2 DEF WInv, InsideInv, At, Workers, Reader, Writer
  <2>4. ASSUME lock \in Workers PROVE lock \in cancelled
    BY <2>2, <2>4, ThreadFacts DEF WInv, InsideInv, Section
  <2> QED BY <2>1, <2>3, <2>4 DEF WInv, JoinInv
<1> QED BY <1>1, WorkerInvariant, PTL

\* The exit status is a failure exactly if a thread printed why.
THEOREM StatusExplained == WSpec => []FailureExplained
<1>1. WInv => FailureExplained
  BY DEF WInv
<1> QED BY <1>1, WorkerInvariant, PTL

\* The row of the error of any thread fits its buffer at any time, however long
\* the texts of the system are.
THEOREM RowsFit == WSpec => []ErrorRowFits
<1>1. WInv => ErrorRowFits
  BY RowFits DEF WInv, WTypeOK, ErrorRowFits
<1> QED BY <1>1, WorkerInvariant, PTL

=============================================================================
