# A TLA+ model of jpipe

jpipe copies its standard input to its output as one JSON record per line. Two
threads share a bounded queue of blocks: the *reader* (`jp_reader_consume`)
fills blocks from stdin, the *writer* (`jp_writer_produce`) cuts them into lines,
escapes them and writes records. A third thread, the *watcher*, waits for
SIGINT or SIGTERM, and the main thread starts, joins and cleans up.

Paths below are relative to the repository; line numbers refer to `src/src/`.

## Inventory

| Part | State | Operations | Interacts with | Hard about it |
|---|---|---|---|---|
| block queue, `queue.c` | ring of blocks, `head`, `tail`, atomics `length` and `active`, mutex, `not_full`, `not_empty` | two-phase push and pop, finalize, create, destroy | every thread calls it | lock-free fast paths, sleeping and waking, finalize by four threads at any time, full and empty ring |
| reader, `reader.c` | block in its hands, last queue error | poll, reserve, read, commit, drop, leave | queue, poller, stdin | one event per arrival, partly filled blocks, five ways out of the inner loop |
| poller, `poller/epoll.c`, `poller/kqueue.c` | edge-triggered registration | create, register, wait | reader | an event that is not used up is not reported again; kqueue makes stdin non-blocking, epoll does not |
| writer, `writer.c` | position in the block, overflow buffer, iovec | pop, scan, flush, keep, emit, commit, leave | queue, encoder, output | lines cut by blocks, buffer exactly full |
| output, `file.c` | the caller's iovec | `jp_file_writev` | writer, kernel | partial writes |
| JSON encoder, `json.c` | automaton of nine states, tables | prefix, value, postfix | writer, field set | which values go out bare, size of the buffers |
| field set, `field.c` | array of fields | create, add, destroy | options, encoder | replacing, full set |
| worker, `worker.c` | threads, options | create, cancel, join threads, destroy the queue | all of them | cancellation inside the queue, a detached thread, errors between two creations |
| options and commands, `worker.c`, `command.c`, `main.c` | options, output directory | dispatch, parse, make the directory, show texts, exit | worker, file system | bounds of numbers and lengths, a path made piece by piece |
| errors, `errno.c` | last error of each thread | raise, reset, print | everybody | who prints which error, a row put together in a fixed buffer |
| memory, `memory.c` | | allocate or end the process | everybody | |
| configuration, `config.c` | silent, no colour | set at the start | commands, errors | |

What makes each part correct:

* queue: a block never belongs to both threads; committed blocks come out once,
  in order and unchanged; a sleeper is woken; after a finalize what was
  committed is still popped and everybody gets out.
* reader: every byte read is committed or deliberately dropped, in order; it
  does not sit on bytes while the input pauses; it ends.
* writer: the records and what is still buffered are the bytes that came in;
  a line is cut only where the buffer forces it; no copy leaves its buffer.
* output: a call writes what it was given, however the kernel cuts it.
* encoder: exactly JSON literals go out bare; an escaped value is whole; a prefix
  fits its allocation; a record is a JSON object.
* worker: the queue outlives its users; the process ends; its exit status and
  what the threads print agree.
* options and commands: what is accepted is what the threads rely on; a directory
  is made whole or refused for a reason; every failure is told.
* together: the records are the lines of the input.

`PROJECT.json` lists the hazards at their lines.

## Modules

| Module | Models | State and actions |
|---|---|---|
| `Channel` | what the queue promises | a bounded FIFO that closes: `Admit`, `Send`, `Refuse`, `Receive`, `Close`, `EndOfStream` |
| `Queue` | `queue.c` | one variable per field of `jp_queue_t`, the threads' blocks and program counters. Each atomic load of a fast path is a step (`PushActive`, `PushLength`, `PopLength`, `FinalizeActive`); taking the mutex is a step; each critical section up to its unlock or wait is a step (`PushWait`, `PushRefuse`, `PushReserve`, `PushCommit`, `PopWait`, ...) |
| `Chunk` | the chunk size that reader and writer share | a constant and its assumption |
| `Reader` | `reader.c` and `poller/` on top of `Queue` | `PollEpoll`, `PollKqueue`, `PollReady`, `PushBlock`, `ReadBlock`, `ReadDrop`, `CommitFull`, `ReadEof`, `ReadAgain`, `ReadInterrupted`, `ReadFails`, `ReaderExit`; the peer writes and closes |
| `Lines` | what jpipe promises of its output | a stream of bytes and the records that are its lines: `Accept`, `Emit` |
| `Writer` | the framing in `writer.c` | one action per branch of the loop over a block |
| `Pipeline`, `MCPipeline` | reader, queue and writer together | the actions of `Reader`, of `Writer`, whose block is the popped slot of the ring (`InPlace`), and of `Queue` |
| `File` | `file.c`, over several records of the writer | `Encode`, `Writev`, `WritevFails`; `Spec` is the safety part, `LiveSpec` adds fairness |
| `Worker` | the threads' lives in `worker.c`, on top of `Queue` | `Create`, `CreateFails`, `Cancel`, `Join`, `Destroy`, `ProcessExit`, the threads' calls and results, `CancelOutside`, and the cancelled sleeper step by step: `CancelInWait`, `CancelledLock`, `CancelledFinalize`; `Spurious`, `OutOfMemory` |
| `Errno` | `errno.c` | the error context after each way to raise, and the length of the printed row; used by `Worker` and `Options` |
| `Json` | literals and escaping in `json.c` | `Read` feeds the automaton, `Finish` encodes the value |
| `FieldSet` | `field.c` | `Add` and the verdict on an argument |
| `JsonRecord` | prefix and postfix in `json.c`, on top of `FieldSet` | the tokens of a record, the size of the prefix and of its buffer |
| `Options` | the options in `worker.c`, on top of `JsonRecord` and `Errno` | one action per option, `IgnoreFlag` for a flag that only getopt_long sees, `NormalizeOutDir` with its `mkdir` calls and `realpath`, `CreateQueue`; what they accept is what `Queue` and `Writer` assume of their constants |
| `Command`, `MCCommand` | `main.c`, `command.c`, `jp_wrk_exec`, on top of `Options` | `MissingCommand`, `UnknownCommand`, `Help`, `RunHelp`, `Run`, `Summary`, `OutOfMemory`, `Exit` |
| `QueueProofs`, `WriterProofs`, `PipelineProofs`, `FileProofs`, `WorkerProofs`, `JsonProofs`, `CommandProofs` | | theorems about the module of that name; `PipelineProofs` builds on those of queue and writer, `CommandProofs` is also about `Options`, `JsonRecord` and `FieldSet` |
| `Induction` | | induction and recursion over the natural numbers, for the other proofs |

Why a critical section may be one step: what it writes is read by other threads
under the mutex or by one atomic load, and `head` and `tail` are written by one
thread each. The orderings used (acquire loads, release updates) make a block
visible with the `length` that announces it, so interleavings of these steps
are enough. `pthread_cond_signal` wakes one waiter of the model's choice,
and a waiter may wake spuriously. `Fill` and `PushCommitCall` stand for what the reader does
with a block between reserve and commit.

The composition: `Reader` and `Pipeline` call the queue where the code calls it
(`CallQueue`), without the preconditions that `Queue` puts on its callers
(`PushCall`, `PushCommitCall`, `PopCall`, ...). That they meet them is the property
`QueueContract`: every behaviour of the pipeline is one of `Queue`, so that what is
proved of `Queue` holds of the queue in the pipeline. The writer's variables
are those of `Writer`; its block is at every step the content of the slot it holds
(`InPlace`), so a slot overwritten under its hands would show.

Data is abstract: a block holds a model value in `Queue` and numbered bytes in
`Reader` and `Pipeline`, where some numbers are newlines; bytes of a line are two
letters and the newline in `Writer`; a value in `Json` is made of byte classes,
in `JsonRecord` it is bare or a string with its length; a record is a sequence of
tokens; a text is its length in `Errno`; a path is a sequence of names, `.`, `..` and slashes,
and a directory the names that lead to it from the root.

Definitions called a *variant* are the code with one plausible mistake; they are
there to show that each property notices it.

## Runs

| Run | Shows | Bounds |
|---|---|---|
| `queue_wait` | `IInv`, `NoSharedBlock`, `HeldBlockStable`, refinement of `Channel`, `PushAnswered`, `FinalizeEndsStream` under WAIT | 3 blocks, 2 values, 3 threads |
| `pipeline_wait` | `PInv`, `QueueContract`, refinement of `Lines`, `LinesArrive`, `EofDrains`, `ShutdownLossBounded` | 2 blocks of 2 bytes, 3 bytes of input, newlines first and last; blocking and non-blocking stdin, both pollers, with and without faults, signal |
| `pipeline_drop` | `QueueContract`, refinement of `Lines`, `DropKeepsReading` under DROP while the output may be stuck | 1 block of 2 bytes, 3 bytes, newline in the middle |
| `writer` | `FrameInv`, `NothingLost`, refinement of `Lines` (`SplitsLines`), `BlockFinished` | chunk of 3, all inputs of 6 bytes in all cuts |
| `file` | `FileInv`, `CallConserves`, `CallReturns` | prefix 3, value 0-3, postfix 2 bytes, 2 records |
| `worker` | `WInv`, `WorkersGoneAtDestroy`, `CancelledEnd`, `ProcessEnds`, `FailureExplained`, `ErrorRowFits` | 2 blocks; creations, reads, writes and allocations may fail; texts of 200 bytes |
| `json` | `BareIffLiteral`, `EscapedWhole` | all values of up to 6 byte classes |
| `options` | `LastValueWins`, `SizesAsRead`, `QueueGetsSaneSizes`, `OutDirMade`, `PrefixFits`, `PrefixAwaitsValue`, `FailureExplained` | 4 options; 3 keys, 2 kinds of value, 3 places for fields, numbers and lengths around the limits, arithmetic modulo 64 and counts modulo 4 with the limits scaled to it, 12 paths of up to 9 symbols with a limit of 8 |
| `pipeline_signal` | *violated*: `GracefulShutdown` | 1 block, 2 bytes |
| `file_again` | *violated*: `WholeRecord` | as `file` |
| `worker_destroy` | *violated*: `NoUseAfterDestroy` | 1 block |
| `record` | *violated*: `RecordIsJson` | as `options`, 1 option |

Three blocks give a ring with a slot that neither thread holds and let the
cursors wrap; two blocks in the pipeline make it full, empty and wrapped with
three one-byte commits. Three bytes are enough for a full block, a rest and a
drop between two kept bytes; the newlines are placed so that there are an empty
line, a line over two blocks and, under DROP, lines that are joined. A chunk of
three with inputs of six bytes covers lines shorter, equal and longer than the
buffer, cut at every place; the pipeline adds the interleavings, not more cuts.
The paths have doubled and trailing slashes, go through a file, to the parent and above
the root, and are as long as the limit or just below it, relative and in absolute form.
Four options fill the three places for fields and try once more; the names of keys
are interchangeable, so `options` uses their symmetry. Six bytes
reach every state of the automaton and all but the longest combination of sign,
fraction and signed exponent; as the automaton has nine states, every pair of
them is told apart by shorter endings. No run checks for deadlock, because the
threads and the process really end; that nobody is stuck is what the liveness
properties say.

Fairness. A thread that can take a step inside the queue takes it (the kernel
schedules runnable threads). A default mutex is not fair in order, but a thread
that asks for a mutex that becomes free again and again gets it: strong fairness
of `MutexLock`, or in `Pipeline` of all steps inside the queue, of which only the
mutex can be refused again and again. The writer outside the queue is fair in
`queue_wait`, `pipeline_wait`, `pipeline_signal` and `worker` and not in
`pipeline_drop`, where its output may be stuck. In `worker` a request to cancel is met by
a thread that keeps calling `pthread_cond_wait` or is in another blocking call (both are
cancellation points), and the mutex is granted to a cancelled sleeper as to others. Nothing is assumed of the peer, of
signals or of faults: properties that need a peer that behaves say so in their
left-hand side.

### What the violated runs show

* `pipeline_signal`: README.md:182 promises that signals trigger a graceful
  shutdown. A timeout of the poller (reader.c:31) does not look at the queue, so
  an idle reader, and with it the process, stays until input comes. The second
  half of the promise, that active chunks are flushed, does not hold either:
  the writer may be told of the shutdown (queue.c:113) while the reader holds a
  block. `ShutdownLossBounded` in `pipeline_wait` says that no more is lost.
* `file_again`: README.md:138 promises one JSON object per line. A
  partial write advances the caller's iovec (file.c:28), which the writer uses
  again: the next record lacks the bytes that were written before.
* `worker_destroy`: README.md:14 calls jpipe memory-safe. The watcher is
  detached; a signal at the end lets it enter `jp_queue_finalize` while the
  main thread destroys the queue (worker.c:481).
* `record`: README.md:138 again. The prefix ends with `"msg":`, the line is
  encoded without quotes, the postfix starts with a quote: nothing writes the
  opening quote (json.c:154, 230). `PrefixAwaitsValue` says that the rest of the
  prefix is right.

### Known divergences without a run

Met while modelling, visible in the modules, and left out of the runs:

* A thread cancelled inside `pthread_cond_wait` runs `thread_cleanup` with the
  mutex held (worker.c:317). If the queue is active, it locks it again in
  `jp_queue_finalize` (queue.c:138): the place `"relock"`, which nothing leaves. If the
  other thread's cleanup has finalized the queue meanwhile, it returns early
  (queue.c:133) and ends with the mutex, which is then destroyed while locked.
  `CancelledEnd` says that the first is the only way to hang, `WorkersGoneAtDestroy`
  that the second needs a thread that could not be created; `ProcessEnds` is claimed
  for processes in which every thread was created.
* stdin is never made non-blocking, so with a blocking stdin the reader keeps a
  partly filled block while the input pauses (reader.c:50, README.md:177).
  `LinesArrive` is claimed for a non-blocking stdin, as kqueue makes it, `EofDrains`
  for both.
* A line of exactly `chunk_size` bytes that comes in pieces, its newline first in
  a block, is followed by an empty record (writer.c:45); `Lines` allows it.
* An unterminated last line stays in the overflow buffer and is lost, even if it
  is `chunk_size` bytes long (writer.c:59-63, 80); in `NothingLost` it is part of
  `Left`.
* DROP drops what one read returned, not messages (README.md:169), so the ends of
  two lines can become one record (reader.c:45).
* Records go to stdout (file.c:6), not to files in the output directory
  (README.md:56), and share it with the summary, which goes through stdio.
* A dry run makes the output directory (worker.c:307; README.md:71 says "without
  writing").
* A path of JP_PATH_MAX bytes, the "maximum allowed length" (worker.c:102), is
  always refused by the system; messages about paths use `%128s`, a width, and
  cut the path off (worker.c:219-238).
* The error of `jp_queue_create` is raised a second time, which drops the system's
  error number (worker.c:310).
* Flags before the command are refused (command.c:33; README.md:77 shows them
  there); 256 equal flags count as none (command.c:17); an empty NO_COLOR is not
  honoured (config.c:14; command.c:54 says "any value").
* Flags are counted as whole words, getopt_long knows groups and abbreviations: `-nq`,
  `-nh` or `--qui` are accepted and have no effect (worker.c:282-287, command.c:19), while
  a `-q` that is the argument of another option has (`IgnoreFlag`, `Counted`).
* README.md:104 says that `forced="123"` gives the string `123`. The code decides from the
  bytes of the value, its quotes included (json.c:167), and escapes them: what goes out
  is `"\"123\""`, and the number 123 if a shell took the quotes. `EscapedWhole` states what
  the code does.
* A number goes out with the bytes it was given: `rate=1.5e-3` as `1.5e-3`, not as `0.0015`
  (README.md:101), which is the same number.
* A relative path whose absolute form is too long is refused by `realpath` after its
  directories were made (worker.c:237); `a/../b` makes `a` as well.
* A field named `msg` gives a record with two members of that name.
* A full field set refuses to replace a field it holds (field.c:69); keys over 32
  bytes are refused while the message says 64 (jp_config.h.in:58, jp_errno.h:103).
* `strtoull` accepts a minus sign: a negative number near -2^64 is read as a small
  positive size (worker.c:133, 165); `SizesAsRead` therefore speaks of the
  number read.
* `main` passes two of the three commands, so `version` is not found (main.c:14).

## Proofs

Every safety property of the passing runs is a theorem as well: the run shows it on
an instance, the theorem for every value of the constants that meets the
assumptions below. The inductive invariants are properties of runs where they
are defined in the model (`IInv`, `FrameInv`, `PInv`, `FileInv`, `WInv`); the smaller ones
are in the proof modules.

| Theorem | States | Of |
|---|---|---|
| `QueueInvariant`, `NeverShared`, `NeverLostWakeup` | `IInv`, `NoSharedBlock`, `NoLostWakeup` always | `Queue` |
| `HeldIsStable` | `HeldBlockStable` | `Queue` |
| `QueueRefinesChannel` | `ImplementsChannel` | `Queue` |
| `WriterInvariant`, `WriterLosesNothing` | `FrameInv`, `NothingLost` always | `Writer` |
| `WriterRefinesLines` | `SplitsLines` | `Writer` |
| `PipelineInvariant`, `LossIsBounded` | `PInv`, `ShutdownLossBounded` always | `Pipeline` |
| `PipelineKeepsContract` | `QueueContract` | `Pipeline` |
| `PipelineRefinesLines` | `ImplementsLines` | `Pipeline` |
| `FileInvariant`, `CallsConserve` | `FileInv`, `CallConserves` always | `File` |
| `WorkerInvariant`, `WorkersAreGone`, `StatusExplained`, `RowsFit` | `WInv`, `WorkersGoneAtDestroy`, `FailureExplained`, `ErrorRowFits` always | `Worker` |
| `BareAreLiterals`, `AlwaysEscapedWhole` | `BareIffLiteral`, `EscapedWhole` always | `Json` |
| `SizesAreRead`, `SizesAreSane` | `SizesAsRead`, `QueueGetsSaneSizes` always | `Options` |
| `OutDirAlwaysMade` | `OutDirMade` of every step | `Options` |
| `LastValueStands`, `PrefixAlwaysFits`, `PrefixAlwaysAwaitsValue` | `LastValueWins`, `PrefixFits`, `PrefixAwaitsValue` always | `FieldSet`, `JsonRecord` |
| `FailureIsExplained` | `FailureExplained` always | `Command` |

### Assumptions

* `Queue`: the capacity is a positive natural (the options enforce 1 to 1024), the
  policy is one of two, an empty block is not data, and reader, writer and "no
  thread" are not finalizers.
* `Chunk`, `Reader`, `Pipeline`: the chunk size is positive (`SizesAreSane`); a block holds
  bytes, at most a chunk of them; the bound on the input is a natural that the
  writer's alphabet covers.
* `File`: prefix and postfix are not empty, there is at least one record; the
  value may be of any length.
* `Json`: values are made of the byte classes, and a byte has at least six bytes of
  buffer (`JP_JSON_ESCAPE_MUL` is 6).
* `FieldSet`, `Errno`: limits and lengths of texts are naturals.
* `Options`, `Command`: the limits are positive, the defaults within them, the default
  chunk size a multiple of 1024, the largest sizes below the modulus; the counter
  of flags has a positive modulus; a path has a slash between two names, and the
  working directory is written without slashes and dots and is one, as are those
  above it. The file system has no symbolic links.

Nothing is assumed of capacities, sizes, lengths or numbers of bytes, records,
fields and options beyond that; `MaxSent`, `MaxLen` and `MaxOptions` are bounds for TLC
that the theorems hold for at every value.

### Arguments

*Queue.* `NoSharedBlock` is not inductive: that a block is not shared depends on the
counter which the fast path reads, on the cursors it stands for, and on what the
other thread can do to it meanwhile. The inductive invariant `IInv` says where
each thread can be (`TypeOK`), that a mutex holder is in a critical section
(`LockInv`), that `tail` is `length` slots behind `head` and committed slots hold
data (`RingInv`), that the reader can hold only the first free slot and then
there is room (`ReaderInv`), that the writer can hold only the oldest committed
one and is told of the shutdown only after it (`WriterInv`), and that sleepers
have a reason (`NoLostWakeup`). The argument for the lock-free paths is that
between the load of `length` and the use of the block only the other thread
changes `length`, and it changes it in the harmless direction. Slots are counted
from the head without `%` (`Slot`); the lemmas `AdvanceWraps`, `SlotFacts`,
`SlotAfterPush`, `SlotAfterPop` and `FreeSlotWrite` connect that with the cursors. For
the refinement, `ChanPush` and `ChanPop` show what a commit does to the sequence of
committed blocks, `ChanSame` that nothing else changes it, and `ChannelStep` maps each
step to a step of `Channel` or a stutter.

*Writer.* `FrameInv` says that the bytes in no record yet (`Left`: the overflow
buffer, then the rest of the block) are the last bytes that came in. Each branch
of the loop takes its bytes from the front of `Left` (the lemmas `...Drains`), and a
record is the next line of the stream, or `ChunkSize` bytes of a longer one
(`EmitsNext`). `NothingLost` is stronger than the refinement, as it puts the records
together again; it follows from the invariant `Conserved`, which says that the
records joined so far are the bytes before `Left`.

*Pipeline.* Neither the queue's contract nor the refinement of `Lines` can be seen from
one thread: that a commit finds data depends on the reader's place in its loop,
that the writer's bytes are the next ones on all the blocks before. `PInv` adds to
`IInv` and `FrameInv` where reader and writer are in their own loops while they are
inside the queue (`ReaderTurn`, `WriterTurn`), that what was read and kept is what the
writer popped, then the blocks of the ring in their order, then the block being
filled (`Transit`), and that after the writer was told of the shutdown at most one
block comes, from a reader let in before (`LateBlock`), which gives
`ShutdownLossBounded`. The order of blocks is stated with the offset of each (`Laid`),
which changes in one place per step (`LaidFill`, `LaidPush`, `LaidPop`). Because of
`PipelineKeepsContract` all theorems about `Queue` hold of the pipeline.

*File.* What the caller's iovec still describes and what went out are together what it
described at the call (`CallConserves`); `AdvanceCuts` shows that skipping whole
elements and moving into the next drops exactly the number of bytes that the
kernel took.

*Worker.* `WInv` says who can be inside the queue in which part of the main thread
(`InsideInv`), that behind a join the thread is gone and that threads are cancelled only
if one is missing (`JoinInv`), and where the blame
for a failure is until it is printed (`BlameInv`). `RowFits` adds up the parts of the
row at their largest. A mutex holder is in a critical section of the queue or is a
cancelled sleeper, which may have ended: only a finalized queue lets it, so that nobody
asks for the mutex any more.

*Json.* Every state of the automaton stands for a shape of the bytes read, stated by
positions (`NumberShape`). `Grow` says how each shape grows by a byte, `ShapeStep` that
the edges do just that, in both directions, so that a rejected value has no
shape; `NumberIs` that the accepting shapes are the grammar of RFC 8259, which
cuts the value into sign, integer, fraction and exponent. For the escaping, the
bytes needed are compared with six times the bytes read, term by term.

*Options and commands.* `SizeInv` remembers the numbers as they were read; a product that
is within the limits has not wrapped, because the quotient was tested before. For
the directory, `PathInv` says that nothing is made before the options are
taken, and which paths are left. `mkdir` is called at every slash, so that every place
the path leads through was there or is made before the next (`MkdirBefore`), and without
a file in the way every call succeeds (`AllMade`). A step along the path adds at most
the directory it arrives at to those above (`AncestorsOnward`), so all of them are
there at the end (`AllAbove`); `AbsoluteLeads` shows that the path that
replaces it leads to the same directory. `FieldInv` relates the set
to the arguments accepted so far; `PrefixFits` compares the loop that adds up the
allocation with the loop that writes; `PrefixAwaitsValue` follows the reader of the
tokens over a member (`ReadsMember`) and over all of them.

### Induction

The library's theorems on induction and recursion take a predicate as parameter,
which the provers here cannot instantiate. `Induction` states what is needed with
sets and functions instead: a set of naturals has a least element (from the
library's `WFMin`), a set with zero and all successors has every natural (`Induct`), a
base and a step function have a function that follows them (`Recursion`), and sums
are compared term by term (`SumsCompare`). Loops over data are therefore written
as recursive functions in the model (`SrcLen`, `PrefixSize`, `Members`, `Place`, `Joined`).

### Only model-checked

* All liveness: `PushAnswered`, `FinalizeEndsStream`, `LinesArrive`, `EofDrains`,
  `DropKeepsReading`, `BlockFinished`, `CallReturns`, `CancelledEnd`, `ProcessEnds`. They rest on fairness and
  `ENABLED`, which this prover does not handle.
* The four violated runs, where a counterexample is the result.

## Not modelled

* The wording of texts, colours and debug output; the Mach variants of the error
  macros, which nothing uses.
* Descriptors shared between stdin and stdout, and the order of stdio and `writev`
  on stdout: two hazards without a property, in `PROJECT.json`.
* What a failing initialisation of the queue frees (`jp_queue_create` returns NULL
  and no thread starts: `CreateQueue`).
* Symbolic links on the output path.
* Errors of `pthread_join` and `pthread_cancel` (worker.c:375, 388): the threads are joinable,
  are joined once and cancelled before, for which neither has an error.
* The benchmarks.

## Plan

1. Done: `Queue` with `Channel` and proofs, `File`, `Worker`, `Json`, `FieldSet`.
2. Done: `Pipeline` with `Lines`, so that the end-to-end statement needs no
   simplified reader or writer; `JsonRecord`, `Errno`, `Options` with the output
   directory, `Command`; kqueue.
3. Done: proofs of every safety property that a passing run checks.
4. To come: `NothingLost` for the pipeline, byte for byte from stdin to the records;
   the safety half of the liveness arguments (who can take a step when nobody is
   done), as far as it can be said without `ENABLED`.
