------------------------------ MODULE Options -------------------------------
(***************************************************************************)
(* The options of "jpipe run" (src/src/worker.c): collect_cli_args takes   *)
(* them one after the other, the first one refused ends the program, and   *)
(* finalize_worker_args makes the output directory and the queue.  Command *)
(* puts the program around it.                                             *)
(*                                                                         *)
(* A number on the command line is an integer, what follows it and whether *)
(* there is one at all.  strtoull computes modulo 2^64; the model's        *)
(* Modulus is smaller and the limits are scaled to it.  A path is a        *)
(* sequence of names, "." and ".." among them, and "/"; a directory is the *)
(* sequence of names that leads to it from the root.  There are no         *)
(* symbolic links.                                                         *)
(***************************************************************************)
EXTENDS JsonRecord, Errno

CONSTANTS
  Modulus,                  \* ULLONG_MAX + 1
  KB,                       \* BYTES_IN_KB
  ChunkMin, ChunkDef, ChunkMax, BufferMin, BufferDef, BufferMax,
  PathMax,                  \* JP_PATH_MAX, and PATH_MAX of the system
  ChunkNumbers, BufferNumbers, Paths,       \* the values tried
  Cwd, Plain,               \* working directory, files that are no directories
  MaxOptions                \* bound on the options

ASSUME LimitAssumption ==
  /\ {Modulus, KB, ChunkMin, ChunkMax, BufferMin, BufferMax} \subseteq Nat \ {0}
  /\ ChunkDef \in ChunkMin .. ChunkMax /\ ChunkMax < Modulus /\ ChunkDef % KB = 0
  /\ BufferDef \in BufferMin .. BufferMax /\ BufferMax < Modulus
  /\ ChunkNumbers \cup BufferNumbers \subseteq Int

Ancestors(d) == {SubSeq(d, 1, n) : n \in 0 .. Len(d)}
DirsBefore   == Ancestors(Cwd)

\* Between two names there is a slash; the working directory exists.
ASSUME PathAssumption ==
  /\ PathMax \in Nat
  /\ Cwd \in Seq(STRING) /\ \A i \in DOMAIN Cwd : Cwd[i] \notin {"/", ".", ".."}
  /\ Plain \cap DirsBefore = {}
  /\ \A p \in Paths : p \in Seq(STRING) /\ \A i \in 1 .. Len(p) - 1 : "/" \in {p[i], p[i + 1]}

VARIABLES
  chunk_size, buffer_size, policy, out_dir, dry_run,    \* worker_ctx_t
  phase,        \* "collect", "prepare", "ready", "failed"
  err, error,   \* the error returned, the main thread's error context
  dirs,         \* external: the directories there are
  writable,     \* external: jpipe may write to them
  taken,        \* options accepted so far
  given         \* history: the last -c, -b and -p among them

ctx      == <<chunk_size, buffer_size, policy, out_dir, dry_run>>
failing  == <<err, error>>
external == <<dirs, writable>>
ovars    == <<fields, args, ctx, phase, failing, external, taken, given>>

Numbers(ns) == [num : ns, digits : BOOLEAN, rest : {"", "kb", "x"}]

OInit ==
  /\ FieldInit
  /\ chunk_size = ChunkDef /\ buffer_size = BufferDef
  /\ policy = "wait" /\ out_dir = << >> /\ dry_run = FALSE
  /\ err = "OK" /\ error = Clean
  /\ dirs = DirsBefore /\ writable \in BOOLEAN
  /\ taken = 0 /\ given = [c |-> ChunkDef \div KB, b |-> BufferDef, p |-> "wait"]

Collecting == phase = "collect" /\ taken < MaxOptions

\* JP_VERIFY: the error that was raised is returned.
Fail(e, context) == phase' = "failed" /\ err' = e /\ error' = context

Refuse(e, context) ==
  /\ Fail(e, context)
  /\ UNCHANGED <<fields, args, ctx, external, taken, given>>

Accepted == taken' = taken + 1 /\ UNCHANGED <<phase, failing, external>>
Accept(name, value) == Accepted /\ given' = [given EXCEPT ![name] = value]

\* JP_ERRNO_RAISEF with a text that quotes the argument.
Quoting(e) == RaisedF(e, TextLen)

-----------------------------------------------------------------------------
\* strtoull: a minus sign negates in the unsigned type; too large is ERANGE.
InUnsigned(n) == -Modulus < n /\ n < Modulus
Strtoull(n)   == n % Modulus

\* Variant without the test before the multiplication.
ChunkBytesUnguarded(a) ==
  IF a.digits /\ InUnsigned(a.num) /\ a.rest = "kb"
    THEN {Strtoull(a.num) * KB % Modulus} \cap ChunkMin .. ChunkMax
    ELSE {}

\* The size an argument stands for, if it is accepted.
ChunkBytes(a) ==
  IF /\ a.digits /\ InUnsigned(a.num) /\ a.rest = "kb"
     /\ Strtoull(a.num) <= ChunkMax \div KB
    THEN {Strtoull(a.num) * KB % Modulus} \cap ChunkMin .. ChunkMax
    ELSE {}

\* Variant that lets zero through.
BufferBlocksZero(a) ==
  IF a.digits /\ InUnsigned(a.num) /\ a.rest = ""
    THEN {Strtoull(a.num)} \cap 0 .. BufferMax
    ELSE {}

BufferBlocks(a) ==
  IF a.digits /\ InUnsigned(a.num) /\ a.rest = ""
    THEN {Strtoull(a.num)} \cap BufferMin .. BufferMax
    ELSE {}

SetChunkSize(a) ==
  /\ Collecting
  /\ \/ ChunkBytes(a) = {} /\ Refuse("ECHUNK_SIZE", Quoting("ECHUNK_SIZE"))
     \/ /\ chunk_size' \in ChunkBytes(a)
        /\ Accept("c", a.num)
        /\ UNCHANGED <<fields, args, buffer_size, policy, out_dir, dry_run>>

SetBufferSize(a) ==
  /\ Collecting
  /\ \/ BufferBlocks(a) = {} /\ Refuse("EBUFFER_SIZE", Quoting("EBUFFER_SIZE"))
     \/ /\ buffer_size' \in BufferBlocks(a)
        /\ Accept("b", a.num)
        /\ UNCHANGED <<fields, args, chunk_size, policy, out_dir, dry_run>>

SetPolicy(p) ==
  /\ Collecting
  /\ \/ p \notin {"wait", "drop"} /\ Refuse("EOVERFLOW_POLICY", Quoting("EOVERFLOW_POLICY"))
     \/ /\ p \in {"wait", "drop"}
        /\ policy' = p
        /\ Accept("p", p)
        /\ UNCHANGED <<fields, args, chunk_size, buffer_size, out_dir, dry_run>>

\* The old directory is freed before the new one is looked at.
SetOutDir(path) ==
  /\ Collecting
  /\ \/ /\ path = << >> \/ Len(path) > PathMax
        /\ out_dir' = << >>
        /\ Fail("EOUT_DIR", IF path = << >> THEN Raised("EOUT_DIR") ELSE Quoting("EOUT_DIR"))
        /\ UNCHANGED <<external, taken>>
     \/ /\ path # << >> /\ Len(path) <= PathMax
        /\ out_dir' = path
        /\ Accepted
  /\ UNCHANGED <<fields, args, chunk_size, buffer_size, policy, dry_run, given>>

\* Variant that passes on the error of the field set, which has not raised it.
FieldErrorUnraised(e) == error

FieldError(e) == IF e = "ETOO_MANY_FIELD" THEN Raised(e) ELSE Quoting(e)

SetField(arg) ==
  /\ Collecting
  /\ \/ Verdict(arg) # "ok" /\ Refuse(Verdict(arg), FieldError(Verdict(arg)))
     \/ /\ Add(arg)
        /\ Accepted
        /\ UNCHANGED <<ctx, given>>

SetDryRun ==
  /\ Collecting
  /\ dry_run' = TRUE
  /\ Accepted
  /\ UNCHANGED <<fields, args, chunk_size, buffer_size, policy, out_dir, given>>

\* getopt_long has found -q, -C or -h.  Where the flag is a word of its own it was
\* counted before (Command); in a group (-nq) or shortened (--qui) it was not, and
\* nothing comes of it.
IgnoreFlag == Collecting /\ Accepted /\ UNCHANGED <<fields, args, ctx, given>>

\* An unknown option, a missing argument, or a word that is no option.
Unknown == Collecting /\ Refuse("EUNKNOWN_RUN_CMD", Quoting("EUNKNOWN_RUN_CMD"))

\* All options are taken.
Collected ==
  /\ phase = "collect"
  /\ phase' = "prepare"
  /\ UNCHANGED <<fields, args, ctx, failing, external, taken, given>>

CollectArgs ==
  \/ \E a \in Numbers(ChunkNumbers) : SetChunkSize(a)
  \/ \E a \in Numbers(BufferNumbers) : SetBufferSize(a)
  \/ \E p \in {"wait", "drop", "x"} : SetPolicy(p)
  \/ \E path \in Paths : SetOutDir(path)
  \/ \E arg \in Args : SetField(arg)
  \/ SetDryRun \/ IgnoreFlag \/ Unknown \/ Collected

-----------------------------------------------------------------------------
(***************************************************************************)
(* create_and_normalize_out_dir.                                           *)
(***************************************************************************)
Output      == IF out_dir = << >> THEN <<".">> ELSE out_dir
Stripped(p) == SubSeq(p, 1, Max({1} \cup {i \in DOMAIN p : p[i] # "/"}))

\* Where the first n parts of a path lead.
Root(p) == IF p[1] = "/" THEN << >> ELSE Cwd

Onward(d, x) ==
  CASE x \in {"/", "."} -> d [] x = ".." -> SubSeq(d, 1, Len(d) - 1) [] OTHER -> Append(d, x)

Place(p) ==
  LET place[n \in 0 .. Len(p)] == IF n = 0 THEN Root(p) ELSE Onward(place[n - 1], p[n])
  IN  place

PlacesOn(p) == {Place(p)[n] : n \in 0 .. Len(p)}
Resolve(p)  == Place(p)[Len(p)]

\* A directory written as an absolute path.
Absolute(d) ==
  IF d = << >> THEN <<"/">>
  ELSE [i \in 1 .. 2 * Len(d) |-> IF i % 2 = 1 THEN "/" ELSE d[i \div 2]]

\* Variant that makes the last directory only.
MkdirAtLast(p) == {Len(p)}

\* mkdir is called with the beginnings of the path up to these parts, from the
\* shortest on.
MkdirAt(p) == {n \in 1 .. Len(p) : n = Len(p) \/ p[n + 1] = "/"}

\* A mkdir that was called fails, EEXIST aside: a part of the path is missing
\* or is no directory, the directory is new and may not be made, or the path
\* has no terminator (strncpy), so that it is longer than the system allows.
MkdirFails(n, p) ==
  LET made   == {Place(p)[k] : k \in {j \in MkdirAt(p) : j < n}}
      before == {Place(p)[k] : k \in 0 .. n - 1}
  IN  \/ n >= PathMax
      \/ before \cap Plain # {} \/ ~(before \subseteq dirs \cup made)
      \/ ~writable /\ Place(p)[n] \notin dirs \cup Plain

\* The calls of mkdir that succeed: none comes after one that fails.
Made(p) == {n \in MkdirAt(p) : \A k \in MkdirAt(p) : k <= n => ~MkdirFails(k, p)}

\* realpath walks along the path in absolute form, for which it has PATH_MAX bytes.
RealpathFails(p) == \E d \in PlacesOn(p) : Len(Absolute(d)) >= PathMax

NormalizeOutDir ==
  LET p == Stripped(Output)
  IN  /\ phase = "prepare"
      /\ dirs' = (dirs \cup {Place(p)[n] : n \in Made(p)}) \ Plain
      /\ IF Made(p) = MkdirAt(p) /\ Resolve(p) \in dirs' /\ writable /\ ~RealpathFails(p)
           THEN /\ out_dir' = Absolute(Resolve(p))
                /\ phase' = "create"
                /\ UNCHANGED failing
           ELSE Fail("EOUT_DIR", Quoting("EOUT_DIR")) /\ UNCHANGED out_dir
      /\ UNCHANGED <<fields, args, chunk_size, buffer_size, policy, dry_run,
                     writable, taken, given>>

\* jp_queue_create: its error is raised again, without the system's code.
CreateQueue ==
  /\ phase = "create"
  /\ \/ phase' = "ready" /\ UNCHANGED failing
     \/ Fail("ESYS_ERR", Raised("ESYS_ERR"))
  /\ UNCHANGED <<fields, args, ctx, external, taken, given>>

Prepare == NormalizeOutDir \/ CreateQueue

-----------------------------------------------------------------------------
\* The sizes are those of the last option, read as an unsigned number: the
\* product with 1024 (set_chunk_size) never wraps into the allowed range.
SizesAsRead ==
  /\ chunk_size = KB * Strtoull(given.c)
  /\ buffer_size = Strtoull(given.b)
  /\ policy = given.p

\* The queue and the buffers of reader and writer are made with what their
\* code relies on: at least one block, and blocks of whole kilobytes.  No
\* option, refused or taken, leaves anything else behind.
QueueGetsSaneSizes ==
  /\ buffer_size \in BufferMin .. BufferMax
  /\ chunk_size \in ChunkMin .. ChunkMax /\ chunk_size % KB = 0

\* The step of create_and_normalize_out_dir, from the options it is called with.
OutDirStep ==
  phase = "prepare" /\ phase' # phase =>
    LET p == Stripped(Output)
    IN  /\ dirs' \ dirs \subseteq PlacesOn(p)
        /\ IF /\ writable /\ Len(p) < PathMax /\ PlacesOn(p) \cap Plain = {}
              /\ \A d \in PlacesOn(p) : Len(Absolute(d)) < PathMax
             THEN /\ phase' = "create" /\ Ancestors(Resolve(p)) \subseteq dirs'
                  /\ out_dir'[1] = "/" /\ Resolve(out_dir') = Resolve(p)
                  /\ Len(out_dir') < PathMax
             ELSE err' = "EOUT_DIR"

\* The directories an output path stands for are made, every one above the last
\* included, and no others: those the path leads through (a/../b makes a as
\* well).  It is refused exactly if one of them is a file, if writing is
\* not allowed, or if the path, or one of them in absolute form, is too long for
\* the system; otherwise what replaces it leads to the same directory from
\* the root, and fits (create_and_normalize_out_dir).
OutDirMade == [][OutDirStep]_ovars

=============================================================================
