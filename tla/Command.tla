------------------------------ MODULE Command -------------------------------
(***************************************************************************)
(* The program around "jpipe run" (src/src/main.c, command.c and           *)
(* jp_wrk_exec of worker.c): the global flags, the choice of the command,  *)
(* help, dry run, and the exit with the row that tells the error.  The     *)
(* threads that a run starts are the subject of Worker.                    *)
(***************************************************************************)
EXTENDS Options

CONSTANTS
  CountMod,     \* 2^8, jp_cmd_count returns a uint8_t
  FlagCounts    \* how often a flag is given

ASSUME CountAssumption == CountMod \in Nat \ {0}

VARIABLES
  flags,        \* external: how many words are -q or --quiet, -h or --help
  shown,        \* texts written to stdout
  row           \* the error told on stderr

cvars == <<ovars, flags, shown, row>>

CInit ==
  /\ OInit
  /\ phase = "start"
  /\ flags \in {[q |-> n, h |-> 0] : n \in FlagCounts} \cup {[q |-> 0, h |-> n] : n \in FlagCounts}
  /\ shown = {} /\ row = "none"

\* jp_cmd_count sees whole words, wherever they stand, as the argument of an
\* option too; a flag in a group or shortened is left to getopt_long (IgnoreFlag).
Counted(n) == n % CountMod

Silent == Counted(flags.q) > 0

Goes(to) == phase' = to /\ UNCHANGED <<fields, args, ctx, failing, external, taken, given>>

\* main passes two of its three commands.
Commands == SubSeq(<<"run", "help", "version">>, 1, 2)

\* jp_cmd_exec looks the first word up.
Called(word) == phase = "start" /\ word \in ToSet(Commands) /\ UNCHANGED <<flags, row>>

MissingCommand ==
  /\ phase = "start"
  /\ Refuse("EMISSING_CMD", Raised("EMISSING_CMD"))
  /\ UNCHANGED <<flags, shown, row>>

UnknownCommand ==
  /\ phase = "start"
  /\ Refuse("EUNKNOWN_CMD", Quoting("EUNKNOWN_CMD"))
  /\ UNCHANGED <<flags, shown, row>>

Help    == Called("help") /\ Goes("returned") /\ shown' = {"help"}
RunHelp == Called("run") /\ Counted(flags.h) > 0 /\ Goes("returned") /\ shown' = {"run help"}
Run     == Called("run") /\ Counted(flags.h) = 0 /\ Goes("collect") /\ UNCHANGED shown

\* display_summary, and a dry run is over; otherwise the threads start.
Summary ==
  /\ phase = "ready"
  /\ Goes(IF dry_run THEN "returned" ELSE "run")
  /\ shown' = IF Silent THEN shown ELSE shown \cup {"summary"}
  /\ UNCHANGED <<flags, row>>

\* An allocation fails while options are stored or the queue is made.
OutOfMemory ==
  /\ phase \in {"collect", "create"}
  /\ err' = "ENOMEMORY" /\ error' = RaisedPosix("ENOMEMORY", 1)
  /\ row' = error'.err
  /\ phase' = "exit"
  /\ UNCHANGED <<fields, args, ctx, external, taken, given, flags, shown>>

\* main: JP_ERRNO_DUMP, and the exit status, which is a failure if err is set.
Exit ==
  /\ phase \in {"failed", "returned"}
  /\ row' = IF IsRaised(error) THEN error.err ELSE "none"
  /\ Goes("exit")
  /\ UNCHANGED <<flags, shown>>

CNext ==
  \/ MissingCommand \/ UnknownCommand \/ Help \/ RunHelp \/ Run
  \/ (CollectArgs \/ Prepare) /\ UNCHANGED <<flags, shown, row>>
  \/ Summary \/ OutOfMemory \/ Exit

CSpec == CInit /\ [][CNext]_cvars

-----------------------------------------------------------------------------
\* A run that fails says why, with the error it returns, and one that does not
\* fail says nothing on stderr: no path returns an error nobody has raised,
\* none leaves a raised one behind.
FailureExplained ==
  /\ err = error.err
  /\ phase = "exit" => row = (IF err = "OK" THEN "none" ELSE err)

\* README.md: "one JSON object per line", for an empty and any other line.
RecordIsJson ==
  phase = "run" => \A line \in {<< >>, <<"chars">>} : ReadTokens(Record(line)) = "line"

=============================================================================
