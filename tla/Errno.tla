------------------------------- MODULE Errno --------------------------------
(***************************************************************************)
(* The last error of a thread (src/src/errno.c): what JP_ERRNO_RAISE and   *)
(* its relatives put into the thread's context, and how long the row is    *)
(* that JP_ERRNO_DUMP puts together in a buffer on the stack.  Texts are   *)
(* lengths.                                                                *)
(***************************************************************************)
EXTENDS Integers

CONSTANT TextLen    \* longest of the texts of strerror, file names, messages

ASSUME TextAssumption == TextLen \in Nat

MsgMax == 128                       \* ERROR_MSG_MAX_LEN
RowMax == MsgMax * 5                \* ERROR_ROW_MAX_LEN
IntLen == 10                        \* a positive int in decimal

AtMost(n, max) == IF n < max THEN n ELSE max

\* jp_errno_t, as far as an error can be raised and not only returned.
Codes == {
  "OK", "EMISSING_CMD", "EUNKNOWN_CMD", "EUNKNOWN_RUN_CMD", "ECHUNK_SIZE", "EBUFFER_SIZE",
  "EOVERFLOW_POLICY", "EOUT_DIR", "ETOO_MANY_FIELD", "EINV_FIELD_KEY", "EINV_FIELD_VAL",
  "ENOMEMORY", "EREAD_FAILED", "EWRITE_FAILED", "ESYS_ERR"}

Contexts ==
  [err : Codes, src : {"none", "posix"}, sys_err : Nat, detail : 0 .. MsgMax - 1]

\* jp_errno_ctx_set, the context after JP_ERRNO_RESET, and each way to raise:
\* setf keeps what fits of its text, and the terminator.
Context(e, src, no, n) == [err |-> e, src |-> src, sys_err |-> no, detail |-> n]
Clean              == Context("OK", "none", 0, 0)
Raised(e)          == Context(e, "none", 0, 0)
RaisedF(e, n)      == Context(e, "none", 0, AtMost(n, MsgMax - 1))
RaisedPosix(e, no) == Context(e, "posix", no, 0)

IsRaised(c) == c.err # "OK"

\* Variant that prints the texts as they are.
WholeText(n) == n

\* %.128s
Text128(n) == AtMost(n, MsgMax)

\* jp_errno_ctx_print: colours, message, detail, system error, place in the
\* source, newline and terminator.
RowLen(c) ==
  LET system == IF c.src = "posix" /\ c.sys_err > 0 THEN 7 + IntLen + Text128(TextLen) ELSE 0
      detail == IF c.detail > 0 THEN 3 + Text128(c.detail) ELSE 0
      place  == IF c.src # "none" THEN 6 + Text128(TextLen) + IntLen ELSE 0
  IN  18 + Text128(TextLen) + detail + system + place + 2

=============================================================================
