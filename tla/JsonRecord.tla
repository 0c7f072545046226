----------------------------- MODULE JsonRecord -----------------------------
(***************************************************************************)
(* A record as a whole: the prefix with the fields, the encoded line and   *)
(* the postfix (src/src/json.c, put together by src/src/writer.c), its     *)
(* tokens and the size of the prefix.  Which values go out bare and how    *)
(* bytes are escaped is the subject of Json; here a value is "bare", or a  *)
(* string that escaping lengthens by the factor EscapeMul ("ctl").         *)
(***************************************************************************)
EXTENDS FieldSet

EscapeMul == 6      \* JP_JSON_ESCAPE_MUL

KeyLen(f)  == f.key[2]
ValLen(f)  == f.val[2]
Bare(f)    == f.val[1] = "bare"
Escaped(f) == IF f.val[1] = "ctl" THEN EscapeMul * ValLen(f) ELSE ValLen(f)

\* Variant that forgets the factor of the escapes.
FieldSizePlain(f) == KeyLen(f) + ValLen(f) + 6

\* What is allocated for a field and for the prefix, and what is written.
FieldSize(f) == KeyLen(f) + ValLen(f) * EscapeMul + 6
FieldLen(f)  == KeyLen(f) + Escaped(f) + (IF Bare(f) THEN 4 ELSE 6)

\* The two loops over the fields, after n of them.
PrefixSize[n \in 0 .. Len(fields)] ==
  IF n = 0 THEN 64 ELSE PrefixSize[n - 1] + FieldSize(fields[n])

PrefixLen[n \in 0 .. Len(fields)] ==
  IF n = 0 THEN 1 ELSE PrefixLen[n - 1] + FieldLen(fields[n])

-----------------------------------------------------------------------------
String == <<"quote", "chars", "quote">>

\* Variant that quotes no value, whatever it is.
MemberUnquoted(f) ==
  String \o <<"colon", IF Bare(f) THEN "literal" ELSE "chars", "comma">>

Member(f) ==
  String \o <<"colon">> \o (IF Bare(f) THEN <<"literal">> ELSE String) \o <<"comma">>

\* The tokens the loop has written after n fields.
Members[n \in 0 .. Len(fields)] ==
  IF n = 0 THEN <<"open">> ELSE Members[n - 1] \o Member(fields[n])

Prefix == Members[Len(fields)] \o (String \o <<"colon">>)

Postfix      == <<"quote", "close", "newline">>
Record(line) == Prefix \o line \o Postfix

\* One JSON object and a newline: the state a reader of the tokens is in.
ObjectEdges == {
  <<"start", "open", "key">>,
  <<"key", "quote", "name">>, <<"name", "chars", "name">>, <<"name", "quote", "named">>,
  <<"named", "colon", "value">>, <<"value", "literal", "next">>,
  <<"value", "quote", "text">>, <<"text", "chars", "text">>, <<"text", "quote", "next">>,
  <<"next", "comma", "key">>, <<"next", "close", "object">>, <<"object", "newline", "line">>}

ReadStates == {e[1] : e \in ObjectEdges} \cup {"line", "error"}

ReadToken(s, token) ==
  IF \E t \in ReadStates : <<s, token, t>> \in ObjectEdges
    THEN CHOOSE t \in ReadStates : <<s, token, t>> \in ObjectEdges
    ELSE "error"

ReadTokens(tokens) ==
  LET state[n \in 0 .. Len(tokens)] ==
        IF n = 0 THEN "start" ELSE ReadToken(state[n - 1], tokens[n])
  IN  state[Len(tokens)]

-----------------------------------------------------------------------------
\* The buffer of the prefix is allocated before anything is encoded; every
\* accepted set of fields fits it, terminator included.
PrefixFits == PrefixLen[Len(fields)] + 7 <= PrefixSize[Len(fields)]

\* Whatever the fields, the prefix is a correct beginning of an object, up to
\* the value of its last member.
PrefixAwaitsValue == ReadTokens(Prefix) = "value"

=============================================================================
