-------------------------------- MODULE Json --------------------------------
(***************************************************************************)
(* The JSON encoder (src/src/json.c): which field values go out bare       *)
(* (is_json_string_literal and its number automaton),                      *)
(* and how bytes are escaped into a buffer of six bytes per byte           *)
(* (jp_json_value_encoder).                                                *)
(*                                                                         *)
(* A behaviour feeds a value to the automaton byte by byte, then encodes   *)
(* it.  A byte is a member of Chars: "1" stands for the digits 1-9, "e"    *)
(* for e and E, "ctl" for a byte that needs \u00xx, "quote" for the double *)
(* quote, which the code treats like every byte with a short escape, "a"   *)
(* for any other byte, and "word" for the bytes of true, false or null.    *)
(***************************************************************************)
EXTENDS Naturals, Sequences, FiniteSetsExt

CONSTANTS
  Alphabet,     \* the bytes a value is made of
  MaxLen,       \* bound on the length of a value
  EscapeMul     \* JP_JSON_ESCAPE_MUL, bytes of buffer per byte of value

Digits == {"0", "1"}
Chars  == Digits \cup {"-", "+", ".", "e", "a", "quote", "ctl", "word"}

ASSUME JsonAssumption ==
  Alphabet \subseteq Chars /\ MaxLen \in Nat /\ EscapeMul \in Nat /\ EscapeMul >= 6

VARIABLES
  val,          \* the bytes of the value read so far
  num,          \* state of the number automaton
  esc,          \* the encoded value: pairs of a byte and how it was escaped
  field         \* "none", or how the finished value goes out

jvars == <<val, num, esc, field>>

Init ==
  /\ val = << >>
  /\ num = "START"
  /\ esc = << >>
  /\ field = "none"

-----------------------------------------------------------------------------
(***************************************************************************)
(* is_json_numeric_literal: an edge leads from a state, on a byte of the   *)
(* set, to a state; without an edge the function returns false.            *)
(***************************************************************************)
Edges == {
  <<"START", {"-"}, "MINUS">>, <<"START", {"0"}, "ZERO">>, <<"START", {"1"}, "DIGIT">>,
  <<"MINUS", {"0"}, "ZERO">>, <<"MINUS", {"1"}, "DIGIT">>,
  <<"ZERO", {"."}, "DOT">>, <<"ZERO", {"e"}, "EXP">>,
  <<"DIGIT", Digits, "DIGIT">>, <<"DIGIT", {"."}, "DOT">>, <<"DIGIT", {"e"}, "EXP">>,
  <<"DOT", Digits, "FRACTION">>,
  <<"FRACTION", Digits, "FRACTION">>, <<"FRACTION", {"e"}, "EXP">>,
  <<"EXP", {"+", "-"}, "EXP_SIGN">>, <<"EXP", Digits, "EXP_DIGIT">>,
  <<"EXP_SIGN", Digits, "EXP_DIGIT">>, <<"EXP_DIGIT", Digits, "EXP_DIGIT">>}

Accepting == {"ZERO", "DIGIT", "FRACTION", "EXP_DIGIT"}

Targets(s, c) == {e[3] : e \in {x \in Edges : x[1] = s /\ c \in x[2]}}

\* Variant that takes a leading zero for any digit.
StepZero(s, c) ==
  IF s \in {"START", "MINUS"} /\ c = "0" THEN "DIGIT"
  ELSE IF Targets(s, c) = {} THEN "REJECT" ELSE CHOOSE t \in Targets(s, c) : TRUE

Step(s, c) ==
  IF Targets(s, c) = {} THEN "REJECT" ELSE CHOOSE t \in Targets(s, c) : TRUE

\* is_json_string_literal.
IsString == val # <<"word">> /\ num \notin Accepting

-----------------------------------------------------------------------------
(***************************************************************************)
(* jp_json_value_encoder.                                                  *)
(***************************************************************************)

\* Variant of the table that has no entry for the control bytes.
SizeNoCtl(c) == CASE c = "quote" -> 2 [] c = "word" -> 4 [] OTHER -> 1

\* json_size_lut ("word" stands for four plain bytes).
Size(c)  == CASE c = "ctl" -> 6 [] c = "quote" -> 2 [] c = "word" -> 4 [] OTHER -> 1
Bytes(c) == IF c = "word" THEN 4 ELSE 1
How(c)   == CASE Size(c) = 6 -> "hex" [] Size(c) = 2 -> "short" [] OTHER -> "raw"

\* Bytes the first k bytes of the value have, and need once escaped.
SrcLen[k \in 0 .. Len(val)] == IF k = 0 THEN 0 ELSE SrcLen[k - 1] + Bytes(val[k])
DstLen[k \in 0 .. Len(val)] == IF k = 0 THEN 0 ELSE DstLen[k - 1] + Size(val[k])

\* The loop ends with the value or at the first byte that does not fit.
Encoded == Max({k \in 0 .. Len(val) : DstLen[k] <= EscapeMul * SrcLen[Len(val)]})

Read(c) ==
  /\ field = "none" /\ Len(val) < MaxLen
  /\ val' = Append(val, c)
  /\ num' = Step(num, c)
  /\ UNCHANGED <<esc, field>>

\* jp_json_prefix_encoder puts a value, never empty, after its key.
Finish ==
  /\ field = "none" /\ val # << >>
  /\ field' = IF IsString THEN "quoted" ELSE "bare"
  /\ esc' = [i \in 1 .. Encoded |-> <<val[i], How(val[i])>>]
  /\ UNCHANGED <<val, num>>

Next == Finish \/ \E c \in Alphabet : Read(c)

Spec == Init /\ [][Next]_jvars

-----------------------------------------------------------------------------
(***************************************************************************)
(* The grammar of RFC 8259 that the automaton stands for.                  *)
(***************************************************************************)
AllDigits(s) == s # << >> /\ \A i \in DOMAIN s : s[i] \in Digits

JsonInt(s)  == AllDigits(s) /\ (s[1] = "0" => Len(s) = 1)
JsonFrac(s) == s = << >> \/ (s[1] = "." /\ AllDigits(Tail(s)))
JsonExp(s) ==
  \/ s = << >>
  \/ s[1] = "e" /\ \/ AllDigits(Tail(s))
                   \/ Len(s) > 2 /\ s[2] \in {"+", "-"} /\ AllDigits(SubSeq(s, 3, Len(s)))

JsonNumber(s) ==
  LET t == IF s # << >> /\ s[1] = "-" THEN Tail(s) ELSE s
  IN  \E i, j \in 0 .. Len(t) :
        /\ i <= j
        /\ JsonInt(SubSeq(t, 1, i))
        /\ JsonFrac(SubSeq(t, i + 1, j))
        /\ JsonExp(SubSeq(t, j + 1, Len(t)))

\* A value goes out bare exactly if it is a JSON literal, so that no field
\* breaks the object and no number becomes a string.
BareIffLiteral ==
  field # "none" => (field = "bare" <=> JsonNumber(val) \/ val = <<"word">>)

\* The escaped bytes are the whole value, nothing was cut, and no byte that
\* JSON forbids inside a string goes out raw (jp_json_value_encoder).  Quotes
\* around a value are part of it, while README.md 104 says of forced="123" that
\* they are not and make it a string.
EscapedWhole ==
  field # "none" =>
    /\ [i \in DOMAIN esc |-> esc[i][1]] = val
    /\ \A i \in DOMAIN esc : esc[i][1] \in {"ctl", "quote"} => esc[i][2] # "raw"

=============================================================================
