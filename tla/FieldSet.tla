------------------------------ MODULE FieldSet ------------------------------
(***************************************************************************)
(* The fields of the command line (src/src/field.c and set_field of        *)
(* src/src/worker.c): each -f key=value is checked, then replaces the      *)
(* field of the same key or is put behind the others.  Options composes    *)
(* this with the other options.                                            *)
(*                                                                         *)
(* An argument is a key, a value, the lengths of both, and whether it has  *)
(* an equals sign and a key of allowed characters only.                    *)
(***************************************************************************)
EXTENDS Naturals, Sequences, FiniteSetsExt, SequencesExt

CONSTANTS
  Names, Vals,      \* what keys, values of the same length can differ in
  Cap,              \* JP_CONF_FIELDS_MAX
  MaxKey, MaxVal,   \* JP_CONF_FIELD_MAX_KEY, JP_CONF_FIELD_MAX_VAL
  KeyLens, ValLens  \* the lengths tried

ASSUME FieldAssumption ==
  Cap \in Nat /\ MaxKey \in Nat /\ MaxVal \in Nat /\ KeyLens \cup ValLens \subseteq Nat

Args == [name : Names, key_len : KeyLens, val : Vals, val_len : ValLens,
         eq : BOOLEAN, clean : BOOLEAN]

VARIABLES
  fields,       \* set->fields
  args          \* history: the arguments accepted so far

Key(arg)   == <<arg.name, arg.key_len>>
Field(arg) == [key |-> Key(arg), val |-> <<arg.val, arg.val_len>>]

\* jp_field_set_create.
FieldInit == fields = << >> /\ args = << >>

\* crete_field_from_kv: the order of the tests decides which error is told.
BadKey(arg) == ~arg.eq \/ arg.key_len = 0 \/ arg.key_len > MaxKey
BadVal(arg) == arg.val_len = 0 \/ arg.val_len > MaxVal

Check(arg) ==
  CASE BadKey(arg) -> "EINV_FIELD_KEY"
    [] ~BadKey(arg) /\ BadVal(arg) -> "EINV_FIELD_VAL"
    [] ~BadKey(arg) /\ ~BadVal(arg) /\ ~arg.clean -> "EINV_FIELD_KEY"
    [] OTHER -> "ok"

Places(arg) == {i \in DOMAIN fields : fields[i].key = Key(arg)}

\* Variant that compares the new field with the last one only.
PutLast(arg) ==
  IF fields # << >> /\ fields[Len(fields)].key = Key(arg)
    THEN [fields EXCEPT ![Len(fields)] = Field(arg)]
    ELSE Append(fields, Field(arg))

Put(arg) ==
  IF Places(arg) # {} THEN [fields EXCEPT ![Min(Places(arg))] = Field(arg)]
                      ELSE Append(fields, Field(arg))

\* What jp_field_set_add returns: a full set refuses before the argument is
\* looked at.
Verdict(arg) == IF Len(fields) = Cap THEN "ETOO_MANY_FIELD" ELSE Check(arg)

Add(arg) ==
  /\ Verdict(arg) = "ok"
  /\ fields' = Put(arg)
  /\ args' = Append(args, arg)

-----------------------------------------------------------------------------
\* The set is what the arguments say: every key that came is there once, with
\* the value that came last, in the order in which the keys first came.
LastValueWins ==
  /\ \A i \in DOMAIN args : \E n \in DOMAIN fields : fields[n].key = Key(args[i])
  /\ \A m, n \in DOMAIN fields : fields[m].key = fields[n].key => m = n
  /\ \A n \in DOMAIN fields : \E i \in DOMAIN args :
       /\ fields[n] = Field(args[i])
       /\ \A j \in DOMAIN args : j > i => Key(args[j]) # Key(args[i])
  /\ \A m, n \in DOMAIN fields : m < n =>
       \E i \in DOMAIN args :
         /\ Key(args[i]) = fields[m].key
         /\ \A j \in DOMAIN args : Key(args[j]) = fields[n].key => i < j

=============================================================================
