--------------------------- MODULE CommandProofs ----------------------------
(***************************************************************************)
(* Proofs about Command and the options it collects, for every limit,      *)
(* number, path and field.                                                 *)
(***************************************************************************)
EXTENDS Command, Induction, SequenceTheorems, TLAPS

-----------------------------------------------------------------------------
\* A multiple of KB below the modulus: the product of set_chunk_size does not
\* wrap.
LEMMA ProductFits ==
  ASSUME NEW k \in Nat \ {0}, NEW m \in Nat, NEW x \in Nat, x <= m \div k
  PROVE  x * k <= m
<1> DEFINE q == m \div k
<1>1. q \in Nat /\ q * k <= m
  OBVIOUS
<1> HIDE DEF q
<1>2. x <= q
  BY DEF q
<1> QED BY <1>1, <1>2

LEMMA Multiple ==
  ASSUME NEW k \in Nat \ {0}, NEW x \in Nat
  PROVE  (k * x) % k = 0
  OBVIOUS

LEMMA Divides ==
  ASSUME NEW k \in Nat \ {0}, NEW m \in Nat, m % k = 0
  PROVE  m \div k \in Nat /\ k * (m \div k) = m /\ m \div k <= m
  OBVIOUS

-----------------------------------------------------------------------------
\* What is remembered of the options: the numbers as they were read.
GivenTyped == given \in [c : Int, b : Int, p : {"wait", "drop"}]

SizeInv == GivenTyped /\ SizesAsRead /\ QueueGetsSaneSizes

LEMMA Limits ==
  /\ Modulus \in Nat \ {0} /\ KB \in Nat \ {0}
  /\ ChunkMin \in Nat \ {0} /\ ChunkMax \in Nat \ {0} /\ ChunkDef \in Nat
  /\ BufferMin \in Nat \ {0} /\ BufferMax \in Nat \ {0} /\ BufferDef \in Nat
  /\ ChunkMax < Modulus /\ BufferMax < Modulus
  /\ ChunkDef <= ChunkMax /\ BufferDef <= BufferMax
  /\ ChunkMin <= ChunkDef /\ BufferMin <= BufferDef
  /\ ChunkDef % KB = 0
  BY LimitAssumption

\* A chunk size that is accepted is the number that was read, times 1024.
LEMMA ChunkAccepted ==
  ASSUME NEW a \in Numbers(ChunkNumbers), NEW size \in ChunkBytes(a)
  PROVE  /\ a.num \in Int /\ size = KB * Strtoull(a.num)
         /\ size \in ChunkMin .. ChunkMax /\ size % KB = 0
<1> DEFINE x == Strtoull(a.num)
<1>1. a.num \in Int
  BY LimitAssumption DEF Numbers
<1>2. x \in Nat
  BY <1>1, Limits DEF Strtoull
<1>3. x <= ChunkMax \div KB /\ size = x * KB % Modulus /\ size \in ChunkMin .. ChunkMax
  BY DEF ChunkBytes
<1> HIDE DEF x
<1>4. x * KB <= ChunkMax
  BY <1>2, <1>3, Limits, ProductFits
<1>5. x * KB \in Nat /\ x * KB = KB * x
  BY <1>2, Limits
<1>6. size = x * KB
  <2> DEFINE y == x * KB
  <2>1. y \in Nat /\ y < Modulus /\ size = y % Modulus
    BY <1>3, <1>4, <1>5, Limits
  <2> HIDE DEF y
  <2>2. y % Modulus = y
    BY <2>1, Limits
  <2> QED BY <2>1, <2>2 DEF y
<1>7. size = KB * x
  BY <1>5, <1>6
<1>8. (KB * x) % KB = 0
  BY <1>2, Limits, Multiple
<1> QED BY <1>1, <1>3, <1>7, <1>8 DEF x

\* So is a buffer size.
LEMMA BufferAccepted ==
  ASSUME NEW a \in Numbers(BufferNumbers), NEW size \in BufferBlocks(a)
  PROVE  a.num \in Int /\ size = Strtoull(a.num) /\ size \in BufferMin .. BufferMax
  BY LimitAssumption DEF Numbers, BufferBlocks

LEMMA SizeInit == CInit => SizeInv
<1> SUFFICES ASSUME CInit PROVE SizeInv
  OBVIOUS
<1> DEFINE d == ChunkDef \div KB
<1>1. d \in Nat /\ KB * d = ChunkDef /\ d <= ChunkDef
  BY Limits, Divides
<1>2. given = [c |-> d, b |-> BufferDef, p |-> "wait"]
  BY DEF CInit, OInit
<1> HIDE DEF d
<1>3. d % Modulus = d /\ BufferDef % Modulus = BufferDef
  BY <1>1, Limits
<1>4. chunk_size = ChunkDef /\ buffer_size = BufferDef /\ policy = "wait"
  BY DEF CInit, OInit
<1>5. GivenTyped
  BY <1>1, <1>2, Limits DEF GivenTyped
<1>6. SizesAsRead
  BY <1>1, <1>2, <1>3, <1>4 DEF SizesAsRead, Strtoull
<1>7. QueueGetsSaneSizes
  BY <1>4, Limits DEF QueueGetsSaneSizes
<1> QED BY <1>5, <1>6, <1>7 DEF SizeInv

LEMMA SizeStep == SizeInv /\ [CNext]_cvars => SizeInv'
<1> SUFFICES ASSUME SizeInv, [CNext]_cvars PROVE SizeInv'
  OBVIOUS
<1> DEFINE kept == UNCHANGED <<chunk_size, buffer_size, policy, given>>
<1>1. ASSUME kept PROVE SizeInv'
  BY <1>1 DEF SizeInv, GivenTyped, SizesAsRead, QueueGetsSaneSizes
<1>2. ASSUME NEW a \in Numbers(ChunkNumbers), SetChunkSize(a) PROVE SizeInv'
  <2>1. CASE kept
    BY <2>1, <1>1
  <2>2. CASE /\ chunk_size' \in ChunkBytes(a)
             /\ given' = [given EXCEPT !["c"] = a.num]
             /\ UNCHANGED <<buffer_size, policy>>
    <3> DEFINE size == chunk_size'
    <3>1. size \in ChunkBytes(a)
      BY <2>2
    <3> HIDE DEF size
    <3>2. /\ a.num \in Int /\ size = KB * Strtoull(a.num)
          /\ size \in ChunkMin .. ChunkMax /\ size % KB = 0
      BY <3>1, ChunkAccepted
    <3>3. given' = [c |-> a.num, b |-> given.b, p |-> given.p]
      BY <2>2 DEF SizeInv, GivenTyped
    <3> QED BY <2>2, <3>2, <3>3
            DEF size, SizeInv, GivenTyped, SizesAsRead, QueueGetsSaneSizes
  <2> QED BY <1>2, <2>1, <2>2 DEF SetChunkSize, Refuse, Accept, ctx
<1>3. ASSUME NEW a \in Numbers(BufferNumbers), SetBufferSize(a) PROVE SizeInv'
  <2>1. CASE kept
    BY <2>1, <1>1
  <2>2. CASE /\ buffer_size' \in BufferBlocks(a)
             /\ given' = [given EXCEPT !["b"] = a.num]
             /\ UNCHANGED <<chunk_size, policy>>
    <3> DEFINE size == buffer_size'
    <3>1. size \in BufferBlocks(a)
      BY <2>2
    <3> HIDE DEF size
    <3>2. a.num \in Int /\ size = Strtoull(a.num) /\ size \in BufferMin .. BufferMax
      BY <3>1, BufferAccepted
    <3>3. given' = [c |-> given.c, b |-> a.num, p |-> given.p]
      BY <2>2 DEF SizeInv, GivenTyped
    <3> QED BY <2>2, <3>2, <3>3
            DEF size, SizeInv, GivenTyped, SizesAsRead, QueueGetsSaneSizes
  <2> QED BY <1>3, <2>1, <2>2 DEF SetBufferSize, Refuse, Accept, ctx
<1>4. ASSUME NEW p \in {"wait", "drop", "x"}, SetPolicy(p) PROVE SizeInv'
  <2>1. CASE kept
    BY <2>1, <1>1
  <2>2. CASE /\ p \in {"wait", "drop"} /\ policy' = p
             /\ given' = [given EXCEPT !["p"] = p]
             /\ UNCHANGED <<chunk_size, buffer_size>>
    <3>1. given' = [c |-> given.c, b |-> given.b, p |-> p]
      BY <2>2 DEF SizeInv, GivenTyped
    <3> QED BY <2>2, <3>1 DEF SizeInv, GivenTyped, SizesAsRead, QueueGetsSaneSizes
  <2> QED BY <1>4, <2>1, <2>2 DEF SetPolicy, Refuse, Accept, ctx
<1>5. ASSUME NEW path \in Paths, SetOutDir(path) PROVE kept
  BY <1>5 DEF SetOutDir
<1>6. ASSUME NEW arg \in Args, SetField(arg) PROVE kept
  BY <1>6 DEF SetField, Refuse, ctx
<1>7. CASE SetDryRun \/ IgnoreFlag \/ Unknown \/ Collected
  BY <1>1, <1>7 DEF SetDryRun, IgnoreFlag, Unknown, Collected, Refuse, ctx
<1>8. CASE CollectArgs
  BY <1>1, <1>2, <1>3, <1>4, <1>5, <1>6, <1>7, <1>8 DEF CollectArgs
<1>9. CASE Prepare
  BY <1>1, <1>9 DEF Prepare, NormalizeOutDir, CreateQueue, ctx
<1>10. CASE MissingCommand \/ UnknownCommand \/ Help \/ RunHelp \/ Run
  BY <1>1, <1>10 DEF MissingCommand, UnknownCommand, Help, RunHelp, Run, Refuse, Goes, ctx
<1>11. CASE Summary \/ OutOfMemory \/ Exit
  BY <1>1, <1>11 DEF Summary, OutOfMemory, Exit, Goes, ctx
<1>12. CASE UNCHANGED cvars
  BY <1>1, <1>12 DEF cvars, ovars, ctx
<1> QED BY <1>8, <1>9, <1>10, <1>11, <1>12 DEF CNext

LEMMA SizeInvariant == CSpec => []SizeInv
  BY SizeInit, SizeStep, PTL DEF CSpec

\* Whatever options are taken or refused, in whatever order, the sizes are
\* the numbers of the last option accepted (set_chunk_size, set_buffer_size):
\* no product wraps into the allowed range.
THEOREM SizesAreRead == CSpec => []SizesAsRead
<1>1. SizeInv => SizesAsRead
  BY DEF SizeInv
<1> QED BY <1>1, SizeInvariant, PTL

\* At any time the queue would be made with at least one block, of whole
\* kilobytes and within the limits.
THEOREM SizesAreSane == CSpec => []QueueGetsSaneSizes
<1>1. SizeInv => QueueGetsSaneSizes
  BY DEF SizeInv
<1> QED BY <1>1, SizeInvariant, PTL

-----------------------------------------------------------------------------
\* The error that is returned is the error that was raised (JP_VERIFY,
\* jp_field_set_add with the raise of its caller, JP_ERRNO_DUMP in main).
LEMMA Explained == FailureExplained /\ [CNext]_cvars => FailureExplained'
<1> SUFFICES ASSUME FailureExplained, [CNext]_cvars PROVE FailureExplained'
  OBVIOUS
<1>1. ASSUME NEW e, NEW context, context.err = e, Fail(e, context)
      PROVE  FailureExplained'
  BY <1>1 DEF Fail, FailureExplained
<1>2. \A e : /\ Raised(e).err = e /\ Quoting(e).err = e /\ FieldError(e).err = e
             /\ RaisedPosix(e, 1).err = e
  BY DEF Raised, Quoting, FieldError, RaisedF, RaisedPosix, Context
<1>3. ASSUME UNCHANGED failing, phase' # "exit" PROVE FailureExplained'
  BY <1>3 DEF failing, FailureExplained
<1>4. CASE CollectArgs
  <2>1. ASSUME Accepted, Collecting PROVE FailureExplained'
    BY <1>3, <2>1 DEF Accepted, Collecting
  <2>2. ASSUME NEW a, SetChunkSize(a) PROVE FailureExplained'
    BY <1>1, <1>2, <2>1, <2>2 DEF SetChunkSize, Refuse, Accept
  <2>3. ASSUME NEW a, SetBufferSize(a) PROVE FailureExplained'
    BY <1>1, <1>2, <2>1, <2>3 DEF SetBufferSize, Refuse, Accept
  <2>4. ASSUME NEW p, SetPolicy(p) PROVE FailureExplained'
    BY <1>1, <1>2, <2>1, <2>4 DEF SetPolicy, Refuse, Accept
  <2>5. ASSUME NEW path, SetOutDir(path) PROVE FailureExplained'
    BY <1>1, <1>2, <2>1, <2>5 DEF SetOutDir
  <2>6. ASSUME NEW arg, SetField(arg) PROVE FailureExplained'
    BY <1>1, <1>2, <2>1, <2>6 DEF SetField, Refuse
  <2>7. CASE SetDryRun \/ IgnoreFlag
    BY <2>1, <2>7 DEF SetDryRun, IgnoreFlag
  <2>8. CASE Unknown
    BY <1>1, <1>2, <2>8 DEF Unknown, Refuse
  <2>9. CASE Collected
    BY <1>3, <2>9 DEF Collected
  <2> QED BY <1>4, <2>2, <2>3, <2>4, <2>5, <2>6, <2>7, <2>8, <2>9 DEF CollectArgs
<1>5. CASE Prepare
  <2>1. CASE NormalizeOutDir
    BY <1>1, <1>2, <1>3, <2>1 DEF NormalizeOutDir
  <2>2. CASE CreateQueue
    BY <1>1, <1>2, <1>3, <2>2 DEF CreateQueue
  <2> QED BY <1>5, <2>1, <2>2 DEF Prepare
<1>6. CASE MissingCommand \/ UnknownCommand
  BY <1>1, <1>2, <1>6 DEF MissingCommand, UnknownCommand, Refuse
<1>7. CASE Help \/ RunHelp \/ Run \/ Summary
  BY <1>3, <1>7 DEF Help, RunHelp, Run, Summary, Goes
<1>8. CASE OutOfMemory
  BY <1>2, <1>8 DEF OutOfMemory, FailureExplained
<1>9. CASE Exit
  BY <1>9 DEF Exit, Goes, failing, IsRaised, FailureExplained
<1>10. CASE UNCHANGED cvars
  BY <1>10 DEF cvars, ovars, failing, FailureExplained
<1> QED BY <1>4, <1>5, <1>6, <1>7, <1>8, <1>9, <1>10 DEF CNext

\* A run that fails tells the error it returns, and one that does not tells
\* none, on every path through main, the commands and the options.
THEOREM FailureIsExplained == CSpec => []FailureExplained
<1>1. CInit => FailureExplained
  BY DEF CInit, OInit, Clean, Context, FailureExplained
<1> QED BY <1>1, Explained, PTL DEF CSpec

-----------------------------------------------------------------------------
(***************************************************************************)
(* The fields.                                                             *)
(***************************************************************************)
FieldRecs == [key : Names \X KeyLens, val : Vals \X ValLens]

FieldInv == fields \in Seq(FieldRecs) /\ args \in Seq(Args) /\ LastValueWins

\* LastValueWins of fields F at the places D and arguments G at the places E.
Wins(F, D, G, E) ==
  /\ \A i \in E : \E n \in D : F[n].key = Key(G[i])
  /\ \A m, n \in D : F[m].key = F[n].key => m = n
  /\ \A n \in D : \E i \in E : /\ F[n] = Field(G[i])
                              /\ \A j \in E : j > i => Key(G[j]) # Key(G[i])
  /\ \A m, n \in D : m < n =>
       \E i \in E : /\ Key(G[i]) = F[m].key
                    /\ \A j \in E : Key(G[j]) = F[n].key => i < j

\* The key of an argument is that of its field.
LEMMA FieldFacts ==
  ASSUME NEW arg \in Args
  PROVE  Field(arg) \in FieldRecs /\ Field(arg).key = Key(arg)
  BY DEF Field, FieldRecs, Key, Args

\* jp_field_set_add finds the one field of a key, or none.
LEMMA PutFacts ==
  ASSUME FieldInv, NEW arg \in Args
  PROVE  \/ /\ \A n \in DOMAIN fields : fields[n].key # Key(arg)
            /\ Put(arg) = Append(fields, Field(arg))
         \/ \E p \in DOMAIN fields :
              /\ fields[p].key = Key(arg)
              /\ Put(arg) = [fields EXCEPT ![p] = Field(arg)]
<1>1. CASE Places(arg) = {}
  BY <1>1 DEF Places, Put
<1>2. CASE Places(arg) # {}
  <2>1. PICK p \in DOMAIN fields : fields[p].key = Key(arg)
    BY <1>2 DEF Places
  <2>2. Places(arg) = {p}
    BY <2>1, SMTT(30) DEF Places, FieldInv, LastValueWins
  <2>3. p \in Nat
    BY <2>1 DEF FieldInv
  <2>4. Min(Places(arg)) = p
    BY <2>2, <2>3 DEF Min
  <2> QED BY <1>2, <2>1, <2>4 DEF Put
<1> QED BY <1>1, <1>2

LEMMA AddKeeps ==
  ASSUME FieldInv, NEW arg \in Args, Add(arg)
  PROVE  FieldInv'
<1> DEFINE F  == fields'
           G  == args'
           k  == Len(fields)
           l  == Len(args)
<1>1. /\ fields \in Seq(FieldRecs) /\ args \in Seq(Args) /\ k \in Nat /\ l \in Nat
      /\ DOMAIN fields = 1 .. k /\ DOMAIN args = 1 .. l
  BY DEF FieldInv
<1>2. Field(arg) \in FieldRecs /\ Field(arg).key = Key(arg)
  BY FieldFacts
<1>3. /\ G = Append(args, arg) /\ G \in Seq(Args) /\ DOMAIN G = 1 .. l + 1
      /\ G[l + 1] = arg /\ \A i \in 1 .. l : G[i] = args[i] /\ i \in 1 .. l + 1 /\ l + 1 > i
  BY <1>1 DEF Add
<1>4. F = Put(arg)
  BY DEF Add
<1>5. l + 1 \in 1 .. l + 1 /\ \A i \in 1 .. l + 1 : i \in 1 .. l \/ i = l + 1
  BY <1>1
<1>6. /\ \A i \in 1 .. l : \E n \in 1 .. k : fields[n].key = Key(args[i])
      /\ \A m, n \in 1 .. k : fields[m].key = fields[n].key => m = n
      /\ \A n \in 1 .. k : \E i \in 1 .. l :
           /\ fields[n] = Field(args[i])
           /\ \A j \in 1 .. l : j > i => Key(args[j]) # Key(args[i])
      /\ \A m, n \in 1 .. k : m < n =>
           \E i \in 1 .. l : /\ Key(args[i]) = fields[m].key
                             /\ \A j \in 1 .. l : Key(args[j]) = fields[n].key => i < j
  <2> HIDE DEF k, l
  <2>1. LastValueWins
    BY DEF FieldInv
  <2>2. DOMAIN fields = 1 .. k /\ DOMAIN args = 1 .. l
    BY <1>1
  <2>3. Wins(fields, DOMAIN fields, args, DOMAIN args)
    BY <2>1 DEF LastValueWins, Wins
  <2>4. Wins(fields, 1 .. k, args, 1 .. l)
    BY <2>2, <2>3
  <2> QED BY <2>4 DEF Wins
<1>7. \A i \in 1 .. l : Field(args[i]).key = Key(args[i])
  BY <1>1, FieldFacts
<1> HIDE DEF F, G, k, l
<1>8. CASE /\ \A n \in DOMAIN fields : fields[n].key # Key(arg)
           /\ F = Append(fields, Field(arg))
  <2>1. /\ F \in Seq(FieldRecs) /\ DOMAIN F = 1 .. k + 1 /\ F[k + 1] = Field(arg)
        /\ \A n \in 1 .. k : F[n] = fields[n] /\ n \in 1 .. k + 1
        /\ k + 1 \in 1 .. k + 1 /\ \A n \in 1 .. k + 1 : n \in 1 .. k \/ n = k + 1
    BY <1>1, <1>2, <1>8 DEF k
  <2>2. \A n \in 1 .. k : fields[n].key # Key(arg)
    BY <1>1, <1>8
  <2>3. ASSUME NEW i \in 1 .. l + 1 PROVE \E n \in 1 .. k + 1 : F[n].key = Key(G[i])
    <3>1. CASE i = l + 1
      BY <1>2, <1>3, <2>1, <3>1
    <3>2. CASE i \in 1 .. l
      <4>1. PICK n \in 1 .. k : fields[n].key = Key(args[i])
        BY <1>6, <3>2
      <4> QED BY <1>3, <2>1, <3>2, <4>1
    <3> QED BY <1>5, <3>1, <3>2
  <2>4. \A m, n \in 1 .. k + 1 : F[m].key = F[n].key => m = n
    <3>1. \A m, n \in 1 .. k : F[m].key = F[n].key => m = n
      BY <1>6, <2>1
    <3>2. \A n \in 1 .. k : F[n].key # F[k + 1].key
      BY <1>2, <2>1, <2>2
    <3> QED BY <2>1, <3>1, <3>2
  <2>5. ASSUME NEW n \in 1 .. k + 1
        PROVE  \E i \in 1 .. l + 1 :
                 /\ F[n] = Field(G[i])
                 /\ \A j \in 1 .. l + 1 : j > i => Key(G[j]) # Key(G[i])
    <3>1. CASE n = k + 1
      <4>1. \A j \in 1 .. l + 1 : ~(j > l + 1)
        BY <1>1
      <4> QED BY <1>3, <1>5, <2>1, <3>1, <4>1
    <3>2. CASE n \in 1 .. k
      <4>1. PICK i \in 1 .. l : /\ fields[n] = Field(args[i])
                                /\ \A j \in 1 .. l : j > i => Key(args[j]) # Key(args[i])
        BY <1>6, <3>2
      <4>2. Key(args[i]) # Key(arg)
        BY <1>7, <2>2, <3>2, <4>1
      <4> QED BY <1>3, <1>5, <2>1, <3>2, <4>1, <4>2
    <3> QED BY <2>1, <3>1, <3>2
  <2>6. ASSUME NEW m \in 1 .. k + 1, NEW n \in 1 .. k + 1, m < n
        PROVE  \E i \in 1 .. l + 1 :
                 /\ Key(G[i]) = F[m].key
                 /\ \A j \in 1 .. l + 1 : Key(G[j]) = F[n].key => i < j
    <3>0. m \in 1 .. k
      BY <1>1, <2>6
    <3>1. CASE n = k + 1
      <4>1. PICK i \in 1 .. l : fields[m] = Field(args[i])
        BY <1>6, <3>0
      <4>2. \A j \in 1 .. l : Key(args[j]) # Key(arg)
        BY <1>6, <2>2, SMTT(30)
      <4>3. Key(G[i]) = F[m].key /\ i \in 1 .. l + 1 /\ i < l + 1
        BY <1>1, <1>3, <1>7, <2>1, <3>0, <4>1
      <4>4. ASSUME NEW j \in 1 .. l + 1, Key(G[j]) = F[n].key PROVE i < j
        <5>1. j = l + 1
          BY <1>2, <1>3, <1>5, <2>1, <3>1, <4>2, <4>4
        <5> QED BY <4>3, <5>1
      <4> QED BY <4>3, <4>4
    <3>2. CASE n \in 1 .. k
      <4>1. PICK i \in 1 .. l : /\ Key(args[i]) = fields[m].key
                                /\ \A j \in 1 .. l : Key(args[j]) = fields[n].key => i < j
        BY <1>6, <2>6, <3>0, <3>2
      <4>2. fields[n].key # Key(arg)
        BY <2>2, <3>2
      <4>3. Key(G[i]) = F[m].key /\ i \in 1 .. l + 1
        BY <1>3, <2>1, <3>0, <4>1
      <4>4. ASSUME NEW j \in 1 .. l + 1, Key(G[j]) = F[n].key PROVE i < j
        BY <1>3, <1>5, <2>1, <3>2, <4>1, <4>2, <4>4
      <4> QED BY <4>3, <4>4
    <3> QED BY <2>1, <3>1, <3>2
  <2>7. DOMAIN F = 1 .. k + 1 /\ DOMAIN G = 1 .. l + 1
    BY <1>3, <2>1
  <2>8. Wins(F, 1 .. k + 1, G, 1 .. l + 1)
    BY <2>3, <2>4, <2>5, <2>6 DEF Wins
  <2>9. Wins(F, DOMAIN F, G, DOMAIN G)
    BY <2>7, <2>8
  <2>10. LastValueWins'
    BY <2>9 DEF LastValueWins, Wins, F, G
  <2> QED BY <1>3, <2>1, <2>10 DEF FieldInv, F, G
<1>9. ASSUME NEW p \in DOMAIN fields, fields[p].key = Key(arg),
             F = [fields EXCEPT ![p] = Field(arg)]
      PROVE  FieldInv'
  <2>1. /\ F \in Seq(FieldRecs) /\ DOMAIN F = 1 .. k /\ F[p] = Field(arg) /\ p \in 1 .. k
        /\ \A n \in 1 .. k : n # p => F[n] = fields[n]
    BY <1>1, <1>2, <1>9
  <2>2. \A n \in 1 .. k : F[n].key = fields[n].key
    BY <1>2, <1>9, <2>1
  <2>3. \A i \in 1 .. l + 1 : \E n \in 1 .. k : F[n].key = Key(G[i])
    BY <1>3, <1>5, <1>6, <1>9, <2>1, <2>2, SMTT(30)
  <2>4. \A m, n \in 1 .. k : F[m].key = F[n].key => m = n
    BY <1>6, <2>2
  <2>5. ASSUME NEW n \in 1 .. k
        PROVE  \E i \in 1 .. l + 1 :
                 /\ F[n] = Field(G[i])
                 /\ \A j \in 1 .. l + 1 : j > i => Key(G[j]) # Key(G[i])
    <3>1. CASE n = p
      <4>1. \A j \in 1 .. l + 1 : ~(j > l + 1)
        BY <1>1
      <4> QED BY <1>3, <1>5, <2>1, <3>1, <4>1
    <3>2. CASE n # p
      <4>1. PICK i \in 1 .. l : /\ fields[n] = Field(args[i])
                                /\ \A j \in 1 .. l : j > i => Key(args[j]) # Key(args[i])
        BY <1>6
      <4>2. fields[n].key # Key(arg)
        BY <1>6, <1>9, <2>1, <3>2, ZenonT(40)
      <4>3. Key(args[i]) # Key(arg)
        BY <1>7, <4>1, <4>2
      <4> QED BY <1>3, <1>5, <2>1, <3>2, <4>1, <4>3
    <3> QED BY <3>1, <3>2
  <2>6. ASSUME NEW m \in 1 .. k, NEW n \in 1 .. k, m < n
        PROVE  \E i \in 1 .. l + 1 :
                 /\ Key(G[i]) = F[m].key
                 /\ \A j \in 1 .. l + 1 : Key(G[j]) = F[n].key => i < j
    <3>1. PICK i \in 1 .. l : /\ Key(args[i]) = fields[m].key
                              /\ \A j \in 1 .. l : Key(args[j]) = fields[n].key => i < j
      BY <1>6, <2>6
    <3>2. Key(G[i]) = F[m].key /\ i \in 1 .. l + 1 /\ i < l + 1
      BY <1>1, <1>3, <2>2, <3>1
    <3>3. ASSUME NEW j \in 1 .. l + 1, Key(G[j]) = F[n].key PROVE i < j
      BY <1>3, <1>5, <2>2, <3>1, <3>2, <3>3
    <3> QED BY <3>2, <3>3
  <2>7. DOMAIN F = 1 .. k /\ DOMAIN G = 1 .. l + 1
    BY <1>3, <2>1
  <2>8. Wins(F, 1 .. k, G, 1 .. l + 1)
    BY <2>3, <2>4, <2>5, <2>6 DEF Wins
  <2>9. Wins(F, DOMAIN F, G, DOMAIN G)
    BY <2>7, <2>8
  <2>10. LastValueWins'
    BY <2>9 DEF LastValueWins, Wins, F, G
  <2> QED BY <1>3, <2>1, <2>10 DEF FieldInv, F, G
<1> QED BY <1>4, <1>8, <1>9, PutFacts

LEMMA FieldStep == FieldInv /\ [CNext]_cvars => FieldInv'
<1> SUFFICES ASSUME FieldInv, [CNext]_cvars PROVE FieldInv'
  OBVIOUS
<1>1. ASSUME UNCHANGED <<fields, args>> PROVE FieldInv'
  BY <1>1 DEF FieldInv, LastValueWins
<1>2. CASE CollectArgs
  <2>1. ASSUME NEW arg \in Args, SetField(arg) PROVE FieldInv'
    BY <1>1, <2>1, AddKeeps DEF SetField, Refuse
  <2> QED BY <1>1, <1>2, <2>1 DEF CollectArgs, SetChunkSize, SetBufferSize, SetPolicy,
             SetOutDir, SetDryRun, IgnoreFlag, Unknown, Collected, Refuse
<1>3. CASE Prepare
  BY <1>1, <1>3 DEF Prepare, NormalizeOutDir, CreateQueue
<1>4. CASE MissingCommand \/ UnknownCommand \/ Help \/ RunHelp \/ Run
  BY <1>1, <1>4 DEF MissingCommand, UnknownCommand, Help, RunHelp, Run, Refuse, Goes
<1>5. CASE Summary \/ OutOfMemory \/ Exit
  BY <1>1, <1>5 DEF Summary, OutOfMemory, Exit, Goes
<1>6. CASE UNCHANGED cvars
  BY <1>1, <1>6 DEF cvars, ovars
<1> QED BY <1>2, <1>3, <1>4, <1>5, <1>6 DEF CNext

LEMMA FieldInvariant == CSpec => []FieldInv
<1>1. CInit => FieldInv
  BY DEF CInit, OInit, FieldInit, FieldInv, LastValueWins
<1> QED BY <1>1, FieldStep, PTL DEF CSpec

\* The set of fields is what the options say (jp_field_set_add): every key
\* that came once, with its last value, in the order of first appearance.
THEOREM LastValueStands == CSpec => []LastValueWins
<1>1. FieldInv => LastValueWins
  BY DEF FieldInv
<1> QED BY <1>1, FieldInvariant, PTL

-----------------------------------------------------------------------------
(***************************************************************************)
(* The prefix of a record.                                                 *)
(***************************************************************************)

\* The numbers of a field, and what it takes against what is allocated.
LEMMA FieldFits ==
  ASSUME NEW f \in FieldRecs
  PROVE  FieldLen(f) \in Nat /\ FieldSize(f) \in Nat /\ FieldLen(f) <= FieldSize(f)
<1>1. KeyLen(f) \in Nat /\ ValLen(f) \in Nat
  BY FieldAssumption DEF FieldRecs, KeyLen, ValLen
<1>2. Escaped(f) \in Nat /\ Escaped(f) <= ValLen(f) * 6
  BY <1>1 DEF Escaped, EscapeMul
<1> QED BY <1>1, <1>2 DEF FieldLen, FieldSize, EscapeMul

LEMMA PrefixSizeIs ==
  ASSUME FieldInv
  PROVE  /\ PrefixSize \in [0 .. Len(fields) -> Nat] /\ PrefixSize[0] = 64
         /\ \A n \in 1 .. Len(fields) : PrefixSize[n] = PrefixSize[n - 1] + FieldSize(fields[n])
<1> DEFINE N == Len(fields)
           a == [n \in 1 .. N |-> FieldSize(fields[n])]
<1>1. /\ N \in Nat /\ a \in [1 .. N -> Nat] /\ 64 \in Nat
      /\ \A n \in 1 .. N : a[n] = FieldSize(fields[n])
  BY FieldFits DEF FieldInv
<1> HIDE DEF N, a
<1>2. PICK f : IsSum(f, N, 64, a)
  BY <1>1, SumExists
<1>3. \A n \in 0 .. N : n = 0 \/ n \in 1 .. N
  BY <1>1
<1>4. f = [n \in 0 .. N |-> IF n = 0 THEN 64 ELSE f[n - 1] + FieldSize(fields[n])]
  BY <1>1, <1>2, <1>3, Zenon DEF IsSum
<1>5. PrefixSize = [n \in 0 .. N |-> IF n = 0 THEN 64 ELSE PrefixSize[n - 1] + FieldSize(fields[n])]
  BY <1>4 DEF PrefixSize, N
<1>6. IsSum(PrefixSize, N, 64, a)
  BY <1>1, <1>3, <1>5, Zenon DEF IsSum
<1>7. AddsUp(PrefixSize, N, 64, a)
  BY <1>1, <1>6, SumTyped, Zenon
<1> QED BY <1>1, <1>7 DEF N, AddsUp

LEMMA PrefixLenIs ==
  ASSUME FieldInv
  PROVE  /\ PrefixLen \in [0 .. Len(fields) -> Nat] /\ PrefixLen[0] = 1
         /\ \A n \in 1 .. Len(fields) : PrefixLen[n] = PrefixLen[n - 1] + FieldLen(fields[n])
<1> DEFINE N == Len(fields)
           a == [n \in 1 .. N |-> FieldLen(fields[n])]
<1>1. /\ N \in Nat /\ a \in [1 .. N -> Nat] /\ 1 \in Nat
      /\ \A n \in 1 .. N : a[n] = FieldLen(fields[n])
  BY FieldFits DEF FieldInv
<1> HIDE DEF N, a
<1>2. PICK f : IsSum(f, N, 1, a)
  BY <1>1, SumExists
<1>3. \A n \in 0 .. N : n = 0 \/ n \in 1 .. N
  BY <1>1
<1>4. f = [n \in 0 .. N |-> IF n = 0 THEN 1 ELSE f[n - 1] + FieldLen(fields[n])]
  BY <1>1, <1>2, <1>3, Zenon DEF IsSum
<1>5. PrefixLen = [n \in 0 .. N |-> IF n = 0 THEN 1 ELSE PrefixLen[n - 1] + FieldLen(fields[n])]
  BY <1>4 DEF PrefixLen, N
<1>6. IsSum(PrefixLen, N, 1, a)
  BY <1>1, <1>3, <1>5, Zenon DEF IsSum
<1>7. AddsUp(PrefixLen, N, 1, a)
  BY <1>1, <1>6, SumTyped, Zenon
<1> QED BY <1>1, <1>7 DEF N, AddsUp

\* The prefix fits the buffer allocated for it (jp_json_prefix_encoder), for
\* every number of fields and every length of key and value.
THEOREM PrefixAlwaysFits == CSpec => []PrefixFits
<1>1. ASSUME FieldInv PROVE PrefixFits
  <2> DEFINE N == Len(fields)
  <2>1. N \in Nat /\ \A n \in 1 .. N : fields[n] \in FieldRecs
    BY <1>1 DEF FieldInv
  <2>2. /\ PrefixSize \in [0 .. N -> Nat] /\ PrefixSize[0] = 64
        /\ \A n \in 1 .. N : PrefixSize[n] = PrefixSize[n - 1] + FieldSize(fields[n])
    BY <1>1, PrefixSizeIs
  <2>3. /\ PrefixLen \in [0 .. N -> Nat] /\ PrefixLen[0] = 1
        /\ \A n \in 1 .. N : PrefixLen[n] = PrefixLen[n - 1] + FieldLen(fields[n])
    BY <1>1, PrefixLenIs
  <2> HIDE DEF N
  <2>4. ASSUME NEW n \in 1 .. N
        PROVE  PrefixLen[n] - PrefixLen[n - 1] <= PrefixSize[n] - PrefixSize[n - 1]
    <3>1. n - 1 \in 0 .. N
      BY <2>1
    <3>2. PrefixLen[n - 1] \in Nat /\ PrefixSize[n - 1] \in Nat
      BY <2>2, <2>3, <3>1
    <3>3. /\ FieldLen(fields[n]) \in Nat /\ FieldSize(fields[n]) \in Nat
          /\ FieldLen(fields[n]) <= FieldSize(fields[n])
      BY <2>1, FieldFits
    <3>4. /\ PrefixLen[n] = PrefixLen[n - 1] + FieldLen(fields[n])
          /\ PrefixSize[n] = PrefixSize[n - 1] + FieldSize(fields[n])
      BY <2>2, <2>3
    <3> QED BY <3>2, <3>3, <3>4
  <2>5. \A n \in 0 .. N : PrefixLen[n] + 7 <= PrefixSize[n]
    <3>1. 7 \in Nat /\ PrefixLen[0] + 7 <= PrefixSize[0]
      BY <2>2, <2>3
    <3> QED BY <2>1, <2>2, <2>3, <2>4, <3>1, SumsCompare, Zenon
  <2> QED BY <2>1, <2>5 DEF PrefixFits, N
<1> QED BY <1>1, FieldInvariant, PTL

-----------------------------------------------------------------------------
(***************************************************************************)
(* Reading tokens.                                                         *)
(***************************************************************************)
Tokens == {"open", "quote", "chars", "colon", "literal", "comma", "close", "newline"}

\* f is the run of a reader over the tokens w, from s to t.
RunOf(f, s, w, t) ==
  /\ f[0] = s /\ f[Len(w)] = t
  /\ \A n \in 1 .. Len(w) : f[n] = ReadToken(f[n - 1], w[n])

Reads(s, w, t) == \E f \in [0 .. Len(w) -> ReadStates] : RunOf(f, s, w, t)

\* The state of ReadTokens is that of the run.
LEMMA ReadsIs ==
  ASSUME NEW w \in Seq(Tokens), NEW t, Reads("start", w, t)
  PROVE  ReadTokens(w) = t
<1> DEFINE N == Len(w)
           next(g) == [n \in 0 .. N |-> IF n = 0 THEN "start" ELSE ReadToken(g[n - 1], w[n])]
           g == CHOOSE h : h = next(h)
<1>1. N \in Nat
  OBVIOUS
<1>2. PICK f \in [0 .. N -> ReadStates] : RunOf(f, "start", w, t)
  BY DEF Reads
<1>3. \A n \in 0 .. N : n # 0 => n \in 1 .. N
  BY <1>1
<1>4. f = next(f)
  <2>1. \A n \in 0 .. N : f[n] = IF n = 0 THEN "start" ELSE ReadToken(f[n - 1], w[n])
    BY <1>2, <1>3 DEF RunOf
  <2> QED BY <2>1
<1>5. g = next(g)
  BY <1>4
<1> HIDE DEF g
<1>6. g[0] = "start" /\ \A n \in 1 .. N : g[n] = ReadToken(g[n - 1], w[n])
  BY <1>1, <1>5
<1>7. f[0] = "start" /\ f[N] = t /\ \A n \in 1 .. N : f[n] = ReadToken(f[n - 1], w[n])
  BY <1>2 DEF RunOf
<1> DEFINE P == {n \in Nat : n <= N => g[n] = f[n]}
<1>8. 0 \in P
  BY <1>6, <1>7
<1>9. ASSUME NEW n \in Nat, n \in P PROVE n + 1 \in P
  <2> SUFFICES ASSUME n + 1 <= N PROVE g[n + 1] = f[n + 1]
    OBVIOUS
  <2>1. n + 1 \in 1 .. N /\ (n + 1) - 1 = n /\ n <= N
    BY <1>1
  <2> QED BY <1>6, <1>7, <1>9, <2>1
<1> HIDE DEF P
<1>10. N \in P
  BY <1>1, <1>8, <1>9, Induct
<1>11. g[N] = t
  BY <1>1, <1>7, <1>10 DEF P
<1> QED BY <1>11 DEF ReadTokens, g

LEMMA ReadTokenType ==
  ASSUME NEW s, NEW c
  PROVE  ReadToken(s, c) \in ReadStates
  BY DEF ReadToken, ReadStates

\* Two runs in a row.
LEMMA ReadsConcat ==
  ASSUME NEW v \in Seq(Tokens), NEW w \in Seq(Tokens), NEW r, NEW s, NEW t,
         Reads(r, v, s), Reads(s, w, t)
  PROVE  Reads(r, v \o w, t)
<1> DEFINE M == Len(v)
           N == Len(w)
           u == v \o w
<1>1. PICK f \in [0 .. M -> ReadStates] : RunOf(f, r, v, s)
  BY DEF Reads
<1>2. PICK g \in [0 .. N -> ReadStates] : RunOf(g, s, w, t)
  BY DEF Reads
<1>3. /\ M \in Nat /\ N \in Nat /\ Len(u) = M + N
      /\ \A n \in 1 .. M + N : u[n] = IF n <= M THEN v[n] ELSE w[n - M]
  BY ConcatProperties, LenProperties
<1>4. f[0] = r /\ f[M] = s /\ \A n \in 1 .. M : f[n] = ReadToken(f[n - 1], v[n])
  BY <1>1 DEF RunOf
<1>5. g[0] = s /\ g[N] = t /\ \A n \in 1 .. N : g[n] = ReadToken(g[n - 1], w[n])
  BY <1>2 DEF RunOf
<1> DEFINE h == [n \in 0 .. M + N |-> IF n <= M THEN f[n] ELSE g[n - M]]
<1> HIDE DEF M, N, u
<1>6. \A n \in 0 .. M + N : /\ n <= M => n \in 0 .. M
                            /\ ~(n <= M) => n - M \in 0 .. N
  BY <1>3
<1>7. h \in [0 .. M + N -> ReadStates]
  BY <1>1, <1>2, <1>6
<1>8. h[0] = r
  BY <1>3, <1>4
<1>9. h[M + N] = t
  <2>1. CASE N = 0
    BY <1>3, <1>4, <1>5, <2>1
  <2>2. CASE N # 0
    <3>1. ~(M + N <= M) /\ M + N \in 0 .. M + N /\ (M + N) - M = N
      BY <1>3, <2>2
    <3> QED BY <1>5, <3>1
  <2> QED BY <2>1, <2>2
<1>10. ASSUME NEW n \in 1 .. M + N PROVE h[n] = ReadToken(h[n - 1], u[n])
  <2>1. n \in 0 .. M + N /\ n - 1 \in 0 .. M + N
    BY <1>3
  <2>2. CASE n <= M
    <3>1. n \in 1 .. M /\ n - 1 <= M
      BY <1>3, <2>2
    <3>2. h[n] = f[n] /\ h[n - 1] = f[n - 1] /\ u[n] = v[n]
      BY <1>3, <2>1, <2>2, <3>1
    <3> QED BY <1>4, <3>1, <3>2
  <2>3. CASE n = M + 1
    <3>1. ~(n <= M) /\ n - 1 = M /\ n - M = 1 /\ 1 \in 1 .. N /\ M <= M /\ M \in 0 .. M + N
      BY <1>3, <2>3
    <3>2. h[n] = g[1] /\ h[n - 1] = f[M] /\ u[n] = w[1]
      BY <1>3, <2>1, <3>1
    <3>3. g[1] = ReadToken(g[0], w[1])
      BY <1>5, <3>1
    <3> QED BY <1>4, <1>5, <3>2, <3>3
  <2>4. CASE n > M + 1
    <3>1. ~(n <= M) /\ ~(n - 1 <= M) /\ n - M \in 1 .. N /\ (n - 1) - M = (n - M) - 1
      BY <1>3, <2>4
    <3>2. h[n] = g[n - M] /\ h[n - 1] = g[(n - M) - 1] /\ u[n] = w[n - M]
      BY <1>3, <2>1, <3>1
    <3> QED BY <1>5, <3>1, <3>2
  <2> QED BY <1>3, <2>2, <2>3, <2>4
<1>11. RunOf(h, r, u, t)
  BY <1>3, <1>8, <1>9, <1>10 DEF RunOf
<1> QED BY <1>3, <1>7, <1>11 DEF Reads, u

LEMMA ReadsOne ==
  ASSUME NEW s \in ReadStates, NEW c
  PROVE  Reads(s, <<c>>, ReadToken(s, c))
<1> DEFINE f == [n \in 0 .. 1 |-> IF n = 0 THEN s ELSE ReadToken(s, c)]
<1>1. f \in [0 .. 1 -> ReadStates]
  BY ReadTokenType
<1>2. Len(<<c>>) = 1 /\ <<c>>[1] = c
  OBVIOUS
<1>3. RunOf(f, s, <<c>>, ReadToken(s, c))
  BY <1>2 DEF RunOf
<1> QED BY <1>1, <1>2, <1>3 DEF Reads

\* The steps of a reader that the prefix takes.
LEMMA ReadSteps ==
  /\ {"start", "key", "name", "named", "value", "text", "next"} \subseteq ReadStates
  /\ ReadToken("start", "open") = "key"
  /\ ReadToken("key", "quote") = "name" /\ ReadToken("name", "chars") = "name"
  /\ ReadToken("name", "quote") = "named" /\ ReadToken("named", "colon") = "value"
  /\ ReadToken("value", "literal") = "next" /\ ReadToken("value", "quote") = "text"
  /\ ReadToken("text", "chars") = "text" /\ ReadToken("text", "quote") = "next"
  /\ ReadToken("next", "comma") = "key"
<1>1. {"start", "key", "name", "named", "value", "text", "next"} \subseteq ReadStates
  <2>1. ASSUME NEW s, NEW c, NEW t, <<s, c, t>> \in ObjectEdges PROVE s \in ReadStates
    <3>1. <<s, c, t>>[1] = s
      OBVIOUS
    <3> QED BY <2>1, <3>1 DEF ReadStates
  <2>2. /\ <<"start", "open", "key">> \in ObjectEdges /\ <<"key", "quote", "name">> \in ObjectEdges
        /\ <<"name", "chars", "name">> \in ObjectEdges /\ <<"named", "colon", "value">> \in ObjectEdges
        /\ <<"value", "quote", "text">> \in ObjectEdges /\ <<"text", "quote", "next">> \in ObjectEdges
        /\ <<"next", "comma", "key">> \in ObjectEdges
    BY DEF ObjectEdges
  <2> QED BY <2>1, <2>2
<1> DEFINE only(s, c, t) == \A u : <<s, c, u>> \in ObjectEdges <=> u = t
<1>2. ASSUME NEW s, NEW c, NEW t \in ReadStates, only(s, c, t)
      PROVE  ReadToken(s, c) = t
  BY <1>2 DEF ReadToken
<1>3. /\ only("start", "open", "key") /\ only("key", "quote", "name")
      /\ only("name", "chars", "name") /\ only("name", "quote", "named")
      /\ only("named", "colon", "value") /\ only("value", "literal", "next")
      /\ only("value", "quote", "text") /\ only("text", "chars", "text")
      /\ only("text", "quote", "next") /\ only("next", "comma", "key")
  BY DEF ObjectEdges
<1> HIDE DEF only
<1> QED BY <1>1, <1>2, <1>3

\* A string, after a key's place or a value's.
LEMMA ReadsString ==
  /\ String \in Seq(Tokens)
  /\ Reads("key", String, "named") /\ Reads("value", String, "next")
<1>1. String = (<<"quote">> \o <<"chars">>) \o <<"quote">>
  BY DEF String
<1>2. /\ <<"quote">> \in Seq(Tokens) /\ <<"chars">> \in Seq(Tokens)
      /\ <<"quote">> \o <<"chars">> \in Seq(Tokens) /\ String \in Seq(Tokens)
  BY DEF String, Tokens
<1>3. /\ Reads("key", <<"quote">>, "name") /\ Reads("name", <<"chars">>, "name")
      /\ Reads("name", <<"quote">>, "named")
      /\ Reads("value", <<"quote">>, "text") /\ Reads("text", <<"chars">>, "text")
      /\ Reads("text", <<"quote">>, "next")
  <2>1. \A s \in ReadStates : \A c : Reads(s, <<c>>, ReadToken(s, c))
    BY ReadsOne
  <2> QED BY <2>1, ReadSteps
<1>4. /\ Reads("key", <<"quote">> \o <<"chars">>, "name")
      /\ Reads("value", <<"quote">> \o <<"chars">>, "text")
  BY <1>2, <1>3, ReadsConcat
<1>5. /\ Reads("key", (<<"quote">> \o <<"chars">>) \o <<"quote">>, "named")
      /\ Reads("value", (<<"quote">> \o <<"chars">>) \o <<"quote">>, "next")
  BY <1>2, <1>3, <1>4, ReadsConcat
<1> QED BY <1>1, <1>2, <1>5

\* A member leads from one key's place to the next.
LEMMA ReadsMember ==
  ASSUME NEW f
  PROVE  Member(f) \in Seq(Tokens) /\ Reads("key", Member(f), "key")
<1> DEFINE v == IF Bare(f) THEN <<"literal">> ELSE String
           a == String \o <<"colon">>
           b == a \o v
<1>1. /\ <<"colon">> \in Seq(Tokens) /\ <<"comma">> \in Seq(Tokens)
      /\ <<"literal">> \in Seq(Tokens) /\ String \in Seq(Tokens)
  BY ReadsString DEF Tokens
<1>2. \A s \in ReadStates : \A c : Reads(s, <<c>>, ReadToken(s, c))
  BY ReadsOne
<1>3. /\ Reads("named", <<"colon">>, "value") /\ Reads("value", <<"literal">>, "next")
      /\ Reads("next", <<"comma">>, "key")
  BY <1>2, ReadSteps
<1>4. v \in Seq(Tokens) /\ Reads("value", v, "next")
  BY <1>1, <1>3, ReadsString
<1> HIDE DEF v
<1>5. a \in Seq(Tokens) /\ Reads("key", a, "value")
  BY <1>1, <1>3, ReadsString, ReadsConcat, ConcatProperties
<1> HIDE DEF a
<1>6. b \in Seq(Tokens) /\ Reads("key", b, "next")
  BY <1>4, <1>5, ReadsConcat, ConcatProperties
<1> HIDE DEF b
<1>7. b \o <<"comma">> \in Seq(Tokens) /\ Reads("key", b \o <<"comma">>, "key")
  BY <1>1, <1>3, <1>6, ReadsConcat, ConcatProperties
<1>8. Member(f) = b \o <<"comma">>
  BY DEF Member, a, b, v
<1> QED BY <1>7, <1>8

\* The loop over the fields.
LEMMA MembersIs ==
  ASSUME FieldInv
  PROVE  /\ Members[0] = <<"open">>
         /\ \A n \in 1 .. Len(fields) : Members[n] = Members[n - 1] \o Member(fields[n])
<1> DEFINE N == Len(fields)
           S == Seq(Tokens)
           step == [p \in (1 .. N) \X S |-> p[2] \o Member(fields[p[1]])]
<1>1. N \in Nat /\ <<"open">> \in S
  BY DEF FieldInv, Tokens
<1>2. \A n \in 1 .. N : \A s \in S : s \o Member(fields[n]) \in S
  BY ReadsMember, ConcatProperties
<1>3. step \in [(1 .. N) \X S -> S]
  BY <1>2
<1>4. \A n \in 1 .. N : \A s \in S : step[<<n, s>>] = s \o Member(fields[n])
  OBVIOUS
<1> HIDE DEF S, step, N
<1>5. PICK f \in [0 .. N -> S] : Follows(f, N, <<"open">>, step)
  BY <1>1, <1>3, Recursion
<1>6. \A n \in 0 .. N : n = 0 \/ n \in 1 .. N
  BY <1>1
<1>7. \A n \in 1 .. N : n - 1 \in 0 .. N
  BY <1>1
<1>8. \A n \in 1 .. N : f[n] = f[n - 1] \o Member(fields[n])
  BY <1>4, <1>5, <1>7 DEF Follows
<1>9. \A n \in 0 .. N : f[n] = IF n = 0 THEN <<"open">> ELSE f[n - 1] \o Member(fields[n])
  BY <1>5, <1>6, <1>8 DEF Follows
<1>10. f = [n \in 0 .. N |-> IF n = 0 THEN <<"open">> ELSE f[n - 1] \o Member(fields[n])]
  BY <1>5, <1>9
<1>11. Members = [n \in 0 .. N |-> IF n = 0 THEN <<"open">>
                                   ELSE Members[n - 1] \o Member(fields[n])]
  BY <1>10 DEF Members, N
<1>12. 0 \in 0 .. N /\ \A n \in 1 .. N : n \in 0 .. N /\ n # 0
  BY <1>1
<1> QED BY <1>11, <1>12 DEF N

\* Whatever fields are given, the prefix is the beginning of one JSON object,
\* up to the value of its last member (jp_json_prefix_encoder).
THEOREM PrefixAlwaysAwaitsValue == CSpec => []PrefixAwaitsValue
<1>1. ASSUME FieldInv PROVE PrefixAwaitsValue
  <2> DEFINE N == Len(fields)
             P == {n \in Nat : n <= N => /\ Members[n] \in Seq(Tokens)
                                         /\ Reads("start", Members[n], "key")}
             c == String \o <<"colon">>
  <2>1. N \in Nat
    BY <1>1 DEF FieldInv
  <2>2. /\ Members[0] = <<"open">>
        /\ \A n \in 1 .. N : Members[n] = Members[n - 1] \o Member(fields[n])
    BY <1>1, MembersIs
  <2> HIDE DEF N
  <2>3. 0 \in P
    <3>1. <<"open">> \in Seq(Tokens)
      BY DEF Tokens
    <3>2. Reads("start", <<"open">>, "key")
      BY ReadsOne, ReadSteps
    <3> QED BY <2>2, <3>1, <3>2
  <2>4. ASSUME NEW n \in Nat, n \in P PROVE n + 1 \in P
    <3> SUFFICES ASSUME n + 1 <= N
                 PROVE  /\ Members[n + 1] \in Seq(Tokens)
                        /\ Reads("start", Members[n + 1], "key")
      OBVIOUS
    <3>1. n + 1 \in 1 .. N /\ (n + 1) - 1 = n /\ n <= N
      BY <2>1
    <3>2. Members[n] \in Seq(Tokens) /\ Reads("start", Members[n], "key")
      BY <2>4, <3>1
    <3>3. Members[n + 1] = Members[n] \o Member(fields[n + 1])
      BY <2>2, <3>1
    <3> DEFINE m == Member(fields[n + 1])
               s == Members[n]
    <3>4. m \in Seq(Tokens) /\ Reads("key", m, "key")
      BY ReadsMember
    <3> HIDE DEF m, s
    <3>5. s \o m \in Seq(Tokens) /\ Reads("start", s \o m, "key")
      <4>1. s \in Seq(Tokens) /\ Reads("start", s, "key")
        BY <3>2 DEF s
      <4> QED BY <3>4, <4>1, ReadsConcat, ConcatProperties
    <3> QED BY <3>3, <3>5 DEF m, s
  <2> HIDE DEF P
  <2>5. N \in P
    BY <2>1, <2>3, <2>4, Induct
  <2>6. Members[N] \in Seq(Tokens) /\ Reads("start", Members[N], "key")
    BY <2>1, <2>5 DEF P
  <2>7. c \in Seq(Tokens) /\ Reads("key", c, "value")
    <3>1. <<"colon">> \in Seq(Tokens)
      BY DEF Tokens
    <3>2. Reads("named", <<"colon">>, "value")
      BY ReadsOne, ReadSteps
    <3> QED BY <3>1, <3>2, ReadsString, ReadsConcat, ConcatProperties
  <2> DEFINE m == Members[N]
  <2> HIDE DEF m, c
  <2>8. m \o c \in Seq(Tokens) /\ Reads("start", m \o c, "value")
    <3>1. m \in Seq(Tokens) /\ Reads("start", m, "key")
      BY <2>6 DEF m
    <3> QED BY <2>7, <3>1, ReadsConcat, ConcatProperties
  <2>9. ReadTokens(m \o c) = "value"
    BY <2>8, ReadsIs
  <2> QED BY <2>9 DEF PrefixAwaitsValue, Prefix, m, c, N
<1> QED BY <1>1, FieldInvariant, PTL


-----------------------------------------------------------------------------
(***************************************************************************)
(* Paths and the directories they lead to.                                 *)
(***************************************************************************)
PathParts == STRING \cup {"/", ".", ".."}
Texts == Seq(PathParts)

\* f goes along p, part by part.
Walks(f, p) ==
  /\ f \in [0 .. Len(p) -> Texts] /\ f[0] = Root(p)
  /\ \A n \in 1 .. Len(p) : f[n] = Onward(f[n - 1], p[n])

LEMMA SeqOfStrings ==
  ASSUME NEW s \in Seq(STRING)
  PROVE  s \in Texts
  BY SeqMonotonic DEF Texts, PathParts

\* One step along a path: stay, go up, or go down to a name.
LEMMA OnwardIs ==
  ASSUME NEW d \in Texts, NEW x \in PathParts
  PROVE  /\ x \in {"/", "."} => Onward(d, x) = d
         /\ x = ".." => Onward(d, x) = SubSeq(d, 1, Len(d) - 1)
         /\ x \notin {"/", ".", ".."} => Onward(d, x) = Append(d, x)
         /\ Onward(d, x) \in Texts
<1>1. x \in {"/", "."} => Onward(d, x) = d
  BY DEF Onward
<1>2. x = ".." => Onward(d, x) = SubSeq(d, 1, Len(d) - 1)
  BY DEF Onward
<1>3. x \notin {"/", ".", ".."} => Onward(d, x) = Append(d, x)
  BY DEF Onward
<1>4. Append(d, x) \in Texts
  BY DEF Texts
<1>5. SubSeq(d, 1, Len(d) - 1) \in Texts
  <2>1. Len(d) \in Nat /\ \A i \in 1 .. Len(d) - 1 : d[i] \in PathParts
    BY DEF Texts
  <2> QED BY <2>1, SubSeqProperties DEF Texts
<1> QED BY <1>1, <1>2, <1>3, <1>4, <1>5

LEMMA RootTyped ==
  ASSUME NEW p
  PROVE  Root(p) \in Texts /\ (Root(p) = << >> \/ Root(p) = Cwd)
<1>1. << >> \in Texts /\ Cwd \in Texts
  BY PathAssumption, SeqOfStrings DEF Texts
<1> QED BY <1>1 DEF Root

LEMMA PlaceWalks ==
  ASSUME NEW p \in Texts
  PROVE  Walks(Place(p), p)
<1> DEFINE N == Len(p)
           S == Texts
           r == Root(p)
           step == [x \in (1 .. N) \X S |-> Onward(x[2], p[x[1]])]
           next(g) == [n \in 0 .. N |-> IF n = 0 THEN r ELSE Onward(g[n - 1], p[n])]
           g == CHOOSE h : h = next(h)
<1>1. N \in Nat /\ r \in S /\ \A n \in 1 .. N : p[n] \in PathParts
  BY RootTyped DEF Texts
<1>2. ASSUME NEW n \in 1 .. N, NEW s \in S PROVE Onward(s, p[n]) \in S
  BY <1>1, OnwardIs
<1>3. /\ step \in [(1 .. N) \X S -> S]
      /\ \A n \in 1 .. N : \A s \in S : step[<<n, s>>] = Onward(s, p[n])
  <2> HIDE DEF N, S
  <2>1. \A x \in (1 .. N) \X S : Onward(x[2], p[x[1]]) \in S
    BY <1>2
  <2> QED BY <2>1
<1>4. \A n \in 0 .. N : n = 0 \/ n \in 1 .. N
  BY <1>1
<1>5. 0 \in 0 .. N /\ \A n \in 1 .. N : n - 1 \in 0 .. N /\ n \in 0 .. N /\ n # 0
  BY <1>1
<1> HIDE DEF S, step, N, r
<1>6. PICK f \in [0 .. N -> S] : Follows(f, N, r, step)
  BY <1>1, <1>3, Recursion
<1>7. f[0] = r /\ \A n \in 1 .. N : f[n] = Onward(f[n - 1], p[n])
  BY <1>3, <1>5, <1>6 DEF Follows
<1>8. f = next(f)
  <2>1. \A n \in 0 .. N : f[n] = IF n = 0 THEN r ELSE Onward(f[n - 1], p[n])
    BY <1>4, <1>5, <1>7
  <2> QED BY <1>6, <2>1
<1>9. g = next(g)
  BY <1>8
<1>10. Place(p) = g
  BY DEF Place, N, r
<1> HIDE DEF g
<1>11. g[0] = r /\ \A n \in 1 .. N : g[n] = Onward(g[n - 1], p[n])
  BY <1>5, <1>9
<1>12. g = [n \in 0 .. N |-> g[n]]
  BY <1>9
<1> DEFINE P == {n \in Nat : n <= N => g[n] \in S}
<1>13. 0 \in P
  BY <1>1, <1>11
<1>14. ASSUME NEW n \in Nat, n \in P PROVE n + 1 \in P
  <2> SUFFICES ASSUME n + 1 <= N PROVE g[n + 1] \in S
    OBVIOUS
  <2>1. n + 1 \in 1 .. N /\ (n + 1) - 1 = n /\ n <= N
    BY <1>1
  <2> QED BY <1>2, <1>11, <1>14, <2>1
<1> HIDE DEF P
<1>15. \A n \in Nat : n \in P
  BY <1>13, <1>14, Induct, SMTT(30)
<1>16. \A n \in 0 .. N : g[n] \in S
  BY <1>1, <1>15, SMTT(30) DEF P
<1> QED BY <1>10, <1>11, <1>12, <1>16 DEF Walks, N, S, r

\* A directory has a proper name at every level.
OnlyNames(d) == \A i \in 1 .. Len(d) : d[i] \notin {"/", ".", ".."}

LEMMA OnwardClean ==
  ASSUME NEW d \in Texts, NEW x \in PathParts, OnlyNames(d)
  PROVE  OnlyNames(Onward(d, x))
<1>1. CASE x \in {"/", "."}
  BY <1>1, OnwardIs
<1>2. CASE x = ".."
  <2>1. Len(d) \in Nat /\ \A i \in 1 .. Len(d) - 1 : d[i] \in PathParts
    BY DEF Texts
  <2> DEFINE s == SubSeq(d, 1, Len(d) - 1)
  <2>2. /\ Len(s) = IF 1 <= Len(d) - 1 THEN Len(d) - 1 - 1 + 1 ELSE 0
        /\ \A i \in 1 .. Len(d) - 1 - 1 + 1 : s[i] = d[1 + i - 1]
    BY <2>1, SubSeqProperties
  <2> HIDE DEF s
  <2>3. ASSUME NEW i \in 1 .. Len(s)
        PROVE  i \in 1 .. Len(d) - 1 - 1 + 1 /\ 1 + i - 1 = i /\ i \in 1 .. Len(d)
    BY <2>1, <2>2
  <2>4. OnlyNames(s)
    BY <2>2, <2>3 DEF OnlyNames
  <2> QED BY <1>2, <2>4, OnwardIs DEF s
<1>3. CASE x \notin {"/", ".", ".."}
  <2>1. OnlyNames(Append(d, x))
    BY <1>3 DEF OnlyNames, Texts
  <2> QED BY <1>3, <2>1, OnwardIs
<1> QED BY <1>1, <1>2, <1>3

LEMMA PlaceClean ==
  ASSUME NEW p \in Texts, NEW n \in 0 .. Len(p)
  PROVE  Place(p)[n] \in Texts /\ OnlyNames(Place(p)[n])
<1> DEFINE f == Place(p)
           P == {k \in Nat : k <= Len(p) => OnlyNames(f[k])}
<1>1. Walks(f, p)
  BY PlaceWalks
<1> HIDE DEF f
<1>2. n \in Nat /\ Len(p) \in Nat /\ \A k \in 1 .. Len(p) : p[k] \in PathParts
  BY DEF Texts
<1>3. 0 \in P
  <2>1. OnlyNames(Root(p))
    BY PathAssumption DEF Root, OnlyNames
  <2> QED BY <1>1, <2>1 DEF Walks
<1>4. ASSUME NEW k \in Nat, k \in P PROVE k + 1 \in P
  <2> SUFFICES ASSUME k + 1 <= Len(p) PROVE OnlyNames(f[k + 1])
    OBVIOUS
  <2>1. k + 1 \in 1 .. Len(p) /\ (k + 1) - 1 = k /\ k <= Len(p) /\ k \in 0 .. Len(p)
    BY <1>2
  <2>2. OnlyNames(f[k]) /\ f[k] \in Texts /\ f[k + 1] = Onward(f[k], p[k + 1])
    BY <1>1, <1>4, <2>1 DEF Walks
  <2> QED BY <1>2, <2>1, <2>2, OnwardClean
<1> HIDE DEF P
<1>5. n \in P
  BY <1>2, <1>3, <1>4, Induct
<1>6. f[n] \in Texts
  BY <1>1 DEF Walks
<1> QED BY <1>2, <1>5, <1>6 DEF P, f

-----------------------------------------------------------------------------
\* Going on from a directory, nothing new is above but where one arrives.
LEMMA AncestorsOnward ==
  ASSUME NEW d \in Texts, NEW x \in PathParts
  PROVE  Ancestors(Onward(d, x)) \subseteq Ancestors(d) \cup {Onward(d, x)}
<1> DEFINE e == Onward(d, x)
<1>1. Len(d) \in Nat /\ d \in Seq(PathParts) /\ e \in Seq(PathParts)
  <2>1. e \in Texts
    BY OnwardIs, ZenonT(40)
  <2> HIDE DEF e
  <2> QED BY <2>1 DEF Texts
<1>2. SUFFICES ASSUME NEW n \in 0 .. Len(e), n # Len(e)
               PROVE  SubSeq(e, 1, n) \in Ancestors(d)
  <2>1. SubSeq(e, 1, Len(e)) = e
    BY <1>1, SubSeqFull
  <2> HIDE DEF e
  <2>2. \A y \in Ancestors(e) : \E n \in 0 .. Len(e) : y = SubSeq(e, 1, n)
    BY DEF Ancestors
  <2> QED BY <1>2, <2>1, <2>2 DEF e
<1>3. SUFFICES ASSUME n <= Len(d), \A i \in 1 .. n : e[i] = d[i]
               PROVE  SubSeq(e, 1, n) \in Ancestors(d)
  <2>1. CASE x \in {"/", "."}
    BY <1>1, <1>3, <2>1, OnwardIs
  <2>2. CASE x = ".."
    <3>1. /\ Len(e) = IF 1 <= Len(d) - 1 THEN Len(d) - 1 - 1 + 1 ELSE 0
          /\ \A i \in 1 .. Len(d) - 1 - 1 + 1 : e[i] = d[1 + i - 1]
      <4>1. \A i \in 1 .. Len(d) - 1 : d[i] \in PathParts
        BY <1>1
      <4>2. e = SubSeq(d, 1, Len(d) - 1)
        BY <2>2, OnwardIs
      <4> HIDE DEF e
      <4> QED BY <1>1, <4>1, <4>2, SubSeqProperties
    <3> HIDE DEF e
    <3>2. n <= Len(d) /\ \A i \in 1 .. n : i \in 1 .. Len(d) - 1 - 1 + 1 /\ 1 + i - 1 = i
      BY <1>1, <1>2, <3>1
    <3> QED BY <1>3, <3>1, <3>2 DEF e
  <2>3. CASE x \notin {"/", ".", ".."}
    <3>1. e = Append(d, x) /\ Len(e) = Len(d) + 1 /\ \A i \in 1 .. Len(d) : e[i] = d[i]
      <4>1. e = Append(d, x)
        BY <2>3, OnwardIs
      <4> HIDE DEF e
      <4> QED BY <1>1, <4>1
    <3> HIDE DEF e
    <3>2. n <= Len(d) /\ \A i \in 1 .. n : i \in 1 .. Len(d)
      BY <1>1, <1>2, <3>1
    <3> QED BY <1>3, <3>1, <3>2 DEF e
  <2> QED BY <2>1, <2>2, <2>3
<1> HIDE DEF e
<1>4. /\ SubSeq(e, 1, n) \in Seq(PathParts) /\ Len(SubSeq(e, 1, n)) = n
      /\ SubSeq(d, 1, n) \in Seq(PathParts) /\ Len(SubSeq(d, 1, n)) = n
      /\ \A i \in 1 .. n : SubSeq(e, 1, n)[i] = e[i] /\ SubSeq(d, 1, n)[i] = d[i]
  BY <1>1, <1>2, <1>3
<1>5. SubSeq(e, 1, n) = SubSeq(d, 1, n)
  BY <1>3, <1>4, SeqEqual
<1>6. n \in 0 .. Len(d)
  BY <1>1, <1>2, <1>3
<1> QED BY <1>5, <1>6 DEF Ancestors

\* With all the places on the way, all that is above them is there.
LEMMA AllAbove ==
  ASSUME NEW p \in Texts, NEW D, DirsBefore \subseteq D, PlacesOn(p) \subseteq D,
         NEW n \in 0 .. Len(p)
  PROVE  Ancestors(Place(p)[n]) \subseteq D
<1> DEFINE f == Place(p)
           P == {k \in Nat : k <= Len(p) => Ancestors(f[k]) \subseteq D}
<1>1. Walks(f, p) /\ \A k \in 0 .. Len(p) : f[k] \in D
  BY PlaceWalks DEF PlacesOn
<1> HIDE DEF f
<1>2. n \in Nat /\ Len(p) \in Nat /\ \A k \in 1 .. Len(p) : p[k] \in PathParts
  BY DEF Texts
<1>3. 0 \in P
  <2>1. f[0] = << >> \/ f[0] = Cwd
    BY <1>1, RootTyped DEF Walks
  <2>2. Ancestors(<< >>) = {<< >>}
    <3>1. SubSeq(<< >>, 1, 0) = << >> /\ Len(<< >>) = 0 /\ \A k \in 0 .. 0 : k = 0
      BY SubSeqEmpty
    <3>2. \A k \in 0 .. Len(<< >>) : SubSeq(<< >>, 1, k) = << >>
      BY <3>1
    <3>3. 0 \in 0 .. Len(<< >>)
      BY <3>1
    <3> QED BY <3>2, <3>3, Zenon DEF Ancestors
  <2>3. << >> \in D \/ f[0] = Cwd
    <3>1. 0 \in 0 .. Len(p)
      BY <1>2
    <3> QED BY <1>1, <2>1, <3>1
  <2> QED BY <2>1, <2>2, <2>3 DEF DirsBefore
<1>4. ASSUME NEW k \in Nat, k \in P PROVE k + 1 \in P
  <2> SUFFICES ASSUME k + 1 <= Len(p) PROVE Ancestors(f[k + 1]) \subseteq D
    OBVIOUS
  <2>1. /\ k + 1 \in 1 .. Len(p) /\ (k + 1) - 1 = k /\ k <= Len(p)
        /\ k \in 0 .. Len(p) /\ k + 1 \in 0 .. Len(p)
    BY <1>2
  <2>2. Ancestors(f[k]) \subseteq D /\ f[k] \in Texts /\ f[k + 1] = Onward(f[k], p[k + 1])
    BY <1>1, <1>4, <2>1 DEF Walks
  <2>3. Ancestors(f[k + 1]) \subseteq Ancestors(f[k]) \cup {f[k + 1]}
    BY <1>2, <2>1, <2>2, AncestorsOnward
  <2> QED BY <1>1, <2>1, <2>2, <2>3
<1> HIDE DEF P
<1>5. n \in P
  BY <1>2, <1>3, <1>4, Induct
<1> QED BY <1>2, <1>5 DEF P, f

-----------------------------------------------------------------------------
\* A directory written as an absolute path leads to itself.
LEMMA AbsoluteIs ==
  ASSUME NEW d \in Texts
  PROVE  /\ Absolute(d) \in Texts /\ Absolute(d)[1] = "/"
         /\ d # << >> => /\ Len(Absolute(d)) = 2 * Len(d)
                         /\ \A k \in 0 .. Len(d) - 1 : /\ Absolute(d)[2 * k + 1] = "/"
                                                       /\ Absolute(d)[2 * k + 2] = d[k + 1]
         /\ d = << >> => Absolute(d) = <<"/">>
<1>0. "/" \in PathParts
  BY DEF PathParts
<1>1. CASE d = << >>
  <2>1. <<"/">> \in Texts /\ <<"/">>[1] = "/"
    BY <1>0 DEF Texts
  <2> QED BY <1>1, <2>1 DEF Absolute
<1>2. CASE d # << >>
  <2> DEFINE N == Len(d)
             a == [i \in 1 .. 2 * N |-> IF i % 2 = 1 THEN "/" ELSE d[i \div 2]]
  <2>1. N \in Nat /\ N >= 1 /\ 2 * N \in Nat /\ \A i \in 1 .. N : d[i] \in PathParts
    BY <1>2 DEF Texts
  <2>2. Absolute(d) = a
    BY <1>2 DEF Absolute
  <2> HIDE DEF N
  <2>3. \A i \in 1 .. 2 * N : i % 2 = 1 \/ i \div 2 \in 1 .. N
    BY <2>1
  <2>4. a \in [1 .. 2 * N -> PathParts]
    BY <1>0, <2>1, <2>3
  <2>5. a \in Seq(PathParts) /\ Len(a) = 2 * N
    <3> HIDE DEF a
    <3> QED BY <2>1, <2>4
  <2>6. 1 \in 1 .. 2 * N /\ 1 % 2 = 1
    BY <2>1
  <2>7. a[1] = "/"
    BY <2>6
  <2>8. ASSUME NEW k \in 0 .. N - 1 PROVE a[2 * k + 1] = "/" /\ a[2 * k + 2] = d[k + 1]
    <3>1. 2 * k + 1 \in 1 .. 2 * N /\ (2 * k + 1) % 2 = 1
      BY <2>1
    <3>2. 2 * k + 2 \in 1 .. 2 * N /\ (2 * k + 2) % 2 # 1 /\ (2 * k + 2) \div 2 = k + 1
      BY <2>1
    <3> QED BY <3>1, <3>2
  <2> HIDE DEF a
  <2> QED BY <1>2, <2>2, <2>5, <2>7, <2>8 DEF Texts, N
<1> QED BY <1>1, <1>2

LEMMA AbsoluteLeads ==
  ASSUME NEW d \in Texts, OnlyNames(d)
  PROVE  Resolve(Absolute(d)) = d
<1> DEFINE p == Absolute(d)
           f == Place(p)
           N == Len(d)
<1>1. p \in Texts /\ p[1] = "/"
  BY AbsoluteIs
<1>2. Walks(f, p)
  BY <1>1, PlaceWalks
<1>3. N \in Nat /\ \A i \in 1 .. N : d[i] \in PathParts
  BY DEF Texts
<1>4. "/" \in PathParts /\ f[0] = << >>
  BY <1>1, <1>2 DEF PathParts, Walks, Root
<1>5. CASE d = << >>
  <2>1. p = <<"/">>
    BY <1>5, AbsoluteIs
  <2> HIDE DEF f
  <2>2. Len(p) = 1 /\ 1 \in 1 .. Len(p) /\ 1 - 1 = 0
    BY <2>1
  <2>3. f[1] = Onward(f[0], "/")
    BY <1>1, <1>2, <2>2 DEF Walks
  <2>4. f[1] = << >>
    BY <1>4, <2>3 DEF Onward
  <2> QED BY <1>5, <2>2, <2>4 DEF Resolve, f
<1>6. CASE d # << >>
  <2>1. Len(p) = 2 * N
    BY <1>6, AbsoluteIs
  <2>2. \A k \in 0 .. N - 1 : p[2 * k + 1] = "/" /\ p[2 * k + 2] = d[k + 1]
    BY <1>6, AbsoluteIs
  <2> HIDE DEF p, f, N
  <2> DEFINE P == {k \in Nat : k <= N => f[2 * k] = SubSeq(d, 1, k)}
  <2>3. 0 \in P
    <3>1. SubSeq(d, 1, 0) = << >> /\ 2 * 0 = 0
      BY SubSeqEmpty
    <3> QED BY <1>4, <3>1
  <2>4. ASSUME NEW k \in Nat, k \in P PROVE k + 1 \in P
    <3> SUFFICES ASSUME k + 1 <= N PROVE f[2 * (k + 1)] = SubSeq(d, 1, k + 1)
      OBVIOUS
    <3>1. /\ k \in 0 .. N - 1 /\ k + 1 \in 1 .. N /\ k <= N
          /\ 2 * k + 1 \in 1 .. Len(p) /\ (2 * k + 1) - 1 = 2 * k
          /\ 2 * k + 2 \in 1 .. Len(p) /\ (2 * k + 2) - 1 = 2 * k + 1 /\ 2 * (k + 1) = 2 * k + 2
      BY <1>3, <2>1
    <3>2. f[2 * k] = SubSeq(d, 1, k) /\ SubSeq(d, 1, k) \in Texts
      <4>1. SubSeq(d, 1, k) \in Texts
        BY <3>1 DEF Texts, N
      <4> QED BY <2>4, <3>1, <4>1
    <3>3. f[2 * k + 1] = SubSeq(d, 1, k)
      <4>1. f[2 * k + 1] = Onward(f[2 * k], "/")
        BY <1>2, <2>2, <3>1 DEF Walks
      <4> QED BY <1>4, <3>2, <4>1, OnwardIs
    <3>4. f[2 * k + 2] = Append(SubSeq(d, 1, k), d[k + 1])
      <4>1. f[2 * k + 2] = Onward(SubSeq(d, 1, k), d[k + 1])
        BY <1>2, <2>2, <3>1, <3>3 DEF Walks
      <4>2. d[k + 1] \notin {"/", ".", ".."} /\ d[k + 1] \in PathParts
        BY <1>3, <3>1 DEF OnlyNames, N
      <4> QED BY <3>2, <4>1, <4>2, OnwardIs
    <3>5. Append(SubSeq(d, 1, k), d[k + 1]) = SubSeq(d, 1, k + 1)
      BY <3>1 DEF Texts, N
    <3> QED BY <3>1, <3>4, <3>5
  <2> HIDE DEF P
  <2>5. N \in P
    BY <1>3, <2>3, <2>4, Induct
  <2>6. f[2 * N] = SubSeq(d, 1, N)
    BY <1>3, <2>5 DEF P
  <2>7. SubSeq(d, 1, N) = d
    BY SubSeqFull DEF Texts, N
  <2> QED BY <2>1, <2>6, <2>7 DEF Resolve, f, p
<1> QED BY <1>5, <1>6

\* What is stripped of a path are slashes at its end.
LEMMA StrippedIs ==
  ASSUME NEW p \in Texts, p # << >>
  PROVE  \E m \in 1 .. Len(p) : Stripped(p) = SubSeq(p, 1, m) /\ \A i \in m + 1 .. Len(p) : p[i] = "/"
<1> DEFINE K == {1} \cup {i \in DOMAIN p : p[i] # "/"}
           T == {j \in Nat : j <= Len(p) /\ Len(p) - j \in K}
<1>1. Len(p) \in Nat /\ Len(p) >= 1 /\ DOMAIN p = 1 .. Len(p)
  BY DEF Texts
<1>2. 1 \in K /\ K \subseteq 1 .. Len(p) /\ \A i \in 1 .. Len(p) : i \notin K => p[i] = "/"
  BY <1>1
<1> HIDE DEF K
<1>3. T \in SUBSET Nat /\ Len(p) - 1 \in T
  BY <1>1, <1>2
<1>4. PICK j \in T : \A k \in T : ~(k < j)
  BY <1>3, LeastNat
<1> DEFINE m == Len(p) - j
<1>5. m \in K /\ m \in 1 .. Len(p)
  BY <1>1, <1>2, <1>4
<1>6. \A i \in K : i <= m
  <2> SUFFICES ASSUME NEW i \in K PROVE i <= m
    OBVIOUS
  <2>1. i \in 1 .. Len(p) /\ Len(p) - (Len(p) - i) = i /\ Len(p) - i \in Nat
    BY <1>1, <1>2
  <2>2. Len(p) - i \in T
    BY <1>1, <2>1
  <2>3. j \in Nat /\ ~(Len(p) - i < j)
    BY <1>3, <1>4, <2>2
  <2> QED BY <1>1, <2>1, <2>3
<1> HIDE DEF m, T
<1>7. Max(K) = m
  <2>1. \A x \in K : x \in Nat /\ m >= x
    BY <1>1, <1>2, <1>5, <1>6
  <2>2. \A x \in K : (\A y \in K : x >= y) => x = m
    BY <1>2, <1>5, <2>1
  <2> QED BY <1>5, <2>1, <2>2 DEF Max
<1>8. Stripped(p) = SubSeq(p, 1, m)
  BY <1>7 DEF Stripped, K
<1>9. \A i \in m + 1 .. Len(p) : i \in 1 .. Len(p) /\ i \notin K
  BY <1>1, <1>2, <1>5, <1>6
<1> QED BY <1>2, <1>5, <1>8, <1>9

-----------------------------------------------------------------------------
\* Between two names there is a slash.
Separated(p) == \A i \in 1 .. Len(p) - 1 : "/" \in {p[i], p[i + 1]}

\* Every place before the end was there, or mkdir is called for it: it is
\* called at every slash.
LEMMA MkdirBefore ==
  ASSUME NEW p \in Texts, Separated(p), NEW n \in 1 .. Len(p), NEW j \in 0 .. n - 1
  PROVE  \/ Place(p)[j] \in DirsBefore
         \/ \E k \in MkdirAt(p) : k < n /\ Place(p)[k] = Place(p)[j]
<1> DEFINE f == Place(p)
<1>1. Walks(f, p)
  BY PlaceWalks
<1> HIDE DEF f
<1>2. Len(p) \in Nat /\ j \in Nat /\ n \in Nat /\ j < n /\ n <= Len(p) /\ j \in 0 .. Len(p)
  BY DEF Texts
<1>3. f[0] \in DirsBefore
  <2>1. f[0] = << >> \/ f[0] = Cwd
    BY <1>1, RootTyped DEF Walks
  <2>2. Len(Cwd) \in Nat /\ SubSeq(Cwd, 1, 0) = << >> /\ SubSeq(Cwd, 1, Len(Cwd)) = Cwd
    BY PathAssumption, SubSeqEmpty, SubSeqFull
  <2>3. 0 \in 0 .. Len(Cwd) /\ Len(Cwd) \in 0 .. Len(Cwd)
    BY <2>2
  <2> QED BY <2>1, <2>2, <2>3 DEF DirsBefore, Ancestors
<1>4. CASE j = 0
  BY <1>3, <1>4 DEF f
<1>5. ASSUME j # 0, p[j + 1] = "/" PROVE j \in MkdirAt(p)
  BY <1>2, <1>5 DEF MkdirAt
<1>6. CASE j # 0 /\ p[j + 1] # "/"
  <2>1. j \in 1 .. Len(p) - 1 /\ j \in 1 .. Len(p) /\ j - 1 \in 0 .. Len(p) /\ j - 1 < n
    BY <1>2, <1>6
  <2>2. p[j] = "/"
    BY <1>6, <2>1 DEF Separated
  <2>3. f[j] = f[j - 1]
    BY <1>1, <2>1, <2>2 DEF Walks, Onward
  <2>4. CASE j = 1
    BY <1>3, <2>3, <2>4 DEF f
  <2>5. CASE j # 1
    <3>1. j - 1 \in 1 .. Len(p) /\ (j - 1) + 1 = j
      BY <1>2, <1>6, <2>5
    <3>2. j - 1 \in MkdirAt(p)
      BY <2>2, <3>1 DEF MkdirAt
    <3> QED BY <2>1, <2>3, <3>2 DEF f
  <2> QED BY <2>4, <2>5
<1> QED BY <1>2, <1>4, <1>5, <1>6 DEF f

\* Without a file in the way, every call of mkdir succeeds.
LEMMA AllMade ==
  ASSUME NEW p \in Texts, p # << >>, Separated(p), Len(p) < PathMax,
         writable, dirs = DirsBefore, PlacesOn(p) \cap Plain = {}
  PROVE  Made(p) = MkdirAt(p)
<1>1. ASSUME NEW n \in MkdirAt(p) PROVE ~MkdirFails(n, p)
  <2> DEFINE made   == {Place(p)[k] : k \in {j \in MkdirAt(p) : j < n}}
             before == {Place(p)[k] : k \in 0 .. n - 1}
  <2>1. n \in 1 .. Len(p) /\ Len(p) \in Nat /\ PathMax \in Nat
    BY PathAssumption DEF MkdirAt, Texts
  <2>2. ~(n >= PathMax)
    BY <2>1
  <2>3. before \cap Plain = {}
    <3>1. 0 .. n - 1 \subseteq 0 .. Len(p)
      BY <2>1
    <3> QED BY <3>1 DEF PlacesOn
  <2>4. before \subseteq dirs \cup made
    <3> SUFFICES ASSUME NEW j \in 0 .. n - 1 PROVE Place(p)[j] \in dirs \cup made
      OBVIOUS
    <3>1. CASE Place(p)[j] \in DirsBefore
      BY <3>1
    <3>2. CASE \E k \in MkdirAt(p) : k < n /\ Place(p)[k] = Place(p)[j]
      BY <3>2
    <3> QED BY <2>1, <3>1, <3>2, MkdirBefore
  <2> HIDE DEF made, before
  <2> QED BY <2>2, <2>3, <2>4 DEF MkdirFails, made, before
<1> QED BY <1>1 DEF Made

-----------------------------------------------------------------------------
\* What create_and_normalize_out_dir is called with: nothing is made before.
PathInv ==
  phase \in {"start", "collect", "prepare"} =>
    /\ dirs = DirsBefore
    /\ out_dir = << >> \/ out_dir \in Paths

LEMMA OutputIs ==
  ASSUME PathInv, phase = "prepare"
  PROVE  Output \in Texts /\ Output # << >> /\ Separated(Output)
<1>1. CASE out_dir = << >>
  <2>1. "." \in PathParts
    BY DEF PathParts
  <2>2. <<".">> \in Texts /\ <<".">> # << >> /\ Len(<<".">>) = 1
    BY <2>1 DEF Texts
  <2> QED BY <1>1, <2>2 DEF Output, Separated
<1>2. CASE out_dir # << >>
  BY <1>2, PathAssumption, SeqOfStrings DEF Output, Separated, PathInv
<1> QED BY <1>1, <1>2

LEMMA NormalizeStep ==
  ASSUME PathInv, NormalizeOutDir
  PROVE  OutDirStep
<1> DEFINE o == Output
           p == Stripped(o)
           fits == /\ writable /\ Len(p) < PathMax /\ PlacesOn(p) \cap Plain = {}
                   /\ \A d \in PlacesOn(p) : Len(Absolute(d)) < PathMax
           taken_in == Made(p) = MkdirAt(p) /\ Resolve(p) \in dirs' /\ writable /\ ~RealpathFails(p)
<1>1. o \in Texts /\ o # << >> /\ Separated(o) /\ dirs = DirsBefore
  BY OutputIs DEF NormalizeOutDir, PathInv
<1> HIDE DEF o
<1>2. PICK m \in 1 .. Len(o) : p = SubSeq(o, 1, m)
  BY <1>1, StrippedIs
<1>3. p \in Texts /\ Len(p) = m /\ p # << >> /\ m <= Len(o) /\ m \in Nat /\ Len(o) \in Nat
  BY <1>1, <1>2 DEF Texts
<1>4. Separated(p)
  <2>1. \A i \in 1 .. m : p[i] = o[i]
    BY <1>1, <1>2 DEF Texts
  <2>2. \A i \in 1 .. m - 1 : i \in 1 .. Len(o) - 1 /\ i \in 1 .. m /\ i + 1 \in 1 .. m
    BY <1>3
  <2> QED BY <1>1, <1>3, <2>1, <2>2 DEF Separated
<1>5. dirs' = (dirs \cup {Place(p)[n] : n \in Made(p)}) \ Plain
  BY DEF NormalizeOutDir, o
<1>6. IF taken_in THEN out_dir' = Absolute(Resolve(p)) /\ phase' = "create"
                  ELSE err' = "EOUT_DIR"
  BY DEF NormalizeOutDir, Fail, o
<1> HIDE DEF p
<1>7. Len(p) \in 1 .. Len(p) /\ Len(p) \in 0 .. Len(p) /\ Len(p) \in MkdirAt(p) /\ PathMax \in Nat
  BY <1>3, PathAssumption DEF MkdirAt
<1>8. Made(p) \subseteq MkdirAt(p) /\ MkdirAt(p) \subseteq 0 .. Len(p)
  BY <1>3 DEF Made, MkdirAt
<1>9. dirs' \ dirs \subseteq PlacesOn(p)
  BY <1>5, <1>8 DEF PlacesOn
<1>10. \A d \in PlacesOn(p) : d \in Texts /\ Absolute(d) \in Texts /\ Len(Absolute(d)) \in Nat
  <2>1. ASSUME NEW n \in 0 .. Len(p) PROVE Place(p)[n] \in Texts
    BY <1>3, PlaceClean
  <2>2. \A d \in Texts : Absolute(d) \in Texts /\ Len(Absolute(d)) \in Nat
    BY AbsoluteIs DEF Texts
  <2> QED BY <2>1, <2>2 DEF PlacesOn
<1>11. Resolve(p) \in PlacesOn(p)
  BY <1>7 DEF Resolve, PlacesOn
<1>12. RealpathFails(p) <=> ~(\A d \in PlacesOn(p) : Len(Absolute(d)) < PathMax)
  BY <1>7, <1>10 DEF RealpathFails
<1>13. ASSUME fits
       PROVE  /\ phase' = "create" /\ Ancestors(Resolve(p)) \subseteq dirs'
              /\ out_dir'[1] = "/" /\ Resolve(out_dir') = Resolve(p) /\ Len(out_dir') < PathMax
  <2>1. Made(p) = MkdirAt(p)
    BY <1>1, <1>3, <1>4, <1>13, AllMade
  <2>2. DirsBefore \subseteq dirs'
    BY <1>1, <1>5, PathAssumption
  <2>3. PlacesOn(p) \subseteq dirs'
    <3> SUFFICES ASSUME NEW j \in 0 .. Len(p) PROVE Place(p)[j] \in dirs'
      BY DEF PlacesOn
    <3>1. Place(p)[j] \notin Plain
      BY <1>13 DEF PlacesOn
    <3>2. CASE j = Len(p)
      BY <1>5, <1>7, <2>1, <3>1, <3>2
    <3>3. CASE j # Len(p)
      <4>1. j \in 0 .. Len(p) - 1
        BY <1>3, <3>3
      <4>2. \/ Place(p)[j] \in DirsBefore
            \/ \E k \in MkdirAt(p) : k < Len(p) /\ Place(p)[k] = Place(p)[j]
        BY <1>3, <1>4, <1>7, <4>1, MkdirBefore
      <4> QED BY <1>5, <2>1, <2>2, <3>1, <4>2
    <3> QED BY <3>2, <3>3
  <2>4. Ancestors(Resolve(p)) \subseteq dirs'
    BY <1>3, <1>7, <2>2, <2>3, AllAbove DEF Resolve
  <2>5. taken_in
    BY <1>11, <1>12, <1>13, <2>1, <2>3
  <2>6. out_dir' = Absolute(Resolve(p)) /\ phase' = "create"
    BY <1>6, <2>5
  <2>7. Resolve(p) \in Texts /\ OnlyNames(Resolve(p))
    BY <1>3, <1>7, PlaceClean DEF Resolve
  <2>8. Absolute(Resolve(p))[1] = "/" /\ Resolve(Absolute(Resolve(p))) = Resolve(p)
    BY <2>7, AbsoluteIs, AbsoluteLeads
  <2> QED BY <1>11, <1>13, <2>4, <2>6, <2>8
<1>14. ASSUME ~fits PROVE err' = "EOUT_DIR"
  <2> SUFFICES ASSUME taken_in PROVE FALSE
    BY <1>6
  <2>1. Len(p) \in Made(p)
    BY <1>7
  <2>2. ~MkdirFails(Len(p), p)
    <3>1. Len(p) <= Len(p)
      BY <1>3
    <3> QED BY <1>7, <2>1, <3>1 DEF Made
  <2>3. Len(p) < PathMax
    BY <1>3, <1>7, <2>2 DEF MkdirFails
  <2>4. {Place(p)[k] : k \in 0 .. Len(p) - 1} \cap Plain = {}
    BY <2>2 DEF MkdirFails
  <2>5. Resolve(p) \notin Plain
    BY <1>5
  <2>6. PlacesOn(p) \cap Plain = {}
    <3> SUFFICES ASSUME NEW j \in 0 .. Len(p) PROVE Place(p)[j] \notin Plain
      BY DEF PlacesOn
    <3>1. j = Len(p) \/ j \in 0 .. Len(p) - 1
      BY <1>3
    <3> QED BY <2>4, <2>5, <3>1 DEF Resolve
  <2> QED BY <1>12, <1>14, <2>3, <2>6
<1> HIDE DEF fits, taken_in
<1>15. IF fits THEN /\ phase' = "create" /\ Ancestors(Resolve(p)) \subseteq dirs'
                    /\ out_dir'[1] = "/" /\ Resolve(out_dir') = Resolve(p)
                    /\ Len(out_dir') < PathMax
               ELSE err' = "EOUT_DIR"
  BY <1>13, <1>14
<1> QED BY <1>9, <1>15 DEF OutDirStep, fits, p, o

LEMMA CollectKeeps ==
  ASSUME PathInv, CollectArgs
  PROVE  PathInv' /\ phase = "collect"
<1>1. ASSUME NEW e, NEW context, Collecting, Refuse(e, context)
      PROVE  PathInv' /\ phase = "collect"
  BY <1>1 DEF Refuse, Fail, Collecting, PathInv
<1>2. ASSUME Collecting, Accepted, out_dir' = out_dir PROVE PathInv' /\ phase = "collect"
  BY <1>2 DEF Accepted, external, Collecting, PathInv
<1>3. ASSUME NEW a \in Numbers(ChunkNumbers), SetChunkSize(a) PROVE PathInv' /\ phase = "collect"
  BY <1>1, <1>2, <1>3 DEF SetChunkSize, Accept
<1>4. ASSUME NEW a \in Numbers(BufferNumbers), SetBufferSize(a) PROVE PathInv' /\ phase = "collect"
  BY <1>1, <1>2, <1>4 DEF SetBufferSize, Accept
<1>5. ASSUME NEW q \in {"wait", "drop", "x"}, SetPolicy(q) PROVE PathInv' /\ phase = "collect"
  BY <1>1, <1>2, <1>5 DEF SetPolicy, Accept
<1>6. ASSUME NEW path \in Paths, SetOutDir(path) PROVE PathInv' /\ phase = "collect"
  BY <1>6 DEF SetOutDir, Collecting, Fail, Accepted, external, PathInv
<1>7. ASSUME NEW arg \in Args, SetField(arg) PROVE PathInv' /\ phase = "collect"
  BY <1>1, <1>2, <1>7 DEF SetField, ctx
<1>8. CASE SetDryRun
  BY <1>2, <1>8 DEF SetDryRun
<1>9. CASE IgnoreFlag
  BY <1>2, <1>9 DEF IgnoreFlag, ctx
<1>10. CASE Unknown
  BY <1>1, <1>10 DEF Unknown
<1>11. CASE Collected
  BY <1>11 DEF Collected, ctx, external, PathInv
<1> QED BY <1>3, <1>4, <1>5, <1>6, <1>7, <1>8, <1>9, <1>10, <1>11 DEF CollectArgs

LEMMA PathStep ==
  ASSUME PathInv, [CNext]_cvars
  PROVE  PathInv' /\ [OutDirStep]_ovars
<1>1. ASSUME UNCHANGED <<dirs, out_dir>>, phase = "start" PROVE PathInv' /\ [OutDirStep]_ovars
  BY <1>1 DEF PathInv, OutDirStep
<1>2. ASSUME phase' \notin {"start", "collect", "prepare"}, phase # "prepare"
      PROVE  PathInv' /\ [OutDirStep]_ovars
  BY <1>2 DEF PathInv, OutDirStep
<1>3. CASE MissingCommand \/ UnknownCommand
  BY <1>1, <1>3 DEF MissingCommand, UnknownCommand, Refuse, ctx, external
<1>4. CASE Help \/ RunHelp \/ Run
  BY <1>1, <1>4 DEF Help, RunHelp, Run, Goes, Called, ctx, external
<1>5. CASE Summary
  BY <1>2, <1>5 DEF Summary, Goes
<1>6. CASE OutOfMemory \/ Exit
  BY <1>2, <1>6 DEF OutOfMemory, Exit, Goes
<1>7. CASE NormalizeOutDir
  <2>1. phase' \notin {"start", "collect", "prepare"}
    BY <1>7 DEF NormalizeOutDir, Fail
  <2>2. PathInv'
    BY <2>1 DEF PathInv
  <2> QED BY <1>7, <2>2, NormalizeStep
<1>8. CASE CreateQueue
  BY <1>2, <1>8 DEF CreateQueue, Fail
<1>9. CASE CollectArgs
  BY <1>9, CollectKeeps DEF OutDirStep
<1>10. CASE UNCHANGED cvars
  BY <1>10 DEF cvars, ovars, ctx, external, PathInv
<1> QED BY <1>3, <1>4, <1>5, <1>6, <1>7, <1>8, <1>9, <1>10 DEF CNext, Prepare

\* The output directory is made with all that is on the way and nothing else,
\* and is refused for a reason only, for every path, dots and parents in it,
\* every working directory and file system (create_and_normalize_out_dir).
THEOREM OutDirAlwaysMade == CSpec => OutDirMade
<1>1. CInit => PathInv
  BY DEF CInit, OInit, PathInv
<1>2. PathInv /\ [CNext]_cvars => PathInv' /\ [OutDirStep]_ovars
  BY PathStep
<1> QED BY <1>1, <1>2, PTL DEF CSpec, OutDirMade

=============================================================================
