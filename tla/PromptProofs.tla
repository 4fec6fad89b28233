---------------------------- MODULE PromptProofs -----------------------------
(***************************************************************************)
(* The prompt keeps its buffer and multiline together, runs blocks whole   *)
(* and every line once, for all lines and however many are typed.          *)
(***************************************************************************)
EXTENDS Prompt, FiniteSetTheorems, SequenceTheorems, TLAPS

-----------------------------------------------------------------------------
(* Sequences that grow at their end. *)

LEMMA AppendGrows ==
  ASSUME NEW S, NEW s \in Seq(S), NEW e \in S
  PROVE  /\ Append(s, e) \in Seq(S)
         /\ Len(Append(s, e)) = Len(s) + 1
         /\ Append(s, e) # <<>>
         /\ Append(s, e) # s
         /\ Last(Append(s, e)) = e
         /\ \A i \in DOMAIN s : Append(s, e)[i] = s[i]
         /\ DOMAIN Append(s, e) = DOMAIN s \cup {Len(s) + 1}
         /\ Append(s, e)[Len(s) + 1] = e
<1>1. Append(s, e) \in Seq(S) /\ Len(Append(s, e)) = Len(s) + 1 /\ Len(s) \in Nat
  OBVIOUS
<1>2. Len(Append(s, e)) # 0 /\ Len(Append(s, e)) # Len(s)
  BY <1>1
<1>3. DOMAIN s = 1..Len(s) /\ DOMAIN Append(s, e) = 1..(Len(s) + 1)
  BY <1>1
<1>4. Append(s, e)[Len(s) + 1] = e /\ \A i \in 1..Len(s) : Append(s, e)[i] = s[i]
  OBVIOUS
<1>5. Last(Append(s, e)) = e
  BY <1>1, <1>4 DEF Last
<1>6. DOMAIN Append(s, e) = DOMAIN s \cup {Len(s) + 1}
  BY <1>1, <1>3
<1>7. Append(s, e) # <<>> /\ Append(s, e) # s
  BY <1>1, <1>2
<1> QED BY <1>1, <1>3, <1>4, <1>5, <1>6, <1>7

\* Nothing but the new element comes into the range.
LEMMA AppendRange ==
  ASSUME NEW S, NEW s \in Seq(S), NEW e \in S, NEW x, x # e, x \notin Range(s)
  PROVE  x \notin Range(Append(s, e))
BY AppendGrows DEF Range

-----------------------------------------------------------------------------
(* Blocks. *)

LEMMA InitBlock == Init => TypeOK /\ BufferIsBlock
<1> SUFFICES ASSUME Init PROVE TypeOK /\ BufferIsBlock
  OBVIOUS
<1>1. TypeOK
  <2>1. Len(entered) <= LineLimit
    BY PromptAssumption DEF Init
  <2>2. <<>> \notin Range(executed)
    BY DEF Init, Range
  <2>3. entered \in Seq(Lines) /\ buffer \in Seq(Lines) /\ executed \in Seq(Seq(Lines))
    BY DEF Init
  <2>4. multiline \in BOOLEAN /\ argc \in 1..3 /\ exit \in ExitCode \cup {NoExit}
    BY DEF Init
  <2> QED BY <2>1, <2>2, <2>3, <2>4 DEF TypeOK
<1>2. BufferIsBlock
  BY DEF Init, BufferIsBlock
<1> QED BY <1>1, <1>2

\* The line that is read is one of those that may be typed.
LEMMA ReadsType ==
  ASSUME TypeOK, NEW line \in Lines, Reads(line)
  PROVE  entered' \in Seq(Lines) /\ Len(entered') <= LineLimit /\ Last(entered') = line
<1>1. Len(entered) + 1 <= LineLimit
  BY PromptAssumption DEF TypeOK, Reads
<1> QED BY <1>1, AppendGrows DEF TypeOK, Reads

LEMMA RunBlockKeeps ==
  ASSUME TypeOK, BufferIsBlock, NEW line \in Lines, RunBlock(line)
  PROVE  TypeOK' /\ BufferIsBlock'
<1>1. entered' \in Seq(Lines) /\ Len(entered') <= LineLimit
  BY ReadsType DEF RunBlock
<1>2. executed' \in Seq(Seq(Lines))
  BY AppendGrows DEF RunBlock, TypeOK
<1>3. argc' = 1 => <<>> \notin Range(executed')
  BY AppendRange DEF RunBlock, TypeOK, Stays
<1>4. buffer' = <<>> /\ multiline' = FALSE /\ argc' = argc /\ exit' = exit
  BY DEF RunBlock, Stays
<1>5. TypeOK'
  <2>1. buffer' \in Seq(Lines)
    BY <1>4
  <2>2. multiline' \in BOOLEAN
    BY <1>4
  <2>3. argc' \in 1..3 /\ exit' \in ExitCode \cup {NoExit}
    BY <1>4 DEF TypeOK
  <2> QED BY <1>1, <1>2, <1>3, <2>1, <2>2, <2>3 DEF TypeOK
<1> QED BY <1>4, <1>5 DEF BufferIsBlock

LEMMA AddLineKeeps ==
  ASSUME TypeOK, BufferIsBlock, NEW line \in Lines, AddLine(line)
  PROVE  TypeOK' /\ BufferIsBlock'
<1> DEFINE begins == buffer = <<>> /\ StartsBlock(line)
<1>1. entered' \in Seq(Lines) /\ Len(entered') <= LineLimit
  BY ReadsType DEF AddLine
<1>2. ~IsBlank(line)
  BY DEF AddLine, BufferIsBlock
<1>3. Append(buffer, line) \in Seq(Lines) /\ Append(buffer, line) # <<>>
  <2>1. buffer \in Seq(Lines)
    BY DEF TypeOK
  <2> QED BY <2>1, AppendGrows
<1>4. CASE begins \/ multiline
  <2>1. multiline' = TRUE /\ buffer' = Append(buffer, line) /\ UNCHANGED executed
    BY <1>4 DEF AddLine
  <2>2. TypeOK'
    BY <1>1, <1>3, <2>1 DEF TypeOK, AddLine, Stays
  <2>3. StartsBlock(buffer'[1])
    <3>1. CASE buffer = <<>>
      BY <1>4, <2>1, <3>1 DEF BufferIsBlock
    <3>2. CASE buffer # <<>>
      <4>1. 1 \in DOMAIN buffer
        BY <3>2 DEF TypeOK
      <4>2. buffer'[1] = buffer[1]
        BY <2>1, <4>1, AppendGrows DEF TypeOK
      <4> QED BY <1>4, <3>2, <4>2 DEF BufferIsBlock
    <3> QED BY <3>1, <3>2
  <2>4. \A i \in DOMAIN buffer' : ~IsBlank(buffer'[i])
    BY <1>2, <2>1, AppendGrows DEF TypeOK, BufferIsBlock
  <2> QED BY <1>3, <2>1, <2>2, <2>3, <2>4 DEF BufferIsBlock
<1>5. CASE ~(begins \/ multiline)
  <2>1. executed' = Append(executed, Append(buffer, line)) /\ buffer' = <<>>
        /\ UNCHANGED multiline
    BY <1>5 DEF AddLine
  <2>2. executed' \in Seq(Seq(Lines)) /\ (argc' = 1 => <<>> \notin Range(executed'))
    BY <1>3, <2>1, AppendGrows, AppendRange DEF TypeOK, AddLine, Stays
  <2> QED BY <1>1, <1>5, <2>1, <2>2 DEF TypeOK, BufferIsBlock, AddLine, Stays
<1> QED BY <1>4, <1>5

LEMMA RunFileKeeps == TypeOK /\ BufferIsBlock /\ RunFile => TypeOK' /\ BufferIsBlock'
<1> SUFFICES ASSUME TypeOK, BufferIsBlock, RunFile PROVE TypeOK' /\ BufferIsBlock'
  OBVIOUS
<1>1. PICK k \in 0..LineLimit : entered' \in [1..k -> Lines]
  BY DEF RunFile
<1>2. k \in Nat /\ k <= LineLimit
  BY PromptAssumption
<1>3. entered' \in Seq(Lines) /\ Len(entered') <= LineLimit
  BY <1>1, <1>2
<1>4. executed' \in Seq(Seq(Lines))
  BY <1>3 DEF RunFile
<1> QED BY <1>3, <1>4 DEF RunFile, TypeOK, BufferIsBlock, ExitCode

LEMMA EndOfInputKeeps ==
  TypeOK /\ BufferIsBlock /\ EndOfInput => TypeOK' /\ BufferIsBlock'
<1> SUFFICES ASSUME TypeOK, BufferIsBlock, EndOfInput PROVE TypeOK' /\ BufferIsBlock'
  OBVIOUS
<1>1. executed' \in Seq(Seq(Lines)) /\ (argc' = 1 => <<>> \notin Range(executed'))
  BY AppendGrows, AppendRange DEF EndOfInput, TypeOK, Leaves
<1> QED BY <1>1 DEF EndOfInput, TypeOK, BufferIsBlock, ExitCode, Leaves

LEMMA NextKeeps == TypeOK /\ BufferIsBlock /\ [Next]_vars => TypeOK' /\ BufferIsBlock'
<1> SUFFICES ASSUME TypeOK, BufferIsBlock, [Next]_vars PROVE TypeOK' /\ BufferIsBlock'
  OBVIOUS
<1>1. CASE Usage \/ CannotOpen
  BY <1>1 DEF Usage, CannotOpen, TypeOK, BufferIsBlock, ExitCode, session
<1>2. CASE RunFile
  BY <1>2, RunFileKeeps
<1>3. CASE \E line \in Lines : Quit(line)
  BY <1>3, ReadsType DEF Quit, TypeOK, BufferIsBlock, ExitCode, Leaves
<1>4. CASE \E line \in Lines : IgnoreBlank(line)
  BY <1>4, ReadsType DEF IgnoreBlank, TypeOK, BufferIsBlock, Stays
<1>5. CASE \E line \in Lines : RunBlock(line)
  BY <1>5, RunBlockKeeps
<1>6. CASE \E line \in Lines : AddLine(line)
  BY <1>6, AddLineKeeps
<1>7. CASE EndOfInput
  BY <1>7, EndOfInputKeeps
<1>8. CASE UNCHANGED vars
  BY <1>8 DEF vars, session, TypeOK, BufferIsBlock
<1> QED BY <1>1, <1>2, <1>3, <1>4, <1>5, <1>6, <1>7, <1>8 DEF Next

\* Buffer, exit code and units have their types, and at a prompt no unit is
\* empty (main.cpp:33-103).
THEOREM PromptTypes == Spec => []TypeOK
<1>1. Init => TypeOK /\ BufferIsBlock
  BY InitBlock
<1>2. TypeOK /\ BufferIsBlock /\ [Next]_vars => (TypeOK /\ BufferIsBlock)'
  BY NextKeeps
<1> QED BY <1>1, <1>2, PTL DEF Spec

\* However headers, blank lines and other lines follow each other, the buffer
\* holds a block exactly when multiline is set (main.cpp:44-66).
THEOREM BufferHoldsBlock == Spec => []BufferIsBlock
<1>1. Init => TypeOK /\ BufferIsBlock
  BY InitBlock
<1>2. TypeOK /\ BufferIsBlock /\ [Next]_vars => (TypeOK /\ BufferIsBlock)'
  BY NextKeeps
<1> QED BY <1>1, <1>2, PTL DEF Spec

-----------------------------------------------------------------------------
(* Units. *)

\* Without a '#' in a string the prompt cuts a line where the lexer does.
LEMMA SameHeaders ==
  ASSUME NEW line, ~HasQuotedHash(line)
  PROVE  OpensBlock(line) <=> StartsBlock(line)
<1>1. Comments(line) = {i \in DOMAIN line : line[i] = "hash"}
  BY DEF HasQuotedHash, Comments
<1>2. Statement(line) = Code(line)
  BY <1>1 DEF Statement, Code
<1> QED BY <1>2 DEF OpensBlock, StartsBlock

\* The step that gives a unit to execute_source() is the one at which the unit
\* ends.
LEMMA UnitsAreWhole ==
  ASSUME TypeOK, BufferIsBlock, Next, argc = 1, executed' # executed,
         ~HasQuotedHash(Last(executed')[1])
  PROVE  Whole(executed')
<1>1. CASE \E line \in Lines : RunBlock(line)
  <2>1. PICK line \in Lines : RunBlock(line)
    BY <1>1
  <2>2. Last(executed') = buffer
    BY <2>1, AppendGrows DEF RunBlock, TypeOK
  <2>3. IsBlank(Last(entered'))
    BY <2>1, ReadsType DEF RunBlock
  <2>4. StartsBlock(buffer[1])
    BY <2>1 DEF RunBlock, BufferIsBlock
  <2> QED BY <2>2, <2>3, <2>4, SameHeaders DEF Whole
<1>2. CASE \E line \in Lines : AddLine(line)
  <2>1. PICK line \in Lines : AddLine(line)
    BY <1>2
  <2>2. buffer = <<>> /\ ~StartsBlock(line) /\ executed' = Append(executed, Append(buffer, line))
    BY <2>1 DEF AddLine, BufferIsBlock
  <2>3. Last(executed')[1] = line
    <3>1. executed \in Seq(Seq(Lines)) /\ Append(buffer, line) \in Seq(Lines)
      BY AppendGrows DEF TypeOK
    <3>2. Last(executed') = Append(buffer, line)
      <4> DEFINE unit == Append(buffer, line)
      <4> HIDE DEF unit
      <4>1. unit \in Seq(Lines)
        BY <3>1 DEF unit
      <4>2. Last(Append(executed, unit)) = unit
        BY <3>1, <4>1, AppendGrows
      <4> QED BY <2>2, <4>2 DEF unit
    <3> QED BY <2>2, <3>2
  <2>4. Last(entered') = line /\ ~IsBlank(line)
    BY <2>1, <2>2, ReadsType DEF AddLine
  <2>5. ~ended'
    BY <2>1 DEF AddLine, Reads, Prompts, Stays, ended
  <2> QED BY <2>2, <2>3, <2>4, <2>5, SameHeaders DEF Whole
<1>3. CASE EndOfInput
  <2>1. buffer # <<>> /\ Last(executed') = buffer
    BY <1>3, AppendGrows DEF EndOfInput, TypeOK
  <2>2. StartsBlock(buffer[1])
    BY <2>1 DEF BufferIsBlock
  <2>3. ended'
    BY <1>3 DEF EndOfInput, Leaves, ended, NoExit
  <2> QED BY <2>1, <2>2, <2>3, SameHeaders DEF Whole
<1>4. ~(Usage \/ CannotOpen \/ RunFile)
  BY DEF Usage, CannotOpen, RunFile
<1>5. ~(\E line \in Lines : Quit(line)) /\ ~(\E line \in Lines : IgnoreBlank(line))
  BY DEF Quit, IgnoreBlank
<1> QED BY <1>1, <1>2, <1>3, <1>4, <1>5 DEF Next

\* A block is run by a blank line or the end of the input, never before, and every
\* other line at once, as long as no '#' stands in a string (main.cpp:27-31, 44-75;
\* src/README.md:64).
THEOREM BlocksAreRunWhole == Spec => PlainBlocksRunWhole
<1> DEFINE Runs == argc = 1 /\ executed' # executed /\ ~HasQuotedHash(Last(executed')[1]) =>
                     Whole(executed')
<1>1. Init => TypeOK /\ BufferIsBlock
  BY InitBlock
<1>2. TypeOK /\ BufferIsBlock /\ [Next]_vars => (TypeOK /\ BufferIsBlock)'
  BY NextKeeps
<1>3. TypeOK /\ BufferIsBlock /\ [Next]_vars => [Runs]_vars
  BY UnitsAreWhole
<1> HIDE DEF Runs
<1>4. Spec => [][Runs]_vars
  BY <1>1, <1>2, <1>3, PTL DEF Spec
<1> QED BY <1>4 DEF PlainBlocksRunWhole, Runs

-----------------------------------------------------------------------------
(* Every line once.  A recursive definition says what its function is only *)
(* if there is one: if not, there would be a least position without.       *)

LEMMA LeastElement ==
  ASSUME NEW n \in Nat, NEW T \in SUBSET (0..n), T # {}
  PROVE  \E least \in T : \A j \in T : least <= j
<1> DEFINE Beginning == {0..i : i \in T}
           Order == StrictSubsetOrdering(0..n)
<1>1. IsWellFoundedOn(Order, FiniteSubsetsOf(0..n))
  BY FS_StrictSubsetOrderingWellFounded
<1>2. Beginning \subseteq FiniteSubsetsOf(0..n) /\ Beginning # {}
  <2> SUFFICES ASSUME NEW i \in T PROVE 0..i \in FiniteSubsetsOf(0..n)
    OBVIOUS
  <2>1. IsFiniteSet(0..i)
    BY FS_Interval
  <2> QED BY <2>1 DEF FiniteSubsetsOf
<1>3. PICK S \in Beginning : \A U \in Beginning : ~(<<U, S>> \in Order)
  <2> HIDE DEF Beginning, Order
  <2> QED BY <1>1, <1>2, WFMin
<1>4. PICK least \in T : S = 0..least
  BY <1>3
<1>5. ASSUME NEW j \in T, ~(least <= j) PROVE FALSE
  <2>1. 0..j \subseteq 0..least /\ 0..j # 0..least
    BY <1>5
  <2>2. <<0..j, S>> \in Order
    BY <1>4, <2>1 DEF StrictSubsetOrdering
  <2> QED BY <1>3, <2>2
<1> QED BY <1>5

\* f goes from base to its last value in n steps.
Recurs(f, n, base, step) ==
  /\ f = [i \in 0..n |-> f[i]]
  /\ f[0] = base
  /\ \A i \in 1..n : f[i] = step[<<f[i - 1], i>>]

LEMMA RecursionExists ==
  ASSUME NEW n \in Nat, NEW S, NEW base \in S, NEW step \in [S \X (1..n) -> S]
  PROVE  \E f : Recurs(f, n, base, step) /\ \A i \in 0..n : f[i] \in S
<1> DEFINE Defined(k) == \E f : Recurs(f, k, base, step) /\ \A i \in 0..k : f[i] \in S
           bad == {k \in 0..n : ~Defined(k)}
<1>1. bad \in SUBSET (0..n)
  OBVIOUS
<1>2. CASE bad = {}
  BY <1>2
<1>3. CASE bad # {}
  <2>1. PICK k \in bad : \A j \in bad : k <= j
    <3> HIDE DEF bad
    <3> QED BY <1>1, <1>3, LeastElement
  <2>2. k \in 0..n /\ ~Defined(k)
    OBVIOUS
  <2>3. CASE k = 0
    <3> DEFINE f == [i \in 0..0 |-> base]
    <3>1. Recurs(f, 0, base, step) /\ \A i \in 0..0 : f[i] \in S
      BY DEF Recurs
    <3> HIDE DEF f
    <3> QED BY <2>2, <2>3, <3>1
  <2>4. CASE k # 0
    <3>1. k - 1 \in 0..n /\ k \in 1..n /\ ~(k <= k - 1)
      BY <2>2, <2>4
    <3>2. Defined(k - 1)
      BY <2>1, <3>1
    <3>3. PICK g : Recurs(g, k - 1, base, step) /\ \A i \in 0..(k - 1) : g[i] \in S
      BY <3>2
    <3> HIDE DEF Defined, bad
    <3> DEFINE v == step[<<g[k - 1], k>>]
               f == [i \in 0..k |-> IF i = k THEN v ELSE g[i]]
    <3>4. v \in S
      <4>1. g[k - 1] \in S
        BY <3>1, <3>3
      <4> QED BY <3>1, <4>1
    <3> HIDE DEF v
    <3>5. f = [i \in 0..k |-> f[i]] /\ f[k] = v /\ \A i \in 0..(k - 1) : f[i] = g[i]
      BY <3>1
    <3> HIDE DEF f
    <3>6. f[0] = base
      <4>1. 0 \in 0..(k - 1)
        BY <3>1
      <4> QED BY <3>3, <3>5, <4>1 DEF Recurs
    <3>7. ASSUME NEW i \in 1..k PROVE f[i] = step[<<f[i - 1], i>>]
      <4>1. f[i - 1] = g[i - 1]
        <5>1. i - 1 \in 0..(k - 1)
          BY <3>1
        <5> QED BY <3>5, <5>1
      <4>2. CASE i = k
        BY <3>5, <4>1, <4>2 DEF v
      <4>3. CASE i # k
        <5>1. i \in 1..(k - 1) /\ i \in 0..(k - 1)
          BY <3>1, <4>3
        <5> QED BY <3>3, <3>5, <4>1, <5>1 DEF Recurs
      <4> QED BY <4>2, <4>3
    <3>8. \A i \in 0..k : f[i] \in S
      <4>1. \A i \in 0..k : i = k \/ i \in 0..(k - 1)
        BY <3>1
      <4> QED BY <3>3, <3>4, <3>5, <4>1
    <3>9. Recurs(f, k, base, step)
      BY <3>5, <3>6, <3>7 DEF Recurs
    <3> QED BY <2>2, <3>8, <3>9 DEF Defined
  <2> QED BY <2>3, <2>4
<1> QED BY <1>2, <1>3

\* There is but one such function.
LEMMA RecursionUnique ==
  ASSUME NEW n \in Nat, NEW f, NEW g, f[0] = g[0],
         \A i \in 1..n : f[i - 1] = g[i - 1] => f[i] = g[i]
  PROVE  \A i \in 0..n : f[i] = g[i]
<1> DEFINE bad == {k \in 0..n : f[k] # g[k]}
<1>1. bad \in SUBSET (0..n)
  OBVIOUS
<1>2. ASSUME bad # {} PROVE FALSE
  <2>1. PICK k \in bad : \A j \in bad : k <= j
    <3> HIDE DEF bad
    <3> QED BY <1>1, <1>2, LeastElement
  <2>2. k \in 1..n /\ k - 1 \in 0..n /\ ~(k <= k - 1)
    OBVIOUS
  <2>3. f[k - 1] = g[k - 1]
    BY <2>1, <2>2
  <2> QED BY <2>2, <2>3
<1> QED BY <1>2

LEMMA RecursAt ==
  ASSUME NEW f, NEW n, NEW base, NEW step, Recurs(f, n, base, step), NEW i \in 1..n
  PROVE  f[i] = step[<<f[i - 1], i>>]
BY DEF Recurs

\* Keeping the lines that are not blank, one after the other.
KeepStep(s) ==
  [a \in Seq(Lines) \X (1..Len(s)) |-> IF IsBlank(s[a[2]]) THEN a[1] ELSE Append(a[1], s[a[2]])]

LEMMA CodeLinesRecurs ==
  ASSUME NEW s \in Seq(Lines), NEW f, Recurs(f, Len(s), <<>>, KeepStep(s)),
         \A i \in 0..Len(s) : f[i] \in Seq(Lines)
  PROVE  CodeLines(s) = f[Len(s)]
<1> DEFINE n == Len(s)
           Body(g) == [i \in 0..n |->
                        IF i = 0 THEN <<>>
                        ELSE IF IsBlank(s[i]) THEN g[i - 1] ELSE Append(g[i - 1], s[i])]
           keep == CHOOSE g : g = Body(g)
<1>1. CodeLines(s) = keep[n]
  BY DEF CodeLines
<1>2. n \in Nat
  OBVIOUS
<1>3. ASSUME NEW i \in 1..n
      PROVE  f[i] = IF IsBlank(s[i]) THEN f[i - 1] ELSE Append(f[i - 1], s[i])
  <2>0. f[i] = KeepStep(s)[<<f[i - 1], i>>]
    BY RecursAt
  <2>1. f[i] = KeepStep(s)[<<f[i - 1], i>>] /\ i - 1 \in 0..n
    BY <1>2, <2>0
  <2>2. <<f[i - 1], i>> \in Seq(Lines) \X (1..Len(s))
    BY <2>1
  <2> QED BY <2>1, <2>2 DEF KeepStep
<1>4. f = Body(f)
  <2>1. f[0] = <<>> /\ f = [i \in 0..n |-> f[i]]
    BY DEF Recurs
  <2>2. \A i \in 0..n : f[i] = Body(f)[i]
    <3> SUFFICES ASSUME NEW i \in 0..n PROVE f[i] = Body(f)[i]
      OBVIOUS
    <3>1. CASE i = 0
      BY <2>1, <3>1
    <3>2. CASE i # 0
      <4>1. i \in 1..n
        BY <1>2, <3>2
      <4> QED BY <1>3, <3>2, <4>1
    <3> QED BY <3>1, <3>2
  <2>3. Body(f) = [i \in 0..n |-> Body(f)[i]]
    OBVIOUS
  <2> HIDE DEF Body
  <2> QED BY <2>1, <2>2, <2>3
<1>5. keep = Body(keep)
  <2> HIDE DEF Body
  <2> QED BY <1>4
<1>6. keep[0] = f[0]
  <2>1. keep[0] = Body(keep)[0] /\ 0 \in 0..n
    <3> HIDE DEF keep, Body
    <3> QED BY <1>2, <1>5
  <2> HIDE DEF keep
  <2> QED BY <2>1 DEF Recurs
<1>7. ASSUME NEW i \in 1..n, keep[i - 1] = f[i - 1] PROVE keep[i] = f[i]
  <2>1. keep[i] = Body(keep)[i] /\ i \in 0..n /\ i # 0
    <3>1. i \in 0..n /\ i # 0
      BY <1>2
    <3> HIDE DEF keep, Body
    <3> QED BY <1>5, <3>1
  <2> HIDE DEF keep
  <2>2. keep[i] = IF IsBlank(s[i]) THEN keep[i - 1] ELSE Append(keep[i - 1], s[i])
    BY <2>1
  <2> QED BY <1>3, <1>7, <2>2
<1> HIDE DEF keep
<1>8. keep[n] = f[n]
  <2>1. \A i \in 0..n : keep[i] = f[i]
    BY <1>2, <1>6, <1>7, RecursionUnique
  <2> QED BY <1>2, <2>1
<1> QED BY <1>1, <1>8

LEMMA KeepExists ==
  ASSUME NEW s \in Seq(Lines)
  PROVE  \E f : Recurs(f, Len(s), <<>>, KeepStep(s)) /\ \A i \in 0..Len(s) : f[i] \in Seq(Lines)
<1>1. Len(s) \in Nat /\ <<>> \in Seq(Lines)
  OBVIOUS
<1>2. KeepStep(s) \in [Seq(Lines) \X (1..Len(s)) -> Seq(Lines)]
  <2>1. ASSUME NEW a \in Seq(Lines) \X (1..Len(s))
        PROVE  (IF IsBlank(s[a[2]]) THEN a[1] ELSE Append(a[1], s[a[2]])) \in Seq(Lines)
    <3>1. a[1] \in Seq(Lines) /\ s[a[2]] \in Lines
      BY ElementOfSeq
    <3> QED BY <3>1
  <2> QED BY <2>1 DEF KeepStep
<1> HIDE DEF KeepStep
<1> QED BY <1>1, <1>2, RecursionExists

LEMMA CodeLinesType ==
  ASSUME NEW s \in Seq(Lines)
  PROVE  CodeLines(s) \in Seq(Lines)
<1>1. PICK f : Recurs(f, Len(s), <<>>, KeepStep(s)) /\ \A i \in 0..Len(s) : f[i] \in Seq(Lines)
  BY KeepExists
<1>2. CodeLines(s) = f[Len(s)] /\ Len(s) \in 0..Len(s)
  BY <1>1, CodeLinesRecurs
<1> QED BY <1>1, <1>2

\* Another line is kept when it is not blank.
LEMMA CodeLinesAppend ==
  ASSUME NEW s \in Seq(Lines), NEW line \in Lines
  PROVE  /\ IsBlank(line) => CodeLines(Append(s, line)) = CodeLines(s)
         /\ ~IsBlank(line) => CodeLines(Append(s, line)) = Append(CodeLines(s), line)
<1> DEFINE n == Len(s)
           u == Append(s, line)
<1>1. /\ n \in Nat /\ u \in Seq(Lines) /\ Len(u) = n + 1 /\ u[n + 1] = line
      /\ \A i \in 1..n : u[i] = s[i]
  OBVIOUS
<1> HIDE DEF u
<1>2. PICK f : Recurs(f, Len(u), <<>>, KeepStep(u)) /\ \A i \in 0..Len(u) : f[i] \in Seq(Lines)
  BY <1>1, KeepExists
<1>3. CodeLines(u) = f[n + 1]
  BY <1>2, <1>1, CodeLinesRecurs
<1>4. ASSUME NEW i \in 1..(n + 1)
      PROVE  f[i] = IF IsBlank(u[i]) THEN f[i - 1] ELSE Append(f[i - 1], u[i])
  <2>0. i - 1 \in 0..Len(u) /\ i \in 1..Len(u)
    BY <1>1
  <2>1. f[i] = KeepStep(u)[<<f[i - 1], i>>] /\ i - 1 \in 0..Len(u) /\ i \in 1..Len(u)
    BY <1>2, <2>0, RecursAt
  <2>2. <<f[i - 1], i>> \in Seq(Lines) \X (1..Len(u))
    BY <1>2, <2>1
  <2> QED BY <2>1, <2>2 DEF KeepStep
<1> DEFINE g == [i \in 0..n |-> f[i]]
<1>5. CodeLines(s) = f[n]
  <2>1. \A i \in 0..n : g[i] = f[i] /\ g[i] \in Seq(Lines)
    BY <1>2, <1>1
  <2>2. g = [i \in 0..n |-> g[i]]
    OBVIOUS
  <2> HIDE DEF g
  <2>3. g[0] = <<>>
    <3>1. f[0] = <<>> /\ 0 \in 0..n
      BY <1>2, <1>1 DEF Recurs
    <3> QED BY <2>1, <3>1
  <2>4. ASSUME NEW i \in 1..n PROVE g[i] = KeepStep(s)[<<g[i - 1], i>>]
    <3>1. i \in 0..n /\ i - 1 \in 0..n /\ i \in 1..(n + 1)
      BY <1>1
    <3>2. g[i] = IF IsBlank(s[i]) THEN g[i - 1] ELSE Append(g[i - 1], s[i])
      BY <1>1, <1>4, <2>1, <3>1
    <3>3. <<g[i - 1], i>> \in Seq(Lines) \X (1..Len(s))
      BY <2>1, <3>1
    <3> QED BY <3>2, <3>3 DEF KeepStep
  <2>5. Recurs(g, Len(s), <<>>, KeepStep(s))
    BY <2>2, <2>3, <2>4 DEF Recurs
  <2>6. CodeLines(s) = g[n]
    BY <2>1, <2>5, CodeLinesRecurs
  <2> QED BY <1>1, <2>1, <2>6
<1>6. f[n + 1] = IF IsBlank(line) THEN f[n] ELSE Append(f[n], line)
  <2>1. n + 1 \in 1..(n + 1) /\ (n + 1) - 1 = n
    BY <1>1
  <2> QED BY <1>1, <1>4, <2>1
<1> QED BY <1>3, <1>5, <1>6 DEF u

\* Joining units, one after the other.
JoinStep(units) == [a \in Seq(Lines) \X (1..Len(units)) |-> a[1] \o units[a[2]]]

LEMMA JoinAt ==
  ASSUME NEW units \in Seq(Seq(Lines)), NEW f, Recurs(f, Len(units), <<>>, JoinStep(units)),
         \A i \in 0..Len(units) : f[i] \in Seq(Lines), NEW i \in 1..Len(units)
  PROVE  f[i] = f[i - 1] \o units[i]
<1>1. f[i] = JoinStep(units)[<<f[i - 1], i>>]
  BY RecursAt
<1>2. i - 1 \in 0..Len(units)
  OBVIOUS
<1>3. <<f[i - 1], i>> \in Seq(Lines) \X (1..Len(units))
  BY <1>2
<1> QED BY <1>1, <1>3 DEF JoinStep

LEMMA FlattenRecurs ==
  ASSUME NEW units \in Seq(Seq(Lines)), NEW f, Recurs(f, Len(units), <<>>, JoinStep(units)),
         \A i \in 0..Len(units) : f[i] \in Seq(Lines)
  PROVE  FlattenSeq(units) = f[Len(units)]
<1> DEFINE n == Len(units)
<1>1. n \in Nat /\ f[0] = <<>>
  BY DEF Recurs
<1>2. CASE n = 0
  <2>1. units = <<>> /\ FlattenSeq(units) = units
    BY <1>2 DEF FlattenSeq
  <2> QED BY <1>1, <1>2, <2>1
<1>3. CASE n # 0
  <2> DEFINE Body(g) == [i \in 1..n |-> IF i = 1 THEN units[i] ELSE g[i - 1] \o units[i]]
             flatten == CHOOSE g : g = Body(g)
             F == [i \in 0..n |-> IF i = 0 THEN <<>> ELSE flatten[i]]
             G == [i \in 1..n |-> f[i]]
  <2>1. FlattenSeq(units) = flatten[n]
    BY <1>3 DEF FlattenSeq
  <2>2. \A i \in 1..n : f[i] = f[i - 1] \o units[i]
    BY JoinAt
  <2>3. \A i \in 1..n : units[i] \in Seq(Lines)
    BY ElementOfSeq
  <2>4. 1 \in 1..n /\ f[1] = units[1]
    <3>1. 1 \in 1..n
      BY <1>1, <1>3
    <3>2. f[1] = <<>> \o units[1] /\ units[1] \in Seq(Lines)
      <4>1. units[1] \in Seq(Lines)
        BY <2>3, <3>1
      <4>2. f[1] = f[1 - 1] \o units[1]
        <5> HIDE DEF n
        <5> QED BY <2>2, <3>1
      <4>3. 1 - 1 = 0
        OBVIOUS
      <4> QED BY <1>1, <4>1, <4>2, <4>3
    <3> QED BY <3>1, <3>2, ConcatEmptySeq
  <2>5. G = Body(G)
    <3>1. ASSUME NEW i \in 1..n, i # 1 PROVE G[i] = G[i - 1] \o units[i]
      <4>1. i - 1 \in 1..n
        BY <1>1, <3>1
      <4>2. G[i] = f[i] /\ G[i - 1] = f[i - 1]
        BY <4>1
      <4> QED BY <2>2, <4>2
    <3>2. G[1] = units[1]
      BY <2>4
    <3>3. G = [i \in 1..n |-> G[i]]
      OBVIOUS
    <3> HIDE DEF G, n
    <3>4. \A i \in 1..n : G[i] = IF i = 1 THEN units[i] ELSE G[i - 1] \o units[i]
      BY <3>1, <3>2
    <3> QED BY <3>3, <3>4
  <2>6. flatten = Body(flatten)
    <3> HIDE DEF Body, G
    <3> QED BY <2>5
  <2>7. \A i \in 1..n : flatten[i] = IF i = 1 THEN units[i] ELSE flatten[i - 1] \o units[i]
    <3>1. \A i \in 1..n : flatten[i] = Body(flatten)[i]
      <4> HIDE DEF flatten, Body
      <4> QED BY <2>6
    <3> HIDE DEF flatten
    <3> QED BY <3>1
  <2> HIDE DEF flatten
  <2>8. F[0] = f[0] /\ \A i \in 1..n : F[i] = flatten[i]
    BY <1>1
  <2> HIDE DEF F
  <2>9. ASSUME NEW i \in 1..n, F[i - 1] = f[i - 1] PROVE F[i] = f[i]
    <3>1. CASE i = 1
      BY <2>4, <2>7, <2>8, <3>1
    <3>2. CASE i # 1
      <4>1. i - 1 \in 1..n
        BY <1>1, <3>2
      <4>2. flatten[i - 1] = f[i - 1]
        BY <2>8, <2>9, <4>1
      <4>3. flatten[i] = flatten[i - 1] \o units[i]
        BY <2>7, <3>2
      <4> QED BY <2>2, <2>8, <4>2, <4>3
    <3> QED BY <3>1, <3>2
  <2>10. \A i \in 0..n : F[i] = f[i]
    <3>1. F[0] = f[0]
      BY <2>8
    <3>2. \A i \in 1..n : F[i - 1] = f[i - 1] => F[i] = f[i]
      BY <2>9
    <3> HIDE DEF n
    <3> QED BY <1>1, <3>1, <3>2, RecursionUnique
  <2>11. n \in 0..n /\ n \in 1..n
    BY <1>1, <1>3
  <2> HIDE DEF n
  <2>12. flatten[n] = f[n]
    BY <2>8, <2>10, <2>11
  <2> QED BY <2>1, <2>12 DEF n
<1> QED BY <1>2, <1>3

LEMMA JoinExists ==
  ASSUME NEW units \in Seq(Seq(Lines))
  PROVE  \E f : /\ Recurs(f, Len(units), <<>>, JoinStep(units))
                /\ \A i \in 0..Len(units) : f[i] \in Seq(Lines)
<1>1. Len(units) \in Nat /\ <<>> \in Seq(Lines)
  OBVIOUS
<1>2. JoinStep(units) \in [Seq(Lines) \X (1..Len(units)) -> Seq(Lines)]
  <2>1. ASSUME NEW a \in Seq(Lines) \X (1..Len(units))
        PROVE  a[1] \o units[a[2]] \in Seq(Lines)
    <3>1. a[1] \in Seq(Lines) /\ units[a[2]] \in Seq(Lines)
      BY ElementOfSeq
    <3> QED BY <3>1, ConcatProperties
  <2> QED BY <2>1 DEF JoinStep
<1> HIDE DEF JoinStep
<1> QED BY <1>1, <1>2, RecursionExists

\* Another unit comes behind the others.
LEMMA FlattenAppend ==
  ASSUME NEW units \in Seq(Seq(Lines)), NEW unit \in Seq(Lines)
  PROVE  /\ FlattenSeq(units) \in Seq(Lines)
         /\ FlattenSeq(Append(units, unit)) = FlattenSeq(units) \o unit
<1> DEFINE n == Len(units)
           all == Append(units, unit)
<1>1. /\ n \in Nat /\ all \in Seq(Seq(Lines)) /\ Len(all) = n + 1 /\ all[n + 1] = unit
      /\ \A i \in 1..n : all[i] = units[i]
  BY AppendProperties
<1> HIDE DEF all
<1>2. PICK f : /\ Recurs(f, Len(all), <<>>, JoinStep(all))
               /\ \A i \in 0..Len(all) : f[i] \in Seq(Lines)
  BY <1>1, JoinExists
<1>3. FlattenSeq(all) = f[n + 1]
  BY <1>1, <1>2, FlattenRecurs
<1>4. \A i \in 1..(n + 1) : f[i] = f[i - 1] \o all[i]
  BY <1>1, <1>2, JoinAt
<1> DEFINE g == [i \in 0..n |-> f[i]]
<1>5. FlattenSeq(units) = f[n]
  <2>1. \A i \in 0..n : g[i] = f[i] /\ g[i] \in Seq(Lines)
    BY <1>1, <1>2
  <2>2. g = [i \in 0..n |-> g[i]]
    OBVIOUS
  <2> HIDE DEF g
  <2>3. g[0] = <<>>
    <3>1. f[0] = <<>> /\ 0 \in 0..n
      BY <1>1, <1>2 DEF Recurs
    <3> QED BY <2>1, <3>1
  <2>4. ASSUME NEW i \in 1..n PROVE g[i] = JoinStep(units)[<<g[i - 1], i>>]
    <3>1. i \in 0..n /\ i - 1 \in 0..n /\ i \in 1..(n + 1)
      BY <1>1
    <3>2. g[i] = g[i - 1] \o units[i]
      BY <1>1, <1>4, <2>1, <3>1
    <3>3. <<g[i - 1], i>> \in Seq(Lines) \X (1..Len(units))
      BY <2>1, <3>1
    <3> QED BY <3>2, <3>3 DEF JoinStep
  <2>5. Recurs(g, Len(units), <<>>, JoinStep(units))
    BY <2>2, <2>3, <2>4 DEF Recurs
  <2>6. FlattenSeq(units) = g[n]
    BY <2>1, <2>5, FlattenRecurs
  <2> QED BY <1>1, <2>1, <2>6
<1>6. f[n + 1] = f[n] \o unit
  <2>1. n + 1 \in 1..(n + 1) /\ (n + 1) - 1 = n
    BY <1>1
  <2> QED BY <1>1, <1>4, <2>1
<1>7. f[n] \in Seq(Lines)
  BY <1>1, <1>2
<1> QED BY <1>3, <1>5, <1>6, <1>7 DEF all

\* The lines that are run or wait in the buffer.
Given == FlattenSeq(executed) \o buffer

\* A process with a file, or with too many arguments, has read nothing before it ends.
NothingRead == argc # 1 /\ ~ended => entered = <<>> /\ executed = <<>> /\ buffer = <<>>

LEMMA FlattenOne ==
  /\ FlattenSeq(<<>>) = <<>>
  /\ \A unit \in Seq(Lines) : FlattenSeq(<<unit>>) = unit
<1>1. FlattenSeq(<<>>) = <<>>
  BY DEF FlattenSeq
<1>2. ASSUME NEW unit \in Seq(Lines) PROVE FlattenSeq(<<unit>>) = unit
  <2>1. <<>> \in Seq(Seq(Lines)) /\ Append(<<>>, unit) = <<unit>>
    OBVIOUS
  <2>2. FlattenSeq(Append(<<>>, unit)) = FlattenSeq(<<>>) \o unit
    BY <2>1, FlattenAppend
  <2>3. <<>> \o unit = unit
    BY ConcatEmptySeq
  <2> QED BY <1>1, <2>1, <2>2, <2>3
<1> QED BY <1>1, <1>2

LEMMA GivenIsCode ==
  TypeOK /\ EveryLineOnce /\ ~ended => Given \in Seq(Lines) /\ CodeLines(Given) = CodeLines(entered)
<1> SUFFICES ASSUME TypeOK, EveryLineOnce, ~ended
    PROVE Given \in Seq(Lines) /\ CodeLines(Given) = CodeLines(entered)
  OBVIOUS
<1>1. executed \in Seq(Seq(Lines)) /\ buffer \in Seq(Lines)
  BY DEF TypeOK
<1>2. FlattenSeq(executed) \in Seq(Lines)
  BY <1>1, FlattenAppend
<1>3. Given \in Seq(Lines)
  BY <1>1, <1>2, ConcatProperties DEF Given
<1>4. CodeLines(Given) = CodeLines(entered)
  BY DEF EveryLineOnce, Given
<1> QED BY <1>3, <1>4

\* The lines of the buffer are run: nothing is lost and nothing comes.
LEMMA BufferIsRun ==
  ASSUME TypeOK, executed' = Append(executed, buffer), buffer' = <<>>
  PROVE  Given' = Given
<1>1. executed \in Seq(Seq(Lines)) /\ buffer \in Seq(Lines)
  BY DEF TypeOK
<1>2. FlattenSeq(executed') = FlattenSeq(executed) \o buffer
  BY <1>1, FlattenAppend
<1>3. FlattenSeq(executed) \in Seq(Lines)
  BY <1>1, FlattenAppend
<1>4. Given \in Seq(Lines)
  BY <1>1, <1>3, ConcatProperties DEF Given
<1>5. Given' = Given \o <<>>
  BY <1>2 DEF Given
<1> QED BY <1>4, <1>5, ConcatEmptySeq

\* Another line of code.
LEMMA LineIsGiven ==
  ASSUME TypeOK, NEW line \in Lines,
         \/ buffer' = Append(buffer, line) /\ executed' = executed
         \/ buffer' = <<>> /\ executed' = Append(executed, Append(buffer, line))
  PROVE  Given' = Append(Given, line)
<1>1. executed \in Seq(Seq(Lines)) /\ buffer \in Seq(Lines)
  BY DEF TypeOK
<1>2. FlattenSeq(executed) \in Seq(Lines)
  BY <1>1, FlattenAppend
<1> DEFINE all == FlattenSeq(executed)
           unit == Append(buffer, line)
<1>3. all \o unit = Append(all \o buffer, line)
  <2> HIDE DEF all
  <2>1. unit = buffer \o <<line>>
    BY <1>1, AppendIsConcat
  <2>2. all \o (buffer \o <<line>>) = (all \o buffer) \o <<line>>
    <3>1. <<line>> \in Seq(Lines)
      OBVIOUS
    <3> QED BY <1>1, <1>2, <3>1, ConcatAssociative DEF all
  <2>3. all \o buffer \in Seq(Lines)
    BY <1>1, <1>2, ConcatProperties DEF all
  <2>4. Append(all \o buffer, line) = (all \o buffer) \o <<line>>
    BY <2>3, AppendIsConcat
  <2> QED BY <2>1, <2>2, <2>4
<1>4. unit \in Seq(Lines)
  BY <1>1, AppendGrows
<1>5. CASE buffer' = unit /\ executed' = executed
  BY <1>3, <1>5 DEF Given
<1>6. CASE buffer' = <<>> /\ executed' = Append(executed, unit)
  <2> HIDE DEF unit
  <2>1. FlattenSeq(executed') = all \o unit
    BY <1>1, <1>4, <1>6, FlattenAppend
  <2>2. all \o unit \in Seq(Lines)
    BY <1>2, <1>4, ConcatProperties
  <2>3. Given' = (all \o unit) \o <<>>
    BY <1>6, <2>1 DEF Given
  <2>4. (all \o unit) \o <<>> = all \o unit
    <3> HIDE DEF all
    <3> QED BY <2>2, ConcatEmptySeq
  <2> QED BY <1>3, <2>3, <2>4 DEF Given
<1> QED BY <1>5, <1>6

LEMMA InitLines == Init => EveryLineOnce /\ NothingRead
<1> SUFFICES ASSUME Init PROVE EveryLineOnce /\ NothingRead
  OBVIOUS
<1>1. entered = <<>> /\ buffer = <<>> /\ executed = <<>> /\ ~ended
  BY DEF Init, ended
<1>2. FlattenSeq(executed) \o buffer = entered
  <2>1. <<>> \o <<>> = <<>>
    OBVIOUS
  <2> QED BY <1>1, <2>1, FlattenOne
<1> QED BY <1>1, <1>2 DEF EveryLineOnce, NothingRead

\* The line that is read comes behind the others.
LEMMA ReadsCode ==
  ASSUME TypeOK, NEW line \in Lines, Reads(line)
  PROVE  /\ IsBlank(line) => CodeLines(entered') = CodeLines(entered)
         /\ ~IsBlank(line) => CodeLines(entered') = Append(CodeLines(entered), line)
BY CodeLinesAppend DEF TypeOK, Reads

\* Before the end the second part of EveryLineOnce is not used.
LEMMA StillPrompting ==
  ASSUME ~ended', CodeLines(Given') = CodeLines(entered'), argc' = 1
  PROVE  EveryLineOnce' /\ NothingRead'
BY DEF EveryLineOnce, NothingRead, Given

LEMMA QuitKeepsLines ==
  ASSUME TypeOK, BufferIsBlock, EveryLineOnce, NEW line \in Lines, Quit(line)
  PROVE  EveryLineOnce' /\ NothingRead'
<1>1. ~ended /\ ended' /\ argc' = 1 /\ executed' = executed /\ buffer' = buffer /\ buffer = <<>>
  BY DEF Quit, Reads, Prompts, Leaves, ended, NoExit
<1>2. ~IsBlank(line) /\ IsQuit(line)
  BY DEF Quit, IsQuit, IsBlank
<1>3. CodeLines(entered') = Append(CodeLines(Given), line)
  BY <1>1, <1>2, ReadsCode, GivenIsCode DEF Quit
<1>4. Last(entered') = line
  BY ReadsType DEF Quit
<1>5. FlattenSeq(executed') \o <<>> = Given
  BY <1>1 DEF Given
<1> QED BY <1>1, <1>2, <1>3, <1>4, <1>5 DEF EveryLineOnce, NothingRead

LEMMA IgnoreBlankKeepsLines ==
  ASSUME TypeOK, EveryLineOnce, NEW line \in Lines, IgnoreBlank(line)
  PROVE  EveryLineOnce' /\ NothingRead'
<1>1. ~ended /\ ~ended' /\ argc' = 1 /\ Given' = Given
  BY DEF IgnoreBlank, Reads, Prompts, Stays, ended, Given
<1>2. CodeLines(entered') = CodeLines(Given)
  BY <1>1, ReadsCode, GivenIsCode DEF IgnoreBlank
<1> QED BY <1>1, <1>2, StillPrompting

LEMMA RunBlockKeepsLines ==
  ASSUME TypeOK, EveryLineOnce, NEW line \in Lines, RunBlock(line)
  PROVE  EveryLineOnce' /\ NothingRead'
<1>1. ~ended /\ ~ended' /\ argc' = 1
  BY DEF RunBlock, Reads, Prompts, Stays, ended
<1>2. Given' = Given
  BY BufferIsRun DEF RunBlock
<1>3. CodeLines(entered') = CodeLines(Given)
  BY <1>1, ReadsCode, GivenIsCode DEF RunBlock
<1> QED BY <1>1, <1>2, <1>3, StillPrompting

LEMMA AddLineKeepsLines ==
  ASSUME TypeOK, BufferIsBlock, EveryLineOnce, NEW line \in Lines, AddLine(line)
  PROVE  EveryLineOnce' /\ NothingRead'
<1>1. ~ended /\ ~ended' /\ argc' = 1
  BY DEF AddLine, Reads, Prompts, Stays, ended
<1>2. ~IsBlank(line)
  BY DEF AddLine, BufferIsBlock
<1>3. Given' = Append(Given, line)
  <2>1. \/ buffer' = Append(buffer, line) /\ executed' = executed
        \/ buffer' = <<>> /\ executed' = Append(executed, Append(buffer, line))
    BY DEF AddLine
  <2> QED BY <2>1, LineIsGiven
<1>4. Given \in Seq(Lines) /\ CodeLines(Given) = CodeLines(entered)
  BY <1>1, GivenIsCode
<1>5. CodeLines(Given') = Append(CodeLines(Given), line)
  BY <1>2, <1>3, <1>4, CodeLinesAppend
<1>6. CodeLines(entered') = Append(CodeLines(entered), line)
  BY <1>2, ReadsCode DEF AddLine
<1> QED BY <1>1, <1>4, <1>5, <1>6, StillPrompting

LEMMA EndOfInputKeepsLines ==
  ASSUME TypeOK, EveryLineOnce, EndOfInput
  PROVE  EveryLineOnce' /\ NothingRead'
<1>1. ~ended /\ ended' /\ entered' = entered
  BY DEF EndOfInput, Prompts, Leaves, ended, NoExit
<1>2. Given \in Seq(Lines) /\ CodeLines(Given) = CodeLines(entered)
  BY <1>1, GivenIsCode
<1>3. executed \in Seq(Seq(Lines)) /\ buffer \in Seq(Lines) /\ FlattenSeq(executed) \in Seq(Lines)
  BY FlattenAppend DEF TypeOK
<1>4. FlattenSeq(executed') = Given
  <2>1. CASE buffer = <<>>
    <3>1. executed' = executed
      BY <2>1 DEF EndOfInput
    <3>2. FlattenSeq(executed) \o <<>> = FlattenSeq(executed)
      BY <1>3, ConcatEmptySeq
    <3> QED BY <2>1, <3>1, <3>2 DEF Given
  <2>2. CASE buffer # <<>>
    <3>1. executed' = Append(executed, buffer)
      BY <2>2 DEF EndOfInput
    <3> QED BY <1>3, <3>1, FlattenAppend DEF Given
  <2> QED BY <2>1, <2>2
<1>5. Given \o <<>> = Given
  BY <1>2, ConcatEmptySeq
<1> QED BY <1>1, <1>2, <1>4, <1>5 DEF EveryLineOnce, NothingRead

LEMMA RunFileKeepsLines ==
  ASSUME TypeOK, NothingRead, RunFile, TypeOK'
  PROVE  EveryLineOnce' /\ NothingRead'
<1>1. ended' /\ executed' = <<entered'>> /\ entered' \in Seq(Lines)
  BY DEF RunFile, ended, NoExit, TypeOK
<1>2. FlattenSeq(executed') = entered'
  BY <1>1, FlattenOne
<1>3. entered' \o <<>> = entered'
  BY <1>1, ConcatEmptySeq
<1> QED BY <1>1, <1>2, <1>3 DEF EveryLineOnce, NothingRead

LEMMA NextKeepsLines ==
  TypeOK /\ BufferIsBlock /\ EveryLineOnce /\ NothingRead /\ TypeOK' /\ [Next]_vars
    => EveryLineOnce' /\ NothingRead'
<1> SUFFICES ASSUME TypeOK, BufferIsBlock, EveryLineOnce, NothingRead, TypeOK', [Next]_vars
    PROVE  EveryLineOnce' /\ NothingRead'
  OBVIOUS
<1>1. CASE Usage \/ CannotOpen
  <2>1. ended' /\ executed' = <<>> /\ entered' = <<>>
    BY <1>1 DEF Usage, CannotOpen, session, NothingRead, ended, NoExit
  <2>2. FlattenSeq(executed') \o <<>> = entered'
    <3>1. <<>> \o <<>> = <<>>
      OBVIOUS
    <3> QED BY <2>1, <3>1, FlattenOne
  <2> QED BY <2>1, <2>2 DEF EveryLineOnce, NothingRead
<1>2. CASE RunFile
  BY <1>2, RunFileKeepsLines
<1>3. CASE \E line \in Lines : Quit(line)
  BY <1>3, QuitKeepsLines
<1>4. CASE \E line \in Lines : IgnoreBlank(line)
  BY <1>4, IgnoreBlankKeepsLines
<1>5. CASE \E line \in Lines : RunBlock(line)
  BY <1>5, RunBlockKeepsLines
<1>6. CASE \E line \in Lines : AddLine(line)
  BY <1>6, AddLineKeepsLines
<1>7. CASE EndOfInput
  BY <1>7, EndOfInputKeepsLines
<1>8. CASE UNCHANGED vars
  BY <1>8 DEF vars, session, EveryLineOnce, NothingRead, ended
<1> QED BY <1>1, <1>2, <1>3, <1>4, <1>5, <1>6, <1>7, <1>8 DEF Next

\* However blocks, blank lines and other lines are mixed, no line is lost, run
\* twice or out of its order (main.cpp:37-102).
THEOREM LinesAreRunOnce == Spec => []EveryLineOnce
<1> DEFINE Lasts == TypeOK /\ BufferIsBlock /\ EveryLineOnce /\ NothingRead
<1>1. Init => Lasts
  BY InitBlock, InitLines
<1>2. Lasts /\ [Next]_vars => Lasts'
  BY NextKeeps, NextKeepsLines
<1>3. Lasts => EveryLineOnce
  OBVIOUS
<1> HIDE DEF Lasts
<1> QED BY <1>1, <1>2, <1>3, PTL DEF Spec
=============================================================================
