--------------------------- MODULE CompilerProofs ---------------------------
(***************************************************************************)
(* What the compiler writes is what the machine relies on, for every       *)
(* program.                                                                *)
(*                                                                         *)
(* In the middle of a program neither half of CodeBalances holds: jumps    *)
(* have no target yet and operands wait for the instruction that takes     *)
(* them.  What does hold is that the steps on the agenda, taken in turn,   *)
(* bring the operands that are there now to none (Plan), and that each     *)
(* open jump has a step that will fill it in.                              *)
(***************************************************************************)
EXTENDS CompilerRun, ValuesProofs, SequenceTheorems

Jumps == {"Jump", "JumpIfFalse"}

\* An instruction, the target of a jump possibly missing.
PartialInstruction == [op : OpCode, operand : Nat \cup {-1}]

Step ==
  ({"Expression"} \X Exprs) \cup ({"Expressions"} \X Seq(Exprs))
    \cup ({"Emit"} \X (OpCode \ Jumps) \X Nat)
    \cup ({"Statement"} \X Stmts) \cup ({"Block"} \X Seq(Stmts)) \cup ({"Store"} \X Names)
    \cup ({"Then"} \X {s \in Stmts : s.kind = "If"})
    \cup ({"EndThen"} \X {s \in Stmts : s.kind = "If"} \X Nat)
    \cup ({"Body"} \X {s \in Stmts : s.kind = "While"} \X Nat)
    \cup ({"EndBody"} \X Nat \X Nat) \cup ({"Patch"} \X Nat)

Chunk == [code : Seq(PartialInstruction), constants : Seq(Value(0)), parameters : Seq(Names)]
ChunkTable == UNION {[handles -> Chunk] : handles \in SUBSET Handle}

Object ==
  [handle : Handle, code : Seq(PartialInstruction), constants : Seq(Value(0)),
   chunks : ChunkTable, echo : BOOLEAN, failed : BOOLEAN, agenda : Seq(Step)]

-----------------------------------------------------------------------------
(* What is still to be done. *)

\* An instruction finds from operands on the stack and leaves to.
Fits(constants, instruction, from, to) ==
  /\ Pops(instruction) <= from
  /\ to = from - Pops(instruction) + Pushes(instruction)
  /\ instruction.op \in EndsStatement => to = 0
  /\ instruction.op \notin Jumps =>
       /\ instruction.operand \in Nat
       /\ OperandInRange([code |-> <<>>, constants |-> constants], instruction)

\* So does a step of the agenda.
Moves(step, from, to) ==
  CASE step[1] = "Expression" -> to = from + 1
    [] step[1] = "Expressions" -> to = from + Len(step[2])
    [] step[1] = "Emit" -> Fits(<<>>, [op |-> step[2], operand |-> step[3]], from, to)
    [] step[1] \in {"Store", "Then", "Body"} -> from = 1 /\ to = 0
    [] OTHER -> from = 0 /\ to = 0

\* The positions that a step keeps are those of jumps, and of the start of a
\* statement.
Anchored(code, depth, step) ==
  /\ step[1] \in {"EndThen", "EndBody"} => step[3] \in 1..Len(code) /\ code[step[3]].op \in Jumps
  /\ step[1] = "Patch" => step[2] \in 1..Len(code) /\ code[step[2]].op \in Jumps
  /\ step[1] = "Body" => step[3] \in 0..Len(code) /\ depth[step[3]] = 0
  /\ step[1] = "EndBody" => step[2] \in 0..Len(code) /\ depth[step[2]] = 0

\* The agenda takes the operands on the stack to none.
Plan(code, depth, agenda, from) ==
  \E height \in [1..(Len(agenda) + 1) -> Nat] :
    /\ height[1] = from
    /\ height[Len(agenda) + 1] = 0
    /\ \A i \in 1..Len(agenda) :
         Moves(agenda[i], height[i], height[i + 1]) /\ Anchored(code, depth, agenda[i])

\* A step that will fill in the jump at a position.
Patches(step, at) ==
  \/ step[1] \in {"EndThen", "EndBody"} /\ step[3] = at
  \/ step[1] = "Patch" /\ step[2] = at
Awaited(agenda, at) == \E i \in 1..Len(agenda) : Patches(agenda[i], at)

-----------------------------------------------------------------------------
(* What has been done. *)

\* A jump that has a target goes to the start of a statement.
Aimed(code, depth, i) ==
  code[i].op \in Jumps /\ code[i].operand # -1 =>
    code[i].operand \in 0..Len(code) /\ depth[code[i].operand] = 0

\* The code that is there balances, but for the jumps without a target.
Right(code, constants, depth) ==
  /\ depth \in [0..Len(code) -> Nat]
  /\ depth[0] = 0
  /\ \A i \in 1..Len(code) :
       Fits(constants, code[i], depth[i - 1], depth[i]) /\ Aimed(code, depth, i)

\* A compiler in the middle of its work: the agenda goes on from a stack of
\* `to` operands, the jumps in `loose` have no step yet that fills them in, and
\* the functions in `known` have their code.
On(c, depth, to, loose, known) ==
  /\ c \in Object /\ ~c.failed
  /\ Right(c.code, c.constants, depth)
  /\ Plan(c.code, depth, c.agenda, to)
  /\ \A at \in 1..Len(c.code) : c.code[at].operand = -1 => at \in loose \/ Awaited(c.agenda, at)
  /\ \A i \in 1..Len(c.constants) :
       c.constants[i].tag = "Function" => c.constants[i].function \in known

Ready(c, known) == \E depth : On(c, depth, depth[Len(c.code)], {}, known)
Sound(c) == Ready(c, DOMAIN c.chunks)

\* An exception ends the work.
Thrown(c) == c \in Object /\ c.failed

\* The parts of a compiler that only the declaration of a function changes.
SameTable(c, d) == d.handle = c.handle /\ d.chunks = c.chunks

-----------------------------------------------------------------------------
(* The agenda. *)

LEMMA ConsProperties ==
  ASSUME NEW S, NEW x \in S, NEW s \in Seq(S)
  PROVE  /\ <<x>> \o s \in Seq(S) /\ Len(<<x>> \o s) = Len(s) + 1
         /\ (<<x>> \o s)[1] = x
         /\ \A i \in 1..Len(s) : (<<x>> \o s)[i + 1] = s[i]
<1>1. <<x>> \in Seq(S) /\ Len(<<x>>) = 1 /\ <<x>>[1] = x /\ Len(s) \in Nat
  OBVIOUS
<1> DEFINE first == <<x>>
<1>2. first \in Seq(S) /\ Len(first) = 1 /\ first[1] = x
  BY <1>1
<1> HIDE DEF first
<1>3. /\ first \o s \in Seq(S) /\ Len(first \o s) = Len(first) + Len(s)
      /\ \A i \in 1..Len(first) + Len(s) :
           (first \o s)[i] = IF i <= Len(first) THEN first[i] ELSE s[i - Len(first)]
  BY <1>2, ConcatProperties
<1>4. Len(first) + Len(s) = Len(s) + 1 /\ 1 \in 1..(Len(s) + 1)
  BY <1>1, <1>2
<1>5. (first \o s)[1] = x
  BY <1>2, <1>3, <1>4
<1>6. ASSUME NEW i \in 1..Len(s) PROVE (first \o s)[i + 1] = s[i]
  <2>1. i + 1 \in 1..(Len(s) + 1) /\ ~(i + 1 <= Len(first)) /\ (i + 1) - Len(first) = i
    BY <1>1, <1>2
  <2> QED BY <1>3, <1>4, <2>1
<1> QED BY <1>2, <1>3, <1>4, <1>5, <1>6 DEF first

LEMMA TwoFirst ==
  ASSUME NEW S, NEW x \in S, NEW y \in S, NEW s \in Seq(S)
  PROVE  <<x, y>> \o s = <<x>> \o (<<y>> \o s)
<1> DEFINE second == <<y>>
           both == <<x, y>>
<1>1. second \in Seq(S) /\ both \in Seq(S) /\ Len(second) = 1 /\ Len(both) = 2
      /\ second[1] = y /\ both[1] = x /\ both[2] = y
  OBVIOUS
<1> HIDE DEF second, both
<1> DEFINE joined == <<x>> \o second
<1>2. /\ joined \in Seq(S) /\ Len(joined) = Len(second) + 1 /\ joined[1] = x
      /\ \A i \in 1..Len(second) : joined[i + 1] = second[i]
  <2>1. second \in Seq(S)
    BY <1>1
  <2> QED BY <2>1, ConsProperties
<1> HIDE DEF joined
<1>3. both = joined
  <2>1. Len(joined) = 2 /\ joined[2] = y
    <3>1. 1 \in 1..1 /\ 1 + 1 = 2
      OBVIOUS
    <3> QED BY <1>1, <1>2, <3>1
  <2>2. \A i \in 1..2 : both[i] = joined[i]
    BY <1>1, <1>2, <2>1
  <2>3. Len(both) = Len(joined) /\ \A i \in 1..Len(both) : both[i] = joined[i]
    BY <1>1, <1>2, <2>2
  <2> QED BY <1>1, <1>2, <2>3, SeqEqual
<1> DEFINE first == <<x>>
<1>4. first \in Seq(S)
  OBVIOUS
<1> HIDE DEF first
<1>5. (first \o second) \o s = first \o (second \o s)
  BY <1>1, <1>4, ConcatAssociative
<1> QED BY <1>3, <1>5 DEF joined, both, first, second

LEMMA ThreeFirst ==
  ASSUME NEW S, NEW x \in S, NEW y \in S, NEW z \in S, NEW s \in Seq(S)
  PROVE  <<x, y, z>> \o s = <<x, y>> \o (<<z>> \o s)
<1> DEFINE two == <<x, y>>
           third == <<z>>
           all == <<x, y, z>>
           joined == two \o third
<1>1. two \in Seq(S) /\ third \in Seq(S) /\ all \in Seq(S)
      /\ Len(two) = 2 /\ Len(third) = 1 /\ Len(all) = 3
      /\ two[1] = x /\ two[2] = y /\ third[1] = z /\ all[1] = x /\ all[2] = y /\ all[3] = z
  OBVIOUS
<1> HIDE DEF two, third, all
<1>2. /\ joined \in Seq(S) /\ Len(joined) = Len(two) + Len(third)
      /\ \A i \in 1..Len(two) + Len(third) :
           joined[i] = IF i <= Len(two) THEN two[i] ELSE third[i - Len(two)]
  BY <1>1, ConcatProperties
<1> HIDE DEF joined
<1>3. all = joined
  <2>1. Len(joined) = 3 /\ joined[1] = x /\ joined[2] = y /\ joined[3] = z
    BY <1>1, <1>2
  <2>2. Len(all) = Len(joined) /\ \A i \in 1..Len(all) : all[i] = joined[i]
    BY <1>1, <2>1
  <2> QED BY <1>1, <1>2, <2>2, SeqEqual
<1>4. (two \o third) \o s = two \o (third \o s)
  BY <1>1, ConcatAssociative
<1> QED BY <1>3, <1>4 DEF joined, two, third, all

\* The first step is taken.
LEMMA PlanHead ==
  ASSUME NEW code, NEW depth, NEW S, NEW agenda \in Seq(S), agenda # <<>>, NEW from,
         Plan(code, depth, agenda, from)
  PROVE  \E to \in Nat : /\ Moves(Head(agenda), from, to)
                         /\ Anchored(code, depth, Head(agenda))
                         /\ Plan(code, depth, Tail(agenda), to)
<1> DEFINE n == Len(agenda)
<1>1. n \in Nat \ {0} /\ Head(agenda) = agenda[1] /\ Tail(agenda) \in Seq(S)
      /\ Len(Tail(agenda)) = n - 1 /\ \A i \in 1..(n - 1) : Tail(agenda)[i] = agenda[i + 1]
  BY HeadTailProperties, EmptySeq, LenProperties
<1>2. PICK height \in [1..(n + 1) -> Nat] :
        /\ height[1] = from
        /\ height[n + 1] = 0
        /\ \A i \in 1..n :
             Moves(agenda[i], height[i], height[i + 1]) /\ Anchored(code, depth, agenda[i])
  BY DEF Plan
<1> HIDE DEF n
<1> DEFINE rest == Tail(agenda)
           later == [i \in 1..(Len(rest) + 1) |-> height[i + 1]]
<1>3. later \in [1..(Len(rest) + 1) -> Nat]
  BY <1>1
<1>4. later[1] = height[2] /\ later[Len(rest) + 1] = 0
  BY <1>1, <1>2
<1>5. ASSUME NEW i \in 1..Len(rest)
      PROVE  Moves(rest[i], later[i], later[i + 1]) /\ Anchored(code, depth, rest[i])
  <2>1. i + 1 \in 1..n /\ rest[i] = agenda[i + 1] /\ later[i] = height[i + 1]
        /\ later[i + 1] = height[(i + 1) + 1]
    BY <1>1
  <2> QED BY <1>2, <2>1
<1>6. Plan(code, depth, rest, height[2])
  <2> HIDE DEF later, rest
  <2> QED BY <1>3, <1>4, <1>5 DEF Plan
<1>7. height[2] \in Nat /\ 1 \in 1..n /\ 1 + 1 = 2
  BY <1>1
<1> QED BY <1>1, <1>2, <1>6, <1>7

\* A step is put before the others.
LEMMA PlanPush ==
  ASSUME NEW code, NEW depth, NEW S, NEW step \in S, NEW agenda \in Seq(S),
         NEW from \in Nat, NEW to \in Nat,
         Moves(step, from, to), Anchored(code, depth, step), Plan(code, depth, agenda, to)
  PROVE  Plan(code, depth, <<step>> \o agenda, from)
<1> DEFINE n == Len(agenda)
           longer == <<step>> \o agenda
<1>1. /\ n \in Nat /\ Len(longer) = n + 1 /\ longer[1] = step
      /\ \A i \in 1..n : longer[i + 1] = agenda[i]
  BY ConsProperties, LenProperties
<1>2. PICK height \in [1..(n + 1) -> Nat] :
        /\ height[1] = to
        /\ height[n + 1] = 0
        /\ \A i \in 1..n :
             Moves(agenda[i], height[i], height[i + 1]) /\ Anchored(code, depth, agenda[i])
  BY DEF Plan
<1> HIDE DEF n, longer
<1> DEFINE earlier == [i \in 1..(Len(longer) + 1) |-> IF i = 1 THEN from ELSE height[i - 1]]
<1>3. earlier \in [1..(Len(longer) + 1) -> Nat]
  BY <1>1
<1>4. earlier[1] = from /\ earlier[Len(longer) + 1] = 0
  BY <1>1, <1>2
<1>5. ASSUME NEW i \in 1..Len(longer)
      PROVE  Moves(longer[i], earlier[i], earlier[i + 1]) /\ Anchored(code, depth, longer[i])
  <2>1. CASE i = 1
    <3>1. longer[i] = step /\ earlier[i] = from /\ earlier[i + 1] = to
      BY <1>1, <1>2, <2>1
    <3> QED BY <3>1
  <2>2. CASE i # 1
    <3>1. i - 1 \in 1..n /\ (i - 1) + 1 = i
      BY <1>1, <2>2
    <3>2. longer[i] = agenda[i - 1] /\ earlier[i] = height[i - 1] /\ earlier[i + 1] = height[i]
      BY <1>1, <2>2, <3>1
    <3> QED BY <1>2, <3>1, <3>2
  <2> QED BY <2>1, <2>2
<1> HIDE DEF earlier
<1>6. Plan(code, depth, longer, from)
  BY <1>3, <1>4, <1>5 DEF Plan
<1> QED BY <1>6 DEF longer

\* Code that grows, and jumps that are filled in, leave the plan as it is.
LEMMA PlanStays ==
  ASSUME NEW code, NEW code2, NEW depth, NEW depth2, NEW agenda, NEW from,
         Len(code) \in Nat, Len(code2) \in Nat, Len(code) <= Len(code2),
         \A i \in 1..Len(code) : code2[i].op = code[i].op,
         \A p \in 0..Len(code) : depth2[p] = depth[p],
         Plan(code, depth, agenda, from)
  PROVE  Plan(code2, depth2, agenda, from)
<1>1. ASSUME NEW step, Anchored(code, depth, step)
      PROVE  Anchored(code2, depth2, step)
  <2>1. 1..Len(code) \subseteq 1..Len(code2) /\ 0..Len(code) \subseteq 0..Len(code2)
    OBVIOUS
  <2> QED BY <1>1, <2>1 DEF Anchored
<1> QED BY <1>1 DEF Plan

\* The steps that fill in jumps.
LEMMA AwaitedHead ==
  ASSUME NEW S, NEW agenda \in Seq(S), agenda # <<>>, NEW at, Awaited(agenda, at)
  PROVE  Patches(Head(agenda), at) \/ Awaited(Tail(agenda), at)
<1>1. PICK i \in 1..Len(agenda) : Patches(agenda[i], at)
  BY DEF Awaited
<1>2. /\ Len(agenda) \in Nat /\ Head(agenda) = agenda[1] /\ Len(Tail(agenda)) = Len(agenda) - 1
      /\ \A j \in 1..Len(Tail(agenda)) : Tail(agenda)[j] = agenda[j + 1]
  BY HeadTailProperties, LenProperties
<1>3. CASE i = 1
  BY <1>1, <1>2, <1>3
<1>4. CASE i # 1
  <2>1. i - 1 \in 1..Len(Tail(agenda)) /\ (i - 1) + 1 = i
    BY <1>2, <1>4
  <2>2. Tail(agenda)[i - 1] = agenda[i]
    BY <1>2, <2>1
  <2> QED BY <1>1, <2>1, <2>2 DEF Awaited
<1> QED BY <1>3, <1>4

LEMMA AwaitedCons ==
  ASSUME NEW S, NEW step \in S, NEW agenda \in Seq(S), NEW at,
         Patches(step, at) \/ Awaited(agenda, at)
  PROVE  Awaited(<<step>> \o agenda, at)
<1> DEFINE longer == <<step>> \o agenda
<1>1. /\ Len(agenda) \in Nat /\ Len(longer) = Len(agenda) + 1 /\ longer[1] = step
      /\ \A i \in 1..Len(agenda) : longer[i + 1] = agenda[i]
  BY ConsProperties, LenProperties
<1> HIDE DEF longer
<1>2. CASE Patches(step, at)
  <2>1. 1 \in 1..Len(longer)
    BY <1>1
  <2>2. Awaited(longer, at)
    BY <1>1, <1>2, <2>1 DEF Awaited
  <2> QED BY <2>2 DEF longer
<1>3. CASE Awaited(agenda, at)
  <2>1. PICK i \in 1..Len(agenda) : Patches(agenda[i], at)
    BY <1>3 DEF Awaited
  <2>2. i + 1 \in 1..Len(longer) /\ longer[i + 1] = agenda[i]
    BY <1>1
  <2>3. Awaited(longer, at)
    BY <2>1, <2>2 DEF Awaited
  <2> QED BY <2>3 DEF longer
<1> QED BY <1>2, <1>3

-----------------------------------------------------------------------------
(* The code. *)

\* Constants that are added leave the others where they are.
LEMMA FitsMore ==
  ASSUME NEW constants, NEW more, NEW instruction, NEW from, NEW to,
         Len(constants) \in Nat, Len(more) \in Nat, Len(constants) <= Len(more),
         \A i \in 1..Len(constants) : more[i] = constants[i],
         Fits(constants, instruction, from, to)
  PROVE  Fits(more, instruction, from, to)
<1> DEFINE chunk == [code |-> <<>>, constants |-> constants]
           chunk2 == [code |-> <<>>, constants |-> more]
<1>1. SUFFICES ASSUME OperandInRange(chunk, instruction), instruction.op \notin Jumps,
                      instruction.operand \in Nat
               PROVE  OperandInRange(chunk2, instruction)
  BY DEF Fits
<1>2. chunk.constants = constants /\ chunk2.constants = more
  OBVIOUS
<1> HIDE DEF chunk, chunk2
<1>3. ASSUME instruction.operand \in 0..(Len(constants) - 1)
      PROVE  /\ instruction.operand \in 0..(Len(more) - 1)
             /\ ConstantAt(chunk2, instruction.operand) = ConstantAt(chunk, instruction.operand)
  <2>1. instruction.operand + 1 \in 1..Len(constants)
    BY <1>1, <1>3
  <2>2. instruction.operand \in 0..(Len(more) - 1)
    BY <1>1, <1>3
  <2>3. more[instruction.operand + 1] = constants[instruction.operand + 1]
    BY <2>1
  <2> QED BY <1>2, <2>2, <2>3 DEF ConstantAt
<1> QED BY <1>1, <1>2, <1>3 DEF OperandInRange, Jumps

\* An instruction is appended.
LEMMA RightAppend ==
  ASSUME NEW code \in Seq(PartialInstruction), NEW constants, NEW depth,
         Right(code, constants, depth),
         NEW instruction \in PartialInstruction, NEW to \in Nat,
         Fits(constants, instruction, depth[Len(code)], to),
         instruction.op \in Jumps /\ instruction.operand # -1 =>
           instruction.operand \in 0..Len(code) /\ depth[instruction.operand] = 0
  PROVE  \E longer : /\ Right(Append(code, instruction), constants, longer)
                     /\ longer[Len(code) + 1] = to
                     /\ \A p \in 0..Len(code) : longer[p] = depth[p]
<1> DEFINE n == Len(code)
           code2 == Append(code, instruction)
           longer == [p \in 0..(n + 1) |-> IF p = n + 1 THEN to ELSE depth[p]]
<1>1. n \in Nat /\ Len(code2) = n + 1 /\ code2[n + 1] = instruction
      /\ \A i \in 1..n : code2[i] = code[i]
  OBVIOUS
<1>2. depth \in [0..n -> Nat] /\ depth[0] = 0
      /\ \A i \in 1..n : Fits(constants, code[i], depth[i - 1], depth[i]) /\ Aimed(code, depth, i)
  BY DEF Right
<1>3. Fits(constants, instruction, depth[n], to)
      /\ (instruction.op \in Jumps /\ instruction.operand # -1 =>
            instruction.operand \in 0..n /\ depth[instruction.operand] = 0)
  OBVIOUS
<1> HIDE DEF n, code2
<1>4. /\ longer \in [0..(n + 1) -> Nat] /\ longer[n + 1] = to
      /\ \A p \in 0..n : longer[p] = depth[p] /\ p \in 0..(n + 1)
      /\ longer[0] = 0
  BY <1>1, <1>2
<1> HIDE DEF longer
<1>5. ASSUME NEW i \in 1..(n + 1)
      PROVE  Fits(constants, code2[i], longer[i - 1], longer[i]) /\ Aimed(code2, longer, i)
  <2>1. CASE i = n + 1
    <3>1. i - 1 = n /\ n \in 0..n
      BY <1>1, <2>1
    <3>2. longer[i - 1] = depth[n] /\ longer[i] = to /\ code2[i] = instruction
      BY <1>1, <1>4, <2>1, <3>1
    <3> QED BY <1>1, <1>3, <1>4, <3>2 DEF Aimed
  <2>2. CASE i # n + 1
    <3>1. i \in 1..n /\ i \in 0..n /\ i - 1 \in 0..n
      BY <1>1, <2>2
    <3>2. longer[i - 1] = depth[i - 1] /\ longer[i] = depth[i] /\ code2[i] = code[i]
      BY <1>1, <1>4, <3>1
    <3>3. Aimed(code, depth, i)
      BY <1>2, <3>1
    <3>4. Len(code) = n
      BY DEF n
    <3> QED BY <1>1, <1>2, <1>4, <3>1, <3>2, <3>3, <3>4 DEF Aimed
  <2> QED BY <2>1, <2>2
<1>6. Right(code2, constants, longer)
  BY <1>1, <1>4, <1>5 DEF Right
<1> QED BY <1>4, <1>6 DEF n, code2

\* A jump is filled in at the end of a statement.
LEMMA RightPatched ==
  ASSUME NEW code \in Seq(PartialInstruction), NEW constants, NEW depth,
         Right(code, constants, depth), depth[Len(code)] = 0,
         NEW at \in 1..Len(code), code[at].op \in Jumps
  PROVE  /\ [code EXCEPT ![at].operand = Len(code)] \in Seq(PartialInstruction)
         /\ Len([code EXCEPT ![at].operand = Len(code)]) = Len(code)
         /\ \A i \in 1..Len(code) :
              /\ [code EXCEPT ![at].operand = Len(code)][i].op = code[i].op
              /\ i # at => [code EXCEPT ![at].operand = Len(code)][i] = code[i]
         /\ [code EXCEPT ![at].operand = Len(code)][at].operand = Len(code)
         /\ Right([code EXCEPT ![at].operand = Len(code)], constants, depth)
<1> DEFINE n == Len(code)
           patched == [code[at] EXCEPT !.operand = n]
           code2 == [code EXCEPT ![at].operand = n]
<1>1. n \in Nat /\ code[at] \in PartialInstruction
  BY ElementOfSeq, LenProperties
<1>2. patched \in PartialInstruction /\ patched.op = code[at].op /\ patched.operand = n
  BY <1>1 DEF PartialInstruction
<1>3. code2 = [code EXCEPT ![at] = patched]
  OBVIOUS
<1> HIDE DEF patched, code2
<1>4. code2 \in Seq(PartialInstruction) /\ Len(code2) = n
      /\ \A i \in 1..n : code2[i] = IF i = at THEN patched ELSE code[i]
  BY <1>2, <1>3, ExceptSeq
<1>5. depth \in [0..n -> Nat] /\ depth[0] = 0 /\ depth[n] = 0
      /\ \A i \in 1..n : Fits(constants, code[i], depth[i - 1], depth[i]) /\ Aimed(code, depth, i)
  BY DEF Right
<1>6. n \in 0..n /\ at \in 1..n /\ n # -1
  BY <1>1
<1> HIDE DEF n
<1>7. ASSUME NEW i \in 1..n
      PROVE  Fits(constants, code2[i], depth[i - 1], depth[i]) /\ Aimed(code2, depth, i)
  <2>1. CASE i = at
    <3>1. code2[i] = patched /\ code[at].op \in Jumps
      BY <1>4, <2>1
    <3>2. Pops(patched) = Pops(code[at]) /\ Pushes(patched) = Pushes(code[at])
      BY <1>2, <3>1 DEF Pops, Pushes, Jumps, Arithmetic
    <3>3. Fits(constants, code[at], depth[i - 1], depth[i])
      BY <1>5, <2>1
    <3>4. Fits(constants, patched, depth[i - 1], depth[i])
      BY <1>2, <3>1, <3>2, <3>3 DEF Fits
    <3>5. Aimed(code2, depth, i)
      BY <1>2, <1>4, <1>5, <1>6, <3>1 DEF Aimed
    <3> QED BY <3>1, <3>4, <3>5
  <2>2. CASE i # at
    <3>1. Len(code) = n
      BY DEF n
    <3> QED BY <1>4, <1>5, <2>2, <3>1 DEF Aimed
  <2> QED BY <2>1, <2>2
<1>8. Right(code2, constants, depth)
  BY <1>4, <1>5, <1>7 DEF Right
<1> QED BY <1>2, <1>4, <1>6, <1>8 DEF n, code2

-----------------------------------------------------------------------------
(* The operations on a compiler. *)

\* What Emit changes.
LEMMA EmitFields ==
  ASSUME NEW c \in Object, NEW op, NEW operand,
         [op |-> op, operand |-> operand] \in PartialInstruction
  PROVE  LET e == Emit(c, op, operand)
         IN /\ e \in Object
            /\ e.code = Append(c.code, [op |-> op, operand |-> operand])
            /\ Len(e.code) = Len(c.code) + 1 /\ Len(c.code) \in Nat
            /\ e.code[Len(c.code) + 1].op = op
            /\ \A i \in 1..Len(c.code) : e.code[i] = c.code[i]
            /\ e.constants = c.constants /\ e.agenda = c.agenda
            /\ e.handle = c.handle /\ e.chunks = c.chunks
            /\ e.failed = c.failed
<1> DEFINE code == Append(c.code, [op |-> op, operand |-> operand])
<1>1. /\ code \in Seq(PartialInstruction) /\ Len(code) = Len(c.code) + 1 /\ Len(c.code) \in Nat
      /\ code[Len(c.code) + 1].op = op
      /\ \A i \in 1..Len(c.code) : code[i] = c.code[i]
  BY DEF Object
<1>2. Emit(c, op, operand) = [c EXCEPT !.code = code]
  BY DEF Emit, Object
<1> HIDE DEF code
<1>3. [c EXCEPT !.code = code] \in Object
  BY <1>1 DEF Object
<1>4. [c EXCEPT !.code = code].code = code
  BY DEF Object
<1>5. /\ [c EXCEPT !.code = code].constants = c.constants /\ [c EXCEPT !.code = code].agenda = c.agenda
      /\ [c EXCEPT !.code = code].handle = c.handle /\ [c EXCEPT !.code = code].chunks = c.chunks
      /\ [c EXCEPT !.code = code].failed = c.failed
  BY DEF Object
<1> QED BY <1>1, <1>2, <1>3, <1>4, <1>5 DEF code

\* Where an instruction that is emitted jumps to, if it has a target; without
\* one it is loose from now on.
Target(c, depth, op, operand) ==
  op \in Jumps /\ operand # -1 => operand \in 0..Len(c.code) /\ depth[operand] = 0
Loosens(c, operand, loose, open) ==
  loose \subseteq open /\ (operand = -1 => Len(c.code) + 1 \in open)

\* An instruction keeps its promise on the stack it finds.
LEMMA EmitKeeps ==
  ASSUME NEW c, NEW depth, NEW to, NEW loose, NEW known, On(c, depth, to, loose, known),
         NEW op, NEW operand, [op |-> op, operand |-> operand] \in PartialInstruction,
         NEW next \in Nat,
         Fits(c.constants, [op |-> op, operand |-> operand], depth[Len(c.code)], next),
         Target(c, depth, op, operand), NEW open, Loosens(c, operand, loose, open)
  PROVE  \E longer : /\ On(Emit(c, op, operand), longer, to, open, known)
                     /\ longer[Len(c.code) + 1] = next
                     /\ \A p \in 0..Len(c.code) : longer[p] = depth[p]
<1> DEFINE instruction == [op |-> op, operand |-> operand]
           e == Emit(c, op, operand)
           n == Len(c.code)
<1>1. /\ c \in Object /\ ~c.failed /\ Right(c.code, c.constants, depth)
      /\ Plan(c.code, depth, c.agenda, to)
      /\ \A at \in 1..n : c.code[at].operand = -1 => at \in loose \/ Awaited(c.agenda, at)
      /\ \A i \in 1..Len(c.constants) :
           c.constants[i].tag = "Function" => c.constants[i].function \in known
  BY DEF On
<1>2. c.code \in Seq(PartialInstruction) /\ instruction \in PartialInstruction
      /\ instruction.op = op /\ instruction.operand = operand /\ n \in Nat
  BY <1>1 DEF Object
<1>3. /\ e \in Object /\ e.code = Append(c.code, instruction) /\ Len(e.code) = n + 1
      /\ e.constants = c.constants /\ e.agenda = c.agenda /\ e.failed = c.failed
  BY <1>1, EmitFields
<1>4. /\ e.code[n + 1] = instruction
      /\ \A i \in 1..n : e.code[i] = c.code[i]
  BY <1>2, <1>3
<1> HIDE DEF instruction, e
<1>5. PICK longer : /\ Right(Append(c.code, instruction), c.constants, longer)
                    /\ longer[n + 1] = next
                    /\ \A p \in 0..n : longer[p] = depth[p]
  <2>1. Fits(c.constants, instruction, depth[n], next)
    BY DEF instruction
  <2>2. instruction.op \in Jumps /\ instruction.operand # -1 =>
          instruction.operand \in 0..Len(c.code) /\ depth[instruction.operand] = 0
    BY <1>2 DEF Target
  <2> QED BY <1>1, <1>2, <2>1, <2>2, RightAppend
<1>6. Plan(e.code, longer, e.agenda, to)
  <2>1. /\ Len(c.code) \in Nat /\ Len(e.code) \in Nat /\ Len(c.code) <= Len(e.code)
        /\ \A i \in 1..Len(c.code) : e.code[i].op = c.code[i].op
        /\ \A p \in 0..Len(c.code) : longer[p] = depth[p]
    BY <1>2, <1>3, <1>4, <1>5, SMTT(30)
  <2>2. Plan(c.code, depth, c.agenda, to)
    BY <1>1
  <2>3. Plan(e.code, longer, c.agenda, to)
    BY <2>1, <2>2, PlanStays
  <2> QED BY <1>3, <2>3
<1>7. ASSUME NEW at \in 1..(n + 1), e.code[at].operand = -1
      PROVE  at \in open \/ Awaited(e.agenda, at)
  <2>1. CASE at = n + 1
    BY <1>2, <1>4, <1>7, <2>1 DEF Loosens
  <2>2. CASE at # n + 1
    <3>1. at \in 1..n
      BY <1>2, <2>2
    <3> QED BY <1>1, <1>3, <1>4, <1>7, <3>1 DEF Loosens
  <2> QED BY <2>1, <2>2
<1>8. On(e, longer, to, open, known)
  BY <1>1, <1>3, <1>5, <1>6, <1>7 DEF On
<1> QED BY <1>5, <1>8 DEF e

LEMMA EmitPlainKeeps ==
  ASSUME NEW c, NEW depth, NEW to, NEW known, On(c, depth, to, {}, known),
         NEW op \in OpCode \ Jumps, NEW operand \in Nat, NEW next \in Nat,
         Fits(c.constants, [op |-> op, operand |-> operand], depth[Len(c.code)], next)
  PROVE  \E longer : /\ On(Emit(c, op, operand), longer, to, {}, known)
                     /\ longer[Len(c.code) + 1] = next
<1>1. [op |-> op, operand |-> operand] \in PartialInstruction
  BY DEF PartialInstruction
<1> DEFINE none == {}
<1>2. On(c, depth, to, none, known)
  OBVIOUS
<1>3. Target(c, depth, op, operand) /\ Loosens(c, operand, none, none)
  BY DEF Target, Loosens
<1> HIDE DEF none
<1>4. \E longer : /\ On(Emit(c, op, operand), longer, to, none, known)
                 /\ longer[Len(c.code) + 1] = next
                 /\ \A p \in 0..Len(c.code) : longer[p] = depth[p]
  BY <1>1, <1>2, <1>3, EmitKeeps
<1> QED BY <1>4 DEF none

\* A constant is added.
LEMMA ConstantKeeps ==
  ASSUME NEW c, NEW depth, NEW to, NEW loose, NEW known, On(c, depth, to, loose, known),
         NEW value \in Value(0), value.tag = "Function" => value.function \in known
  PROVE  LET e == [c EXCEPT !.constants = Append(@, value)]
         IN /\ On(e, depth, to, loose, known)
            /\ e.code = c.code /\ e.agenda = c.agenda /\ e.handle = c.handle /\ e.chunks = c.chunks
            /\ Len(e.constants) = Len(c.constants) + 1 /\ Len(c.constants) \in Nat
            /\ ConstantAt(e, Len(c.constants)) = value
<1> DEFINE constants == Append(c.constants, value)
           e == [c EXCEPT !.constants = constants]
           n == Len(c.constants)
<1>1. /\ c \in Object /\ ~c.failed /\ Right(c.code, c.constants, depth)
      /\ Plan(c.code, depth, c.agenda, to)
      /\ \A at \in 1..Len(c.code) : c.code[at].operand = -1 => at \in loose \/ Awaited(c.agenda, at)
      /\ \A i \in 1..n : c.constants[i].tag = "Function" => c.constants[i].function \in known
  BY DEF On
<1>2. /\ constants \in Seq(Value(0)) /\ Len(constants) = n + 1 /\ n \in Nat
      /\ constants[n + 1] = value /\ \A i \in 1..n : constants[i] = c.constants[i]
  BY <1>1 DEF Object
<1> HIDE DEF constants
<1>3. /\ e \in Object /\ e.constants = constants /\ e.code = c.code /\ e.agenda = c.agenda
      /\ e.handle = c.handle /\ e.chunks = c.chunks /\ e.failed = c.failed
  BY <1>1, <1>2 DEF Object
<1> HIDE DEF e, n
<1>4. Right(c.code, constants, depth)
  <2>1. Len(c.constants) \in Nat /\ Len(constants) \in Nat /\ Len(c.constants) <= Len(constants)
        /\ \A i \in 1..Len(c.constants) : constants[i] = c.constants[i]
    BY <1>2 DEF n
  <2>2. \A instruction, from, next :
          Fits(c.constants, instruction, from, next) => Fits(constants, instruction, from, next)
    BY <2>1, FitsMore
  <2> QED BY <1>1, <2>2 DEF Right
<1>5. ASSUME NEW i \in 1..(n + 1), constants[i].tag = "Function"
      PROVE  constants[i].function \in known
  <2>1. CASE i = n + 1
    BY <1>2, <1>5, <2>1
  <2>2. CASE i # n + 1
    <3>1. i \in 1..n
      BY <1>2, <2>2
    <3> QED BY <1>1, <1>2, <1>5, <3>1
  <2> QED BY <2>1, <2>2
<1>6. On(e, depth, to, loose, known)
  BY <1>1, <1>2, <1>3, <1>4, <1>5 DEF On
<1>7. Len(e.constants) = n + 1 /\ ConstantAt(e, n) = value
  BY <1>2, <1>3 DEF ConstantAt
<1> QED BY <1>2, <1>3, <1>6, <1>7 DEF e, n, constants

\* The jump at a position is filled in, the others are not.
Settles(at, loose, open) == \A i \in loose : i = at \/ i \in open

\* A jump is filled in.
LEMMA PatchKeeps ==
  ASSUME NEW c, NEW depth, NEW to, NEW loose, NEW known, On(c, depth, to, loose, known),
         depth[Len(c.code)] = 0, NEW at \in 1..Len(c.code), c.code[at].op \in Jumps,
         NEW open, Settles(at, loose, open)
  PROVE  LET e == PatchJump(c, at)
         IN /\ On(e, depth, to, open, known)
            /\ Len(e.code) = Len(c.code) /\ \A i \in 1..Len(c.code) : e.code[i].op = c.code[i].op
            /\ e.agenda = c.agenda /\ e.handle = c.handle /\ e.chunks = c.chunks
<1> DEFINE n == Len(c.code)
           code == [c.code EXCEPT ![at].operand = n]
           e == [c EXCEPT !.code = code]
<1>1. /\ c \in Object /\ ~c.failed /\ Right(c.code, c.constants, depth)
      /\ Plan(c.code, depth, c.agenda, to)
      /\ \A i \in 1..n : c.code[i].operand = -1 => i \in loose \/ Awaited(c.agenda, i)
      /\ \A i \in 1..Len(c.constants) :
           c.constants[i].tag = "Function" => c.constants[i].function \in known
  BY DEF On
<1>2. c.code \in Seq(PartialInstruction) /\ n \in Nat
  BY <1>1 DEF Object
<1>3. /\ code \in Seq(PartialInstruction) /\ Len(code) = n
      /\ \A i \in 1..n : code[i].op = c.code[i].op /\ (i # at => code[i] = c.code[i])
      /\ code[at].operand = n
      /\ Right(code, c.constants, depth)
  <2>1. /\ c.code \in Seq(PartialInstruction) /\ Right(c.code, c.constants, depth)
        /\ depth[Len(c.code)] = 0 /\ at \in 1..Len(c.code) /\ c.code[at].op \in Jumps
    BY <1>1, <1>2
  <2> DEFINE s == c.code
             constants == c.constants
  <2> HIDE DEF s, constants
  <2>2. /\ s \in Seq(PartialInstruction) /\ Right(s, constants, depth)
        /\ depth[Len(s)] = 0 /\ at \in 1..Len(s) /\ s[at].op \in Jumps
    BY <2>1 DEF s, constants
  <2>3. /\ [s EXCEPT ![at].operand = Len(s)] \in Seq(PartialInstruction)
        /\ Len([s EXCEPT ![at].operand = Len(s)]) = Len(s)
        /\ \A i \in 1..Len(s) :
             /\ [s EXCEPT ![at].operand = Len(s)][i].op = s[i].op
             /\ i # at => [s EXCEPT ![at].operand = Len(s)][i] = s[i]
        /\ [s EXCEPT ![at].operand = Len(s)][at].operand = Len(s)
        /\ Right([s EXCEPT ![at].operand = Len(s)], constants, depth)
    BY <2>2, RightPatched
  <2> QED BY <2>3 DEF s, constants
<1>4. PatchJump(c, at) = e
  BY DEF PatchJump
<1> HIDE DEF code
<1>5. /\ e \in Object /\ e.code = code /\ e.constants = c.constants /\ e.agenda = c.agenda
      /\ e.handle = c.handle /\ e.chunks = c.chunks /\ e.failed = c.failed
  BY <1>1, <1>3 DEF Object
<1> HIDE DEF e
<1>6. Plan(e.code, depth, e.agenda, to)
  BY <1>1, <1>2, <1>3, <1>5, PlanStays
<1>7. ASSUME NEW i \in 1..n, code[i].operand = -1
      PROVE  i \in open \/ Awaited(c.agenda, i)
  <2>1. i # at
    BY <1>2, <1>3, <1>7
  <2> QED BY <1>1, <1>3, <1>7, <2>1 DEF Settles
<1>8. On(e, depth, to, open, known)
  BY <1>1, <1>3, <1>5, <1>6, <1>7 DEF On
<1> QED BY <1>3, <1>4, <1>5, <1>8

\* A step is put on the agenda.
LEMMA PushKeeps ==
  ASSUME NEW c, NEW depth, NEW to \in Nat, NEW loose, NEW known, On(c, depth, to, loose, known),
         NEW step \in Step, NEW from \in Nat,
         Moves(step, from, to), Anchored(c.code, depth, step),
         NEW open, \A i \in loose : Patches(step, i) \/ i \in open
  PROVE  LET e == Then(c, <<step>>)
         IN /\ On(e, depth, from, open, known)
            /\ e.code = c.code /\ e.constants = c.constants
            /\ e.handle = c.handle /\ e.chunks = c.chunks
<1> DEFINE agenda == <<step>> \o c.agenda
           e == [c EXCEPT !.agenda = agenda]
<1>1. /\ c \in Object /\ ~c.failed /\ Right(c.code, c.constants, depth)
      /\ Plan(c.code, depth, c.agenda, to)
      /\ \A i \in 1..Len(c.code) : c.code[i].operand = -1 => i \in loose \/ Awaited(c.agenda, i)
      /\ \A i \in 1..Len(c.constants) :
           c.constants[i].tag = "Function" => c.constants[i].function \in known
  BY DEF On
<1>2. c.agenda \in Seq(Step)
  BY <1>1 DEF Object
<1>3. agenda \in Seq(Step)
  BY <1>2, ConsProperties
<1>4. Then(c, <<step>>) = e
  BY DEF Then
<1>5. Plan(c.code, depth, agenda, from)
  BY <1>1, <1>2, PlanPush
<1>6. \A i : Patches(step, i) \/ Awaited(c.agenda, i) => Awaited(agenda, i)
  BY <1>2, AwaitedCons
<1> HIDE DEF agenda
<1>7. /\ e \in Object /\ e.agenda = agenda /\ e.code = c.code /\ e.constants = c.constants
      /\ e.handle = c.handle /\ e.chunks = c.chunks /\ e.failed = c.failed
  BY <1>1, <1>3 DEF Object
<1> HIDE DEF e
<1>8. On(e, depth, from, open, known)
  BY <1>1, <1>5, <1>6, <1>7 DEF On
<1> QED BY <1>4, <1>7, <1>8

\* Two steps, and three.
\* One of two steps fills in each of the jumps that have none.
FillIn(a, b, loose) == \A i \in loose : Patches(a, i) \/ Patches(b, i)

LEMMA PushTwo ==
  ASSUME NEW c, NEW depth, NEW to \in Nat, NEW loose, NEW known, On(c, depth, to, loose, known),
         NEW a \in Step, NEW b \in Step, NEW from \in Nat, NEW between \in Nat,
         Moves(a, from, between), Moves(b, between, to),
         Anchored(c.code, depth, a), Anchored(c.code, depth, b),
         FillIn(a, b, loose)
  PROVE  LET e == Then(c, <<a, b>>)
         IN On(e, depth, from, {}, known) /\ e.code = c.code /\ SameTable(c, e)
<1> DEFINE one == Then(c, <<b>>)
           two == Then(one, <<a>>)
           open == {i \in loose : Patches(a, i)}
<1>1. \A i \in loose : Patches(b, i) \/ i \in open
  BY DEF FillIn
<1> HIDE DEF open
<1>2. /\ On(one, depth, between, open, known)
      /\ one.code = c.code /\ one.handle = c.handle /\ one.chunks = c.chunks
  BY <1>1, PushKeeps
<1>3. \A i \in open : Patches(a, i) \/ i \in {}
  BY DEF open
<1> HIDE DEF one
<1>4. Anchored(one.code, depth, a)
  BY <1>2
<1>5. /\ On(two, depth, from, {}, known)
      /\ two.code = one.code /\ two.handle = one.handle /\ two.chunks = one.chunks
  BY <1>2, <1>3, <1>4, PushKeeps
<1>6. Then(c, <<a, b>>) = two
  <2>1. c \in Object /\ c.agenda \in Seq(Step)
    BY DEF On, Object
  <2>2. <<a, b>> \o c.agenda = <<a>> \o (<<b>> \o c.agenda)
    BY <2>1, TwoFirst, SMTT(30)
  <2> DEFINE rest == <<b>> \o c.agenda
             all == <<a, b>> \o c.agenda
  <2>3. Then(c, <<a, b>>) = [c EXCEPT !.agenda = all]
    BY DEF Then
  <2>4. one = [c EXCEPT !.agenda = rest]
    BY DEF Then, one
  <2>5. two = [one EXCEPT !.agenda = <<a>> \o @]
    BY DEF Then
  <2>6. all = <<a>> \o rest
    BY <2>2
  <2> HIDE DEF two, all, rest
  <2>7. one.agenda = rest
    BY <2>1, <2>4 DEF Object
  <2>8. two = [c EXCEPT !.agenda = all]
    BY <2>1, <2>4, <2>5, <2>6, <2>7
  <2> QED BY <2>3, <2>8
<1> QED BY <1>2, <1>5, <1>6 DEF SameTable

LEMMA PushThree ==
  ASSUME NEW c, NEW depth, NEW to \in Nat, NEW known, On(c, depth, to, {}, known),
         NEW a \in Step, NEW b \in Step, NEW d \in Step,
         NEW from \in Nat, NEW first \in Nat, NEW second \in Nat,
         Moves(a, from, first), Moves(b, first, second), Moves(d, second, to),
         Anchored(c.code, depth, a), Anchored(c.code, depth, b), Anchored(c.code, depth, d)
  PROVE  LET e == Then(c, <<a, b, d>>)
         IN On(e, depth, from, {}, known) /\ e.code = c.code /\ SameTable(c, e)
<1> DEFINE one == Then(c, <<d>>)
           three == Then(one, <<a, b>>)
<1>1. /\ On(one, depth, second, {}, known)
      /\ one.code = c.code /\ one.handle = c.handle /\ one.chunks = c.chunks
  BY PushKeeps
<1> HIDE DEF one
<1>2. Anchored(one.code, depth, a) /\ Anchored(one.code, depth, b)
  BY <1>1
<1>3. On(three, depth, from, {}, known) /\ three.code = one.code /\ SameTable(one, three)
  <2>1. FillIn(a, b, {})
    BY DEF FillIn
  <2> QED BY <1>1, <1>2, <2>1, PushTwo
<1>4. Then(c, <<a, b, d>>) = three
  <2>1. c \in Object /\ c.agenda \in Seq(Step)
    BY DEF On, Object
  <2>2. <<a, b, d>> \o c.agenda = <<a, b>> \o (<<d>> \o c.agenda)
    <3> DEFINE agenda == c.agenda
    <3>1. agenda \in Seq(Step)
      BY <2>1
    <3> HIDE DEF agenda
    <3>2. <<a, b, d>> \o agenda = <<a, b>> \o (<<d>> \o agenda)
      BY <3>1, ThreeFirst, SMTT(30)
    <3> QED BY <3>2 DEF agenda
  <2> DEFINE rest == <<d>> \o c.agenda
             all == <<a, b, d>> \o c.agenda
  <2>3. Then(c, <<a, b, d>>) = [c EXCEPT !.agenda = all]
    BY DEF Then
  <2>4. one = [c EXCEPT !.agenda = rest]
    BY DEF Then, one
  <2>5. three = [one EXCEPT !.agenda = <<a, b>> \o @]
    BY DEF Then
  <2>6. all = <<a, b>> \o rest
    BY <2>2
  <2> HIDE DEF three, all, rest
  <2>7. one.agenda = rest
    BY <2>1, <2>4 DEF Object
  <2>8. three = [c EXCEPT !.agenda = all]
    BY <2>1, <2>4, <2>5, <2>6, <2>7
  <2> QED BY <2>3, <2>8
<1> QED BY <1>1, <1>3, <1>4 DEF SameTable

\* A step is taken from the agenda.
LEMMA TakeKeeps ==
  ASSUME NEW c, NEW known, Ready(c, known), c.agenda # <<>>
  PROVE  LET rest == [c EXCEPT !.agenda = Tail(@)]
             step == Head(c.agenda)
         IN /\ step \in Step
            /\ rest.code = c.code /\ SameTable(c, rest)
            /\ \E depth, to : /\ to \in Nat /\ depth[Len(rest.code)] \in Nat
                              /\ On(rest, depth, to, {at \in 1..Len(c.code) : Patches(step, at)}, known)
                              /\ Moves(step, depth[Len(rest.code)], to)
                              /\ Anchored(rest.code, depth, step)
<1> DEFINE agenda == Tail(c.agenda)
           step == Head(c.agenda)
           rest == [c EXCEPT !.agenda = agenda]
           n == Len(c.code)
           loose == {at \in 1..n : Patches(step, at)}
<1>1. PICK depth : On(c, depth, depth[n], {}, known)
  BY DEF Ready
<1>2. /\ c \in Object /\ ~c.failed /\ Right(c.code, c.constants, depth)
      /\ Plan(c.code, depth, c.agenda, depth[n])
      /\ \A i \in 1..n : c.code[i].operand = -1 => Awaited(c.agenda, i)
      /\ \A i \in 1..Len(c.constants) :
           c.constants[i].tag = "Function" => c.constants[i].function \in known
  BY <1>1 DEF On
<1>3. c.agenda \in Seq(Step) /\ n \in Nat /\ depth[n] \in Nat
  <2>1. c.agenda \in Seq(Step) /\ n \in Nat
    BY <1>2 DEF Object
  <2>2. n \in 0..n
    BY <2>1
  <2> QED BY <1>2, <2>1, <2>2 DEF Right
<1>4. step \in Step /\ agenda \in Seq(Step)
  BY <1>3, HeadTailProperties
<1>5. PICK to \in Nat : /\ Moves(step, depth[n], to)
                        /\ Anchored(c.code, depth, step)
                        /\ Plan(c.code, depth, agenda, to)
  BY <1>2, <1>3, PlanHead
<1>6. ASSUME NEW i \in 1..n, c.code[i].operand = -1
      PROVE  i \in loose \/ Awaited(agenda, i)
  BY <1>2, <1>3, <1>6, AwaitedHead
<1> HIDE DEF agenda, step, loose
<1>7. /\ rest \in Object /\ rest.agenda = agenda /\ rest.code = c.code /\ rest.constants = c.constants
      /\ rest.handle = c.handle /\ rest.chunks = c.chunks /\ rest.failed = c.failed
  BY <1>2, <1>4 DEF Object
<1> HIDE DEF rest
<1>8. On(rest, depth, to, loose, known)
  BY <1>2, <1>5, <1>6, <1>7 DEF On
<1>9. /\ step \in Step /\ rest.code = c.code /\ SameTable(c, rest)
      /\ to \in Nat /\ depth[Len(rest.code)] \in Nat
      /\ On(rest, depth, to, {at \in 1..Len(c.code) : Patches(step, at)}, known)
      /\ Moves(step, depth[Len(rest.code)], to) /\ Anchored(rest.code, depth, step)
  BY <1>3, <1>4, <1>5, <1>7, <1>8 DEF SameTable, loose
<1> QED BY <1>9 DEF rest, step, agenda

\* A constant and the instruction that uses it.
LEMMA EmitConstantKeeps ==
  ASSUME NEW c, NEW depth, NEW to, NEW known, On(c, depth, to, {}, known),
         NEW value \in Value(0), value.tag = "Function" => value.function \in known,
         NEW op \in {"LoadConstant", "LoadVariable", "StoreVariable"},
         op # "LoadConstant" => value.tag = "String" /\ value.text \in Names,
         NEW from \in Nat, NEW next \in Nat, depth[Len(c.code)] = from,
         op = "StoreVariable" => from = 1 /\ next = 0,
         op # "StoreVariable" => next = from + 1
  PROVE  LET e == EmitConstant(c, op, value)
         IN /\ Len(e.code) = Len(c.code) + 1 /\ Len(c.code) \in Nat
            /\ e.code[Len(e.code)].op = op /\ \A i \in 1..Len(c.code) : e.code[i] = c.code[i]
            /\ SameTable(c, e) /\ e.agenda = c.agenda
            /\ \E longer : /\ On(e, longer, to, {}, known)
                           /\ longer[Len(e.code)] = next
<1> DEFINE added == [c EXCEPT !.constants = Append(@, value)]
           n == Len(c.constants)
           e == Emit(added, op, n)
           instruction == [op |-> op, operand |-> n]
<1>1. /\ On(added, depth, to, {}, known)
      /\ added.code = c.code /\ added.agenda = c.agenda
      /\ added.handle = c.handle /\ added.chunks = c.chunks
      /\ Len(added.constants) = n + 1 /\ n \in Nat
      /\ ConstantAt(added, n) = value
  BY ConstantKeeps
<1> HIDE DEF added, n
<1>2. added \in Object
  BY <1>1 DEF On
<1>3. instruction \in PartialInstruction
  BY <1>1 DEF PartialInstruction, OpCode
<1>4. Fits(added.constants, instruction, from, next)
  <2>1. Pops(instruction) = (IF op = "StoreVariable" THEN 1 ELSE 0)
    BY DEF Pops, Arithmetic
  <2>2. Pushes(instruction) = (IF op = "StoreVariable" THEN 0 ELSE 1)
    BY DEF Pushes, EndsStatement
  <2>3. n \in 0..(Len(added.constants) - 1)
    BY <1>1
  <2> DEFINE chunk == [code |-> <<>>, constants |-> added.constants]
  <2>4. ConstantAt(chunk, n) = value
    BY <1>1 DEF ConstantAt
  <2>5. chunk.constants = added.constants /\ instruction.op = op /\ instruction.operand = n
    OBVIOUS
  <2> HIDE DEF chunk, instruction
  <2>6. OperandInRange(chunk, instruction)
    BY <2>3, <2>4, <2>5 DEF OperandInRange
  <2>7. Pops(instruction) <= from /\ next = from - Pops(instruction) + Pushes(instruction)
        /\ (op \in EndsStatement => next = 0)
    BY <2>1, <2>2 DEF EndsStatement
  <2> QED BY <1>1, <2>5, <2>6, <2>7 DEF Fits, chunk
<1>5. op \notin Jumps /\ n # -1
  BY <1>1 DEF Jumps
<1>6. PICK longer : /\ On(e, longer, to, {}, known)
                    /\ longer[Len(added.code) + 1] = next
  <2>1. depth[Len(added.code)] = from
    BY <1>1
  <2>2. Fits(added.constants, [op |-> op, operand |-> n], depth[Len(added.code)], next)
    BY <1>4, <2>1
  <2>3. op \in OpCode \ Jumps
    BY DEF OpCode, Jumps
  <2>4. \E longer : /\ On(Emit(added, op, n), longer, to, {}, known)
                    /\ longer[Len(added.code) + 1] = next
    BY <1>1, <2>2, <2>3, EmitPlainKeeps, SMTT(30)
  <2> QED BY <2>4
<1>7. /\ Len(e.code) = Len(added.code) + 1 /\ Len(added.code) \in Nat
      /\ e.code[Len(added.code) + 1].op = op
      /\ \A i \in 1..Len(added.code) : e.code[i] = added.code[i]
      /\ e.agenda = added.agenda /\ e.handle = added.handle /\ e.chunks = added.chunks
  BY <1>2, <1>3, EmitFields
<1>8. EmitConstant(c, op, value) = e
  BY DEF EmitConstant, added, n
<1> HIDE DEF e
<1> QED BY <1>1, <1>6, <1>7, <1>8 DEF SameTable

-----------------------------------------------------------------------------
(* The steps. *)

LEMMA StepParts ==
  ASSUME NEW step \in Step
  PROVE  /\ step[1] \in {"Expression", "Expressions", "Emit", "Statement", "Block", "Store",
                         "Then", "EndThen", "Body", "EndBody", "Patch"}
         /\ step[1] = "Expression" => step[2] \in Exprs
         /\ step[1] = "Expressions" => step[2] \in Seq(Exprs)
         /\ step[1] = "Emit" => step[2] \in OpCode \ Jumps /\ step[3] \in Nat
         /\ step[1] = "Statement" => step[2] \in Stmts
         /\ step[1] = "Block" => step[2] \in Seq(Stmts)
         /\ step[1] = "Store" => step[2] \in Names
         /\ step[1] \in {"Then", "EndThen"} => step[2] \in Stmts /\ step[2].kind = "If"
         /\ step[1] = "Body" => step[2] \in Stmts /\ step[2].kind = "While"
         /\ step[1] \in {"EndThen", "Body"} => step[3] \in Nat
         /\ step[1] = "EndBody" => step[2] \in Nat /\ step[3] \in Nat
         /\ step[1] = "Patch" => step[2] \in Nat
BY DEF Step

LEMMA StepsAre ==
  /\ \A e \in Exprs : Expression(e) \in Step
  /\ \A es \in Seq(Exprs) : Expressions(es) \in Step
  /\ \A op \in OpCode \ Jumps, operand \in Nat : Emission(op, operand) \in Step
  /\ \A s \in Stmts : <<"Statement", s>> \in Step
  /\ \A b \in Seq(Stmts) : Block(b) \in Step
  /\ \A name \in Names : <<"Store", name>> \in Step
  /\ \A s \in Stmts : s.kind = "If" => <<"Then", s>> \in Step
  /\ \A s \in Stmts, at \in Nat : s.kind = "If" => <<"EndThen", s, at>> \in Step
  /\ \A s \in Stmts, start \in Nat : s.kind = "While" => <<"Body", s, start>> \in Step
  /\ \A start, at \in Nat : <<"EndBody", start, at>> \in Step
  /\ \A at \in Nat : <<"Patch", at>> \in Step
BY DEF Step, Expression, Expressions, Emission, Block

\* What the steps do that keep no position.
LEMMA StepsMove ==
  /\ \A e : \A from \in Nat : Moves(Expression(e), from, from + 1)
  /\ \A es : \A from \in Nat : Moves(Expressions(es), from, from + Len(es))
  /\ \A op, operand, from, to :
       Fits(<<>>, [op |-> op, operand |-> operand], from, to) => Moves(Emission(op, operand), from, to)
  /\ \A s : Moves(<<"Statement", s>>, 0, 0)
  /\ \A b : Moves(Block(b), 0, 0)
  /\ \A name : Moves(<<"Store", name>>, 1, 0)
  /\ \A s : Moves(<<"Then", s>>, 1, 0)
  /\ \A s, at : Moves(<<"EndThen", s, at>>, 0, 0)
  /\ \A s, start : Moves(<<"Body", s, start>>, 1, 0)
  /\ \A start, at : Moves(<<"EndBody", start, at>>, 0, 0)
  /\ \A at : Moves(<<"Patch", at>>, 0, 0)
<1>1. \A op, operand : LET step == Emission(op, operand)
                      IN step[1] = "Emit" /\ step[2] = op /\ step[3] = operand
  BY DEF Emission
<1>2. \A op, operand, from, to :
        Fits(<<>>, [op |-> op, operand |-> operand], from, to) => Moves(Emission(op, operand), from, to)
  BY <1>1 DEF Moves
<1> QED BY <1>2 DEF Moves, Expression, Expressions, Block

LEMMA StepsKeepNoPosition ==
  ASSUME NEW code, NEW depth
  PROVE  /\ \A e : Anchored(code, depth, Expression(e))
         /\ \A es : Anchored(code, depth, Expressions(es))
         /\ \A op, operand : Anchored(code, depth, Emission(op, operand))
         /\ \A s : Anchored(code, depth, <<"Statement", s>>)
         /\ \A b : Anchored(code, depth, Block(b))
         /\ \A name : Anchored(code, depth, <<"Store", name>>)
         /\ \A s : Anchored(code, depth, <<"Then", s>>)
BY DEF Anchored, Expression, Expressions, Emission, Block

\* The number and the count of a built-in can be taken apart again.
LEMMA PackedParts ==
  ASSUME NEW number \in 0..2, NEW count \in Nat, count < ArgumentLimit
  PROVE  /\ Packed(number, count) \in Nat
         /\ ArgumentCount(Packed(number, count)) = count
         /\ BuiltinNumber(Packed(number, count)) = number
<1>1. ArgumentLimit \in Nat \ {0}
  BY BytecodeAssumption
<1> DEFINE m == ArgumentLimit
           packed == number * m + count
<1>2. count \div m = 0 /\ count % m = count
  <2>1. \A a, b \in Nat : a < b => a \div b = 0 /\ a % b = a
    OBVIOUS
  <2> QED BY <1>1, <2>1
<1>3. Packed(number, count) = packed
  <2>1. number # 0 => (0 \div number) % 2 = 0
    OBVIOUS
  <2>2. number * m \in Nat /\ (0 + number) * m = number * m /\ (number = 0 => 0 * m = number * m)
    BY <1>1
  <2> QED BY <1>1, <1>2, <2>1, <2>2 DEF Packed
<1>4. packed \in Nat
  BY <1>1
<1>5. packed % m = count /\ packed \div m = number
  <2>1. \A b \in Nat \ {0} : \A a \in 0..(b - 1) :
          /\ (0 * b + a) % b = a /\ (0 * b + a) \div b = 0
          /\ (1 * b + a) % b = a /\ (1 * b + a) \div b = 1
          /\ (2 * b + a) % b = a /\ (2 * b + a) \div b = 2
    OBVIOUS
  <2>2. m \in Nat \ {0} /\ count \in 0..(m - 1) /\ number \in {0, 1, 2}
    BY <1>1
  <2> HIDE DEF m
  <2> QED BY <2>1, <2>2
<1> QED BY <1>3, <1>4, <1>5 DEF ArgumentCount, BuiltinNumber

\* The operands that the emissions of the compiler take and leave.
LEMMA EmissionsFit ==
  ASSUME NEW from \in Nat
  PROVE  /\ \A k \in Nat : Fits(<<>>, [op |-> "BuildList", operand |-> k], from + k, from + 1)
         /\ \A k \in Nat : Fits(<<>>, [op |-> "Call", operand |-> k], (from + 1) + k, from + 1)
         /\ \A packed \in Nat : BuiltinNumber(packed) \in 0..2 /\ ArgumentCount(packed) \in Nat =>
              Fits(<<>>, [op |-> "Builtin", operand |-> packed],
                   from + ArgumentCount(packed), from + 1)
         /\ \A op \in Arithmetic : Fits(<<>>, [op |-> op, operand |-> 0], from + 2, from + 1)
         /\ \A k \in Comparison : Fits(<<>>, [op |-> "Compare", operand |-> k], from + 2, from + 1)
         /\ Fits(<<>>, [op |-> "Negate", operand |-> 0], from + 1, from + 1)
         /\ \A op \in {"Print", "Pop", "Return"} : Fits(<<>>, [op |-> op, operand |-> 0], 1, 0)
<1>1. ASSUME NEW k \in Nat
      PROVE  Fits(<<>>, [op |-> "BuildList", operand |-> k], from + k, from + 1)
  BY DEF Fits, Pops, Pushes, EndsStatement, OperandInRange, Jumps, Arithmetic
<1>2. ASSUME NEW k \in Nat
      PROVE  Fits(<<>>, [op |-> "Call", operand |-> k], (from + 1) + k, from + 1)
  BY DEF Fits, Pops, Pushes, EndsStatement, OperandInRange, Jumps, Arithmetic
<1>3. ASSUME NEW packed \in Nat, BuiltinNumber(packed) \in 0..2, ArgumentCount(packed) \in Nat
      PROVE  Fits(<<>>, [op |-> "Builtin", operand |-> packed],
                  from + ArgumentCount(packed), from + 1)
  BY <1>3 DEF Fits, Pops, Pushes, EndsStatement, OperandInRange, Jumps, Arithmetic
<1>4. ASSUME NEW op \in Arithmetic
      PROVE  Fits(<<>>, [op |-> op, operand |-> 0], from + 2, from + 1)
  BY DEF Fits, Pops, Pushes, EndsStatement, OperandInRange, Jumps, Arithmetic
<1>5. ASSUME NEW k \in Comparison
      PROVE  Fits(<<>>, [op |-> "Compare", operand |-> k], from + 2, from + 1)
  <2>1. k \in Nat
    BY DEF Comparison, EqualEqual, GreaterEqual
  <2> QED BY <2>1 DEF Fits, Pops, Pushes, EndsStatement, OperandInRange, Jumps, Arithmetic
<1>6. Fits(<<>>, [op |-> "Negate", operand |-> 0], from + 1, from + 1)
  BY DEF Fits, Pops, Pushes, EndsStatement, OperandInRange, Jumps, Arithmetic
<1>7. ASSUME NEW op \in {"Print", "Pop", "Return"}
      PROVE  Fits(<<>>, [op |-> op, operand |-> 0], 1, 0)
  BY DEF Fits, Pops, Pushes, EndsStatement, OperandInRange, Jumps, Arithmetic
<1> QED BY <1>1, <1>2, <1>3, <1>4, <1>5, <1>6, <1>7

\* A function that leaves all its work to others.
LEMMA OneReady ==
  ASSUME NEW c, NEW depth, NEW to \in Nat, NEW known, On(c, depth, to, {}, known),
         NEW a \in Step, NEW from \in Nat, depth[Len(c.code)] = from,
         Moves(a, from, to), Anchored(c.code, depth, a), NEW d, d = Then(c, <<a>>)
  PROVE  SameTable(c, d) /\ Ready(d, known)
<1>1. On(d, depth, from, {}, known) /\ d.code = c.code /\ d.handle = c.handle /\ d.chunks = c.chunks
  <2>1. \A i \in {} : Patches(a, i) \/ i \in {}
    OBVIOUS
  <2> QED BY <2>1, PushKeeps
<1> QED BY <1>1 DEF Ready, SameTable

LEMMA PushBoth ==
  ASSUME NEW c, NEW depth, NEW to \in Nat, NEW known, On(c, depth, to, {}, known),
         NEW a \in Step, NEW b \in Step, NEW from \in Nat, NEW between \in Nat,
         Moves(a, from, between), Moves(b, between, to),
         Anchored(c.code, depth, a), Anchored(c.code, depth, b)
  PROVE  LET e == Then(c, <<a, b>>)
         IN On(e, depth, from, {}, known) /\ e.code = c.code /\ SameTable(c, e)
<1>1. FillIn(a, b, {})
  BY DEF FillIn
<1> QED BY <1>1, PushTwo

LEMMA TwoReady ==
  ASSUME NEW c, NEW depth, NEW to \in Nat, NEW known, On(c, depth, to, {}, known),
         NEW a \in Step, NEW b \in Step, NEW from \in Nat, NEW between \in Nat,
         Moves(a, from, between), Moves(b, between, to),
         Anchored(c.code, depth, a), Anchored(c.code, depth, b), NEW d
  PROVE  depth[Len(c.code)] = from /\ d = Then(c, <<a, b>>) => SameTable(c, d) /\ Ready(d, known)
<1> DEFINE e == Then(c, <<a, b>>)
<1>1. On(e, depth, from, {}, known) /\ e.code = c.code /\ SameTable(c, e)
  BY PushBoth
<1> HIDE DEF e
<1>2. depth[Len(c.code)] = from => Ready(e, known)
  BY <1>1 DEF Ready
<1> QED BY <1>1, <1>2 DEF e

LEMMA ThreeReady ==
  ASSUME NEW c, NEW depth, NEW to \in Nat, NEW known, On(c, depth, to, {}, known),
         NEW a \in Step, NEW b \in Step, NEW x \in Step,
         NEW from \in Nat, NEW first \in Nat, NEW second \in Nat, depth[Len(c.code)] = from,
         Moves(a, from, first), Moves(b, first, second), Moves(x, second, to),
         Anchored(c.code, depth, a), Anchored(c.code, depth, b), Anchored(c.code, depth, x),
         NEW d, d = Then(c, <<a, b, x>>)
  PROVE  SameTable(c, d) /\ Ready(d, known)
<1>1. On(d, depth, from, {}, known) /\ d.code = c.code /\ SameTable(c, d)
  BY PushThree
<1> QED BY <1>1 DEF Ready

LEMMA ConstantReady ==
  ASSUME NEW c, NEW depth, NEW to, NEW known, On(c, depth, to, {}, known),
         NEW value \in Value(0), value.tag # "Function",
         NEW op \in {"LoadConstant", "LoadVariable", "StoreVariable"},
         op # "LoadConstant" => value.tag = "String" /\ value.text \in Names,
         NEW from \in Nat, to \in Nat, depth[Len(c.code)] = from,
         op = "StoreVariable" => from = 1 /\ to = 0,
         op # "StoreVariable" => to = from + 1,
         NEW d, d = EmitConstant(c, op, value)
  PROVE  SameTable(c, d) /\ Ready(d, known)
<1> DEFINE e == EmitConstant(c, op, value)
           next == to
<1>1. value.tag = "Function" => value.function \in known
  OBVIOUS
<1>2. /\ next \in Nat
      /\ op = "StoreVariable" => from = 1 /\ next = 0
      /\ op # "StoreVariable" => next = from + 1
  OBVIOUS
<1> HIDE DEF next
<1>3. SameTable(c, e) /\ \E longer : On(e, longer, to, {}, known) /\ longer[Len(e.code)] = next
  <2>1. CASE op = "LoadConstant"
    BY <1>1, <1>2, <2>1, EmitConstantKeeps
  <2>2. CASE op = "LoadVariable"
    BY <1>1, <1>2, <2>2, EmitConstantKeeps
  <2>3. CASE op = "StoreVariable"
    BY <1>1, <1>2, <2>3, EmitConstantKeeps
  <2> QED BY <2>1, <2>2, <2>3
<1> HIDE DEF e
<1>4. d = e /\ next = to
  BY DEF e, next
<1> QED BY <1>3, <1>4 DEF Ready

\* A literal that fits is a value.
LEMMA LiteralFits ==
  ASSUME NEW value \in LiteralValue, ~(value.tag = "Integer" /\ value.integer > IntegerMax)
  PROVE  value \in Value(0) /\ value.tag # "Function"
BY ValuesAssumption
   DEF LiteralValue, Value, PlainValue, PlainValue, IntegerValue, FloatValue, StringValue, IntegerMin

LEMMA NameFits ==
  ASSUME NEW name \in Names
  PROVE  String(name) \in Value(0) /\ String(name).tag = "String" /\ String(name).text = name
BY BytecodeAssumption DEF String, Value, PlainValue, StringValue

\* Every operator of the parser has an instruction (compiler.cpp:82-89).
LEMMA OperatorsCompile ==
  BinaryOperator \subseteq DOMAIN OpCodeOf \cup DOMAIN TokenOf
BY DEF BinaryOperator, OpCodeOf, TokenOf

\* expression().
LEMMA ExpressionKeeps ==
  ASSUME NEW c, NEW depth, NEW known, NEW from \in Nat, NEW to \in Nat, to = from + 1,
         depth[Len(c.code)] = from, On(c, depth, to, {}, known), NEW e \in Exprs
  PROVE  LET d == CompileExpression(c, e)
         IN SameTable(c, d) /\ (Ready(d, known) \/ Thrown(d))
<1> DEFINE d == CompileExpression(c, e)
<1> SUFFICES SameTable(c, d) /\ (Ready(d, known) \/ Thrown(d))
  OBVIOUS
<1>1. IsExpression(e)
  BY TreeAssumption
<1>2. CASE e.kind = "Literal"
  <2>1. e.value \in LiteralValue
    BY <1>1, <1>2 DEF IsExpression
  <2>2. d = EmitLiteral(c, e.value)
    BY <1>2 DEF CompileExpression
  <2>3. CASE e.value.tag = "Integer" /\ e.value.integer > IntegerMax
    <3>1. d = [c EXCEPT !.failed = TRUE]
      BY <2>2, <2>3 DEF EmitLiteral
    <3>2. c \in Object
      BY DEF On
    <3> HIDE DEF d
    <3> QED BY <3>1, <3>2 DEF Object, SameTable, Thrown
  <2>4. CASE ~(e.value.tag = "Integer" /\ e.value.integer > IntegerMax)
    <3>1. e.value \in Value(0) /\ e.value.tag # "Function"
      BY <2>1, <2>4, LiteralFits
    <3>2. d = EmitConstant(c, "LoadConstant", e.value)
      BY <2>2, <2>4 DEF EmitLiteral
    <3> HIDE DEF d
    <3> QED BY <3>1, <3>2, ConstantReady
  <2> QED BY <2>3, <2>4
<1>3. CASE e.kind = "Variable"
  <2>1. e.name \in Names
    BY <1>1, <1>3 DEF IsExpression
  <2>2. String(e.name) \in Value(0) /\ String(e.name).tag = "String" /\ String(e.name).text = e.name
    BY <2>1, NameFits
  <2>3. d = EmitConstant(c, "LoadVariable", String(e.name))
    BY <1>3 DEF CompileExpression, EmitVariable
  <2> HIDE DEF d
  <2> QED BY <2>1, <2>2, <2>3, ConstantReady
<1>4. CASE e.kind = "List"
  <2>1. e.elements \in Seq(Exprs)
    BY <1>1, <1>4 DEF IsExpression
  <2> DEFINE n == Len(e.elements)
             a == Expressions(e.elements)
             b == Emission("BuildList", n)
             between == from + n
  <2>2. n \in Nat /\ between \in Nat
    BY <2>1
  <2>3. d = Then(c, <<a, b>>)
    BY <1>4 DEF CompileExpression
  <2>4. a \in Step /\ b \in Step
    BY <2>1, <2>2, StepsAre DEF OpCode, Jumps
  <2>5. Moves(a, from, between) /\ Moves(b, between, to)
    BY <2>2, StepsMove, EmissionsFit
  <2>6. Anchored(c.code, depth, a) /\ Anchored(c.code, depth, b)
    BY StepsKeepNoPosition
  <2> HIDE DEF a, b, d, n, between
  <2> QED BY <2>2, <2>3, <2>4, <2>5, <2>6, TwoReady
<1>5. CASE e.kind = "Unary"
  <2>1. e.right \in Exprs
    BY <1>1, <1>5 DEF IsExpression
  <2> DEFINE a == Expression(e.right)
             b == Emission("Negate", 0)
  <2>2. a \in Step /\ b \in Step
    BY <2>1, StepsAre DEF OpCode, Jumps
  <2>3. Moves(a, from, to) /\ Moves(b, to, to)
    BY StepsMove, EmissionsFit
  <2>4. Anchored(c.code, depth, a) /\ Anchored(c.code, depth, b)
    BY StepsKeepNoPosition
  <2>5. d = Then(c, <<a, b>>) \/ d = Then(c, <<a>>)
    BY <1>5 DEF CompileExpression
  <2> HIDE DEF a, b, d
  <2>6. CASE d = Then(c, <<a, b>>)
    BY <2>2, <2>3, <2>4, <2>6, TwoReady
  <2>7. CASE d = Then(c, <<a>>)
    BY <2>2, <2>3, <2>4, <2>7, OneReady
  <2> QED BY <2>5, <2>6, <2>7
<1>6. CASE e.kind = "Binary"
  <2>1. e.left \in Exprs /\ e.right \in Exprs /\ e.op \in DOMAIN OpCodeOf \cup DOMAIN TokenOf
    BY <1>1, <1>6, OperatorsCompile DEF IsExpression
  <2> DEFINE es == <<e.left, e.right>>
             a == Expressions(es)
             b == BinaryInstruction(e.op)
             between == from + 2
  <2>2. es \in Seq(Exprs) /\ Len(es) = 2 /\ between \in Nat
    BY <2>1
  <2>3. \/ \E op \in Arithmetic : b = Emission(op, 0)
        \/ \E token \in Comparison : b = Emission("Compare", token)
    BY <2>1 DEF BinaryInstruction, OpCodeOf, TokenOf, Arithmetic, Comparison, EqualEqual, BangEqual,
                Less, Greater, LessEqual, GreaterEqual
  <2>4. d = Then(c, <<a, b>>)
    BY <1>6 DEF CompileExpression
  <2> HIDE DEF b, d, es
  <2>5. b \in Step /\ Moves(b, between, to) /\ Anchored(c.code, depth, b)
    <3>1. CASE \E op \in Arithmetic : b = Emission(op, 0)
      BY <3>1, StepsAre, StepsMove, EmissionsFit, StepsKeepNoPosition DEF OpCode, Jumps, Arithmetic
    <3>2. CASE \E token \in Comparison : b = Emission("Compare", token)
      <4>1. PICK token \in Comparison : b = Emission("Compare", token)
        BY <3>2
      <4>2. token \in Nat /\ "Compare" \in OpCode \ Jumps
        BY DEF Comparison, EqualEqual, GreaterEqual, OpCode, Jumps
      <4> QED BY <4>1, <4>2, StepsAre, StepsMove, EmissionsFit, StepsKeepNoPosition
    <3> QED BY <2>3, <3>1, <3>2
  <2>6. a \in Step /\ Moves(a, from, between) /\ Anchored(c.code, depth, a)
    <3>1. Moves(a, from, from + Len(es))
      BY StepsMove
    <3> QED BY <2>2, <3>1, StepsAre, StepsKeepNoPosition
  <2> HIDE DEF a, between
  <2> QED BY <2>2, <2>4, <2>5, <2>6, TwoReady
<1>7. CASE e.kind = "Call"
  <2> DEFINE n == Len(e.arguments)
             numbers == BuiltinsNamed(e.callee)
             a == Expression(e.callee)
             b == Expressions(e.arguments)
  <2>1. e.callee \in Exprs /\ e.arguments \in Seq(Exprs) /\ n \in Nat
    BY <1>1, <1>7 DEF IsExpression
  <2>2. d = CompileCall(c, e)
    BY <1>7 DEF CompileExpression
  <2>3. a \in Step /\ b \in Step /\ Moves(a, from, to)
        /\ Anchored(c.code, depth, a) /\ Anchored(c.code, depth, b)
    BY <2>1, StepsAre, StepsMove, StepsKeepNoPosition
  <2>4. CASE numbers = {}
    <3> DEFINE call == Emission("Call", n)
               between == to + n
    <3>1. d = Then(c, <<a, b, call>>)
      BY <2>2, <2>4 DEF CompileCall
    <3>2. call \in Step /\ Moves(call, between, to) /\ Anchored(c.code, depth, call)
      <4>1. "Call" \in OpCode \ Jumps
        BY DEF OpCode, Jumps
      <4> QED BY <2>1, <4>1, StepsAre, StepsMove, EmissionsFit, StepsKeepNoPosition
    <3>3. Moves(b, to, between) /\ between \in Nat
      BY <1>1, <2>1, StepsMove
    <3> HIDE DEF a, b, call, d, n, between
    <3> QED BY <2>3, <3>1, <3>2, <3>3, ThreeReady
  <2>5. CASE numbers # {}
    <3> DEFINE number == (CHOOSE i \in numbers : TRUE) - 1
               packed == Packed(number, n)
               builtin == Emission("Builtin", packed)
               between == from + n
    <3>1. d = Then(c, <<b, builtin>>)
      BY <2>2, <2>5 DEF CompileCall
    <3>2. n < ArgumentLimit
      BY <1>7, <2>5, ArgumentsAssumption
    <3>3. number \in 0..2
      <4>1. (CHOOSE i \in numbers : TRUE) \in numbers
        BY <2>5
      <4>2. numbers \subseteq 1..3
        BY DEF BuiltinsNamed
      <4> QED BY <4>1, <4>2
    <3> HIDE DEF number
    <3>4. packed \in Nat /\ ArgumentCount(packed) = n /\ BuiltinNumber(packed) \in 0..2
      BY <2>1, <3>2, <3>3, PackedParts
    <3> HIDE DEF packed
    <3>5. builtin \in Step /\ Moves(builtin, between, to) /\ Anchored(c.code, depth, builtin)
      <4>1. "Builtin" \in OpCode \ Jumps
        BY DEF OpCode, Jumps
      <4>2. Fits(<<>>, [op |-> "Builtin", operand |-> packed], between, to)
        BY <2>1, <3>4, EmissionsFit
      <4> QED BY <3>4, <4>1, <4>2, StepsAre, StepsMove, StepsKeepNoPosition
    <3>6. Moves(b, from, between) /\ between \in Nat
      BY <2>1, StepsMove
    <3> HIDE DEF a, b, builtin, d, n, between
    <3> QED BY <2>3, <3>1, <3>5, <3>6, TwoReady
  <2> QED BY <2>4, <2>5
<1> QED BY <1>1, <1>2, <1>3, <1>4, <1>5, <1>6, <1>7 DEF IsExpression

\* The list of the expressions of a call.
LEMMA AllReady ==
  ASSUME NEW c, NEW depth, NEW known, NEW from \in Nat, NEW to \in Nat,
         depth[Len(c.code)] = from, On(c, depth, to, {}, known),
         NEW es \in Seq(Exprs), to = from + Len(es)
  PROVE  LET d == CompileAll(c, es) IN SameTable(c, d) /\ Ready(d, known)
<1>1. CASE es = <<>>
  <2>1. CompileAll(c, es) = c /\ to = from
    BY <1>1 DEF CompileAll
  <2> QED BY <2>1 DEF Ready, SameTable
<1>2. CASE es # <<>>
  <2> DEFINE a == Expression(Head(es))
             b == Expressions(Tail(es))
             d == CompileAll(c, es)
             between == from + 1
  <2>1. Head(es) \in Exprs /\ Tail(es) \in Seq(Exprs) /\ Len(Tail(es)) = Len(es) - 1 /\ Len(es) \in Nat
    BY <1>2
  <2>2. a \in Step /\ b \in Step
    BY <2>1, StepsAre
  <2>3. between \in Nat /\ between + Len(Tail(es)) = to
    BY <2>1
  <2>4. Moves(a, from, between) /\ Moves(b, between, to)
    BY <2>3, StepsMove
  <2>5. Anchored(c.code, depth, a) /\ Anchored(c.code, depth, b)
    BY StepsKeepNoPosition
  <2>6. d = Then(c, <<a, b>>)
    BY <1>2 DEF CompileAll
  <2> HIDE DEF a, b, d, between
  <2>7. SameTable(c, d) /\ Ready(d, known)
    BY <2>2, <2>3, <2>4, <2>5, <2>6, TwoReady
  <2> QED BY <2>7 DEF d
<1> QED BY <1>1, <1>2

\* The last instruction of an expression or of a statement.
LEMMA EmissionReady ==
  ASSUME NEW c, NEW depth, NEW known, NEW from \in Nat, NEW to \in Nat,
         depth[Len(c.code)] = from, On(c, depth, to, {}, known),
         NEW op \in OpCode \ Jumps, NEW operand \in Nat,
         Fits(<<>>, [op |-> op, operand |-> operand], from, to)
  PROVE  LET d == Emit(c, op, operand) IN SameTable(c, d) /\ Ready(d, known)
<1> DEFINE instruction == [op |-> op, operand |-> operand]
           d == Emit(c, op, operand)
<1>1. c \in Object /\ c.constants \in Seq(Value(0)) /\ Len(c.constants) \in Nat
  BY DEF On, Object
<1>2. instruction \in PartialInstruction
  BY DEF PartialInstruction
<1>3. Fits(c.constants, instruction, from, to)
  <2> DEFINE none == <<>>
  <2>1. Len(none) = 0 /\ Fits(none, instruction, from, to)
    OBVIOUS
  <2>2. Len(none) \in Nat /\ Len(none) <= Len(c.constants)
        /\ \A i \in 1..Len(none) : c.constants[i] = none[i]
    BY <1>1, <2>1
  <2> HIDE DEF none, instruction
  <2> QED BY <1>1, <2>1, <2>2, FitsMore
<1>4. /\ Len(d.code) = Len(c.code) + 1 /\ d.handle = c.handle /\ d.chunks = c.chunks
  BY <1>1, <1>2, EmitFields
<1>5. \E longer : On(d, longer, to, {}, known) /\ longer[Len(c.code) + 1] = to
  <2>1. Fits(c.constants, [op |-> op, operand |-> operand], depth[Len(c.code)], to)
    BY <1>3
  <2> HIDE DEF instruction
  <2> QED BY <2>1, EmitPlainKeeps
<1> HIDE DEF d
<1>6. SameTable(c, d) /\ Ready(d, known)
  BY <1>4, <1>5 DEF Ready, SameTable
<1> QED BY <1>6 DEF d

\* return None, at the start of a statement.
LEMMA ReturnNoneKeeps ==
  ASSUME NEW c, NEW depth, NEW to, NEW known, depth[Len(c.code)] = 0, On(c, depth, to, {}, known)
  PROVE  LET d == EmitReturnNone(c)
         IN /\ SameTable(c, d) /\ d.agenda = c.agenda
            /\ Len(d.code) = Len(c.code) + 2 /\ Len(c.code) \in Nat
            /\ d.code[Len(c.code) + 1].op = "LoadConstant" /\ d.code[Len(c.code) + 2].op = "Return"
            /\ \A i \in 1..Len(c.code) : d.code[i] = c.code[i]
            /\ \E longer : On(d, longer, to, {}, known) /\ longer[Len(d.code)] = 0
<1> DEFINE loaded == EmitConstant(c, "LoadConstant", NoneValue)
           d == Emit(loaded, "Return", 0)
           n == Len(c.code)
<1>1. NoneValue \in Value(0) /\ NoneValue.tag # "Function"
  BY DEF NoneValue, Value, PlainValue
<1>2. /\ Len(loaded.code) = n + 1 /\ n \in Nat
      /\ loaded.code[Len(loaded.code)].op = "LoadConstant"
      /\ \A i \in 1..n : loaded.code[i] = c.code[i]
      /\ SameTable(c, loaded) /\ loaded.agenda = c.agenda
      /\ \E longer : On(loaded, longer, to, {}, known) /\ longer[Len(loaded.code)] = 1
  BY <1>1, EmitConstantKeeps
<1> HIDE DEF loaded
<1>3. PICK middle : On(loaded, middle, to, {}, known) /\ middle[Len(loaded.code)] = 1
  BY <1>2
<1>4. loaded \in Object
  BY <1>3 DEF On
<1>5. [op |-> "Return", operand |-> 0] \in PartialInstruction
  BY DEF PartialInstruction, OpCode
<1>6. /\ Len(d.code) = Len(loaded.code) + 1
      /\ d.code[Len(loaded.code) + 1].op = "Return"
      /\ \A i \in 1..Len(loaded.code) : d.code[i] = loaded.code[i]
      /\ d.agenda = loaded.agenda /\ d.handle = loaded.handle /\ d.chunks = loaded.chunks
  BY <1>4, <1>5, EmitFields
<1>7. Fits(loaded.constants, [op |-> "Return", operand |-> 0], middle[Len(loaded.code)], 0)
  BY <1>3 DEF Fits, Pops, Pushes, EndsStatement, OperandInRange, Jumps, Arithmetic
<1>8. \E longer : On(d, longer, to, {}, known) /\ longer[Len(loaded.code) + 1] = 0
  <2>1. "Return" \in OpCode \ Jumps
    BY DEF OpCode, Jumps
  <2> QED BY <1>3, <1>7, <2>1, EmitPlainKeeps
<1> HIDE DEF d
<1>9. EmitReturnNone(c) = d
  BY DEF EmitReturnNone, d, loaded
<1>10. n + 1 \in 1..Len(loaded.code) /\ (n + 1) + 1 = n + 2 /\ \A i \in 1..n : i \in 1..Len(loaded.code)
  BY <1>2
<1>11. SameTable(c, d)
  BY <1>2, <1>6 DEF SameTable
<1> QED BY <1>2, <1>6, <1>8, <1>9, <1>10, <1>11

\* The jumps that the compiler writes take what a statement has left.
JumpTakes(op, from) == (op = "Jump" => from = 0) /\ (op = "JumpIfFalse" => from = 1)

\* A jump whose target is still open, ...
LEMMA EmitJumpKeeps ==
  ASSUME NEW c, NEW depth, NEW to, NEW loose, NEW known, On(c, depth, to, loose, known),
         NEW op \in Jumps, JumpTakes(op, depth[Len(c.code)]), NEW open, Loosens(c, -1, loose, open)
  PROVE  LET e == EmitJump(c, op)
             n == Len(c.code)
         IN /\ SameTable(c, e) /\ e.agenda = c.agenda
            /\ n \in Nat /\ Len(e.code) = n + 1 /\ e.code[n + 1].op = op
            /\ \A i \in 1..n : e.code[i] = c.code[i]
            /\ \E longer : /\ On(e, longer, to, open, known)
                           /\ longer[n + 1] = 0
                           /\ \A p \in 0..n : longer[p] = depth[p]
<1> DEFINE e == Emit(c, op, -1)
           n == Len(c.code)
<1>1. [op |-> op, operand |-> -1] \in PartialInstruction /\ c \in Object
  BY DEF PartialInstruction, Jumps, OpCode, On
<1>2. Fits(c.constants, [op |-> op, operand |-> -1], depth[n], 0)
  BY DEF JumpTakes, Jumps, Fits, Pops, Pushes, EndsStatement, Arithmetic
<1>3. Target(c, depth, op, -1)
  BY DEF Target
<1>4. \E longer : /\ On(e, longer, to, open, known)
                 /\ longer[n + 1] = 0
                 /\ \A p \in 0..n : longer[p] = depth[p]
  <2>1. -1 \in Int /\ 0 \in Nat
    OBVIOUS
  <2> QED BY <1>1, <1>2, <1>3, <2>1, EmitKeeps
<1>5. /\ Len(e.code) = n + 1 /\ n \in Nat /\ e.code[n + 1].op = op
      /\ \A i \in 1..n : e.code[i] = c.code[i]
      /\ e.agenda = c.agenda /\ e.handle = c.handle /\ e.chunks = c.chunks
  <2> DEFINE absent == -1
             d == Emit(c, op, absent)
  <2>1. [op |-> op, operand |-> absent] \in PartialInstruction
    BY <1>1
  <2>2. c \in Object
    BY <1>1
  <2> HIDE DEF absent, n
  <2>3. /\ d.code = Append(c.code, [op |-> op, operand |-> absent])
        /\ Len(d.code) = Len(c.code) + 1 /\ Len(c.code) \in Nat /\ d.code[Len(c.code) + 1].op = op
        /\ \A i \in 1..Len(c.code) : d.code[i] = c.code[i]
        /\ d.agenda = c.agenda /\ d.handle = c.handle /\ d.chunks = c.chunks
    BY <2>1, <2>2, EmitFields
  <2> QED BY <2>3 DEF absent, n
<1>6. EmitJump(c, op) = e
  BY DEF EmitJump
<1> HIDE DEF e
<1> QED BY <1>4, <1>5, <1>6 DEF SameTable

\* ... and one that goes back to the start of a statement.
LEMMA EmitJumpBackKeeps ==
  ASSUME NEW c, NEW depth, NEW to, NEW loose, NEW known, On(c, depth, to, loose, known),
         depth[Len(c.code)] = 0, NEW start \in 0..Len(c.code), depth[start] = 0
  PROVE  LET e == Emit(c, "Jump", start)
             n == Len(c.code)
         IN /\ SameTable(c, e) /\ e.agenda = c.agenda
            /\ n \in Nat /\ Len(e.code) = n + 1
            /\ \A i \in 1..n : e.code[i] = c.code[i]
            /\ \E longer : On(e, longer, to, loose, known) /\ longer[n + 1] = 0
<1> DEFINE e == Emit(c, "Jump", start)
           n == Len(c.code)
<1>1. [op |-> "Jump", operand |-> start] \in PartialInstruction /\ c \in Object
  BY DEF PartialInstruction, Jumps, OpCode, On
<1>2. Fits(c.constants, [op |-> "Jump", operand |-> start], depth[n], 0)
  BY DEF Jumps, Fits, Pops, Pushes, EndsStatement, Arithmetic
<1>3. Target(c, depth, "Jump", start) /\ Loosens(c, start, loose, loose)
  BY DEF Target, Loosens
<1>4. \E longer : /\ On(e, longer, to, loose, known)
                 /\ longer[n + 1] = 0
                 /\ \A p \in 0..n : longer[p] = depth[p]
  BY <1>1, <1>2, <1>3, EmitKeeps
<1>5. /\ Len(e.code) = n + 1 /\ n \in Nat
      /\ \A i \in 1..n : e.code[i] = c.code[i]
      /\ e.agenda = c.agenda /\ e.handle = c.handle /\ e.chunks = c.chunks
  BY <1>1, EmitFields
<1> HIDE DEF e
<1>6. SameTable(c, e)
  BY <1>5 DEF SameTable
<1> QED BY <1>4, <1>5, <1>6 DEF e

\* The statements of a block, one after the other.
LEMMA BlockReady ==
  ASSUME NEW c, NEW depth, NEW known, depth[Len(c.code)] = 0, On(c, depth, 0, {}, known),
         NEW statements \in Seq(Stmts)
  PROVE  LET d == CompileBlock(c, statements) IN SameTable(c, d) /\ Ready(d, known)
<1>1. CASE statements = <<>>
  <2>1. CompileBlock(c, statements) = c
    BY <1>1 DEF CompileBlock
  <2> QED BY <2>1 DEF Ready, SameTable
<1>2. CASE statements # <<>>
  <2> DEFINE a == <<"Statement", Head(statements)>>
             b == Block(Tail(statements))
             d == CompileBlock(c, statements)
  <2>1. Head(statements) \in Stmts /\ Tail(statements) \in Seq(Stmts)
    BY <1>2
  <2>2. a \in Step /\ b \in Step
    BY <2>1, StepsAre
  <2>3. Moves(a, 0, 0) /\ Moves(b, 0, 0)
    BY StepsMove
  <2>4. Anchored(c.code, depth, a) /\ Anchored(c.code, depth, b)
    BY StepsKeepNoPosition
  <2>5. d = Then(c, <<a, b>>) /\ 0 \in Nat
    BY <1>2 DEF CompileBlock
  <2> HIDE DEF a, b, d
  <2>6. SameTable(c, d) /\ Ready(d, known)
    BY <2>2, <2>3, <2>4, <2>5, TwoReady
  <2> QED BY <2>6 DEF d
<1> QED BY <1>1, <1>2

\* statement(), unless it declares a function.
LEMMA StatementReady ==
  ASSUME NEW c, NEW depth, NEW known, depth[Len(c.code)] = 0, On(c, depth, 0, {}, known),
         NEW s \in Stmts, s.kind # "Function"
  PROVE  LET d == CompileStatement(c, s) IN SameTable(c, d) /\ Ready(d, known)
<1> DEFINE d == CompileStatement(c, s)
<1> SUFFICES SameTable(c, d) /\ Ready(d, known)
  OBVIOUS
<1>1. IsStatement(s) /\ 0 \in Nat /\ 1 \in Nat
  BY TreeAssumption
<1>2. ASSUME NEW e \in Exprs, NEW b \in Step, Moves(b, 1, 0), Anchored(c.code, depth, b),
             d = Then(c, <<Expression(e), b>>)
      PROVE  SameTable(c, d) /\ Ready(d, known)
  <2> DEFINE a == Expression(e)
  <2>1. a \in Step /\ Anchored(c.code, depth, a)
    BY StepsAre, StepsKeepNoPosition
  <2>2. Moves(a, 0, 1)
    <3>1. Moves(a, 0, 0 + 1)
      BY StepsMove
    <3> QED BY <3>1
  <2>3. d = Then(c, <<a, b>>)
    BY <1>2
  <2> HIDE DEF a, d
  <2> QED BY <1>1, <1>2, <2>1, <2>2, <2>3, TwoReady
<1>3. ASSUME NEW op \in {"Print", "Pop", "Return"}
      PROVE  LET b == Emission(op, 0) IN b \in Step /\ Moves(b, 1, 0) /\ Anchored(c.code, depth, b)
  <2>1. op \in OpCode \ Jumps /\ 0 \in Nat
    BY DEF OpCode, Jumps
  <2>2. Fits(<<>>, [op |-> op, operand |-> 0], 1, 0)
    BY <2>1, EmissionsFit
  <2> QED BY <2>1, <2>2, StepsAre, StepsMove, StepsKeepNoPosition
<1>4. CASE s.kind = "Expression"
  <2>1. s.expression \in Exprs
    BY <1>1, <1>4 DEF IsStatement
  <2>2. \E op \in {"Print", "Pop", "Return"} : d = Then(c, <<Expression(s.expression), Emission(op, 0)>>)
    BY <1>4 DEF CompileStatement
  <2> HIDE DEF d
  <2> QED BY <1>2, <1>3, <2>1, <2>2
<1>5. CASE s.kind = "Print"
  <2>1. s.expression \in Exprs
    BY <1>1, <1>5 DEF IsStatement
  <2>2. d = Then(c, <<Expression(s.expression), Emission("Print", 0)>>)
    BY <1>5 DEF CompileStatement
  <2> HIDE DEF d
  <2> QED BY <1>2, <1>3, <2>1, <2>2
<1>6. CASE s.kind = "Assignment"
  <2> DEFINE b == <<"Store", s.name>>
  <2>1. s.value \in Exprs /\ s.name \in Names
    BY <1>1, <1>6 DEF IsStatement
  <2>2. b \in Step /\ Moves(b, 1, 0) /\ Anchored(c.code, depth, b)
    BY <2>1, StepsAre, StepsMove, StepsKeepNoPosition
  <2>3. d = Then(c, <<Expression(s.value), b>>)
    BY <1>6 DEF CompileStatement
  <2> HIDE DEF b, d
  <2> QED BY <1>2, <2>1, <2>2, <2>3
<1>7. CASE s.kind = "If"
  <2> DEFINE b == <<"Then", s>>
  <2>1. s.condition \in Exprs
    BY <1>1, <1>7 DEF IsStatement
  <2>2. b \in Step /\ Moves(b, 1, 0) /\ Anchored(c.code, depth, b)
    BY <1>7, StepsAre, StepsMove, StepsKeepNoPosition
  <2>3. d = Then(c, <<Expression(s.condition), b>>)
    BY <1>7 DEF CompileStatement, CompileIf
  <2> HIDE DEF b, d
  <2> QED BY <1>2, <2>1, <2>2, <2>3
<1>8. CASE s.kind = "While"
  <2> DEFINE b == <<"Body", s, Len(c.code)>>
  <2>1. s.condition \in Exprs
    BY <1>1, <1>8 DEF IsStatement
  <2>2. Len(c.code) \in Nat
    BY DEF On, Object
  <2>3. b \in Step /\ Moves(b, 1, 0)
    BY <1>8, <2>2, StepsAre, StepsMove
  <2>4. Anchored(c.code, depth, b)
    BY <2>2 DEF Anchored
  <2>5. d = Then(c, <<Expression(s.condition), b>>)
    BY <1>8 DEF CompileStatement, CompileWhile
  <2> HIDE DEF b, d
  <2> QED BY <1>2, <2>1, <2>3, <2>4, <2>5
<1>9. CASE s.kind = "Return"
  <2>1. s.value = <<>> \/ s.value[1] \in Exprs
    BY <1>1, <1>9 DEF IsStatement
  <2>2. d = CompileReturn(c, s)
    BY <1>9 DEF CompileStatement
  <2>3. CASE s.value = <<>>
    <3>1. d = EmitReturnNone(c)
      BY <2>2, <2>3 DEF CompileReturn
    <3> HIDE DEF d
    <3>2. SameTable(c, d) /\ \E longer : On(d, longer, 0, {}, known) /\ longer[Len(d.code)] = 0
      BY <3>1, ReturnNoneKeeps
    <3> QED BY <3>2 DEF Ready
  <2>4. CASE s.value # <<>>
    <3>1. d = Then(c, <<Expression(s.value[1]), Emission("Return", 0)>>)
      BY <2>2, <2>4 DEF CompileReturn
    <3> HIDE DEF d
    <3> QED BY <1>2, <1>3, <2>1, <2>4, <3>1
  <2> QED BY <2>3, <2>4
<1> QED BY <1>1, <1>4, <1>5, <1>6, <1>7, <1>8, <1>9 DEF IsStatement

\* The branches of an `if`.
LEMMA ThenReady ==
  ASSUME NEW c, NEW depth, NEW known, depth[Len(c.code)] = 1, On(c, depth, 0, {}, known),
         NEW s \in Stmts, s.kind = "If"
  PROVE  LET d == CompileThen(c, s) IN SameTable(c, d) /\ Ready(d, known)
<1> DEFINE e == EmitJump(c, "JumpIfFalse")
           at == Len(c.code) + 1
           a == Block(s.then_branch)
           b == <<"EndThen", s, at>>
           d == Then(e, <<a, b>>)
           loose == {at}
<1>1. /\ SameTable(c, e) /\ Len(c.code) \in Nat /\ Len(e.code) = at /\ e.code[at].op = "JumpIfFalse"
      /\ \E longer : On(e, longer, 0, loose, known) /\ longer[at] = 0
  <2>1. "JumpIfFalse" \in Jumps /\ JumpTakes("JumpIfFalse", depth[Len(c.code)])
    BY DEF Jumps, JumpTakes
  <2>2. Loosens(c, -1, {}, loose)
    BY DEF Loosens
  <2> HIDE DEF loose
  <2> QED BY <2>1, <2>2, EmitJumpKeeps
<1>2. PICK longer : On(e, longer, 0, loose, known) /\ longer[at] = 0
  BY <1>1
<1>3. s.then_branch \in Seq(Stmts)
  BY TreeAssumption DEF IsStatement
<1>4. a \in Step /\ b \in Step /\ 0 \in Nat /\ Moves(a, 0, 0) /\ Moves(b, 0, 0)
  BY <1>1, <1>3, StepsAre, StepsMove
<1> HIDE DEF e
<1>5. Anchored(e.code, longer, a) /\ Anchored(e.code, longer, b)
  <2>1. at \in 1..Len(e.code) /\ e.code[at].op \in Jumps
    BY <1>1 DEF Jumps
  <2> QED BY <2>1, StepsKeepNoPosition DEF Anchored
<1>6. FillIn(a, b, loose)
  BY DEF FillIn, Patches
<1> HIDE DEF a, b, loose
<1>7. On(d, longer, 0, {}, known) /\ d.code = e.code /\ SameTable(e, d)
  BY <1>2, <1>4, <1>5, <1>6, PushTwo
<1>8. CompileThen(c, s) = d
  BY DEF CompileThen, a, b, e
<1> HIDE DEF d, at
<1>9. SameTable(c, d) /\ Ready(d, known)
  BY <1>1, <1>2, <1>7 DEF Ready, SameTable
<1> QED BY <1>8, <1>9

LEMMA EndThenReady ==
  ASSUME NEW c, NEW depth, NEW loose, NEW known, depth[Len(c.code)] = 0,
         On(c, depth, 0, loose, known), NEW s \in Stmts, s.kind = "If",
         NEW at \in 1..Len(c.code), c.code[at].op \in Jumps, \A i \in loose : i = at
  PROVE  LET d == EndThen(c, s, at) IN SameTable(c, d) /\ Ready(d, known)
<1>1. s.else_branch = <<>> \/ s.else_branch[1] \in Seq(Stmts)
  BY TreeAssumption DEF IsStatement
<1>2. CASE s.else_branch = <<>>
  <2> DEFINE d == PatchJump(c, at)
             open == {}
  <2>1. Settles(at, loose, open)
    BY DEF Settles
  <2> HIDE DEF open
  <2>2. /\ On(d, depth, 0, open, known)
        /\ Len(d.code) = Len(c.code) /\ d.handle = c.handle /\ d.chunks = c.chunks
    BY <2>1, PatchKeeps
  <2>3. EndThen(c, s, at) = d
    BY <1>2 DEF EndThen
  <2> HIDE DEF d
  <2>4. SameTable(c, d) /\ Ready(d, known)
    BY <2>2 DEF SameTable, Ready, open
  <2> QED BY <2>3, <2>4
<1>3. CASE s.else_branch # <<>>
  <2> DEFINE n == Len(c.code)
             e == EmitJump(c, "Jump")
             p == PatchJump(e, at)
             a == Block(s.else_branch[1])
             b == <<"Patch", n + 1>>
             d == Then(p, <<a, b>>)
             open == loose \cup {n + 1}
             left == {n + 1}
  <2>1. /\ SameTable(c, e) /\ n \in Nat /\ Len(e.code) = n + 1 /\ e.code[n + 1].op = "Jump"
        /\ \A i \in 1..n : e.code[i] = c.code[i]
        /\ \E longer : On(e, longer, 0, open, known) /\ longer[n + 1] = 0
    <3>1. "Jump" \in Jumps /\ JumpTakes("Jump", depth[Len(c.code)])
      BY DEF Jumps, JumpTakes
    <3>2. Loosens(c, -1, loose, open)
      BY DEF Loosens
    <3> HIDE DEF open
    <3> QED BY <3>1, <3>2, EmitJumpKeeps
  <2> HIDE DEF e
  <2>2. PICK longer : On(e, longer, 0, open, known) /\ longer[n + 1] = 0
    BY <2>1
  <2>3. Settles(at, open, left)
    BY DEF Settles
  <2>4. at \in 1..Len(e.code) /\ e.code[at].op \in Jumps /\ longer[Len(e.code)] = 0
    BY <2>1, <2>2
  <2> HIDE DEF open, left
  <2>5. /\ On(p, longer, 0, left, known)
        /\ Len(p.code) = Len(e.code) /\ \A i \in 1..Len(e.code) : p.code[i].op = e.code[i].op
        /\ p.handle = e.handle /\ p.chunks = e.chunks
    BY <2>2, <2>3, <2>4, PatchKeeps
  <2> HIDE DEF p
  <2>6. a \in Step /\ b \in Step /\ 0 \in Nat /\ Moves(a, 0, 0) /\ Moves(b, 0, 0)
    BY <1>1, <1>3, <2>1, StepsAre, StepsMove
  <2>7. Anchored(p.code, longer, a) /\ Anchored(p.code, longer, b)
    <3>1. n + 1 \in 1..Len(p.code) /\ p.code[n + 1].op \in Jumps
      BY <2>1, <2>5 DEF Jumps
    <3> QED BY <3>1, StepsKeepNoPosition DEF Anchored
  <2>8. FillIn(a, b, left)
    BY DEF FillIn, Patches, left
  <2> HIDE DEF a, b
  <2>9. On(d, longer, 0, {}, known) /\ d.code = p.code /\ SameTable(p, d)
    BY <2>5, <2>6, <2>7, <2>8, PushTwo
  <2>10. EndThen(c, s, at) = d
    BY <1>3 DEF EndThen, p, e, a, b
  <2> HIDE DEF d, n
  <2>11. SameTable(c, d) /\ Ready(d, known)
    BY <2>1, <2>2, <2>5, <2>9 DEF SameTable, Ready
  <2> QED BY <2>10, <2>11
<1> QED BY <1>2, <1>3

\* The body of a `while`.
LEMMA BodyReady ==
  ASSUME NEW c, NEW depth, NEW known, depth[Len(c.code)] = 1, On(c, depth, 0, {}, known),
         NEW s \in Stmts, s.kind = "While", NEW start \in 0..Len(c.code), depth[start] = 0
  PROVE  LET d == CompileBody(c, s, start) IN SameTable(c, d) /\ Ready(d, known)
<1> DEFINE e == EmitJump(c, "JumpIfFalse")
           at == Len(c.code) + 1
           a == Block(s.body)
           b == <<"EndBody", start, at>>
           d == Then(e, <<a, b>>)
           loose == {at}
<1>1. /\ SameTable(c, e) /\ Len(c.code) \in Nat /\ Len(e.code) = at /\ e.code[at].op = "JumpIfFalse"
      /\ \E longer : /\ On(e, longer, 0, loose, known) /\ longer[at] = 0
                     /\ \A p \in 0..Len(c.code) : longer[p] = depth[p]
  <2>1. "JumpIfFalse" \in Jumps /\ JumpTakes("JumpIfFalse", depth[Len(c.code)])
    BY DEF Jumps, JumpTakes
  <2>2. Loosens(c, -1, {}, loose)
    BY DEF Loosens
  <2> HIDE DEF loose
  <2> QED BY <2>1, <2>2, EmitJumpKeeps
<1>2. PICK longer : /\ On(e, longer, 0, loose, known) /\ longer[at] = 0
                    /\ \A p \in 0..Len(c.code) : longer[p] = depth[p]
  BY <1>1
<1>3. s.body \in Seq(Stmts) /\ start \in Nat
  BY TreeAssumption DEF IsStatement
<1>4. a \in Step /\ b \in Step /\ 0 \in Nat /\ Moves(a, 0, 0) /\ Moves(b, 0, 0)
  BY <1>1, <1>3, StepsAre, StepsMove
<1> HIDE DEF e
<1>5. Anchored(e.code, longer, a) /\ Anchored(e.code, longer, b)
  <2>1. at \in 1..Len(e.code) /\ e.code[at].op \in Jumps
    BY <1>1 DEF Jumps
  <2>2. start \in 0..Len(e.code) /\ longer[start] = 0
    BY <1>1, <1>2
  <2> QED BY <2>1, <2>2, StepsKeepNoPosition DEF Anchored
<1>6. FillIn(a, b, loose)
  BY DEF FillIn, Patches
<1> HIDE DEF a, b, loose
<1>7. On(d, longer, 0, {}, known) /\ d.code = e.code /\ SameTable(e, d)
  BY <1>2, <1>4, <1>5, <1>6, PushTwo
<1>8. CompileBody(c, s, start) = d
  BY DEF CompileBody, a, b, e
<1> HIDE DEF d, at
<1>9. SameTable(c, d) /\ Ready(d, known)
  BY <1>1, <1>2, <1>7 DEF Ready, SameTable
<1> QED BY <1>8, <1>9

LEMMA EndBodyReady ==
  ASSUME NEW c, NEW depth, NEW loose, NEW known, depth[Len(c.code)] = 0,
         On(c, depth, 0, loose, known), NEW start \in 0..Len(c.code), depth[start] = 0,
         NEW at \in 1..Len(c.code), c.code[at].op \in Jumps, \A i \in loose : i = at
  PROVE  LET d == EndBody(c, start, at) IN SameTable(c, d) /\ Ready(d, known)
<1> DEFINE n == Len(c.code)
           e == Emit(c, "Jump", start)
           d == PatchJump(e, at)
           open == {}
<1>1. /\ SameTable(c, e) /\ n \in Nat /\ Len(e.code) = n + 1
      /\ \A i \in 1..n : e.code[i] = c.code[i]
      /\ \E longer : On(e, longer, 0, loose, known) /\ longer[n + 1] = 0
  BY EmitJumpBackKeeps
<1> HIDE DEF e
<1>2. PICK longer : On(e, longer, 0, loose, known) /\ longer[n + 1] = 0
  BY <1>1
<1>3. Settles(at, loose, open)
  BY DEF Settles
<1>4. at \in 1..Len(e.code) /\ e.code[at].op \in Jumps /\ longer[Len(e.code)] = 0
  BY <1>1, <1>2
<1> HIDE DEF open
<1>5. /\ On(d, longer, 0, open, known)
      /\ Len(d.code) = Len(e.code) /\ d.handle = e.handle /\ d.chunks = e.chunks
  BY <1>2, <1>3, <1>4, PatchKeeps
<1>6. EndBody(c, start, at) = d
  BY DEF EndBody, e
<1> HIDE DEF d, n
<1>7. SameTable(c, d) /\ Ready(d, known)
  BY <1>1, <1>2, <1>5 DEF SameTable, Ready, open
<1> QED BY <1>6, <1>7

LEMMA PatchReady ==
  ASSUME NEW c, NEW depth, NEW loose, NEW known, depth[Len(c.code)] = 0,
         On(c, depth, 0, loose, known),
         NEW at \in 1..Len(c.code), c.code[at].op \in Jumps, \A i \in loose : i = at
  PROVE  LET d == PatchJump(c, at) IN SameTable(c, d) /\ Ready(d, known)
<1> DEFINE d == PatchJump(c, at)
           open == {}
<1>1. Settles(at, loose, open)
  BY DEF Settles
<1> HIDE DEF open
<1>2. /\ On(d, depth, 0, open, known)
      /\ Len(d.code) = Len(c.code) /\ d.handle = c.handle /\ d.chunks = c.chunks
  BY <1>1, PatchKeeps
<1> HIDE DEF d
<1>3. SameTable(c, d) /\ Ready(d, known)
  BY <1>2 DEF SameTable, Ready, open
<1> QED BY <1>3 DEF d

\* Whatever is next on the agenda, a compiler that is on its way stays so, or
\* throws.
LEMMA WorkReady ==
  ASSUME NEW c, NEW known, Ready(c, known), c.agenda # <<>>, ~Declares(c)
  PROVE  LET d == Work(c) IN SameTable(c, d) /\ (Ready(d, known) \/ Thrown(d))
<1> DEFINE rest == [c EXCEPT !.agenda = Tail(@)]
           step == Head(c.agenda)
           d == Work(c)
           loose == {i \in 1..Len(c.code) : Patches(step, i)}
<1>1. /\ step \in Step /\ rest.code = c.code /\ SameTable(c, rest)
      /\ \E depth, to : /\ to \in Nat /\ depth[Len(rest.code)] \in Nat
                        /\ On(rest, depth, to, loose, known)
                        /\ Moves(step, depth[Len(rest.code)], to)
                        /\ Anchored(rest.code, depth, step)
  BY TakeKeeps
<1>2. step[1] = "Statement" => step[2].kind # "Function"
  BY SMTT(30) DEF Declares
<1>3. /\ step[1] = "Expression" => d = CompileExpression(rest, step[2])
      /\ step[1] = "Expressions" => d = CompileAll(rest, step[2])
      /\ step[1] = "Emit" => d = Emit(rest, step[2], step[3])
      /\ step[1] = "Statement" => d = CompileStatement(rest, step[2])
      /\ step[1] = "Block" => d = CompileBlock(rest, step[2])
      /\ step[1] = "Store" => d = EmitVariable(rest, "StoreVariable", step[2])
      /\ step[1] = "Then" => d = CompileThen(rest, step[2])
      /\ step[1] = "EndThen" => d = EndThen(rest, step[2], step[3])
      /\ step[1] = "Body" => d = CompileBody(rest, step[2], step[3])
      /\ step[1] = "EndBody" => d = EndBody(rest, step[2], step[3])
      /\ step[1] = "Patch" => d = PatchJump(rest, step[2])
  BY DEF Work
<1>4. \A i \in loose : /\ step[1] \in {"EndThen", "EndBody", "Patch"}
                       /\ step[1] \in {"EndThen", "EndBody"} => i = step[3]
                       /\ step[1] = "Patch" => i = step[2]
  BY DEF Patches
<1> SUFFICES SameTable(rest, d) /\ (Ready(d, known) \/ Thrown(d))
  BY <1>1 DEF SameTable
<1> HIDE DEF rest, step, d, loose
<1>5. PICK depth, to : /\ to \in Nat /\ depth[Len(rest.code)] \in Nat
                       /\ On(rest, depth, to, loose, known)
                       /\ Moves(step, depth[Len(rest.code)], to)
                       /\ Anchored(rest.code, depth, step)
  BY <1>1
<1> DEFINE from == depth[Len(rest.code)]
<1>6. from \in Nat /\ depth[Len(rest.code)] = from
  BY <1>5
<1> HIDE DEF from
<1>7. /\ step[1] = "Expression" => to = from + 1
      /\ step[1] = "Expressions" => to = from + Len(step[2])
      /\ step[1] = "Emit" => Fits(<<>>, [op |-> step[2], operand |-> step[3]], from, to)
      /\ step[1] \in {"Store", "Then", "Body"} => from = 1 /\ to = 0
      /\ step[1] \in {"Statement", "Block", "EndThen", "EndBody", "Patch"} => from = 0 /\ to = 0
  BY <1>5, <1>6 DEF Moves
<1>8. step[1] \notin {"EndThen", "EndBody", "Patch"} => On(rest, depth, to, {}, known)
  <2>1. step[1] \notin {"EndThen", "EndBody", "Patch"} => loose = {}
    BY <1>4
  <2> QED BY <1>5, <2>1
<1>9. /\ step[1] \in {"EndThen", "EndBody"} =>
           step[3] \in 1..Len(rest.code) /\ rest.code[step[3]].op \in Jumps
      /\ step[1] = "Patch" => step[2] \in 1..Len(rest.code) /\ rest.code[step[2]].op \in Jumps
      /\ step[1] = "Body" => step[3] \in 0..Len(rest.code) /\ depth[step[3]] = 0
      /\ step[1] = "EndBody" => step[2] \in 0..Len(rest.code) /\ depth[step[2]] = 0
  BY <1>5 DEF Anchored
<1>10. CASE step[1] = "Expression"
  <2>1. step[2] \in Exprs
    BY <1>1, <1>10, StepParts
  <2> QED BY <1>3, <1>5, <1>6, <1>7, <1>8, <1>10, <2>1, ExpressionKeeps
<1>11. CASE step[1] = "Expressions"
  <2>1. step[2] \in Seq(Exprs)
    BY <1>1, <1>11, StepParts
  <2> QED BY <1>3, <1>5, <1>6, <1>7, <1>8, <1>11, <2>1, AllReady
<1>12. CASE step[1] = "Emit"
  <2>1. step[2] \in OpCode \ Jumps /\ step[3] \in Nat
    BY <1>1, <1>12, StepParts
  <2> QED BY <1>3, <1>5, <1>6, <1>7, <1>8, <1>12, <2>1, EmissionReady
<1>13. CASE step[1] = "Statement"
  <2>1. step[2] \in Stmts
    BY <1>1, <1>13, StepParts
  <2> QED BY <1>2, <1>3, <1>5, <1>6, <1>7, <1>8, <1>13, <2>1, StatementReady
<1>14. CASE step[1] = "Block"
  <2>1. step[2] \in Seq(Stmts)
    BY <1>1, <1>14, StepParts
  <2> QED BY <1>3, <1>5, <1>6, <1>7, <1>8, <1>14, <2>1, BlockReady
<1>15. CASE step[1] = "Store"
  <2>1. step[2] \in Names
    BY <1>1, <1>15, StepParts
  <2>2. /\ String(step[2]) \in Value(0) /\ String(step[2]).tag = "String"
        /\ String(step[2]).text = step[2]
    BY <2>1, NameFits
  <2>3. d = EmitConstant(rest, "StoreVariable", String(step[2]))
    BY <1>3, <1>15 DEF EmitVariable
  <2>4. On(rest, depth, 0, {}, known) /\ depth[Len(rest.code)] = 1 /\ 1 \in Nat /\ 0 \in Nat
    BY <1>6, <1>7, <1>8, <1>15
  <2> QED BY <2>1, <2>2, <2>3, <2>4, ConstantReady
<1>16. CASE step[1] = "Then"
  <2>1. step[2] \in Stmts /\ step[2].kind = "If"
    BY <1>1, <1>16, StepParts
  <2>2. On(rest, depth, 0, {}, known) /\ depth[Len(rest.code)] = 1 /\ d = CompileThen(rest, step[2])
    BY <1>3, <1>6, <1>7, <1>8, <1>16
  <2> QED BY <2>1, <2>2, ThenReady
<1>17. CASE step[1] = "EndThen"
  <2>1. step[2] \in Stmts /\ step[2].kind = "If"
    BY <1>1, <1>17, StepParts
  <2>2. On(rest, depth, 0, loose, known) /\ depth[Len(rest.code)] = 0 /\ d = EndThen(rest, step[2], step[3])
    BY <1>3, <1>5, <1>6, <1>7, <1>17
  <2>3. /\ step[3] \in 1..Len(rest.code) /\ rest.code[step[3]].op \in Jumps
        /\ \A i \in loose : i = step[3]
    BY <1>4, <1>9, <1>17
  <2> QED BY <2>1, <2>2, <2>3, EndThenReady
<1>18. CASE step[1] = "Body"
  <2>1. step[2] \in Stmts /\ step[2].kind = "While"
    BY <1>1, <1>18, StepParts
  <2>2. /\ On(rest, depth, 0, {}, known) /\ depth[Len(rest.code)] = 1
        /\ d = CompileBody(rest, step[2], step[3])
    BY <1>3, <1>6, <1>7, <1>8, <1>18
  <2>3. step[3] \in 0..Len(rest.code) /\ depth[step[3]] = 0
    BY <1>9, <1>18
  <2> QED BY <2>1, <2>2, <2>3, BodyReady
<1>19. CASE step[1] = "EndBody"
  <2>1. /\ On(rest, depth, 0, loose, known) /\ depth[Len(rest.code)] = 0
        /\ d = EndBody(rest, step[2], step[3])
    BY <1>3, <1>5, <1>6, <1>7, <1>19
  <2>2. /\ step[3] \in 1..Len(rest.code) /\ rest.code[step[3]].op \in Jumps
        /\ \A i \in loose : i = step[3]
    BY <1>4, <1>9, <1>19
  <2>3. step[2] \in 0..Len(rest.code) /\ depth[step[2]] = 0
    BY <1>9, <1>19
  <2> QED BY <2>1, <2>2, <2>3, EndBodyReady
<1>20. CASE step[1] = "Patch"
  <2>1. On(rest, depth, 0, loose, known) /\ depth[Len(rest.code)] = 0 /\ d = PatchJump(rest, step[2])
    BY <1>3, <1>5, <1>6, <1>7, <1>20
  <2>2. /\ step[2] \in 1..Len(rest.code) /\ rest.code[step[2]].op \in Jumps
        /\ \A i \in loose : i = step[2]
    BY <1>4, <1>9, <1>20
  <2> QED BY <2>1, <2>2, PatchReady
<1> QED BY <1>1, <1>10, <1>11, <1>12, <1>13, <1>14, <1>15, <1>16, <1>17, <1>18, <1>19, <1>20, StepParts

-----------------------------------------------------------------------------
(* Finished code. *)

\* A linear pass over code that balances finds the depths it balances with.
LEMMA DepthsFound ==
  ASSUME NEW chunk, NEW n \in Nat, Len(chunk.code) = n, NEW depth \in [0..n -> Nat], depth[0] = 0,
         \A p \in 1..n :
           depth[p] = depth[p - 1] - Pops(chunk.code[p]) + Pushes(chunk.code[p])
  PROVE  DepthsOf(chunk) = depth
<1> DEFINE After(before, p) == before - Pops(chunk.code[p]) + Pushes(chunk.code[p])
           Rule(f) == f = [p \in 0..n |-> IF p = 0 THEN 0 ELSE After(f[p - 1], p)]
           found == CHOOSE f : Rule(f)
<1>1. Rule(depth)
  <2>1. \A p \in 0..n : depth[p] = IF p = 0 THEN 0 ELSE After(depth[p - 1], p)
    OBVIOUS
  <2> HIDE DEF After
  <2> QED BY <2>1
<1>2. Rule(found)
  <2> HIDE DEF Rule
  <2> QED BY <1>1
<1>3. DepthsOf(chunk) = [p \in 0..n |-> found[p]]
  BY DEF DepthsOf
<1> HIDE DEF found
<1>4. \A p \in 0..n : found[p] = IF p = 0 THEN 0 ELSE After(found[p - 1], p)
  <2> HIDE DEF After
  <2> QED BY <1>2
<1>5. \A p \in 0..n : depth[p] = IF p = 0 THEN 0 ELSE After(depth[p - 1], p)
  OBVIOUS
<1> HIDE DEF After, Rule
<1>6. \A p \in 0..n : found[p] = depth[p]
  <2> DEFINE wrong == {p \in 0..n : found[p] # depth[p]}
  <2>1. SUFFICES ASSUME wrong # {} PROVE FALSE
    OBVIOUS
  <2>2. PICK least \in wrong : \A p \in wrong : least <= p
    <3>1. wrong \in SUBSET (0..n)
      OBVIOUS
    <3> HIDE DEF wrong
    <3> QED BY <2>1, <3>1, LeastElement
  <2>3. least # 0
    BY <1>4, <1>5
  <2>4. least - 1 \in 0..n /\ ~(least <= least - 1)
    BY <2>3
  <2>5. found[least - 1] = depth[least - 1]
    BY <2>2, <2>4
  <2> QED BY <1>4, <1>5, <2>3, <2>5
<1> QED BY <1>3, <1>6

LEMMA PlanEmpty ==
  ASSUME NEW code, NEW depth, NEW from, Plan(code, depth, <<>>, from)
  PROVE  from = 0
BY DEF Plan

\* When nothing is left to do, no jump is without a target.
LEMMA NothingOpen ==
  ASSUME NEW c, NEW depth, NEW to, NEW known, On(c, depth, to, {}, known), c.agenda = <<>>,
         NEW i \in 1..Len(c.code)
  PROVE  /\ c.code[i] \in InstructionRecord
         /\ c.code[i].op \in Jumps => c.code[i].operand \in 0..Len(c.code)
<1>1. c.code \in Seq(PartialInstruction) /\ Right(c.code, c.constants, depth)
  BY DEF On, Object
<1>2. c.code[i] \in PartialInstruction
  BY <1>1, ElementOfSeq
<1>3. c.code[i].operand # -1
  <2>1. ~Awaited(c.agenda, i)
    BY DEF Awaited
  <2> QED BY <2>1 DEF On
<1> QED BY <1>1, <1>2, <1>3 DEF Right, Aimed, PartialInstruction, InstructionRecord

\* Code that is finished at the end of a statement is what the machine expects.
LEMMA FinishedGood ==
  ASSUME NEW c, NEW depth, NEW to, NEW known, On(c, depth, to, {}, known), c.agenda = <<>>,
         depth[Len(c.code)] = 0, NEW parameters \in Seq(Names)
  PROVE  LET chunk == [code |-> c.code, constants |-> c.constants, parameters |-> parameters]
         IN WellFormed(chunk) /\ Balanced(chunk, DepthsOf(chunk))
<1> DEFINE code == c.code
           constants == c.constants
           n == Len(code)
           chunk == [code |-> code, constants |-> constants, parameters |-> parameters]
           bare == [code |-> <<>>, constants |-> constants]
<1>1. /\ code \in Seq(PartialInstruction) /\ n \in Nat /\ constants \in Seq(Value(0))
      /\ depth \in [0..n -> Nat] /\ depth[0] = 0 /\ depth[n] = 0
      /\ \A i \in 1..n : Fits(constants, code[i], depth[i - 1], depth[i]) /\ Aimed(code, depth, i)
  BY DEF On, Object, Right
<1>2. \A i \in 1..n : /\ code[i] \in InstructionRecord
                      /\ code[i].op \in Jumps => code[i].operand \in 0..n
  BY NothingOpen
<1> HIDE DEF n, code, constants
<1>3. chunk.code = code /\ chunk.constants = constants /\ chunk.parameters = parameters
      /\ bare.constants = constants /\ Len(code) = n
  BY DEF n
<1> HIDE DEF chunk, bare
<1>4. code \in Seq(InstructionRecord)
  <2>1. code \in [1..n -> PartialInstruction]
    BY <1>1, <1>3, LenProperties
  <2>2. code \in [1..n -> InstructionRecord]
    BY <1>2, <2>1
  <2> QED BY <1>1, <2>2, SeqDef
<1>5. ASSUME NEW i \in 1..n PROVE OperandInRange(chunk, code[i])
  <2>1. CASE code[i].op \in Jumps
    BY <1>2, <1>3, <2>1 DEF OperandInRange, Jumps
  <2>2. CASE code[i].op \notin Jumps
    <3>1. OperandInRange(bare, code[i])
      BY <1>1, <2>2 DEF Fits, bare
    <3> QED BY <1>3, <2>2, <3>1 DEF OperandInRange, ConstantAt, Jumps
  <2> QED BY <2>1, <2>2
<1>6. WellFormed(chunk)
  BY <1>1, <1>3, <1>4, <1>5 DEF WellFormed
<1>7. ASSUME NEW i \in 1..n
      PROVE  /\ Pops(code[i]) <= depth[i - 1]
             /\ depth[i] = depth[i - 1] - Pops(code[i]) + Pushes(code[i])
             /\ code[i].op \in EndsStatement => depth[i] = 0
             /\ code[i].op \in Jumps => depth[code[i].operand] = 0
  <2>1. Fits(constants, code[i], depth[i - 1], depth[i]) /\ Aimed(code, depth, i)
    BY <1>1
  <2>2. code[i].op \in Jumps => code[i].operand # -1
    BY <1>1, <1>2
  <2> QED BY <2>1, <2>2 DEF Fits, Aimed
<1>8. DepthsOf(chunk) = depth
  <2>1. Len(chunk.code) = n
    BY <1>3
  <2>2. \A p \in 1..n : depth[p] = depth[p - 1] - Pops(chunk.code[p]) + Pushes(chunk.code[p])
    BY <1>3, <1>7
  <2> QED BY <1>1, <2>1, <2>2, DepthsFound
<1>9. ASSUME NEW p \in 0..(n - 1) PROVE BalancedAt(chunk, depth, p)
  <2>1. p + 1 \in 1..n /\ (p + 1) - 1 = p
    BY <1>1
  <2>2. /\ Pops(code[p + 1]) <= depth[p]
        /\ depth[p + 1] = depth[p] - Pops(code[p + 1]) + Pushes(code[p + 1])
        /\ code[p + 1].op \in EndsStatement => depth[p + 1] = 0
        /\ code[p + 1].op \in Jumps => depth[code[p + 1].operand] = 0
    BY <1>7, <2>1
  <2> QED BY <1>3, <2>2 DEF BalancedAt, Jumps
<1>10. Balanced(chunk, depth)
  BY <1>1, <1>3, <1>9 DEF Balanced
<1> QED BY <1>6, <1>8, <1>10 DEF chunk, code, constants

-----------------------------------------------------------------------------
(* Functions. *)

\* The functions among some constants have their code.
Known(constants, known) ==
  \A i \in 1..Len(constants) : constants[i].tag = "Function" => constants[i].function \in known

\* A function that is compiled, with those it refers to.
Complete(chunk, known) ==
  /\ WellFormed(chunk) /\ Balanced(chunk, DepthsOf(chunk)) /\ AlwaysReturns(chunk)
  /\ Known(chunk.constants, known)

Shelf(chunks) == \A h \in DOMAIN chunks : Complete(chunks[h], DOMAIN chunks)

\* The body of a function is finished.
LEMMA FunctionComplete ==
  ASSUME NEW c, NEW known, Ready(c, known), c.agenda = <<>>, NEW parameters \in Seq(Names)
  PROVE  LET d == FunctionCompiled(c)
         IN Complete([code |-> d.code, constants |-> d.constants, parameters |-> parameters], known)
<1> DEFINE d == EmitReturnNone(c)
           n == Len(c.code)
           chunk == [code |-> d.code, constants |-> d.constants, parameters |-> parameters]
<1>1. PICK depth : On(c, depth, depth[n], {}, known)
  BY DEF Ready
<1>2. depth[n] = 0
  BY <1>1, PlanEmpty DEF On
<1>3. /\ d.agenda = c.agenda /\ Len(d.code) = n + 2 /\ n \in Nat
      /\ d.code[n + 1].op = "LoadConstant" /\ d.code[n + 2].op = "Return"
      /\ \A i \in 1..n : d.code[i] = c.code[i]
      /\ \E longer : On(d, longer, 0, {}, known) /\ longer[Len(d.code)] = 0
  BY <1>1, <1>2, ReturnNoneKeeps
<1>4. PICK longer : On(d, longer, 0, {}, known) /\ longer[Len(d.code)] = 0
  BY <1>3
<1>5. d.agenda = <<>>
  BY <1>3
<1> HIDE DEF d
<1>6. WellFormed(chunk) /\ Balanced(chunk, DepthsOf(chunk))
  BY <1>4, <1>5, FinishedGood
<1>7. chunk.code = d.code /\ chunk.constants = d.constants
  OBVIOUS
<1>8. Known(chunk.constants, known)
  BY <1>4, <1>7 DEF On, Known
<1> HIDE DEF chunk
<1>9. AlwaysReturns(chunk)
  <2>1. d.code # <<>>
    BY <1>3
  <2>2. ASSUME NEW i \in 1..Len(d.code), d.code[i].op \in Jumps
        PROVE  d.code[i].operand < Len(d.code)
    <3>1. i # n + 1 /\ i # n + 2
      BY <1>3, <2>2 DEF Jumps
    <3>2. i \in 1..n
      BY <1>3, <3>1
    <3>3. c.code[i].op \in Jumps => c.code[i].operand \in 0..n
      BY <1>1, <3>2, NothingOpen
    <3> QED BY <1>3, <2>2, <3>2, <3>3
  <2>3. d.code[Len(d.code)].op = "Return"
    BY <1>3
  <2> QED BY <1>7, <2>1, <2>2, <2>3 DEF AlwaysReturns, Jumps
<1>10. Complete(chunk, known)
  BY <1>6, <1>8, <1>9 DEF Complete
<1> QED BY <1>10 DEF chunk, d, FunctionCompiled

\* Two tables of chunks are joined.
LEMMA JoinedTables ==
  ASSUME NEW a \in ChunkTable, NEW b \in ChunkTable
  PROVE  /\ Joined(a, b) \in ChunkTable /\ DOMAIN Joined(a, b) = DOMAIN a \cup DOMAIN b
         /\ \A h \in DOMAIN Joined(a, b) :
              \/ h \in DOMAIN a /\ Joined(a, b)[h] = a[h]
              \/ h \in DOMAIN b /\ Joined(a, b)[h] = b[h]
<1>1. /\ DOMAIN a \in SUBSET Handle /\ DOMAIN b \in SUBSET Handle
      /\ a \in [DOMAIN a -> Chunk] /\ b \in [DOMAIN b -> Chunk]
  BY DEF ChunkTable
<1>2. Joined(a, b) = [h \in DOMAIN a \cup DOMAIN b |-> IF h \in DOMAIN a THEN a[h] ELSE b[h]]
  BY DEF Joined
<1>3. DOMAIN Joined(a, b) = DOMAIN a \cup DOMAIN b
  BY <1>2
<1>4. Joined(a, b) \in [DOMAIN a \cup DOMAIN b -> Chunk] /\ DOMAIN a \cup DOMAIN b \in SUBSET Handle
  BY <1>1, <1>2
<1>5. Joined(a, b) \in ChunkTable
  BY <1>4 DEF ChunkTable
<1>6. ASSUME NEW h \in DOMAIN Joined(a, b)
      PROVE  \/ h \in DOMAIN a /\ Joined(a, b)[h] = a[h]
             \/ h \in DOMAIN b /\ Joined(a, b)[h] = b[h]
  <2>1. h \in DOMAIN a \cup DOMAIN b
    BY <1>3
  <2>2. Joined(a, b)[h] = IF h \in DOMAIN a THEN a[h] ELSE b[h]
    BY <1>2, <2>1
  <2> QED BY <2>1, <2>2
<1> QED BY <1>3, <1>5, <1>6

LEMMA ChunkOfIsTable ==
  ASSUME NEW c \in Object, NEW parameters \in Seq(Names)
  PROVE  /\ ChunkOf(c, parameters) \in ChunkTable /\ DOMAIN ChunkOf(c, parameters) = {c.handle}
         /\ ChunkOf(c, parameters)[c.handle] =
              [code |-> c.code, constants |-> c.constants, parameters |-> parameters]
<1> DEFINE chunk == [code |-> c.code, constants |-> c.constants, parameters |-> parameters]
           table == [h \in {c.handle} |-> chunk]
<1>1. chunk \in Chunk /\ {c.handle} \in SUBSET Handle
  BY DEF Object, Chunk
<1>2. ChunkOf(c, parameters) = table
  BY DEF ChunkOf
<1> HIDE DEF chunk
<1>3. table \in [{c.handle} -> Chunk] /\ DOMAIN table = {c.handle} /\ table[c.handle] = chunk
  BY <1>1
<1>4. table \in ChunkTable
  BY <1>1, <1>3 DEF ChunkTable
<1> QED BY <1>2, <1>3, <1>4 DEF chunk

\* Knowing more functions does no harm.
LEMMA OnMore ==
  ASSUME NEW c, NEW depth, NEW to, NEW loose, NEW known, On(c, depth, to, loose, known),
         NEW more, known \subseteq more
  PROVE  On(c, depth, to, loose, more)
BY DEF On

LEMMA CompleteMore ==
  ASSUME NEW chunk, NEW known, Complete(chunk, known), NEW more, known \subseteq more
  PROVE  Complete(chunk, more)
BY DEF Complete, Known

\* The compiler of a program, and that of a function, begin their work.
LEMMA NewReady ==
  ASSUME NEW handle \in Handle, NEW echo \in BOOLEAN, NEW statements \in Seq(Stmts)
  PROVE  LET c == NewCompiler(handle, echo, statements)
         IN c \in Object /\ ~c.failed /\ Ready(c, DOMAIN c.chunks) /\ Shelf(c.chunks)
<1> DEFINE c == NewCompiler(handle, echo, statements)
           agenda == <<Block(statements)>>
           depth == [p \in 0..0 |-> 0]
<1>1. agenda \in Seq(Step) /\ Len(agenda) = 1 /\ agenda[1] = Block(statements)
  <2>1. Block(statements) \in Step
    BY StepsAre
  <2> QED BY <2>1
<1>2. <<>> \in ChunkTable /\ DOMAIN <<>> = {}
  <2>1. <<>> \in [{} -> Chunk] /\ {} \in SUBSET Handle
    OBVIOUS
  <2> QED BY <2>1 DEF ChunkTable
<1>3. c = [handle |-> handle, code |-> <<>>, constants |-> <<>>, chunks |-> <<>>,
           echo |-> echo, failed |-> FALSE, agenda |-> agenda]
  BY DEF NewCompiler, Block
<1> HIDE DEF c, agenda
<1>4. /\ c.handle = handle /\ c.code = <<>> /\ c.constants = <<>> /\ c.chunks = <<>>
      /\ c.echo = echo /\ c.failed = FALSE /\ c.agenda = agenda
  BY <1>3
<1>5. c \in Object
  BY <1>1, <1>2, <1>3 DEF Object
<1>6. Right(c.code, c.constants, depth) /\ depth[Len(c.code)] = 0
  <2>1. Len(c.code) = 0 /\ depth \in [0..0 -> Nat] /\ depth[0] = 0
    BY <1>4
  <2> QED BY <2>1 DEF Right
<1>7. Plan(c.code, depth, c.agenda, 0)
  <2> DEFINE height == [i \in 1..(Len(agenda) + 1) |-> 0]
  <2>1. height \in [1..(Len(agenda) + 1) -> Nat] /\ height[1] = 0 /\ height[Len(agenda) + 1] = 0
    BY <1>1
  <2>2. ASSUME NEW i \in 1..Len(agenda)
        PROVE  Moves(agenda[i], height[i], height[i + 1]) /\ Anchored(c.code, depth, agenda[i])
    <3>1. i = 1 /\ height[i] = 0 /\ height[i + 1] = 0
      BY <1>1
    <3> QED BY <1>1, <3>1, StepsMove, StepsKeepNoPosition
  <2> HIDE DEF height
  <2> QED BY <1>4, <2>1, <2>2 DEF Plan
<1> HIDE DEF depth
<1>8. On(c, depth, 0, {}, DOMAIN c.chunks)
  BY <1>4, <1>5, <1>6, <1>7 DEF On
<1>9. Ready(c, DOMAIN c.chunks)
  BY <1>6, <1>8 DEF Ready
<1>10. Shelf(c.chunks)
  BY <1>2, <1>4 DEF Shelf
<1> QED BY <1>4, <1>5, <1>9, <1>10 DEF c

\* The function is declared in the compiler around it.
LEMMA DefinitionReady ==
  ASSUME NEW c, Sound(c), Shelf(c.chunks), Declares(c), NEW nested \in Object,
         ~nested.failed => nested.agenda = <<>> /\ Sound(nested) /\ Shelf(nested.chunks)
  PROVE  LET d == CompileDefinition(c, nested)
         IN d \in Object /\ (d.failed \/ (Sound(d) /\ Shelf(d.chunks)))
<1> DEFINE s == Declaration(c)
           rest == [c EXCEPT !.agenda = Tail(@)]
           value == Function(nested.handle)
           loaded == EmitConstant(rest, "LoadConstant", value)
           stored == EmitVariable(loaded, "StoreVariable", s.name)
           compiled == FunctionCompiled(nested)
           table == Joined(nested.chunks, ChunkOf(compiled, s.parameters))
           chunks == Joined(c.chunks, table)
           known == DOMAIN chunks
           d == [stored EXCEPT !.chunks = chunks, !.failed = nested.failed]
<1>1. c \in Object /\ c.agenda # <<>> /\ ~c.failed
  BY DEF Sound, Ready, On, Declares
<1>2. /\ Head(c.agenda) \in Step /\ rest.code = c.code /\ SameTable(c, rest)
      /\ \E depth, to : /\ to \in Nat /\ depth[Len(rest.code)] \in Nat
                        /\ On(rest, depth, to, {at \in 1..Len(c.code) : Patches(Head(c.agenda), at)},
                              DOMAIN c.chunks)
                        /\ Moves(Head(c.agenda), depth[Len(rest.code)], to)
                        /\ Anchored(rest.code, depth, Head(c.agenda))
  BY <1>1, TakeKeeps DEF Sound
<1>3. s \in Stmts /\ s.kind = "Function" /\ Head(c.agenda)[1] = "Statement"
  <2>1. Head(c.agenda)[1] = "Statement" /\ s = Head(c.agenda)[2] /\ s.kind = "Function"
    BY DEF Declares, Declaration
  <2> QED BY <1>2, <2>1, StepParts
<1>4. s.name \in Names /\ s.parameters \in Seq(Names)
  BY <1>3, TreeAssumption DEF IsStatement
<1> HIDE DEF s
<1>5. PICK depth : On(rest, depth, 0, {}, DOMAIN c.chunks) /\ depth[Len(rest.code)] = 0
  <2>1. PICK depth, to : /\ to \in Nat /\ depth[Len(rest.code)] \in Nat
                         /\ On(rest, depth, to,
                               {at \in 1..Len(c.code) : Patches(Head(c.agenda), at)}, DOMAIN c.chunks)
                         /\ Moves(Head(c.agenda), depth[Len(rest.code)], to)
    BY <1>2
  <2>2. depth[Len(rest.code)] = 0 /\ to = 0
    BY <1>3, <2>1 DEF Moves
  <2>3. {at \in 1..Len(c.code) : Patches(Head(c.agenda), at)} = {}
    BY <1>3 DEF Patches
  <2> QED BY <2>1, <2>2, <2>3
<1> HIDE DEF rest
<1>6. compiled \in Object /\ compiled.handle = nested.handle /\ compiled.chunks = nested.chunks
  <2> DEFINE added == [nested EXCEPT !.constants = Append(@, NoneValue)]
             loading == Emit(added, "LoadConstant", Len(nested.constants))
  <2>1. added \in Object /\ added.handle = nested.handle /\ added.chunks = nested.chunks
    <3>1. NoneValue \in Value(0)
      BY DEF NoneValue, Value, PlainValue
    <3>2. Append(nested.constants, NoneValue) \in Seq(Value(0))
      BY <3>1 DEF Object
    <3> QED BY <3>2 DEF Object
  <2>2. [op |-> "LoadConstant", operand |-> Len(nested.constants)] \in PartialInstruction
    BY DEF PartialInstruction, OpCode, Object
  <2> HIDE DEF added
  <2>3. loading \in Object /\ loading.handle = nested.handle /\ loading.chunks = nested.chunks
    BY <2>1, <2>2, EmitFields
  <2>4. [op |-> "Return", operand |-> 0] \in PartialInstruction
    BY DEF PartialInstruction, OpCode
  <2> DEFINE last == Emit(loading, "Return", 0)
  <2>5. compiled = last
    BY DEF FunctionCompiled, EmitReturnNone, EmitConstant, added
  <2> HIDE DEF loading, compiled
  <2>6. last \in Object /\ last.handle = loading.handle /\ last.chunks = loading.chunks
    BY <2>3, <2>4, EmitFields
  <2> QED BY <2>3, <2>5, <2>6
<1> HIDE DEF compiled
<1>7. /\ ChunkOf(compiled, s.parameters) \in ChunkTable
      /\ DOMAIN ChunkOf(compiled, s.parameters) = {nested.handle}
      /\ ChunkOf(compiled, s.parameters)[nested.handle] =
           [code |-> compiled.code, constants |-> compiled.constants, parameters |-> s.parameters]
  BY <1>4, <1>6, ChunkOfIsTable
<1>8. c.chunks \in ChunkTable /\ nested.chunks \in ChunkTable /\ nested.handle \in Handle
  BY <1>1 DEF Object
<1>9. /\ table \in ChunkTable /\ DOMAIN table = DOMAIN nested.chunks \cup {nested.handle}
      /\ \A h \in DOMAIN table :
           \/ h \in DOMAIN nested.chunks /\ table[h] = nested.chunks[h]
           \/ /\ h = nested.handle
              /\ table[h] = [code |-> compiled.code, constants |-> compiled.constants,
                             parameters |-> s.parameters]
  <2> DEFINE own == ChunkOf(compiled, s.parameters)
  <2>1. own \in ChunkTable /\ DOMAIN own = {nested.handle}
    BY <1>7
  <2> HIDE DEF own
  <2>2. /\ Joined(nested.chunks, own) \in ChunkTable
        /\ DOMAIN Joined(nested.chunks, own) = DOMAIN nested.chunks \cup DOMAIN own
        /\ \A h \in DOMAIN Joined(nested.chunks, own) :
             \/ h \in DOMAIN nested.chunks /\ Joined(nested.chunks, own)[h] = nested.chunks[h]
             \/ h \in DOMAIN own /\ Joined(nested.chunks, own)[h] = own[h]
    BY <1>8, <2>1, JoinedTables
  <2> QED BY <1>7, <2>1, <2>2 DEF own
<1> HIDE DEF table
<1>10. /\ chunks \in ChunkTable /\ known = DOMAIN c.chunks \cup DOMAIN table
       /\ \A h \in known : \/ h \in DOMAIN c.chunks /\ chunks[h] = c.chunks[h]
                           \/ h \in DOMAIN table /\ chunks[h] = table[h]
  BY <1>8, <1>9, JoinedTables
<1>11. DOMAIN c.chunks \subseteq known /\ DOMAIN nested.chunks \subseteq known /\ nested.handle \in known
  BY <1>9, <1>10
<1> HIDE DEF chunks, known
<1>12. On(rest, depth, 0, {}, known)
  BY <1>5, <1>11, OnMore
<1>13. value \in Value(0) /\ value.function = nested.handle /\ value.tag = "Function"
  BY <1>8 DEF Function, Value, FunctionValue
<1> HIDE DEF value
<1>14. /\ SameTable(rest, loaded)
       /\ \E longer : On(loaded, longer, 0, {}, known) /\ longer[Len(loaded.code)] = 1
  <2>1. depth[Len(rest.code)] = 0 /\ 0 \in Nat /\ 1 \in Nat /\ 1 = 0 + 1
    BY <1>5
  <2>2. value.tag = "Function" => value.function \in known
    BY <1>11, <1>13
  <2> QED BY <1>12, <1>13, <2>1, <2>2, EmitConstantKeeps
<1> HIDE DEF loaded
<1>15. PICK middle : On(loaded, middle, 0, {}, known) /\ middle[Len(loaded.code)] = 1
  BY <1>14
<1>16. \E longer : On(stored, longer, 0, {}, known) /\ longer[Len(stored.code)] = 0
  <2> DEFINE name == String(s.name)
  <2>1. name \in Value(0) /\ name.tag = "String" /\ name.text = s.name
    BY <1>4, NameFits
  <2>2. stored = EmitConstant(loaded, "StoreVariable", name)
    BY DEF EmitVariable
  <2>3. name.tag = "Function" => name.function \in known
    BY <2>1
  <2> HIDE DEF name, stored
  <2>4. 0 \in Nat /\ 1 \in Nat
    OBVIOUS
  <2> QED BY <1>4, <1>15, <2>1, <2>2, <2>3, <2>4, EmitConstantKeeps
<1> HIDE DEF stored
<1>17. PICK longer : On(stored, longer, 0, {}, known) /\ longer[Len(stored.code)] = 0
  BY <1>16
<1>18. stored \in Object /\ ~stored.failed
  BY <1>17 DEF On
<1>19. nested.failed \in BOOLEAN
  BY DEF Object
<1>20. d \in Object /\ d.failed = nested.failed /\ d.chunks = chunks /\ d.code = stored.code
       /\ d.constants = stored.constants /\ d.agenda = stored.agenda
  BY <1>10, <1>18, <1>19 DEF Object
<1> HIDE DEF d
<1>21. ASSUME ~nested.failed PROVE Sound(d) /\ Shelf(d.chunks)
  <2>1. nested.agenda = <<>> /\ Sound(nested) /\ Shelf(nested.chunks)
    BY <1>21
  <2>2. On(d, longer, longer[Len(d.code)], {}, DOMAIN d.chunks)
    BY <1>17, <1>20, <1>21 DEF On, known
  <2>3. Complete([code |-> compiled.code, constants |-> compiled.constants,
                  parameters |-> s.parameters], DOMAIN nested.chunks)
    BY <1>4, <2>1, FunctionComplete DEF Sound, compiled
  <2>4. ASSUME NEW h \in known PROVE Complete(chunks[h], known)
    <3>1. CASE h \in DOMAIN c.chunks /\ chunks[h] = c.chunks[h]
      BY <1>11, <3>1, CompleteMore DEF Shelf
    <3>2. CASE h \in DOMAIN table /\ chunks[h] = table[h]
      <4>1. Complete(chunks[h], DOMAIN nested.chunks)
        BY <1>9, <2>1, <2>3, <3>2 DEF Shelf
      <4> QED BY <1>11, <4>1, CompleteMore
    <3> QED BY <1>10, <3>1, <3>2
  <2>5. Shelf(d.chunks)
    BY <1>20, <2>4 DEF Shelf, known
  <2> QED BY <2>2, <2>5 DEF Sound, Ready
<1>22. CompileDefinition(c, nested) = d
  <2>1. stored.chunks = c.chunks
    <3>1. SameTable(loaded, stored)
      <4> DEFINE name == String(s.name)
      <4>1. name \in Value(0) /\ name.tag = "String" /\ name.text = s.name
        BY <1>4, NameFits
      <4>2. stored = EmitConstant(loaded, "StoreVariable", name)
        BY DEF EmitVariable, stored
      <4>3. name.tag = "Function" => name.function \in known
        BY <4>1
      <4> HIDE DEF name
      <4>4. 0 \in Nat /\ 1 \in Nat
        OBVIOUS
      <4> QED BY <1>4, <1>15, <4>1, <4>2, <4>3, <4>4, EmitConstantKeeps
    <3> QED BY <1>2, <1>14, <3>1 DEF SameTable
  <2>2. CompileDefinition(c, nested) =
          [stored EXCEPT !.chunks = Joined(@, table), !.failed = nested.failed]
    BY DEF CompileDefinition, stored, loaded, rest, s, table, compiled, value
  <2>3. [stored EXCEPT !.chunks = Joined(@, table), !.failed = nested.failed] =
          [stored EXCEPT !.chunks = Joined(stored.chunks, table), !.failed = nested.failed]
    BY <1>18 DEF Object
  <2>4. d = [stored EXCEPT !.chunks = Joined(stored.chunks, table), !.failed = nested.failed]
    BY <2>1 DEF d, chunks
  <2> QED BY <2>2, <2>3, <2>4
<1>23. d \in Object /\ (d.failed \/ (Sound(d) /\ Shelf(d.chunks)))
  BY <1>20, <1>21
<1> QED BY <1>22, <1>23

-----------------------------------------------------------------------------
(* A run of the compiler. *)

Sane(c) == c.failed \/ (Sound(c) /\ Shelf(c.chunks))

\* Every compiler but the innermost waits for the function it is at.
IInv ==
  /\ compilers \in Seq(Object) /\ compilers # <<>>
  /\ \A i \in 1..Nesting : Sane(compilers[i])
  /\ \A i \in 1..(Nesting - 1) : ~compilers[i].failed /\ Declares(compilers[i])

LEMMA InitIInv == Init => IInv
<1> SUFFICES ASSUME NEW program \in Programs, compilers = <<NewCompiler(Root, Echo, program)>>
             PROVE  IInv
  BY DEF Init
<1> DEFINE c == NewCompiler(Root, Echo, program)
<1>1. Root \in Handle /\ program \in Seq(Stmts) /\ Echo \in BOOLEAN
  BY HandleAssumption, ProgramsAssumption, EchoAssumption DEF Root
<1>2. c \in Object /\ ~c.failed /\ Ready(c, DOMAIN c.chunks) /\ Shelf(c.chunks)
  BY <1>1, NewReady
<1> HIDE DEF c
<1>3. Sane(c)
  BY <1>2 DEF Sane, Sound
<1>4. compilers = <<c>>
  BY DEF c
<1>5. compilers \in Seq(Object) /\ compilers # <<>> /\ Nesting = 1 /\ compilers[1] = c
  BY <1>2, <1>4 DEF Nesting
<1> QED BY <1>3, <1>5 DEF IInv

LEMMA NestingBounds ==
  ASSUME IInv
  PROVE  /\ Nesting \in Nat \ {0} /\ Nesting = Len(compilers) /\ Innermost = compilers[Nesting]
         /\ Innermost \in Object /\ Sane(Innermost)
<1>1. compilers \in Seq(Object) /\ compilers # <<>>
  BY DEF IInv
<1>2. Len(compilers) \in Nat \ {0}
  BY <1>1
<1>3. Len(compilers) \in 1..Len(compilers)
  BY <1>2
<1> QED BY <1>1, <1>2, <1>3 DEF IInv, Nesting, Innermost

LEMMA CompileNextIInv == IInv /\ CompileNext => IInv'
<1> SUFFICES ASSUME IInv, CompileNext PROVE IInv'
  OBVIOUS
<1> DEFINE c == Innermost
           d == Work(c)
           top == Nesting
<1>1. /\ top \in Nat \ {0} /\ top = Len(compilers) /\ c = compilers[top]
      /\ c \in Object /\ Sane(c)
  BY NestingBounds
<1>2. ~c.failed /\ c.agenda # <<>> /\ ~Declares(c) /\ compilers' = [compilers EXCEPT ![top] = d]
  BY <1>1 DEF CompileNext
<1> HIDE DEF c, top
<1>3. Ready(c, DOMAIN c.chunks) /\ Shelf(c.chunks)
  BY <1>1, <1>2 DEF Sane, Sound
<1>4. SameTable(c, d) /\ (Ready(d, DOMAIN c.chunks) \/ Thrown(d))
  BY <1>2, <1>3, WorkReady
<1> HIDE DEF d
<1>5. d \in Object /\ Sane(d)
  <2>1. d.chunks = c.chunks
    BY <1>4 DEF SameTable
  <2>2. CASE Ready(d, DOMAIN c.chunks)
    BY <1>3, <2>1, <2>2 DEF Sane, Sound, Ready, On
  <2>3. CASE Thrown(d)
    BY <2>3 DEF Thrown, Sane
  <2> QED BY <1>4, <2>2, <2>3
<1>6. /\ compilers' \in Seq(Object) /\ Len(compilers') = top
      /\ \A i \in 1..top : compilers'[i] = IF i = top THEN d ELSE compilers[i]
  <2>1. compilers \in Seq(Object) /\ top \in 1..Len(compilers)
    BY <1>1 DEF IInv
  <2> QED BY <1>1, <1>2, <1>5, <2>1, ExceptSeq
<1>7. compilers' # <<>>
  BY <1>1, <1>6
<1>8. ASSUME NEW i \in 1..top PROVE Sane(compilers'[i])
  BY <1>1, <1>5, <1>6 DEF IInv, Nesting
<1>9. ASSUME NEW i \in 1..(top - 1) PROVE ~compilers'[i].failed /\ Declares(compilers'[i])
  <2>1. i \in 1..top /\ i # top
    BY <1>1
  <2>2. compilers'[i] = compilers[i]
    BY <1>6, <2>1
  <2> QED BY <1>1, <2>2 DEF IInv, Nesting
<1> QED BY <1>6, <1>7, <1>8, <1>9 DEF IInv, Nesting

LEMMA BeginFunctionIInv == IInv /\ BeginFunction => IInv'
<1> SUFFICES ASSUME IInv, BeginFunction PROVE IInv'
  OBVIOUS
<1> DEFINE c == Innermost
           s == Declaration(c)
           handle == Append(c.handle, Len(c.constants))
           d == NewCompiler(handle, FALSE, s.body)
           top == Nesting
<1>1. /\ top \in Nat \ {0} /\ top = Len(compilers) /\ c = compilers[top]
      /\ c \in Object /\ Sane(c)
  BY NestingBounds
<1>2. ~c.failed /\ Declares(c) /\ compilers' = Append(compilers, d)
  BY DEF BeginFunction, Nested
<1> HIDE DEF c, top
<1>3. handle \in Handle
  <2>1. c.handle \in Seq(Nat) /\ Len(c.constants) \in Nat
    BY <1>1, HandleAssumption DEF Object
  <2> QED BY <2>1, HandleAssumption
<1>4. s.body \in Seq(Stmts)
  <2>1. c.agenda \in Seq(Step) /\ c.agenda # <<>>
    BY <1>1, <1>2 DEF Object, Declares
  <2>2. Head(c.agenda) \in Step
    BY <2>1
  <2>3. Head(c.agenda)[1] = "Statement" /\ s = Head(c.agenda)[2] /\ s.kind = "Function"
    BY <1>2 DEF Declares, Declaration
  <2>4. s \in Stmts
    BY <2>2, <2>3, StepParts
  <2> QED BY <2>3, <2>4, TreeAssumption DEF IsStatement
<1>5. d \in Object /\ Sane(d)
  <2>1. d \in Object /\ ~d.failed /\ Ready(d, DOMAIN d.chunks) /\ Shelf(d.chunks)
    BY <1>3, <1>4, NewReady
  <2> HIDE DEF d
  <2> QED BY <2>1 DEF Sane, Sound
<1> HIDE DEF d
<1>6. compilers \in Seq(Object)
  BY DEF IInv
<1>7. /\ compilers' \in Seq(Object) /\ Len(compilers') = top + 1 /\ compilers' # <<>>
      /\ \A i \in 1..top : compilers'[i] = compilers[i]
      /\ compilers'[top + 1] = d
  BY <1>1, <1>2, <1>5, <1>6, AppendProperties
<1>8. ASSUME NEW i \in 1..(top + 1) PROVE Sane(compilers'[i])
  <2>1. CASE i = top + 1
    BY <1>5, <1>7, <2>1
  <2>2. CASE i \in 1..top
    BY <1>1, <1>7, <2>2 DEF IInv, Nesting
  <2> QED BY <1>1, <2>1, <2>2
<1>9. ASSUME NEW i \in 1..top PROVE ~compilers'[i].failed /\ Declares(compilers'[i])
  <2>1. compilers'[i] = compilers[i]
    BY <1>7
  <2>2. CASE i = top
    BY <1>1, <1>2, <2>1, <2>2
  <2>3. CASE i \in 1..(top - 1)
    BY <1>1, <2>1, <2>3 DEF IInv, Nesting
  <2> QED BY <1>1, <2>2, <2>3
<1>10. (top + 1) - 1 = top
  BY <1>1
<1> QED BY <1>7, <1>8, <1>9, <1>10 DEF IInv, Nesting

LEMMA EndFunctionIInv == IInv /\ EndFunction => IInv'
<1> SUFFICES ASSUME IInv, EndFunction PROVE IInv'
  OBVIOUS
<1> DEFINE top == Nesting
           nested == Innermost
           c == compilers[top - 1]
           d == CompileDefinition(c, nested)
           below == SubSeq(compilers, 1, top - 2)
<1>1. /\ top \in Nat /\ top = Len(compilers) /\ nested = compilers[top]
      /\ nested \in Object /\ Sane(nested)
  BY NestingBounds
<1>2. /\ top > 1
      /\ nested.failed \/ nested.agenda = <<>>
      /\ compilers' = Append(below, d)
  BY DEF EndFunction
<1>3. compilers \in Seq(Object)
  BY DEF IInv
<1>4. top > 1
  BY DEF EndFunction
<1>5. top - 1 \in 1..top /\ top - 1 \in 1..(top - 1)
  BY <1>1, <1>4
<1> HIDE DEF nested, top
<1>6. c \in Object /\ ~c.failed /\ Declares(c) /\ Sane(c)
  BY <1>1, <1>3, <1>5 DEF IInv, Nesting
<1> HIDE DEF c
<1>7. Sound(c) /\ Shelf(c.chunks)
  BY <1>6 DEF Sane
<1>8. ~nested.failed => nested.agenda = <<>> /\ Sound(nested) /\ Shelf(nested.chunks)
  BY <1>1, <1>2 DEF Sane
<1>9. d \in Object /\ (d.failed \/ (Sound(d) /\ Shelf(d.chunks)))
  BY <1>1, <1>6, <1>7, <1>8, DefinitionReady
<1> HIDE DEF d
<1>10. Sane(d)
  BY <1>9 DEF Sane
<1>11. /\ below \in Seq(Object) /\ Len(below) = top - 2
       /\ \A i \in 1..(top - 2) : below[i] = compilers[i]
  <2>1. /\ 1 \in 1..(Len(compilers) + 1) /\ top - 2 \in 0..Len(compilers)
        /\ 1 <= (top - 2) + 1
    BY <1>1, <1>4
  <2> QED BY <1>1, <1>3, <1>4, <2>1
<1> HIDE DEF below
<1>12. /\ compilers' \in Seq(Object) /\ Len(compilers') = top - 1 /\ compilers' # <<>>
       /\ \A i \in 1..(top - 2) : compilers'[i] = compilers[i]
       /\ compilers'[top - 1] = d
  BY <1>1, <1>2, <1>4, <1>9, <1>11, AppendProperties
<1>13. ASSUME NEW i \in 1..(top - 1) PROVE Sane(compilers'[i])
  <2>1. CASE i = top - 1
    BY <1>10, <1>12, <2>1
  <2>2. CASE i \in 1..(top - 2)
    <3>1. i \in 1..top
      BY <1>1, <2>2
    <3> QED BY <1>1, <1>12, <2>2, <3>1 DEF IInv, Nesting
  <2> QED BY <1>1, <2>1, <2>2
<1>14. ASSUME NEW i \in 1..(top - 2) PROVE ~compilers'[i].failed /\ Declares(compilers'[i])
  <2>1. i \in 1..(top - 1)
    BY <1>1
  <2> QED BY <1>1, <1>12, <2>1 DEF IInv, Nesting
<1>15. (top - 1) - 1 = top - 2
  BY <1>1
<1> QED BY <1>12, <1>13, <1>14, <1>15 DEF IInv, Nesting

\* Whatever the program, the work that is left of each active compiler takes
\* the operands its code has made to none, and fills in every jump that is
\* still open; the functions it has finished are complete.
THEOREM CompilersOnTheirWay == Spec => []IInv
<1>1. Init => IInv
  BY InitIInv
<1>2. IInv /\ [Next]_vars => IInv'
  <2> SUFFICES ASSUME IInv, [Next]_vars PROVE IInv'
    OBVIOUS
  <2>1. CASE CompileNext
    BY <2>1, CompileNextIInv
  <2>2. CASE BeginFunction
    BY <2>2, BeginFunctionIInv
  <2>3. CASE EndFunction
    BY <2>3, EndFunctionIInv
  <2>4. CASE UNCHANGED vars
    BY <2>4 DEF IInv, vars, Nesting
  <2> QED BY <2>1, <2>2, <2>3, <2>4 DEF Next
<1> QED BY <1>1, <1>2, PTL DEF Spec

-----------------------------------------------------------------------------
(* What it promises. *)

LEMMA FunctionsWrittenComplete ==
  ASSUME IInv, NEW chunk \in FunctionsWritten
  PROVE  \E known : Complete(chunk, known)
<1>1. PICK i \in 1..Nesting : ~compilers[i].failed /\ chunk \in Functions(compilers[i])
  BY DEF FunctionsWritten
<1>2. Sane(compilers[i])
  BY DEF IInv
<1>3. Shelf(compilers[i].chunks)
  BY <1>1, <1>2 DEF Sane
<1> QED BY <1>1, <1>3 DEF Functions, Shelf

\* The chunk of a program that is compiled to the end.
LEMMA ProgramGood ==
  ASSUME IInv, Done
  PROVE  /\ Innermost \in Object /\ Shelf(Innermost.chunks)
         /\ Known(Innermost.constants, DOMAIN Innermost.chunks)
         /\ LET chunk == [code |-> Innermost.code, constants |-> Innermost.constants,
                          parameters |-> <<>>]
            IN WellFormed(chunk) /\ Balanced(chunk, DepthsOf(chunk))
<1> DEFINE c == Innermost
<1>1. c \in Object /\ Sound(c) /\ Shelf(c.chunks) /\ c.agenda = <<>>
  BY NestingBounds DEF Done, Sane
<1> HIDE DEF c
<1>2. PICK depth : On(c, depth, depth[Len(c.code)], {}, DOMAIN c.chunks)
  BY <1>1 DEF Sound, Ready
<1>3. depth[Len(c.code)] = 0
  BY <1>1, <1>2, PlanEmpty DEF On
<1>4. <<>> \in Seq(Names)
  OBVIOUS
<1>5. LET chunk == [code |-> c.code, constants |-> c.constants, parameters |-> <<>>]
      IN WellFormed(chunk) /\ Balanced(chunk, DepthsOf(chunk))
  BY <1>1, <1>2, <1>3, <1>4, FinishedGood
<1>6. Known(c.constants, DOMAIN c.chunks)
  BY <1>2 DEF On, Known
<1> QED BY <1>1, <1>5, <1>6 DEF c

\* Every jump of every program and function goes to the start of a statement
\* and every path leaves the stack as it found it (compiler.cpp:18-118).
THEOREM CompiledCodeBalances == Spec => []CodeBalances
<1>1. ASSUME IInv PROVE CodeBalances
  <2> SUFFICES ASSUME NEW chunk \in Written
               PROVE  WellFormed(chunk) /\ Balanced(chunk, DepthsOf(chunk))
    BY DEF CodeBalances
  <2>1. CASE chunk \in FunctionsWritten
    BY <1>1, <2>1, FunctionsWrittenComplete DEF Complete
  <2>2. CASE chunk \notin FunctionsWritten
    <3>1. Done /\ chunk = [code |-> Innermost.code, constants |-> Innermost.constants,
                           parameters |-> <<>>]
      BY <2>2 DEF Written
    <3> QED BY <1>1, <3>1, ProgramGood
  <2> QED BY <2>1, <2>2
<1>2. IInv => CodeBalances
  BY <1>1
<1> QED BY <1>2, CompilersOnTheirWay, PTL

\* No function runs out of code before it returns (compiler.cpp:130-136).
THEOREM CompiledFunctionsReturn == Spec => []FunctionsReturn
<1>1. ASSUME IInv, NEW chunk \in FunctionsWritten PROVE AlwaysReturns(chunk)
  BY <1>1, FunctionsWrittenComplete DEF Complete
<1>2. IInv => FunctionsReturn
  BY <1>1 DEF FunctionsReturn
<1> QED BY <1>2, CompilersOnTheirWay, PTL

\* The function values among the constants of a program, and of the functions
\* declared in it, however deep, are those whose code it has
\* (compiler.cpp:47-52).
FunctionsHaveCode ==
  Done =>
    LET chunks == ChunksOf(Innermost)
    IN \A h \in DOMAIN chunks : Known(chunks[h].constants, DOMAIN chunks)

\* A compiled program is closed: the machine finds the code of every function
\* that it loads.
THEOREM CompiledFunctionsHaveCode == Spec => []FunctionsHaveCode
<1>1. ASSUME IInv, Done
      PROVE  LET chunks == ChunksOf(Innermost)
             IN \A h \in DOMAIN chunks : Known(chunks[h].constants, DOMAIN chunks)
  <2> DEFINE c == Innermost
             own == ChunkOf(c, <<>>)
             chunks == Joined(c.chunks, own)
  <2>1. c \in Object /\ Shelf(c.chunks) /\ Known(c.constants, DOMAIN c.chunks)
    BY <1>1, ProgramGood
  <2> HIDE DEF c
  <2>2. c.chunks \in ChunkTable /\ <<>> \in Seq(Names)
    BY <2>1 DEF Object
  <2>3. own \in ChunkTable /\ DOMAIN own = {c.handle} /\ own[c.handle].constants = c.constants
    <3> DEFINE none == <<>>
    <3>1. none \in Seq(Names)
      BY <2>2
    <3> HIDE DEF none
    <3>2. /\ ChunkOf(c, none) \in ChunkTable /\ DOMAIN ChunkOf(c, none) = {c.handle}
          /\ ChunkOf(c, none)[c.handle] =
               [code |-> c.code, constants |-> c.constants, parameters |-> none]
      BY <2>1, <3>1, ChunkOfIsTable
    <3> QED BY <3>2 DEF own, none
  <2> HIDE DEF own
  <2>4. /\ DOMAIN chunks = DOMAIN c.chunks \cup DOMAIN own
        /\ \A h \in DOMAIN chunks : \/ h \in DOMAIN c.chunks /\ chunks[h] = c.chunks[h]
                                    \/ h \in DOMAIN own /\ chunks[h] = own[h]
    BY <2>2, <2>3, JoinedTables
  <2> HIDE DEF chunks
  <2>5. ASSUME NEW h \in DOMAIN chunks PROVE Known(chunks[h].constants, DOMAIN chunks)
    <3>1. Known(chunks[h].constants, DOMAIN c.chunks)
      <4>1. CASE h \in DOMAIN c.chunks /\ chunks[h] = c.chunks[h]
        BY <2>1, <4>1 DEF Shelf, Complete
      <4>2. CASE h \in DOMAIN own /\ chunks[h] = own[h]
        BY <2>1, <2>3, <4>2
      <4> QED BY <2>4, <4>1, <4>2
    <3> QED BY <2>4, <3>1 DEF Known
  <2> QED BY <2>5 DEF ChunksOf, chunks, own, c
<1>2. IInv => FunctionsHaveCode
  BY <1>1 DEF FunctionsHaveCode
<1> QED BY <1>2, CompilersOnTheirWay, PTL

-----------------------------------------------------------------------------
(* Functions without a print statement do not print, for they do not echo. *)

QuietInstruction == [op : OpCode \ {"Print"}, operand : Nat \cup {-1}]

\* A step that will not emit a Print, as long as the compiler does not echo.
QuietStep(quiet, step) ==
  /\ step[1] = "Emit" => step[2] # "Print"
  /\ step[1] \in {"Statement", "Then", "EndThen", "Body"} => step[2] \in quiet
  /\ step[1] = "Block" => step[2] \in Seq(quiet)
QuietAgenda(quiet, agenda) == \A i \in 1..Len(agenda) : QuietStep(quiet, agenda[i])
QuietChunks(chunks) == \A h \in DOMAIN chunks : chunks[h].code \in Seq(QuietInstruction)

Silent(quiet, c) ==
  c.echo = FALSE /\ c.code \in Seq(QuietInstruction) /\ QuietAgenda(quiet, c.agenda)

\* An instruction is emitted.
LEMMA SilentEmit ==
  ASSUME NEW quiet, NEW c \in Object, Silent(quiet, c),
         NEW op \in OpCode \ {"Print"}, NEW operand \in Nat \cup {-1}
  PROVE  Silent(quiet, Emit(c, op, operand)) /\ Emit(c, op, operand) \in Object
<1> DEFINE x == [op |-> op, operand |-> operand]
           e == Emit(c, op, operand)
<1>1. x \in QuietInstruction /\ x \in PartialInstruction
  BY DEF QuietInstruction, PartialInstruction
<1>2. e \in Object /\ e.code = Append(c.code, x) /\ e.agenda = c.agenda
  BY <1>1, EmitFields
<1>3. e.echo = c.echo
  BY DEF Emit, Object
<1>4. Append(c.code, x) \in Seq(QuietInstruction)
  <2> HIDE DEF x
  <2>1. c.code \in Seq(QuietInstruction)
    BY DEF Silent
  <2> QED BY <1>1, <2>1, AppendProperties
<1> QED BY <1>2, <1>3, <1>4 DEF Silent

\* A constant is added, and an instruction for it.
LEMMA SilentConstant ==
  ASSUME NEW quiet, NEW c \in Object, Silent(quiet, c),
         NEW op \in OpCode \ {"Print"}, NEW value \in Value(0)
  PROVE  Silent(quiet, EmitConstant(c, op, value)) /\ EmitConstant(c, op, value) \in Object
<1> DEFINE constants == Append(c.constants, value)
           e == [c EXCEPT !.constants = constants]
<1>1. constants \in Seq(Value(0)) /\ Len(c.constants) \in Nat
  <2>1. c.constants \in Seq(Value(0))
    BY DEF Object
  <2> QED BY <2>1, AppendProperties, LenProperties
<1> HIDE DEF constants
<1>2. e \in Object /\ e.code = c.code /\ e.agenda = c.agenda /\ e.echo = c.echo
  BY <1>1 DEF Object
<1>3. EmitConstant(c, op, value) = Emit(e, op, Len(c.constants))
  BY DEF EmitConstant, constants, Object
<1> HIDE DEF e
<1>4. Silent(quiet, e)
  BY <1>2 DEF Silent
<1>5. Len(c.constants) \in Nat \cup {-1}
  BY <1>1
<1> QED BY <1>2, <1>3, <1>4, <1>5, SilentEmit

\* A jump is filled in.
LEMMA SilentPatch ==
  ASSUME NEW quiet, NEW c \in Object, Silent(quiet, c), NEW at \in Nat
  PROVE  Silent(quiet, PatchJump(c, at)) /\ PatchJump(c, at) \in Object
<1> DEFINE code == [c.code EXCEPT ![at].operand = Len(c.code)]
<1>1. c.code \in Seq(QuietInstruction) /\ Len(c.code) \in Nat
  <2>1. c.code \in Seq(QuietInstruction)
    BY DEF Silent
  <2> QED BY <2>1
<1>2. code \in Seq(QuietInstruction)
  <2>1. c.code \in [1..Len(c.code) -> QuietInstruction]
    BY <1>1
  <2>2. code \in [1..Len(c.code) -> QuietInstruction]
    BY <1>1, <2>1 DEF QuietInstruction
  <2> HIDE DEF code
  <2> QED BY <1>1, <2>2
<1>5. code \in Seq(PartialInstruction)
  <2>1. c.code \in Seq(PartialInstruction)
    BY DEF Object
  <2>2. c.code \in [1..Len(c.code) -> PartialInstruction]
    BY <2>1
  <2>3. code \in [1..Len(c.code) -> PartialInstruction]
    BY <1>1, <2>2 DEF PartialInstruction
  <2> HIDE DEF code
  <2> QED BY <1>1, <2>3
<1>3. PatchJump(c, at) = [c EXCEPT !.code = code]
  BY DEF PatchJump, Object
<1> HIDE DEF code
<1>6. [c EXCEPT !.code = code] \in Object
  BY <1>5 DEF Object
<1>4. /\ [c EXCEPT !.code = code].code = code /\ [c EXCEPT !.code = code].agenda = c.agenda
      /\ [c EXCEPT !.code = code].echo = c.echo
  BY DEF Object
<1> QED BY <1>2, <1>3, <1>4, <1>6 DEF Silent

\* A step is put before the others, two, and three.
LEMMA QuietCons ==
  ASSUME NEW quiet, NEW S, NEW x \in S, NEW agenda \in Seq(S),
         QuietStep(quiet, x), QuietAgenda(quiet, agenda)
  PROVE  QuietAgenda(quiet, <<x>> \o agenda) /\ <<x>> \o agenda \in Seq(S)
<1> DEFINE longer == <<x>> \o agenda
<1>1. /\ longer \in Seq(S) /\ Len(longer) = Len(agenda) + 1 /\ longer[1] = x
      /\ \A i \in 1..Len(agenda) : longer[i + 1] = agenda[i]
  BY ConsProperties
<1>2. Len(agenda) \in Nat
  OBVIOUS
<1> HIDE DEF longer
<1>3. ASSUME NEW i \in 1..Len(longer) PROVE QuietStep(quiet, longer[i])
  <2>1. CASE i = 1
    BY <1>1, <2>1
  <2>2. CASE i # 1
    <3>1. i - 1 \in 1..Len(agenda) /\ (i - 1) + 1 = i
      BY <1>1, <1>2, <2>2
    <3>2. longer[i] = agenda[i - 1]
      BY <1>1, <3>1
    <3> QED BY <3>1, <3>2 DEF QuietAgenda
  <2> QED BY <2>1, <2>2
<1>4. QuietAgenda(quiet, longer)
  BY <1>3 DEF QuietAgenda
<1> QED BY <1>1, <1>4 DEF longer

\* A compiler that is silent stays it when it gets quiet steps to do.
LEMMA SilentThen ==
  ASSUME NEW quiet, NEW c \in Object, Silent(quiet, c), NEW steps,
         QuietAgenda(quiet, steps \o c.agenda)
  PROVE  Silent(quiet, Then(c, steps))
<1> DEFINE agenda == steps \o c.agenda
<1>1. Then(c, steps) = [c EXCEPT !.agenda = agenda]
  BY DEF Then, Object
<1> HIDE DEF agenda
<1>2. /\ [c EXCEPT !.agenda = agenda].code = c.code /\ [c EXCEPT !.agenda = agenda].agenda = agenda
      /\ [c EXCEPT !.agenda = agenda].echo = c.echo
  BY DEF Object
<1> QED BY <1>1, <1>2 DEF Silent, agenda

LEMMA SilentOne ==
  ASSUME NEW quiet, NEW c \in Object, Silent(quiet, c), NEW x, QuietStep(quiet, x)
  PROVE  Silent(quiet, Then(c, <<x>>))
<1> DEFINE S == Step \cup {x}
<1>1. x \in S /\ c.agenda \in Seq(S)
  <2>1. c.agenda \in Seq(Step)
    BY DEF Object
  <2> QED BY <2>1
<1> HIDE DEF S
<1>2. QuietAgenda(quiet, <<x>> \o c.agenda)
  BY <1>1, QuietCons DEF Silent
<1> QED BY <1>2, SilentThen

LEMMA QuietTwo ==
  ASSUME NEW quiet, NEW S, NEW x \in S, NEW y \in S, NEW agenda \in Seq(S),
         QuietStep(quiet, x), QuietStep(quiet, y), QuietAgenda(quiet, agenda)
  PROVE  QuietAgenda(quiet, <<x, y>> \o agenda) /\ <<x, y>> \o agenda \in Seq(S)
<1> DEFINE second == <<y>> \o agenda
<1>1. QuietAgenda(quiet, second) /\ second \in Seq(S)
  BY QuietCons
<1>2. <<x, y>> \o agenda = <<x>> \o second
  BY TwoFirst
<1> HIDE DEF second
<1> QED BY <1>1, <1>2, QuietCons

LEMMA QuietThree ==
  ASSUME NEW quiet, NEW S, NEW x \in S, NEW y \in S, NEW z \in S, NEW agenda \in Seq(S),
         QuietStep(quiet, x), QuietStep(quiet, y), QuietStep(quiet, z), QuietAgenda(quiet, agenda)
  PROVE  QuietAgenda(quiet, <<x, y, z>> \o agenda)
<1> DEFINE third == <<z>> \o agenda
<1>1. QuietAgenda(quiet, third) /\ third \in Seq(S)
  BY QuietCons
<1>2. <<x, y, z>> \o agenda = <<x, y>> \o third
  BY ThreeFirst, SMTT(30)
<1> HIDE DEF third
<1> QED BY <1>1, <1>2, QuietTwo

LEMMA SilentTwo ==
  ASSUME NEW quiet, NEW c \in Object, Silent(quiet, c),
         NEW x, NEW y, QuietStep(quiet, x), QuietStep(quiet, y)
  PROVE  Silent(quiet, Then(c, <<x, y>>))
<1> DEFINE S == Step \cup {x, y}
           agenda == c.agenda
<1>1. x \in S /\ y \in S /\ agenda \in Seq(S)
  <2>1. agenda \in Seq(Step)
    BY DEF Object
  <2> HIDE DEF agenda
  <2> QED BY <2>1
<1>2. QuietAgenda(quiet, agenda)
  BY DEF Silent
<1> HIDE DEF S, agenda
<1>3. QuietAgenda(quiet, <<x, y>> \o agenda)
  BY <1>1, <1>2, QuietTwo
<1> QED BY <1>3, SilentThen DEF agenda

LEMMA SilentThree ==
  ASSUME NEW quiet, NEW c \in Object, Silent(quiet, c), NEW x, NEW y, NEW z,
         QuietStep(quiet, x), QuietStep(quiet, y), QuietStep(quiet, z)
  PROVE  Silent(quiet, Then(c, <<x, y, z>>))
<1> DEFINE S == Step \cup {x, y, z}
           agenda == c.agenda
<1>1. x \in S /\ y \in S /\ z \in S /\ agenda \in Seq(S)
  <2>1. agenda \in Seq(Step)
    BY DEF Object
  <2> HIDE DEF agenda
  <2> QED BY <2>1
<1>2. QuietAgenda(quiet, agenda)
  BY DEF Silent
<1> HIDE DEF S, agenda
<1>3. QuietAgenda(quiet, <<x, y, z>> \o agenda)
  BY <1>1, <1>2, QuietThree
<1> QED BY <1>3, SilentThen DEF agenda


\* The steps that emit no Print.
LEMMA StepsQuiet ==
  ASSUME NEW quiet
  PROVE  /\ \A e : QuietStep(quiet, Expression(e))
         /\ \A es : QuietStep(quiet, Expressions(es))
         /\ \A op, operand : op # "Print" => QuietStep(quiet, Emission(op, operand))
         /\ \A s \in quiet : QuietStep(quiet, <<"Statement", s>>)
         /\ \A b \in Seq(quiet) : QuietStep(quiet, Block(b))
         /\ \A name : QuietStep(quiet, <<"Store", name>>)
         /\ \A s \in quiet : QuietStep(quiet, <<"Then", s>>)
         /\ \A s \in quiet : \A at : QuietStep(quiet, <<"EndThen", s, at>>)
         /\ \A s \in quiet : \A start : QuietStep(quiet, <<"Body", s, start>>)
         /\ \A start, at : QuietStep(quiet, <<"EndBody", start, at>>)
         /\ \A at : QuietStep(quiet, <<"Patch", at>>)
BY DEF QuietStep, Expression, Expressions, Emission, Block

LEMMA BinaryQuiet ==
  ASSUME NEW quiet, NEW op \in DOMAIN OpCodeOf \cup DOMAIN TokenOf
  PROVE  QuietStep(quiet, BinaryInstruction(op))
<1>1. ASSUME op \in DOMAIN OpCodeOf PROVE OpCodeOf[op] # "Print"
  BY <1>1 DEF OpCodeOf
<1> QED BY <1>1, StepsQuiet DEF BinaryInstruction

\* return None.
LEMMA SilentReturnNone ==
  ASSUME NEW quiet, NEW c \in Object, Silent(quiet, c)
  PROVE  Silent(quiet, EmitReturnNone(c)) /\ EmitReturnNone(c) \in Object
<1> DEFINE e == EmitConstant(c, "LoadConstant", NoneValue)
<1>1. NoneValue \in Value(0)
  BY DEF NoneValue, Value, PlainValue
<1>2. Silent(quiet, e) /\ e \in Object
  BY <1>1, SilentConstant DEF OpCode
<1> HIDE DEF e
<1>3. Silent(quiet, Emit(e, "Return", 0)) /\ Emit(e, "Return", 0) \in Object
  BY <1>2, SilentEmit DEF OpCode
<1> QED BY <1>3 DEF EmitReturnNone, e

\* expression().
LEMMA SilentExpression ==
  ASSUME NEW quiet, NEW c \in Object, Silent(quiet, c), NEW e \in Exprs
  PROVE  Silent(quiet, CompileExpression(c, e))
<1>1. IsExpression(e)
  BY TreeAssumption
<1>2. e.kind \in {"Literal", "Variable", "List", "Unary", "Binary", "Call"}
  BY <1>1 DEF IsExpression
<1>3. CASE e.kind = "Literal"
  <2>1. CompileExpression(c, e) = EmitLiteral(c, e.value) /\ e.value \in LiteralValue
    BY <1>1, <1>3 DEF CompileExpression, IsExpression
  <2>2. CASE e.value.tag = "Integer" /\ e.value.integer > IntegerMax
    <3>1. CompileExpression(c, e) = [c EXCEPT !.failed = TRUE]
      BY <2>1, <2>2 DEF EmitLiteral
    <3>2. /\ [c EXCEPT !.failed = TRUE].code = c.code /\ [c EXCEPT !.failed = TRUE].agenda = c.agenda
          /\ [c EXCEPT !.failed = TRUE].echo = c.echo
      BY DEF Object
    <3> QED BY <3>1, <3>2 DEF Silent
  <2>3. CASE ~(e.value.tag = "Integer" /\ e.value.integer > IntegerMax)
    <3>1. e.value \in Value(0)
      BY <2>1, <2>3, LiteralFits
    <3>2. CompileExpression(c, e) = EmitConstant(c, "LoadConstant", e.value)
      BY <2>1, <2>3 DEF EmitLiteral
    <3> QED BY <3>1, <3>2, SilentConstant DEF OpCode
  <2> QED BY <2>2, <2>3
<1>4. CASE e.kind = "Variable"
  <2>1. CompileExpression(c, e) = EmitConstant(c, "LoadVariable", String(e.name)) /\ e.name \in Names
    BY <1>1, <1>4 DEF CompileExpression, EmitVariable, IsExpression
  <2>2. String(e.name) \in Value(0)
    BY <2>1, NameFits
  <2> QED BY <2>1, <2>2, SilentConstant DEF OpCode
<1>5. CASE e.kind = "List"
  <2>1. CompileExpression(c, e) =
          Then(c, <<Expressions(e.elements), Emission("BuildList", Len(e.elements))>>)
    BY <1>5 DEF CompileExpression
  <2>2. QuietStep(quiet, Expressions(e.elements))
        /\ QuietStep(quiet, Emission("BuildList", Len(e.elements)))
    BY StepsQuiet
  <2> QED BY <2>1, <2>2, SilentTwo
<1>6. CASE e.kind = "Unary"
  <2>1. \/ CompileExpression(c, e) = Then(c, <<Expression(e.right), Emission("Negate", 0)>>)
        \/ CompileExpression(c, e) = Then(c, <<Expression(e.right)>>)
    BY <1>6 DEF CompileExpression
  <2>2. QuietStep(quiet, Expression(e.right)) /\ QuietStep(quiet, Emission("Negate", 0))
    BY StepsQuiet
  <2> QED BY <2>1, <2>2, SilentOne, SilentTwo
<1>7. CASE e.kind = "Binary"
  <2>1. CompileExpression(c, e) =
          Then(c, <<Expressions(<<e.left, e.right>>), BinaryInstruction(e.op)>>)
        /\ e.op \in DOMAIN OpCodeOf \cup DOMAIN TokenOf
    BY <1>1, <1>7, OperatorsCompile DEF CompileExpression, IsExpression
  <2>2. QuietStep(quiet, Expressions(<<e.left, e.right>>)) /\ QuietStep(quiet, BinaryInstruction(e.op))
    BY <2>1, StepsQuiet, BinaryQuiet
  <2> QED BY <2>1, <2>2, SilentTwo
<1>8. CASE e.kind = "Call"
  <2>1. \/ CompileExpression(c, e) =
             Then(c, <<Expression(e.callee), Expressions(e.arguments),
                       Emission("Call", Len(e.arguments))>>)
        \/ \E operand : CompileExpression(c, e) =
             Then(c, <<Expressions(e.arguments), Emission("Builtin", operand)>>)
    BY <1>8 DEF CompileExpression, CompileCall
  <2>2. /\ QuietStep(quiet, Expression(e.callee)) /\ QuietStep(quiet, Expressions(e.arguments))
        /\ QuietStep(quiet, Emission("Call", Len(e.arguments)))
        /\ \A operand : QuietStep(quiet, Emission("Builtin", operand))
    BY StepsQuiet
  <2> QED BY <2>1, <2>2, SilentTwo, SilentThree
<1> QED BY <1>2, <1>3, <1>4, <1>5, <1>6, <1>7, <1>8

\* statement(), unless it declares a function.
LEMMA SilentStatement ==
  ASSUME NEW quiet, Printless(quiet), NEW c \in Object, Silent(quiet, c),
         NEW s \in Stmts \cap quiet, s.kind # "Function"
  PROVE  Silent(quiet, CompileStatement(c, s))
<1>1. IsStatement(s) /\ s.kind # "Print"
  BY TreeAssumption DEF Printless
<1>2. s.kind \in {"Expression", "Assignment", "If", "While", "Return"}
  BY <1>1 DEF IsStatement
<1>3. CASE s.kind = "Expression"
  <2>1. CompileStatement(c, s) = Then(c, <<Expression(s.expression), Emission("Pop", 0)>>)
    BY <1>3 DEF CompileStatement, Silent
  <2>2. QuietStep(quiet, Expression(s.expression)) /\ QuietStep(quiet, Emission("Pop", 0))
    BY StepsQuiet
  <2> QED BY <2>1, <2>2, SilentTwo
<1>4. CASE s.kind = "Assignment"
  <2>1. CompileStatement(c, s) = Then(c, <<Expression(s.value), <<"Store", s.name>>>>)
    BY <1>4 DEF CompileStatement
  <2>2. QuietStep(quiet, Expression(s.value)) /\ QuietStep(quiet, <<"Store", s.name>>)
    BY StepsQuiet
  <2> QED BY <2>1, <2>2, SilentTwo
<1>5. CASE s.kind = "If"
  <2>1. CompileStatement(c, s) = Then(c, <<Expression(s.condition), <<"Then", s>>>>)
    BY <1>5 DEF CompileStatement, CompileIf
  <2>2. QuietStep(quiet, Expression(s.condition)) /\ QuietStep(quiet, <<"Then", s>>)
    BY StepsQuiet
  <2> QED BY <2>1, <2>2, SilentTwo
<1>6. CASE s.kind = "While"
  <2>1. CompileStatement(c, s) = Then(c, <<Expression(s.condition), <<"Body", s, Len(c.code)>>>>)
    BY <1>6 DEF CompileStatement, CompileWhile
  <2>2. QuietStep(quiet, Expression(s.condition)) /\ QuietStep(quiet, <<"Body", s, Len(c.code)>>)
    BY StepsQuiet
  <2> QED BY <2>1, <2>2, SilentTwo
<1>7. CASE s.kind = "Return"
  <2>1. \/ CompileStatement(c, s) = EmitReturnNone(c)
        \/ CompileStatement(c, s) = Then(c, <<Expression(s.value[1]), Emission("Return", 0)>>)
    BY <1>7 DEF CompileStatement, CompileReturn
  <2>2. QuietStep(quiet, Expression(s.value[1])) /\ QuietStep(quiet, Emission("Return", 0))
    BY StepsQuiet
  <2> QED BY <2>1, <2>2, SilentTwo, SilentReturnNone
<1> QED BY <1>2, <1>3, <1>4, <1>5, <1>6, <1>7

\* block().
LEMMA SilentBlock ==
  ASSUME NEW quiet, NEW c \in Object, Silent(quiet, c), NEW statements \in Seq(quiet)
  PROVE  Silent(quiet, CompileBlock(c, statements))
<1>1. CASE statements = <<>>
  BY <1>1 DEF CompileBlock
<1>2. CASE statements # <<>>
  <2>1. CompileBlock(c, statements) =
          Then(c, <<<<"Statement", Head(statements)>>, Block(Tail(statements))>>)
    BY <1>2 DEF CompileBlock
  <2>2. Head(statements) \in quiet /\ Tail(statements) \in Seq(quiet)
    BY <1>2, HeadTailProperties, EmptySeq
  <2>3. /\ QuietStep(quiet, <<"Statement", Head(statements)>>)
        /\ QuietStep(quiet, Block(Tail(statements)))
    BY <2>2, StepsQuiet
  <2> QED BY <2>1, <2>3, SilentTwo
<1> QED BY <1>1, <1>2

\* The branches of an `if`, and the body of a `while`.
LEMMA SilentBranches ==
  ASSUME NEW quiet, Printless(quiet), NEW c \in Object, Silent(quiet, c),
         NEW s \in Stmts \cap quiet, NEW at \in Nat
  PROVE  /\ s.kind = "If" => Silent(quiet, CompileThen(c, s)) /\ Silent(quiet, EndThen(c, s, at))
         /\ s.kind = "While" => Silent(quiet, CompileBody(c, s, at))
<1>1. \A op \in {"Jump", "JumpIfFalse"} :
        Silent(quiet, EmitJump(c, op)) /\ EmitJump(c, op) \in Object
  BY SilentEmit DEF EmitJump, OpCode
<1>2. ASSUME s.kind = "If" PROVE Silent(quiet, CompileThen(c, s))
  <2> DEFINE step == <<"EndThen", s, Len(c.code) + 1>>
             e == EmitJump(c, "JumpIfFalse")
  <2>1. CompileThen(c, s) = Then(e, <<Block(s.then_branch), step>>)
    BY DEF CompileThen
  <2>2. QuietStep(quiet, Block(s.then_branch)) /\ QuietStep(quiet, step)
    BY <1>2, StepsQuiet DEF Printless
  <2>3. Silent(quiet, e) /\ e \in Object
    BY <1>1
  <2> HIDE DEF step, e
  <2> QED BY <2>1, <2>2, <2>3, SilentTwo
<1>3. ASSUME s.kind = "If" PROVE Silent(quiet, EndThen(c, s, at))
  <2>1. CASE s.else_branch = <<>>
    BY <2>1, SilentPatch DEF EndThen
  <2>2. CASE s.else_branch # <<>>
    <3> DEFINE step == <<"Patch", Len(c.code) + 1>>
               e == EmitJump(c, "Jump")
               p == PatchJump(e, at)
    <3>1. EndThen(c, s, at) = Then(p, <<Block(s.else_branch[1]), step>>)
      BY <2>2 DEF EndThen
    <3>2. QuietStep(quiet, Block(s.else_branch[1])) /\ QuietStep(quiet, step)
      BY <1>3, <2>2, StepsQuiet DEF Printless
    <3>3. Silent(quiet, e) /\ e \in Object
      BY <1>1
    <3> HIDE DEF step, e
    <3>4. Silent(quiet, p) /\ p \in Object
      BY <3>3, SilentPatch
    <3> HIDE DEF p
    <3> QED BY <3>1, <3>2, <3>4, SilentTwo
  <2> QED BY <2>1, <2>2
<1>4. ASSUME s.kind = "While" PROVE Silent(quiet, CompileBody(c, s, at))
  <2> DEFINE step == <<"EndBody", at, Len(c.code) + 1>>
             e == EmitJump(c, "JumpIfFalse")
  <2>1. CompileBody(c, s, at) = Then(e, <<Block(s.body), step>>)
    BY DEF CompileBody
  <2>2. QuietStep(quiet, Block(s.body)) /\ QuietStep(quiet, step)
    BY <1>4, StepsQuiet DEF Printless
  <2>3. Silent(quiet, e) /\ e \in Object
    BY <1>1
  <2> HIDE DEF step, e
  <2> QED BY <2>1, <2>2, <2>3, SilentTwo
<1> QED BY <1>2, <1>3, <1>4

\* A step is taken from the agenda.
LEMMA SilentTake ==
  ASSUME NEW quiet, NEW c \in Object, Silent(quiet, c), c.agenda # <<>>
  PROVE  LET rest == [c EXCEPT !.agenda = Tail(@)]
         IN /\ rest \in Object /\ Silent(quiet, rest)
            /\ Head(c.agenda) \in Step /\ QuietStep(quiet, Head(c.agenda))
<1> DEFINE rest == [c EXCEPT !.agenda = Tail(@)]
           step == Head(c.agenda)
<1>1. /\ c.agenda \in Seq(Step) /\ Tail(c.agenda) \in Seq(Step) /\ step \in Step
      /\ step = c.agenda[1] /\ Len(c.agenda) \in Nat \ {0}
      /\ Len(Tail(c.agenda)) = Len(c.agenda) - 1
      /\ \A i \in 1..Len(Tail(c.agenda)) : Tail(c.agenda)[i] = c.agenda[i + 1]
  <2>1. c.agenda \in Seq(Step)
    BY DEF Object
  <2> QED BY <2>1, HeadTailProperties, EmptySeq, LenProperties
<1>2. rest = [c EXCEPT !.agenda = Tail(c.agenda)]
  BY DEF Object
<1>3. /\ rest \in Object /\ rest.code = c.code /\ rest.echo = c.echo
      /\ rest.agenda = Tail(c.agenda)
  BY <1>1, <1>2 DEF Object
<1>4. QuietStep(quiet, step)
  <2>1. 1 \in 1..Len(c.agenda)
    BY <1>1
  <2> QED BY <1>1, <2>1 DEF Silent, QuietAgenda
<1>5. Silent(quiet, rest)
  <2>1. \A i \in 1..Len(Tail(c.agenda)) : i + 1 \in 1..Len(c.agenda)
    BY <1>1
  <2>2. QuietAgenda(quiet, Tail(c.agenda))
    BY <1>1, <2>1 DEF Silent, QuietAgenda
  <2> QED BY <1>3, <2>2 DEF Silent
<1> QED BY <1>1, <1>3, <1>4, <1>5

\* Whatever is next on the agenda.
LEMMA SilentWork ==
  ASSUME NEW quiet, Printless(quiet), NEW c \in Object, Silent(quiet, c),
         c.agenda # <<>>, ~Declares(c)
  PROVE  Silent(quiet, Work(c))
<1> DEFINE rest == [c EXCEPT !.agenda = Tail(@)]
           step == Head(c.agenda)
           d == Work(c)
<1>1. rest \in Object /\ Silent(quiet, rest) /\ step \in Step /\ QuietStep(quiet, step)
  BY SilentTake
<1> SUFFICES Silent(quiet, d)
  OBVIOUS
<1>2. step[1] = "Statement" => step[2].kind # "Function"
  BY SMTT(30) DEF Declares
<1>3. /\ step[1] = "Expression" => d = CompileExpression(rest, step[2])
      /\ step[1] = "Expressions" => d = CompileAll(rest, step[2])
      /\ step[1] = "Emit" => d = Emit(rest, step[2], step[3])
      /\ step[1] = "Statement" => d = CompileStatement(rest, step[2])
      /\ step[1] = "Block" => d = CompileBlock(rest, step[2])
      /\ step[1] = "Store" => d = EmitVariable(rest, "StoreVariable", step[2])
      /\ step[1] = "Then" => d = CompileThen(rest, step[2])
      /\ step[1] = "EndThen" => d = EndThen(rest, step[2], step[3])
      /\ step[1] = "Body" => d = CompileBody(rest, step[2], step[3])
      /\ step[1] = "EndBody" => d = EndBody(rest, step[2], step[3])
      /\ step[1] = "Patch" => d = PatchJump(rest, step[2])
  BY DEF Work
<1> HIDE DEF rest, step, d
<1>4. /\ step[1] = "Emit" => step[2] # "Print"
      /\ step[1] \in {"Statement", "Then", "EndThen", "Body"} => step[2] \in quiet
      /\ step[1] = "Block" => step[2] \in Seq(quiet)
  BY <1>1 DEF QuietStep
<1>5. CASE step[1] = "Expression"
  BY <1>1, <1>3, <1>5, StepParts, SilentExpression
<1>6. CASE step[1] = "Expressions"
  <2> DEFINE es == step[2]
  <2>1. CASE es = <<>>
    BY <1>1, <1>3, <1>6, <2>1 DEF CompileAll
  <2>2. CASE es # <<>>
    <3>1. d = Then(rest, <<Expression(Head(es)), Expressions(Tail(es))>>)
      BY <1>3, <1>6, <2>2 DEF CompileAll
    <3>2. QuietStep(quiet, Expression(Head(es))) /\ QuietStep(quiet, Expressions(Tail(es)))
      BY StepsQuiet
    <3> QED BY <1>1, <3>1, <3>2, SilentTwo
  <2> QED BY <2>1, <2>2
<1>7. CASE step[1] = "Emit"
  <2>1. step[2] \in OpCode \ {"Print"} /\ step[3] \in Nat \cup {-1}
    BY <1>1, <1>4, <1>7, StepParts
  <2> QED BY <1>1, <1>3, <1>7, <2>1, SilentEmit
<1>8. CASE step[1] = "Statement"
  <2>1. step[2] \in Stmts \cap quiet /\ step[2].kind # "Function"
    BY <1>1, <1>2, <1>4, <1>8, StepParts DEF step
  <2> QED BY <1>1, <1>3, <1>8, <2>1, SilentStatement
<1>9. CASE step[1] = "Block"
  BY <1>1, <1>3, <1>4, <1>9, SilentBlock
<1>10. CASE step[1] = "Store"
  <2>1. step[2] \in Names
    BY <1>1, <1>10, StepParts
  <2>2. String(step[2]) \in Value(0)
    BY <2>1, NameFits
  <2>3. d = EmitConstant(rest, "StoreVariable", String(step[2]))
    BY <1>3, <1>10 DEF EmitVariable
  <2> QED BY <1>1, <2>2, <2>3, SilentConstant DEF OpCode
<1>11. CASE step[1] \in {"Then", "EndThen", "Body"}
  <2>1. /\ step[2] \in Stmts \cap quiet
        /\ step[1] \in {"Then", "EndThen"} => step[2].kind = "If"
        /\ step[1] = "Body" => step[2].kind = "While"
        /\ step[1] \in {"EndThen", "Body"} => step[3] \in Nat
    BY <1>1, <1>4, <1>11, StepParts
  <2>2. CASE step[1] = "Then"
    <3>1. 0 \in Nat
      OBVIOUS
    <3> QED BY <1>1, <1>3, <2>1, <2>2, <3>1, SilentBranches
  <2>3. CASE step[1] = "EndThen"
    BY <1>1, <1>3, <2>1, <2>3, SilentBranches
  <2>4. CASE step[1] = "Body"
    BY <1>1, <1>3, <2>1, <2>4, SilentBranches
  <2> QED BY <1>11, <2>2, <2>3, <2>4
<1>12. CASE step[1] = "EndBody"
  <2>1. step[2] \in Nat /\ step[3] \in Nat
    BY <1>1, <1>12, StepParts
  <2> DEFINE e == Emit(rest, "Jump", step[2])
  <2>2. Silent(quiet, e) /\ e \in Object
    BY <1>1, <2>1, SilentEmit DEF OpCode
  <2>3. d = PatchJump(e, step[3])
    BY <1>3, <1>12 DEF EndBody
  <2> HIDE DEF e
  <2> QED BY <2>1, <2>2, <2>3, SilentPatch
<1>13. CASE step[1] = "Patch"
  <2>1. step[2] \in Nat
    BY <1>1, <1>13, StepParts
  <2> QED BY <1>1, <1>3, <1>13, <2>1, SilentPatch
<1> QED BY <1>1, <1>5, <1>6, <1>7, <1>8, <1>9, <1>10, <1>11, <1>12, <1>13, StepParts


\* The compiler of a function begins.
LEMMA SilentNew ==
  ASSUME NEW quiet, NEW handle, NEW statements \in Seq(quiet)
  PROVE  LET c == NewCompiler(handle, FALSE, statements)
         IN Silent(quiet, c) /\ QuietChunks(c.chunks)
<1> DEFINE c == NewCompiler(handle, FALSE, statements)
           agenda == <<Block(statements)>>
<1>1. c.echo = FALSE /\ c.code = <<>> /\ c.chunks = <<>> /\ c.agenda = agenda
  BY DEF NewCompiler, Block
<1>2. QuietStep(quiet, Block(statements))
  BY StepsQuiet
<1>3. QuietAgenda(quiet, agenda)
  BY <1>2 DEF QuietAgenda
<1> HIDE DEF c
<1>4. c.code \in Seq(QuietInstruction)
  BY <1>1
<1>5. QuietChunks(c.chunks)
  <2>1. DOMAIN c.chunks = {}
    BY <1>1
  <2> QED BY <2>1 DEF QuietChunks
<1> QED BY <1>1, <1>3, <1>4, <1>5 DEF Silent, c

\* A finished function is put with the others.
LEMMA SilentReturned ==
  ASSUME NEW quiet, NEW nested \in Object, Silent(quiet, nested), QuietChunks(nested.chunks),
         NEW chunks, QuietChunks(chunks), NEW parameters
  PROVE  QuietChunks(Joined(chunks, Joined(nested.chunks,
                                           ChunkOf(FunctionCompiled(nested), parameters))))
<1> DEFINE compiled == FunctionCompiled(nested)
           own == ChunkOf(compiled, parameters)
           table == Joined(nested.chunks, own)
           all == Joined(chunks, table)
<1>1. compiled.code \in Seq(QuietInstruction)
  BY SilentReturnNone DEF FunctionCompiled, Silent
<1> HIDE DEF compiled
<1>2. QuietChunks(own)
  BY <1>1 DEF ChunkOf, QuietChunks
<1> HIDE DEF own
<1>3. QuietChunks(table)
  BY <1>2 DEF Joined, QuietChunks
<1> HIDE DEF table
<1>4. QuietChunks(all)
  BY <1>3 DEF Joined, QuietChunks
<1> QED BY <1>4 DEF table, own, compiled

\* A constant changes no finished chunk.
LEMMA ConstantFields ==
  ASSUME NEW c \in Object, NEW op \in OpCode, NEW value \in Value(0)
  PROVE  LET d == EmitConstant(c, op, value) IN d \in Object /\ d.chunks = c.chunks
<1> DEFINE constants == Append(c.constants, value)
           e == [c EXCEPT !.constants = constants]
           n == Len(c.constants)
<1>1. constants \in Seq(Value(0)) /\ n \in Nat
  <2>1. c.constants \in Seq(Value(0))
    BY DEF Object
  <2> QED BY <2>1, AppendProperties, LenProperties
<1>2. EmitConstant(c, op, value) = Emit(e, op, n)
  BY DEF EmitConstant, Object
<1> HIDE DEF constants, n
<1>3. e \in Object /\ e.chunks = c.chunks
  BY <1>1 DEF Object
<1>4. [op |-> op, operand |-> n] \in PartialInstruction
  BY <1>1 DEF PartialInstruction
<1> HIDE DEF e
<1> QED BY <1>2, <1>3, <1>4, EmitFields

\* compile_function() in a compiler that does not echo either.
LEMMA SilentDefinition ==
  ASSUME NEW quiet, NEW c \in Object, Declares(c), NEW nested \in Object
  PROVE  LET d == CompileDefinition(c, nested)
         IN /\ Silent(quiet, c) => Silent(quiet, d)
            /\ d.chunks = Joined(c.chunks, Joined(nested.chunks,
                             ChunkOf(FunctionCompiled(nested), Declaration(c).parameters)))
<1> DEFINE s == Declaration(c)
           rest == [c EXCEPT !.agenda = Tail(@)]
           value == Function(nested.handle)
           loaded == EmitConstant(rest, "LoadConstant", value)
           name == String(s.name)
           stored == EmitConstant(loaded, "StoreVariable", name)
           table == Joined(nested.chunks, ChunkOf(FunctionCompiled(nested), s.parameters))
           d == CompileDefinition(c, nested)
<1>1. d = [stored EXCEPT !.chunks = Joined(@, table), !.failed = nested.failed]
  BY DEF CompileDefinition, EmitVariable
<1>2. value \in Value(0)
  BY DEF Function, Value, FunctionValue, Object
<1>3. c.agenda # <<>> /\ c.agenda \in Seq(Step)
  BY DEF Declares, Object
<1>4. s.name \in Names
  <2>1. Head(c.agenda) \in Step
    BY <1>3, HeadTailProperties, EmptySeq
  <2>2. Head(c.agenda)[1] = "Statement" /\ s = Head(c.agenda)[2] /\ s.kind = "Function"
    BY DEF Declares, Declaration
  <2>3. s \in Stmts
    BY <2>1, <2>2, StepParts
  <2> QED BY <2>2, <2>3, TreeAssumption DEF IsStatement
<1>5. name \in Value(0)
  BY <1>4, NameFits
<1>6. rest \in Object /\ rest.chunks = c.chunks
  <2>1. Tail(c.agenda) \in Seq(Step)
    BY <1>3, HeadTailProperties, EmptySeq
  <2> QED BY <2>1 DEF Object
<1>7. Silent(quiet, c) => Silent(quiet, rest)
  BY <1>3, SilentTake
<1> HIDE DEF table, value, rest, name
<1>8. loaded \in Object /\ loaded.chunks = c.chunks
  BY <1>2, <1>6, ConstantFields DEF OpCode
<1>9. Silent(quiet, c) => Silent(quiet, loaded)
  BY <1>2, <1>6, <1>7, SilentConstant DEF OpCode
<1> HIDE DEF loaded
<1>10. stored \in Object /\ stored.chunks = c.chunks
  BY <1>5, <1>8, ConstantFields DEF OpCode
<1>11. Silent(quiet, c) => Silent(quiet, stored)
  BY <1>5, <1>8, <1>9, SilentConstant DEF OpCode
<1> HIDE DEF stored, d
<1>12. /\ d.chunks = Joined(c.chunks, table) /\ d.code = stored.code
       /\ d.echo = stored.echo /\ d.agenda = stored.agenda
  BY <1>1, <1>10 DEF Object
<1>13. Silent(quiet, c) => Silent(quiet, d)
  BY <1>11, <1>12 DEF Silent
<1> QED BY <1>12, <1>13 DEF d, table, s

-----------------------------------------------------------------------------
(* A run of the compiler whose functions have no print statement. *)

\* The compilers of functions are silent, and the functions they finished.
Hushed(quiet) ==
  \A i \in 1..Nesting : /\ QuietChunks(compilers[i].chunks)
                        /\ i # 1 => Silent(quiet, compilers[i])

LEMMA InitHushed ==
  ASSUME NEW quiet, Init
  PROVE  Hushed(quiet)
<1>1. PICK program \in Programs : compilers = <<NewCompiler(Root, Echo, program)>>
  BY DEF Init
<1>2. Nesting = 1 /\ DOMAIN compilers[1].chunks = {}
  BY <1>1 DEF Nesting, NewCompiler
<1>3. QuietChunks(compilers[1].chunks)
  BY <1>2 DEF QuietChunks
<1> QED BY <1>2, <1>3 DEF Hushed

LEMMA CompileNextHushed ==
  ASSUME NEW quiet, Printless(quiet), IInv, Hushed(quiet), CompileNext
  PROVE  Hushed(quiet)'
<1> DEFINE c == Innermost
           d == Work(c)
           top == Nesting
<1>1. /\ top \in Nat \ {0} /\ top = Len(compilers) /\ c = compilers[top]
      /\ c \in Object /\ Sane(c)
  BY NestingBounds
<1>2. ~c.failed /\ c.agenda # <<>> /\ ~Declares(c) /\ compilers' = [compilers EXCEPT ![top] = d]
  BY <1>1 DEF CompileNext
<1>3. QuietChunks(c.chunks) /\ (top # 1 => Silent(quiet, c))
  <2>1. top \in 1..Nesting
    BY <1>1
  <2> HIDE DEF top, c
  <2> QED BY <1>1, <2>1 DEF Hushed
<1> HIDE DEF c, top
<1>4. Ready(c, DOMAIN c.chunks)
  BY <1>1, <1>2 DEF Sane, Sound
<1>5. d.chunks = c.chunks
  BY <1>2, <1>4, WorkReady DEF SameTable
<1>6. top # 1 => Silent(quiet, d)
  BY <1>1, <1>2, <1>3, SilentWork
<1> HIDE DEF d
<1>7. /\ Len(compilers') = top
      /\ \A i \in 1..top : compilers'[i] = IF i = top THEN d ELSE compilers[i]
  <2>1. compilers \in Seq(Object)
    BY DEF IInv
  <2> QED BY <1>1, <1>2, <2>1
<1>8. ASSUME NEW i \in 1..top
      PROVE  QuietChunks(compilers'[i].chunks) /\ (i # 1 => Silent(quiet, compilers'[i]))
  <2>1. CASE i = top
    BY <1>3, <1>5, <1>6, <1>7, <2>1
  <2>2. CASE i # top
    <3>1. compilers'[i] = compilers[i] /\ i \in 1..Nesting
      BY <1>1, <1>7, <2>2 DEF Nesting
    <3> QED BY <3>1 DEF Hushed
  <2> QED BY <2>1, <2>2
<1> QED BY <1>7, <1>8 DEF Hushed, Nesting

LEMMA BeginFunctionHushed ==
  ASSUME NEW quiet, Printless(quiet), IInv, Hushed(quiet), BeginFunction
  PROVE  Hushed(quiet)'
<1> DEFINE c == Innermost
           s == Declaration(c)
           d == Nested(c)
           top == Nesting
<1>1. /\ top \in Nat \ {0} /\ top = Len(compilers) /\ c \in Object
  BY NestingBounds
<1>2. Declares(c) /\ compilers' = Append(compilers, d)
  BY DEF BeginFunction
<1> HIDE DEF c, top
<1>3. s.body \in Seq(quiet)
  <2>1. c.agenda \in Seq(Step) /\ c.agenda # <<>>
    BY <1>1, <1>2 DEF Object, Declares
  <2>2. Head(c.agenda) \in Step
    BY <2>1, HeadTailProperties, EmptySeq
  <2>3. Head(c.agenda)[1] = "Statement" /\ s = Head(c.agenda)[2] /\ s.kind = "Function"
    BY <1>2 DEF Declares, Declaration
  <2>4. s \in Stmts
    BY <2>2, <2>3, StepParts
  <2> QED BY <2>3, <2>4 DEF Printless
<1>4. Silent(quiet, d) /\ QuietChunks(d.chunks)
  BY <1>3, SilentNew DEF Nested
<1> HIDE DEF d
<1>5. /\ Len(compilers') = top + 1 /\ compilers'[top + 1] = d
      /\ \A i \in 1..top : compilers'[i] = compilers[i]
  <2>1. compilers \in Seq(Object \cup {d})
    BY DEF IInv
  <2> QED BY <1>1, <1>2, <2>1, AppendProperties
<1>6. ASSUME NEW i \in 1..(top + 1)
      PROVE  QuietChunks(compilers'[i].chunks) /\ (i # 1 => Silent(quiet, compilers'[i]))
  <2>1. CASE i = top + 1
    BY <1>4, <1>5, <2>1
  <2>2. CASE i \in 1..top
    <3>1. compilers'[i] = compilers[i] /\ i \in 1..Nesting
      BY <1>1, <1>5, <2>2 DEF Nesting
    <3> QED BY <3>1 DEF Hushed
  <2> QED BY <1>1, <2>1, <2>2
<1> QED BY <1>5, <1>6 DEF Hushed, Nesting

LEMMA EndFunctionHushed ==
  ASSUME NEW quiet, IInv, Hushed(quiet), EndFunction
  PROVE  Hushed(quiet)'
<1> DEFINE top == Nesting
           nested == Innermost
           c == compilers[top - 1]
           d == CompileDefinition(c, nested)
           below == SubSeq(compilers, 1, top - 2)
<1>1. /\ top \in Nat /\ top = Len(compilers) /\ nested = compilers[top] /\ nested \in Object
  BY NestingBounds
<1>2. top > 1 /\ compilers' = Append(below, d)
  BY DEF EndFunction
<1>3. compilers \in Seq(Object)
  BY DEF IInv
<1>4. top \in 1..Nesting /\ top # 1 /\ top - 1 \in 1..Nesting /\ top - 1 \in 1..(Nesting - 1)
  BY <1>1, <1>2
<1> HIDE DEF nested, top
<1>5. Silent(quiet, nested) /\ QuietChunks(nested.chunks)
  BY <1>1, <1>4 DEF Hushed
<1>6. /\ c \in Object /\ Declares(c) /\ QuietChunks(c.chunks)
      /\ top - 1 # 1 => Silent(quiet, c)
  <2>1. c \in Object
    BY <1>3, <1>4 DEF Nesting
  <2>2. Declares(c)
    BY <1>4 DEF IInv
  <2> QED BY <1>4, <2>1, <2>2 DEF Hushed
<1> HIDE DEF c
<1>7. QuietChunks(d.chunks) /\ (top - 1 # 1 => Silent(quiet, d))
  BY <1>1, <1>5, <1>6, SilentDefinition, SilentReturned
<1> HIDE DEF d
<1>8. /\ below \in Seq(Object) /\ Len(below) = top - 2
      /\ \A i \in 1..(top - 2) : below[i] = compilers[i]
  <2>1. /\ 1 \in 1..(Len(compilers) + 1) /\ top - 2 \in 0..Len(compilers)
        /\ 1 <= (top - 2) + 1
    BY <1>1, <1>2
  <2> QED BY <1>1, <1>2, <1>3, <2>1
<1> HIDE DEF below
<1>9. /\ Len(compilers') = top - 1 /\ compilers'[top - 1] = d
      /\ \A i \in 1..(top - 2) : compilers'[i] = compilers[i]
  <2>1. below \in Seq(Object \cup {d})
    BY <1>8
  <2> QED BY <1>1, <1>2, <1>8, <2>1, AppendProperties
<1>10. ASSUME NEW i \in 1..(top - 1)
       PROVE  QuietChunks(compilers'[i].chunks) /\ (i # 1 => Silent(quiet, compilers'[i]))
  <2>1. CASE i = top - 1
    BY <1>7, <1>9, <2>1
  <2>2. CASE i \in 1..(top - 2)
    <3>1. compilers'[i] = compilers[i] /\ i \in 1..Nesting
      BY <1>1, <1>9, <2>2 DEF Nesting
    <3> QED BY <3>1 DEF Hushed
  <2> QED BY <1>1, <2>1, <2>2
<1> QED BY <1>9, <1>10 DEF Hushed, Nesting

\* Whatever else the program does, and whether or not it is compiled to echo:
\* when no function of it contains a print statement, no function of it prints
\* (README.md:64, compiler.cpp:21 and 131).
THEOREM OnlyThePromptEchoes ==
  ASSUME NEW quiet, Printless(quiet)
  PROVE  Spec => []OnlyTopLevelEchoes
<1>1. Init => Hushed(quiet)
  BY InitHushed
<1>2. IInv /\ Hushed(quiet) /\ [Next]_vars => Hushed(quiet)'
  <2> SUFFICES ASSUME IInv, Hushed(quiet), [Next]_vars PROVE Hushed(quiet)'
    OBVIOUS
  <2>1. CASE CompileNext
    BY <2>1, CompileNextHushed
  <2>2. CASE BeginFunction
    BY <2>2, BeginFunctionHushed
  <2>3. CASE EndFunction
    BY <2>3, EndFunctionHushed
  <2>4. CASE UNCHANGED vars
    BY <2>4 DEF Hushed, vars, Nesting
  <2> QED BY <2>1, <2>2, <2>3, <2>4 DEF Next
<1>3. Hushed(quiet) => OnlyTopLevelEchoes
  <2> SUFFICES ASSUME Hushed(quiet), NEW chunk \in FunctionsWritten, NEW i \in DOMAIN chunk.code
               PROVE  chunk.code[i].op # "Print"
    BY DEF OnlyTopLevelEchoes
  <2>1. PICK n \in 1..Nesting : chunk \in Functions(compilers[n])
    BY DEF FunctionsWritten
  <2>2. QuietChunks(compilers[n].chunks)
    BY DEF Hushed
  <2>3. chunk.code \in Seq(QuietInstruction)
    BY <2>1, <2>2 DEF Functions, QuietChunks
  <2>4. chunk.code[i] \in QuietInstruction
    BY <2>3
  <2> QED BY <2>4 DEF QuietInstruction
<1> QED BY <1>1, <1>2, <1>3, CompilersOnTheirWay, PTL DEF Spec
=============================================================================
