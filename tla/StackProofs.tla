---------------------------- MODULE StackProofs ----------------------------
(***************************************************************************)
(* The operand stack of the virtual machine, for every well-formed and     *)
(* balanced program: frames keep out of each other's operands, and pop()   *)
(* never meets an empty stack.                                             *)
(*                                                                         *)
(* StackDiscipline is not inductive as it stands.  A frame has to be       *)
(* inside its code, one of a function before the end of it (or EndOfCode   *)
(* would drop the frame without a result), and the bases have to ascend    *)
(* (or a frame that takes what its depth allows could take from a caller). *)
(* From that follows who owns the code that the frames run, the second     *)
(* part of this module, and that the machine implements CallStacks, the    *)
(* third: one stack for all calls looks like a stack for each.             *)
(***************************************************************************)
EXTENDS VirtualMachineProofs, StackRefinement, WellFoundedInduction

CodeOf(frame) == Chunk[frame.chunk].code

FramesInCode ==
  /\ \A i \in 1..Len(frames) : frames[i].instruction \in 0..Len(CodeOf(frames[i]))
  /\ \A i \in 2..Len(frames) :
       frames[i].chunk \in Handle /\ frames[i].instruction < Len(CodeOf(frames[i]))

Discipline == Running => FramesInCode /\ \E base : Bases(base)

-----------------------------------------------------------------------------
(* The four things a step can do. *)

InternalErrors == {"stack underflow", "unknown builtin"}

\* The program ends, not with an internal error.
Ends ==
  /\ ~Running'
  /\ \A u \in Units : outcome'[u] = outcome[u] \/ outcome'[u] \notin InternalErrors

\* The innermost frame goes to another place in its code.
MovesTo(target) ==
  /\ Len(frames') = Len(frames)
  /\ \A i \in 1..(Len(frames) - 1) : frames'[i] = frames[i]
  /\ frames'[Len(frames)].chunk = Frame.chunk
  /\ frames'[Len(frames)].instruction = target
  /\ target \in 0..Len(Code)
  /\ Len(frames) > 1 => target < Len(Code)
  /\ Len(stack') = Len(stack) - OperandsOf(Frame) + Depth[Frame.chunk][target]
  /\ \A i \in 1..(Len(stack) - OperandsOf(Frame)) : stack'[i] = stack[i]
  /\ UNCHANGED <<unit, outcome>>

\* A frame for a function is put on top of the one that calls it, with n arguments.
Enters(n) ==
  /\ Len(frames') = Len(frames) + 1
  /\ \A i \in 1..(Len(frames) - 1) : frames'[i] = frames[i]
  /\ frames'[Len(frames)].chunk = Frame.chunk
  /\ frames'[Len(frames)].instruction = Frame.instruction + 1
  /\ frames'[Len(frames) + 1].chunk \in Handle
  /\ frames'[Len(frames) + 1].instruction = 0
  /\ Frame.instruction + 1 <= Len(Code)
  /\ Len(frames) > 1 => Frame.instruction + 1 < Len(Code)
  /\ n + 1 <= OperandsOf(Frame)
  /\ Depth[Frame.chunk][Frame.instruction + 1] = OperandsOf(Frame) - n
  /\ Len(stack') = Len(stack) - (n + 1)
  /\ \A i \in 1..(Len(stack) - (n + 1)) : stack'[i] = stack[i]
  /\ UNCHANGED <<unit, outcome>>

\* The innermost frame is removed; its only operand is the result.
Leaves ==
  /\ Len(frames) > 1
  /\ frames' = Caller
  /\ OperandsOf(Frame) = 1
  /\ UNCHANGED <<stack, unit, outcome>>

-----------------------------------------------------------------------------
\* What the compiler promises of the instruction that is about to be executed.
LEMMA BalanceFacts ==
  ASSUME TypeOK, Discipline, NEW ops, Fetches(ops)
  PROVE  /\ Frame.instruction \in 0..(Len(Code) - 1)
         /\ Depth[Frame.chunk] \in [0..Len(Code) -> Nat]
         /\ OperandsOf(Frame) \in Nat /\ OperandsOf(Frame) <= Len(stack)
         /\ Pops(Instruction) <= OperandsOf(Frame)
         /\ Depth[Frame.chunk][Frame.instruction + 1]
              = OperandsOf(Frame) - Pops(Instruction) + Pushes(Instruction)
         /\ Instruction.op \in EndsStatement =>
              Depth[Frame.chunk][Frame.instruction + 1] = 0
         /\ Instruction.op \in {"Jump", "JumpIfFalse"} =>
              /\ Instruction.operand \in 0..Len(Code)
              /\ Depth[Frame.chunk][Instruction.operand] = 0
         /\ Len(frames) > 1 /\ Instruction.op # "Return" =>
              Frame.instruction + 1 < Len(Code)
         /\ Len(frames) > 1 /\ Instruction.op \in {"Jump", "JumpIfFalse"} =>
              Instruction.operand < Len(Code)
<1> DEFINE chunk == Chunk[Frame.chunk]
           depth == Depth[Frame.chunk]
           p == Frame.instruction
<1>1. /\ Running /\ p \in 0..(Len(Code) - 1) /\ Len(Code) \in Nat
      /\ Frame.chunk \in Handle \cup Units /\ Len(frames) \in Nat \ {0}
      /\ Frame = frames[Len(frames)]
      /\ OperandInRange(chunk, Instruction)
  <2>1. Running /\ p \in 0..(Len(Code) - 1) /\ OperandInRange(chunk, Instruction)
    BY FetchFacts
  <2>2. /\ Frame.chunk \in Handle \cup Units /\ Len(frames) \in Nat \ {0}
        /\ WellFormed(chunk)
    BY <2>1, FrameFacts
  <2>3. Len(Code) \in Nat
    BY <2>2 DEF WellFormed, Code
  <2> QED BY <2>1, <2>2, <2>3 DEF Frame
<1>2. Code = chunk.code /\ Instruction = chunk.code[p + 1] /\ OperandsOf(Frame) = depth[p]
  BY DEF Code, Instruction, OperandsOf
<1>3. Balanced(chunk, depth)
  BY <1>1, CompiledAssumption
<1> HIDE DEF chunk, depth
<1>4. depth \in [0..Len(Code) -> Nat] /\ BalancedAt(chunk, depth, p)
  BY <1>1, <1>2, <1>3 DEF Balanced
<1>5. /\ Pops(Instruction) <= depth[p]
      /\ depth[p + 1] = depth[p] - Pops(Instruction) + Pushes(Instruction)
      /\ Instruction.op \in EndsStatement => depth[p + 1] = 0
      /\ Instruction.op \in {"Jump", "JumpIfFalse"} => depth[Instruction.operand] = 0
  BY <1>2, <1>4 DEF BalancedAt
<1>6. depth[p] \in Nat /\ depth[p] <= Len(stack)
  <2>1. PICK base : Bases(base)
    BY <1>1 DEF Discipline
  <2>2. /\ Len(stack) = base[Len(frames)] + depth[p]
        /\ base[Len(frames)] \in Nat
    BY <1>1, <1>2, <2>1 DEF Bases
  <2>3. depth[p] \in Nat
    BY <1>1, <1>4
  <2> QED BY <2>2, <2>3
<1>7. ASSUME Instruction.op \in {"Jump", "JumpIfFalse"}
      PROVE  Instruction.operand \in 0..Len(Code)
  BY <1>1, <1>2, <1>7 DEF OperandInRange
<1>8. ASSUME Len(frames) > 1
      PROVE  /\ Instruction.op # "Return" => p + 1 < Len(Code)
             /\ Instruction.op \in {"Jump", "JumpIfFalse"} => Instruction.operand < Len(Code)
  <2>1. Frame.chunk \in Handle
    BY <1>1, <1>8 DEF Discipline, FramesInCode
  <2>2. AlwaysReturns(chunk)
    BY <2>1, CompiledAssumption DEF chunk
  <2>3. /\ chunk.code[Len(Code)].op = "Return"
        /\ \A i \in 1..Len(Code) : chunk.code[i].op \in {"Jump", "JumpIfFalse"} =>
             chunk.code[i].operand < Len(Code)
    BY <1>2, <2>2 DEF AlwaysReturns
  <2>4. p + 1 \in 1..Len(Code)
    BY <1>1
  <2>5. Instruction.op # "Return" => p + 1 # Len(Code)
    BY <1>2, <2>3
  <2>6. Instruction.op # "Return" => p + 1 < Len(Code)
    BY <1>1, <2>4, <2>5
  <2>7. Instruction.op \in {"Jump", "JumpIfFalse"} => Instruction.operand < Len(Code)
    BY <1>2, <2>3, <2>4
  <2> QED BY <2>6, <2>7
<1>9. OperandsOf(Frame) \in Nat /\ OperandsOf(Frame) <= Len(stack)
  BY <1>2, <1>6
<1> QED
  BY <1>1, <1>2, <1>4, <1>5, <1>7, <1>8, <1>9 DEF depth

-----------------------------------------------------------------------------
(* Each of the four keeps the discipline. *)

\* Facts about the frames that do not depend on the step.
LEMMA DisciplineFacts ==
  ASSUME TypeOK, Discipline, Running
  PROVE  /\ Len(frames) \in Nat \ {0} /\ Len(stack) \in Nat
         /\ FramesInCode
         /\ \E base : Bases(base)
         /\ Frame = frames[Len(frames)]
         /\ Code = CodeOf(Frame)
         /\ OperandsOf(Frame) = Depth[Frame.chunk][Frame.instruction]
<1>1. Len(frames) \in Nat \ {0}
  BY FrameFacts
<1>2. Len(stack) \in Nat
  BY DEF TypeOK
<1> QED
  BY <1>1, <1>2 DEF Discipline, Frame, Code, CodeOf, OperandsOf

\* The depths of a chunk are natural numbers.
LEMMA DepthType ==
  ASSUME NEW h \in Handle \cup Units
  PROVE  /\ Len(Chunk[h].code) \in Nat
         /\ Depth[h] \in [0..Len(Chunk[h].code) -> Nat]
         /\ Depth[h][0] = 0
<1>1. WellFormed(Chunk[h]) /\ Balanced(Chunk[h], Depth[h])
  BY CompiledAssumption
<1> QED BY <1>1 DEF WellFormed, Balanced

\* Going on, or jumping, within the innermost frame: the same bases fit.
LEMMA MovesKeepsDiscipline ==
  ASSUME TypeOK, TypeOK', Discipline, Running, NEW target, MovesTo(target)
  PROVE  Discipline'
<1> DEFINE k == Len(frames)
<1>1. /\ k \in Nat \ {0} /\ Len(stack) \in Nat /\ FramesInCode
      /\ Frame = frames[k] /\ Code = CodeOf(Frame)
  BY DisciplineFacts
<1>2. PICK base : Bases(base)
  BY DisciplineFacts
<1>3. /\ Len(frames') = k
      /\ \A i \in 1..(k - 1) : frames'[i] = frames[i]
      /\ frames'[k].chunk = Frame.chunk
      /\ frames'[k].instruction = target
      /\ target \in 0..Len(Code)
      /\ k > 1 => target < Len(Code)
      /\ Len(stack') = Len(stack) - OperandsOf(Frame) + Depth[Frame.chunk][target]
  BY DEF MovesTo
<1>4. Frame' = frames'[k] /\ OperandsOf(Frame') = Depth[Frame.chunk][target]
  BY <1>3 DEF Frame, OperandsOf
<1>5. Depth[Frame.chunk][target] \in Nat
  <2>1. Frame.chunk \in Handle \cup Units
    BY FrameFacts
  <2> QED BY <1>1, <1>3, <2>1, DepthType DEF CodeOf
<1>6. FramesInCode'
  <2>1. \A i \in 1..(k - 1) : frames'[i] = frames[i] /\ CodeOf(frames'[i]) = CodeOf(frames[i])
    BY <1>3
  <2>2. CodeOf(frames'[k]) = Code
    BY <1>1, <1>3 DEF CodeOf
  <2>3. \A i \in 1..k : frames'[i].instruction \in 0..Len(CodeOf(frames'[i]))
    BY <1>1, <1>3, <2>1, <2>2 DEF FramesInCode
  <2>4. \A i \in 2..k : frames'[i].chunk \in Handle /\ frames'[i].instruction < Len(CodeOf(frames'[i]))
    BY <1>1, <1>3, <2>1, <2>2 DEF FramesInCode
  <2> QED BY <1>3, <2>3, <2>4 DEF FramesInCode, CodeOf
<1>7. /\ base \in [1..k -> 0..Len(stack)]
      /\ base[1] = 0
      /\ \A i \in 1..(k - 1) : base[i + 1] = base[i] + OperandsOf(frames[i]) - 1
      /\ \A i, j \in 1..k : i <= j => base[i] <= base[j]
      /\ Len(stack) = base[k] + OperandsOf(Frame)
  BY <1>2 DEF Bases
<1>8. Len(stack') = base[k] + OperandsOf(Frame')
  <2>1. base[k] \in Nat
    BY <1>1, <1>7
  <2>2. OperandsOf(Frame) \in Nat
    BY <1>1, DepthType, FrameFacts, DisciplineFacts DEF FramesInCode, CodeOf
  <2> QED BY <1>1, <1>3, <1>4, <1>5, <1>7, <2>1, <2>2
<1>9. base \in [1..k -> 0..Len(stack')]
  <2>1. Len(stack') \in Nat /\ base[k] <= Len(stack')
    BY <1>1, <1>4, <1>5, <1>7, <1>8
  <2>2. \A i \in 1..k : base[i] \in 0..Len(stack')
    BY <1>1, <1>7, <2>1
  <2> QED BY <1>7, <2>2
<1>10. \A i \in 1..(k - 1) : OperandsOf(frames'[i]) = OperandsOf(frames[i])
  BY <1>3
<1>11. Bases(base)'
  BY <1>3, <1>4, <1>7, <1>8, <1>9, <1>10 DEF Bases
<1> QED BY <1>6, <1>11 DEF Discipline

\* A call: the new frame begins where the callee and its arguments were.
LEMMA EntersKeepsDiscipline ==
  ASSUME TypeOK, TypeOK', Discipline, Running, NEW n \in Nat, Enters(n)
  PROVE  Discipline'
<1> DEFINE k == Len(frames)
           callee == frames'[k + 1]
<1>1. /\ k \in Nat \ {0} /\ Len(stack) \in Nat /\ FramesInCode
      /\ Frame = frames[k] /\ Code = CodeOf(Frame)
      /\ Frame.chunk \in Handle \cup Units /\ Frame.instruction \in Nat
  BY DisciplineFacts, FrameFacts
<1>2. PICK base : Bases(base)
  BY DisciplineFacts
<1>3. /\ Len(frames') = k + 1
      /\ \A i \in 1..(k - 1) : frames'[i] = frames[i]
      /\ frames'[k].chunk = Frame.chunk
      /\ frames'[k].instruction = Frame.instruction + 1
      /\ callee.chunk \in Handle
      /\ callee.instruction = 0
      /\ Frame.instruction + 1 <= Len(Code)
      /\ k > 1 => Frame.instruction + 1 < Len(Code)
      /\ n + 1 <= OperandsOf(Frame)
      /\ Depth[Frame.chunk][Frame.instruction + 1] = OperandsOf(Frame) - n
      /\ Len(stack') = Len(stack) - (n + 1)
  BY DEF Enters
<1>4. /\ Len(CodeOf(callee)) \in Nat \ {0}
      /\ OperandsOf(callee) = 0
  <2>1. AlwaysReturns(Chunk[callee.chunk])
    BY <1>3, CompiledAssumption
  <2>2. WellFormed(Chunk[callee.chunk])
    BY <1>3, CompiledAssumption
  <2>3. Depth[callee.chunk][0] = 0
    BY <1>3, DepthType
  <2> QED BY <1>3, <2>1, <2>2, <2>3 DEF AlwaysReturns, WellFormed, CodeOf, OperandsOf
<1>5. FramesInCode'
  <2>1. \A i \in 1..(k - 1) : frames'[i] = frames[i] /\ CodeOf(frames'[i]) = CodeOf(frames[i])
    BY <1>3
  <2>2. CodeOf(frames'[k]) = Code
    BY <1>1, <1>3 DEF CodeOf
  <2> HIDE DEF callee
  <2>3. \A i \in 1..(k + 1) : i \in 1..(k - 1) \/ i = k \/ i = k + 1
    BY <1>1
  <2>4. ASSUME NEW i \in 1..(k + 1)
        PROVE  /\ frames'[i].instruction \in 0..Len(CodeOf(frames'[i]))
               /\ i >= 2 => frames'[i].chunk \in Handle /\ frames'[i].instruction < Len(CodeOf(frames'[i]))
    <3>1. CASE i \in 1..(k - 1)
      <4>1. /\ frames[i].instruction \in 0..Len(CodeOf(frames[i]))
            /\ i >= 2 => frames[i].chunk \in Handle /\ frames[i].instruction < Len(CodeOf(frames[i]))
        BY <1>1, <3>1 DEF FramesInCode
      <4> QED BY <2>1, <3>1, <4>1
    <3>2. Len(Code) \in Nat
      BY <1>1, DepthType DEF CodeOf
    <3>3. CASE i = k
      <4>1. k >= 2 => Frame.chunk \in Handle
        BY <1>1 DEF FramesInCode
      <4> QED BY <1>1, <1>3, <2>2, <3>2, <3>3, <4>1
    <3>4. CASE i = k + 1
      BY <1>3, <1>4, <3>4 DEF callee
    <3> QED BY <2>3, <3>1, <3>3, <3>4
  <2> QED BY <1>1, <1>3, <2>4 DEF FramesInCode, CodeOf
<1>6. /\ base \in [1..k -> 0..Len(stack)]
      /\ base[1] = 0
      /\ \A i \in 1..(k - 1) : base[i + 1] = base[i] + OperandsOf(frames[i]) - 1
      /\ \A i, j \in 1..k : i <= j => base[i] <= base[j]
      /\ Len(stack) = base[k] + OperandsOf(Frame)
  BY <1>2 DEF Bases
<1> DEFINE top == Len(stack) - (n + 1)
           above == [i \in 1..(k + 1) |-> IF i = k + 1 THEN top ELSE base[i]]
<1>7. OperandsOf(Frame) \in Nat
  BY <1>1, DepthType, DisciplineFacts DEF FramesInCode, CodeOf
<1>8. /\ base[k] \in Nat /\ base[k] <= top
      /\ top \in Nat /\ Len(stack') \in Nat /\ top <= Len(stack')
  BY <1>1, <1>3, <1>6, <1>7
<1>9. Frame' = callee /\ OperandsOf(frames'[k]) = OperandsOf(Frame) - n
  BY <1>3 DEF Frame, OperandsOf
<1>10. \A i \in 1..(k - 1) : OperandsOf(frames'[i]) = OperandsOf(frames[i])
  BY <1>3
<1> HIDE DEF callee, top
<1>11. \A i \in 1..k : base[i] \in Nat /\ base[i] <= base[k]
  BY <1>1, <1>6
<1>12. above \in [1..(k + 1) -> 0..Len(stack')]
  <2> SUFFICES ASSUME NEW i \in 1..(k + 1)
               PROVE  (IF i = k + 1 THEN top ELSE base[i]) \in 0..Len(stack')
    OBVIOUS
  <2>1. CASE i = k + 1
    BY <1>8, <2>1
  <2>2. CASE i # k + 1
    <3>1. i \in 1..k
      BY <1>1, <2>2
    <3>2. base[i] \in Nat /\ base[i] <= base[k]
      BY <1>11, <3>1
    <3> QED BY <1>8, <2>2, <3>2
  <2> QED BY <2>1, <2>2
<1>13. /\ \A i \in 1..k : above[i] = base[i]
       /\ above[k + 1] = top
  BY <1>1
<1> HIDE DEF above, k
<1>14. \A i \in 1..k : above[i + 1] = above[i] + OperandsOf(frames'[i]) - 1
  <2>1. ASSUME NEW i \in 1..(k - 1)
        PROVE  above[i + 1] = above[i] + OperandsOf(frames'[i]) - 1
    <3>1. i \in 1..k /\ i + 1 \in 1..k
      BY <1>1
    <3>2. above[i] = base[i] /\ above[i + 1] = base[i + 1]
      BY <1>13, <3>1
    <3> QED BY <1>6, <1>10, <3>2
  <2>2. above[k + 1] = above[k] + OperandsOf(frames'[k]) - 1
    <3>1. k \in 1..k /\ above[k] = base[k] /\ above[k + 1] = top
      BY <1>1, <1>13
    <3> QED BY <1>1, <1>6, <1>7, <1>8, <1>9, <3>1 DEF top
  <2>3. \A i \in 1..k : i \in 1..(k - 1) \/ i = k
    BY <1>1
  <2> QED BY <2>1, <2>2, <2>3
<1>15. \A i, j \in 1..(k + 1) : i <= j => above[i] <= above[j]
  <2>1. \A i \in 1..(k + 1) : i \in 1..k \/ i = k + 1
    BY <1>1
  <2>2. \A i \in 1..k : above[i] <= top
    BY <1>1, <1>8, <1>11, <1>13
  <2>3. \A i, j \in 1..k : i <= j => above[i] <= above[j]
    BY <1>6, <1>13
  <2>4. ~(k + 1 <= k) /\ top <= top
    BY <1>1, <1>8
  <2>5. ASSUME NEW i \in 1..(k + 1), NEW j \in 1..(k + 1), i <= j
        PROVE  above[i] <= above[j]
    <3>1. CASE j = k + 1
      BY <1>13, <2>1, <2>2, <2>4, <3>1
    <3>2. CASE j \in 1..k
      <4>1. i \in 1..k
        BY <1>1, <2>5, <3>2
      <4> QED BY <2>3, <2>5, <3>2, <4>1
    <3> QED BY <2>1, <3>1, <3>2
  <2> QED BY <2>5
<1>16. Len(stack') = above[k + 1] + OperandsOf(Frame')
  BY <1>1, <1>3, <1>4, <1>8, <1>9, <1>13 DEF top
<1>17. above[1] = 0
  <2>1. 1 \in 1..k
    BY <1>1
  <2> QED BY <1>6, <1>13, <2>1
<1>18. \E b : Bases(b)'
  <2>1. PICK b : b = above
    OBVIOUS
  <2>2. \A i \in 1..(Len(frames') - 1) : b[i + 1] = b[i] + OperandsOf(frames'[i]) - 1
    BY <1>1, <1>3, <1>14, <2>1
  <2>3. /\ b \in [1..Len(frames') -> 0..Len(stack')]
        /\ b[1] = 0
        /\ \A i, j \in 1..Len(frames') : i <= j => b[i] <= b[j]
        /\ Len(stack') = b[Len(frames')] + OperandsOf(Frame')
    BY <1>3, <1>12, <1>15, <1>16, <1>17, <2>1
  <2>4. Bases(b)'
    BY <2>2, <2>3 DEF Bases
  <2> QED BY <2>4
<1> QED BY <1>5, <1>18 DEF Discipline

\* A return: the result becomes the operand the caller was one short of.
LEMMA LeavesKeepsDiscipline ==
  ASSUME TypeOK, TypeOK', Discipline, Running, Leaves
  PROVE  Discipline'
<1> DEFINE k == Len(frames)
<1>1. /\ k \in Nat /\ k > 1 /\ Len(stack) \in Nat /\ FramesInCode
      /\ Frame = frames[k] /\ OperandsOf(Frame) = 1
  BY DisciplineFacts DEF Leaves
<1>2. PICK base : Bases(base)
  BY DisciplineFacts
<1>3. /\ Len(frames') = k - 1
      /\ \A i \in 1..(k - 1) : frames'[i] = frames[i]
      /\ stack' = stack
  BY CallerType DEF Leaves
<1>4. /\ base \in [1..k -> 0..Len(stack)]
      /\ base[1] = 0
      /\ \A i \in 1..(k - 1) : base[i + 1] = base[i] + OperandsOf(frames[i]) - 1
      /\ \A i, j \in 1..k : i <= j => base[i] <= base[j]
      /\ Len(stack) = base[k] + OperandsOf(Frame)
  BY <1>2 DEF Bases
<1> DEFINE below == [i \in 1..(k - 1) |-> base[i]]
<1>5. Frame' = frames[k - 1]
  BY <1>1, <1>3 DEF Frame
<1>6. Len(stack) = base[k - 1] + OperandsOf(frames[k - 1])
  <2>1. k - 1 \in 1..(k - 1) /\ (k - 1) + 1 = k
    BY <1>1
  <2>2. base[k] = base[k - 1] + OperandsOf(frames[k - 1]) - 1
    BY <1>4, <2>1
  <2>3. OperandsOf(frames[k - 1]) \in Int
    <3>1. frames[k - 1] \in FrameRecord(Len(heap))
      BY <2>1, <1>1 DEF TypeOK
    <3>2. frames[k - 1].chunk \in Handle \cup Units
      BY <3>1 DEF FrameRecord
    <3>3. frames[k - 1].instruction \in 0..Len(CodeOf(frames[k - 1]))
      BY <1>1 DEF FramesInCode
    <3> QED BY <3>2, <3>3, DepthType DEF OperandsOf, CodeOf
  <2>4. base[k - 1] \in Nat /\ base[k] \in Nat
    BY <1>1, <1>4
  <2> QED BY <1>1, <1>4, <2>2, <2>3, <2>4
<1>7. FramesInCode'
  <2>1. \A i \in 1..(k - 1) : frames'[i] = frames[i] /\ CodeOf(frames'[i]) = CodeOf(frames[i])
    BY <1>3
  <2>2. ASSUME NEW i \in 1..(k - 1)
        PROVE  /\ frames'[i].instruction \in 0..Len(CodeOf(frames'[i]))
               /\ i >= 2 => frames'[i].chunk \in Handle /\ frames'[i].instruction < Len(CodeOf(frames'[i]))
    <3>1. /\ frames[i].instruction \in 0..Len(CodeOf(frames[i]))
          /\ i >= 2 => frames[i].chunk \in Handle /\ frames[i].instruction < Len(CodeOf(frames[i]))
      BY <1>1 DEF FramesInCode
    <3> QED BY <2>1, <3>1
  <2> QED BY <1>1, <1>3, <2>2 DEF FramesInCode, CodeOf
<1>8. \E b : Bases(b)'
  <2>1. PICK b : b = below
    OBVIOUS
  <2>2. b \in [1..(k - 1) -> 0..Len(stack')] /\ \A i \in 1..(k - 1) : b[i] = base[i]
    BY <1>1, <1>3, <1>4, <2>1
  <2> HIDE DEF below
  <2>3. b[1] = 0
    BY <1>1, <1>4, <2>2
  <2>4. ASSUME NEW i \in 1..((k - 1) - 1)
        PROVE  b[i + 1] = b[i] + OperandsOf(frames'[i]) - 1
    <3>1. i \in 1..(k - 1) /\ i + 1 \in 1..(k - 1)
      BY <1>1
    <3>2. base[i + 1] = base[i] + OperandsOf(frames[i]) - 1
      BY <1>4, <3>1
    <3> QED BY <1>3, <2>2, <3>1, <3>2
  <2>5. \A i, j \in 1..(k - 1) : i <= j => b[i] <= b[j]
    <3>1. \A i \in 1..(k - 1) : i \in 1..k
      BY <1>1
    <3> QED BY <1>4, <2>2, <3>1
  <2>6. Len(stack') = b[k - 1] + OperandsOf(Frame')
    <3>1. k - 1 \in 1..(k - 1)
      BY <1>1
    <3> QED BY <1>3, <1>5, <1>6, <2>2, <3>1
  <2>7. Bases(b)'
    BY <1>3, <2>2, <2>3, <2>4, <2>5, <2>6 DEF Bases
  <2> QED BY <2>7
<1> QED BY <1>7, <1>8 DEF Discipline

\* A program starts with one frame and no operand (virtual_machine.cpp:33-35).
LEMMA ExecuteKeepsDiscipline ==
  ASSUME TypeOK, TypeOK', NEW u \in Units, Execute(u)
  PROVE  Discipline'
<1> DEFINE outermost == [chunk |-> u, instruction |-> 0, locals |-> NoBindings]
<1>1. stack' = <<>> /\ frames' = <<outermost>>
  BY DEF Execute
<1>2. /\ Len(frames') = 1 /\ frames'[1] = outermost /\ Len(stack') = 0
      /\ Frame' = outermost
  BY <1>1 DEF Frame
<1>3. Len(CodeOf(outermost)) \in Nat /\ OperandsOf(outermost) = 0
  BY DepthType DEF CodeOf, OperandsOf
<1>4. FramesInCode'
  BY <1>2, <1>3 DEF FramesInCode, CodeOf
<1>5. PICK b : b = [i \in 1..1 |-> 0]
  OBVIOUS
<1>6. Bases(b)'
  BY <1>2, <1>3, <1>5 DEF Bases
<1> QED BY <1>4, <1>6 DEF Discipline

\* When no program runs there is nothing to keep.
LEMMA EndsKeepsDiscipline ==
  ASSUME Ends PROVE Discipline'
BY DEF Ends, Discipline

-----------------------------------------------------------------------------
(* Every instruction does one of the four things. *)

\* Setting the instruction pointer touches the innermost frame only.
LEMMA GoToFacts ==
  ASSUME TypeOK, Running, NEW target
  PROVE  /\ Len(GoTo(target)) = Len(frames)
         /\ \A i \in 1..(Len(frames) - 1) : GoTo(target)[i] = frames[i]
         /\ GoTo(target)[Len(frames)].chunk = Frame.chunk
         /\ GoTo(target)[Len(frames)].instruction = target
<1>1. /\ frames \in Seq(FrameRecord(Len(heap))) /\ Len(frames) \in Nat \ {0}
      /\ Frame \in FrameRecord(Len(heap)) /\ Frame = frames[Len(frames)]
  BY FrameFacts DEF TypeOK, Frame
<1>2. GoTo(target) = [frames EXCEPT ![Len(frames)] = [Frame EXCEPT !.instruction = target]]
  BY <1>1 DEF GoTo
<1>3. /\ [Frame EXCEPT !.instruction = target].chunk = Frame.chunk
      /\ [Frame EXCEPT !.instruction = target].instruction = target
  BY <1>1 DEF FrameRecord
<1> QED BY <1>1, <1>2, <1>3

\* An instruction that goes on with the next one.
LEMMA Straight ==
  ASSUME TypeOK, Discipline, NEW ops, Fetches(ops), Instruction.op # "Return",
         Len(frames') = Len(frames),
         \A i \in 1..(Len(frames) - 1) : frames'[i] = frames[i],
         frames'[Len(frames)].chunk = Frame.chunk,
         frames'[Len(frames)].instruction = Frame.instruction + 1,
         Len(stack') = Len(stack) - Pops(Instruction) + Pushes(Instruction),
         \A i \in 1..(Len(stack) - Pops(Instruction)) : stack'[i] = stack[i],
         UNCHANGED <<unit, outcome>>
  PROVE  MovesTo(Frame.instruction + 1)
<1>1. Running
  BY DEF Fetches
<1>2. /\ Frame.instruction \in 0..(Len(Code) - 1)
      /\ OperandsOf(Frame) \in Nat /\ OperandsOf(Frame) <= Len(stack)
      /\ Pops(Instruction) <= OperandsOf(Frame)
      /\ Depth[Frame.chunk][Frame.instruction + 1]
           = OperandsOf(Frame) - Pops(Instruction) + Pushes(Instruction)
      /\ Len(frames) > 1 => Frame.instruction + 1 < Len(Code)
  BY BalanceFacts
<1>3. Len(stack) \in Nat /\ Len(Code) \in Nat
  <2>1. Len(stack) \in Nat
    BY <1>1, DisciplineFacts
  <2> QED BY <1>1, <2>1, FrameFacts, DepthType DEF Code
<1>4. Pops(Instruction) \in Nat /\ Pushes(Instruction) \in Nat
  <2>1. Instruction.operand \in Nat /\ ArgumentCount(Instruction.operand) \in Nat
    BY FetchFacts, BytecodeAssumption DEF ArgumentCount
  <2> QED BY <2>1 DEF Pops, Pushes
<1>5. Frame.instruction + 1 \in 0..Len(Code)
  BY <1>2, <1>3
<1>6. Len(stack') = Len(stack) - OperandsOf(Frame) + Depth[Frame.chunk][Frame.instruction + 1]
  BY <1>2, <1>3, <1>4
<1>7. \A i \in 1..(Len(stack) - OperandsOf(Frame)) : stack'[i] = stack[i]
  BY <1>2, <1>3, <1>4
<1> QED BY <1>2, <1>5, <1>6, <1>7 DEF MovesTo

\* An instruction that replaces n operands by a value.
LEMMA PushMoves ==
  ASSUME TypeOK, Discipline, NEW ops, Fetches(ops),
         Instruction.op \notin EndsStatement,
         NEW n, n = Pops(Instruction), n \in Nat, NEW value,
         stack' = Append(Below(n), value), frames' = Advanced,
         UNCHANGED <<unit, outcome>>
  PROVE  MovesTo(Frame.instruction + 1)
<1>1. Running /\ Instruction.op # "Return" /\ Pushes(Instruction) = 1
  BY DEF Fetches, EndsStatement, Pushes
<1>2. n \in 0..Len(stack)
  BY <1>1, BalanceFacts, DisciplineFacts
<1>3. /\ Below(n) \in Seq(Value(Len(heap))) /\ Len(Below(n)) = Len(stack) - n
      /\ \A i \in 1..(Len(stack) - n) : Below(n)[i] = stack[i]
  BY <1>2, StackType
<1>4. /\ Len(stack') = Len(stack) - n + 1
      /\ \A i \in 1..(Len(stack) - n) : stack'[i] = stack[i]
  BY <1>2, <1>3
<1>5. /\ Len(frames') = Len(frames)
      /\ \A i \in 1..(Len(frames) - 1) : frames'[i] = frames[i]
      /\ frames'[Len(frames)].chunk = Frame.chunk
      /\ frames'[Len(frames)].instruction = Frame.instruction + 1
  BY <1>1, GoToFacts DEF Advanced
<1> QED BY <1>1, <1>4, <1>5, Straight

\* An instruction that takes the only operand away and goes to a place where
\* there is none.
LEMMA DropMoves ==
  ASSUME TypeOK, Discipline, NEW ops, Fetches(ops), Pops(Instruction) = 1,
         Instruction.op \in EndsStatement, stack' = Below(1),
         NEW target, Depth[Frame.chunk][target] = 0, target \in 0..Len(Code),
         Len(frames) > 1 => target < Len(Code),
         Len(frames') = Len(frames),
         \A i \in 1..(Len(frames) - 1) : frames'[i] = frames[i],
         frames'[Len(frames)].chunk = Frame.chunk,
         frames'[Len(frames)].instruction = target,
         UNCHANGED <<unit, outcome>>
  PROVE  MovesTo(target)
<1>1. Running /\ Pushes(Instruction) = 0
  BY DEF Fetches, Pushes
<1>2. OperandsOf(Frame) = 1 /\ 1 <= Len(stack) /\ Len(stack) \in Nat
  BY <1>1, BalanceFacts, DisciplineFacts
<1>3. 1 \in 0..Len(stack)
  BY <1>2
<1>4. /\ Len(stack') = Len(stack) - 1
      /\ \A i \in 1..(Len(stack) - 1) : stack'[i] = stack[i]
  BY <1>3, StackType
<1>5. /\ Len(stack') = Len(stack) - OperandsOf(Frame) + Depth[Frame.chunk][target]
      /\ \A i \in 1..(Len(stack) - OperandsOf(Frame)) : stack'[i] = stack[i]
  BY <1>2, <1>4
<1> QED BY <1>5 DEF MovesTo

\* An error that is not an internal one ends the program.
LEMMA RaiseEnds ==
  ASSUME TypeOK, NEW error, error \notin InternalErrors, NEW rest, Raise(error, rest)
  PROVE  Ends
<1>1. unit' = NoUnit /\ outcome' = [outcome EXCEPT ![unit] = error]
  BY DEF Raise
<1>2. \A u \in Units : outcome'[u] = outcome[u] \/ outcome'[u] = error
  BY <1>1 DEF TypeOK
<1> QED BY <1>1, <1>2 DEF Ends, Running

\* So does the end of the process.
LEMMA KillEnds ==
  ASSUME TypeOK, Kill
  PROVE  Ends
<1>1. unit' = NoUnit /\ outcome' = [outcome EXCEPT ![unit] = "killed"]
  BY DEF Kill
<1>2. \A u \in Units : outcome'[u] = outcome[u] \/ outcome'[u] = "killed"
  BY <1>1 DEF TypeOK
<1> QED BY <1>1, <1>2 DEF Ends, Running, InternalErrors

\* And a failed allocation, in either of its ways.
LEMMA RunOutOfMemoryEnds ==
  ASSUME TypeOK, NEW n, RunOutOfMemory(n)
  PROVE  Ends
BY RaiseEnds, KillEnds DEF RunOutOfMemory, InternalErrors

\* There always are the operands that an instruction takes.
LEMMA NeverUnderflows ==
  ASSUME TypeOK, Discipline, NEW ops, Fetches(ops), NEW n, n = Pops(Instruction), n \in Nat
  PROVE  ~PopsFail(n) /\ ~CheckFails(n) /\ n \in 0..Len(stack)
<1>1. Running
  BY DEF Fetches
<1>2. n <= Len(stack) /\ Len(stack) \in Nat
  BY <1>1, BalanceFacts, DisciplineFacts
<1>3. ~(Len(stack) < n) /\ n \in 0..Len(stack)
  BY <1>2
<1> QED BY <1>3 DEF PopsFail, CheckFails

\* How many operands each instruction takes.
LEMMA PopsOf ==
  ASSUME NEW i
  PROVE  /\ i.op \in {"LoadConstant", "LoadVariable"} => Pops(i) = 0 /\ i.op \notin EndsStatement
         /\ i.op = "BuildList" => Pops(i) = i.operand /\ i.op \notin EndsStatement
         /\ i.op = "Builtin" => Pops(i) = ArgumentCount(i.operand) /\ i.op \notin EndsStatement
         /\ i.op = "Call" => Pops(i) = i.operand + 1 /\ i.op \notin EndsStatement
         /\ i.op = "Negate" => Pops(i) = 1 /\ i.op \notin EndsStatement
         /\ i.op \in Arithmetic \cup {"Compare"} => Pops(i) = 2 /\ i.op \notin EndsStatement
         /\ i.op = "Jump" => Pops(i) = 0 /\ i.op \in EndsStatement
         /\ i.op \in {"StoreVariable", "JumpIfFalse", "Return", "Print", "Pop"} =>
              Pops(i) = 1 /\ i.op \in EndsStatement
BY DEF Pops, EndsStatement, Arithmetic

\* What a step does.
Kind ==
  \/ Ends
  \/ \E target \in Nat : MovesTo(target)
  \/ \E n \in Nat : Enters(n)
  \/ Leaves

\* One lemma for the instructions that go on with the next one.
LEMMA GoesOn ==
  ASSUME TypeOK, Discipline, NEW ops, Fetches(ops), MovesTo(Frame.instruction + 1)
  PROVE  Kind
<1>1. Frame.instruction + 1 \in Nat
  BY BalanceFacts
<1> QED BY <1>1 DEF Kind

\* LoadConstant has one operand more at the next instruction (virtual_machine.cpp:44).
LEMMA LoadConstantKind ==
  ASSUME TypeOK, Discipline, LoadConstant PROVE Kind
<1>1. Fetches({"LoadConstant"}) /\ Push(0, Operand)
  BY DEF LoadConstant
<1>2. Pops(Instruction) = 0 /\ Instruction.op \notin EndsStatement
  BY <1>1, PopsOf DEF Fetches
<1>3. MovesTo(Frame.instruction + 1)
  BY <1>1, <1>2, PushMoves DEF Push
<1> QED BY <1>1, <1>3, GoesOn

\* LoadVariable too, or the name is undefined (virtual_machine.cpp:103-110).
LEMMA LoadVariableKind ==
  ASSUME TypeOK, Discipline, LoadVariable PROVE Kind
<1>1. /\ Fetches({"LoadVariable"})
      /\ (\E value : Push(0, value)) \/ Raise("undefined variable", stack)
  BY DEF LoadVariable
<1>2. Pops(Instruction) = 0 /\ Instruction.op \notin EndsStatement
  BY <1>1, PopsOf DEF Fetches
<1>3. CASE \E value : Push(0, value)
  <2>1. MovesTo(Frame.instruction + 1)
    <3>1. PICK value : Push(0, value)
      BY <1>3
    <3>2. /\ stack' = Append(Below(0), value) /\ frames' = Advanced
          /\ UNCHANGED <<unit, outcome>>
      BY <3>1 DEF Push
    <3>3. Fetches({"LoadVariable"}) /\ 0 \in Nat
      BY <1>1
    <3> QED BY <1>2, <3>2, <3>3, PushMoves
  <2> QED BY <1>1, <2>1, GoesOn
<1>4. CASE Raise("undefined variable", stack)
  BY <1>4, RaiseEnds DEF Kind, InternalErrors
<1> QED BY <1>1, <1>3, <1>4

\* BuildList replaces its elements by the list (virtual_machine.cpp:45-52).
LEMMA BuildListKind ==
  ASSUME TypeOK, Discipline, BuildList PROVE Kind
<1> DEFINE n == Instruction.operand
<1>1. /\ Fetches({"BuildList"})
      /\ CheckFails(n) \/ (Len(stack) >= n /\ PushList(n, Arguments(n)))
  BY DEF BuildList
<1>2. Pops(Instruction) = n /\ n \in Nat /\ Instruction.op \notin EndsStatement
  <2>1. Instruction.operand \in Nat
    BY <1>1, FetchFacts
  <2> QED BY <1>1, <2>1, PopsOf DEF Fetches
<1>3. PushList(n, Arguments(n))
  BY <1>1, <1>2, NeverUnderflows
<1>4. MovesTo(Frame.instruction + 1)
  BY <1>1, <1>2, <1>3, PushMoves DEF PushList
<1> QED BY <1>1, <1>4, GoesOn

\* Negate replaces its operand (virtual_machine.cpp:70-75).
LEMMA NegateKind ==
  ASSUME TypeOK, Discipline, Negate PROVE Kind
<1>1. /\ Fetches({"Negate"})
      /\ \/ PopsFail(1)
         \/ Push(1, Negation(Top)) \/ Raise("unary '-' requires a number", Below(1))
  BY DEF Negate
<1>2. Pops(Instruction) = 1 /\ Instruction.op \notin EndsStatement
  BY <1>1, PopsOf DEF Fetches
<1>3. ~PopsFail(1)
  BY <1>1, <1>2, NeverUnderflows
<1>4. CASE Push(1, Negation(Top))
  <2>1. MovesTo(Frame.instruction + 1)
    BY <1>1, <1>2, <1>4, PushMoves DEF Push
  <2> QED BY <1>1, <2>1, GoesOn
<1>5. CASE Raise("unary '-' requires a number", Below(1))
  BY <1>5, RaiseEnds DEF Kind, InternalErrors
<1> QED BY <1>1, <1>3, <1>4, <1>5

\* Arithmetic replaces two operands by one (virtual_machine.cpp:119-143).
LEMMA BinaryKind ==
  ASSUME TypeOK, Discipline, Binary PROVE Kind
<1> DEFINE op == Instruction.op
<1>1. Fetches(Arithmetic) /\ (PopsFail(2) \/ Compute(op, Second, Top))
  BY DEF Binary
<1>2. Pops(Instruction) = 2 /\ Instruction.op \notin EndsStatement
  BY <1>1, PopsOf DEF Fetches
<1>3. ~PopsFail(2)
  BY <1>1, <1>2, NeverUnderflows
<1>4. Compute(op, Second, Top)
  BY <1>1, <1>3
<1> HIDE DEF op
<1>5. \/ \E value : Push(2, value)
      \/ \E error : error \notin InternalErrors /\ Raise(error, Below(2))
      \/ Kill
  <2>1. ArithmeticError(op, Second, Top) \notin InternalErrors
    BY DEF ArithmeticError, InternalErrors
  <2> QED BY <1>4, <2>1 DEF Compute
<1>6. CASE \E value : Push(2, value)
  <2>1. MovesTo(Frame.instruction + 1)
    BY <1>1, <1>2, <1>6, PushMoves DEF Push
  <2> QED BY <1>1, <2>1, GoesOn
<1> QED BY <1>5, <1>6, RaiseEnds, KillEnds DEF Kind

\* So does a comparison (virtual_machine.cpp:145-159).
LEMMA CompareKind ==
  ASSUME TypeOK, Discipline, Compare PROVE Kind
<1>1. /\ Fetches({"Compare"})
      /\ \/ PopsFail(2)
         \/ \E value : Push(2, value)
         \/ Raise("comparison requires numeric operands", Below(2))
  BY DEF Compare
<1>2. Pops(Instruction) = 2 /\ Instruction.op \notin EndsStatement
  BY <1>1, PopsOf DEF Fetches
<1>3. ~PopsFail(2)
  BY <1>1, <1>2, NeverUnderflows
<1>4. CASE \E value : Push(2, value)
  <2>1. MovesTo(Frame.instruction + 1)
    BY <1>1, <1>2, <1>4, PushMoves DEF Push
  <2> QED BY <1>1, <2>1, GoesOn
<1>5. CASE Raise("comparison requires numeric operands", Below(2))
  BY <1>5, RaiseEnds DEF Kind, InternalErrors
<1> QED BY <1>1, <1>3, <1>4, <1>5

\* The next instruction is reached, with no operand left, by one that ends a statement.
LEMMA DropsToNext ==
  ASSUME TypeOK, Discipline, NEW ops, Fetches(ops), Pops(Instruction) = 1,
         Instruction.op \in EndsStatement, Instruction.op # "Return", stack' = Below(1),
         Len(frames') = Len(frames),
         \A i \in 1..(Len(frames) - 1) : frames'[i] = frames[i],
         frames'[Len(frames)].chunk = Frame.chunk,
         frames'[Len(frames)].instruction = Frame.instruction + 1,
         UNCHANGED <<unit, outcome>>
  PROVE  Kind
<1>1. /\ Frame.instruction \in 0..(Len(Code) - 1)
      /\ Depth[Frame.chunk][Frame.instruction + 1] = 0
      /\ Len(frames) > 1 => Frame.instruction + 1 < Len(Code)
  BY BalanceFacts
<1>2. Len(Code) \in Nat
  BY FrameFacts, DepthType DEF Code, Fetches
<1>3. Frame.instruction + 1 \in 0..Len(Code)
  BY <1>1, <1>2
<1>4. MovesTo(Frame.instruction + 1)
  BY <1>1, <1>3, DropMoves
<1> QED BY <1>4, GoesOn

\* StoreVariable takes the last operand of its statement (virtual_machine.cpp:112-117).
LEMMA StoreVariableKind ==
  ASSUME TypeOK, Discipline, StoreVariable PROVE Kind
<1>1. Fetches({"StoreVariable"})
  BY DEF StoreVariable
<1>2. Pops(Instruction) = 1 /\ Instruction.op \in EndsStatement /\ Instruction.op # "Return" /\ Running
  BY <1>1, PopsOf DEF Fetches
<1>3. ~PopsFail(1)
  BY <1>1, <1>2, NeverUnderflows
<1>4. /\ stack' = Below(1) /\ UNCHANGED <<unit, outcome>>
      /\ \/ frames' = Advanced
         \/ frames' = [Advanced EXCEPT ![Len(frames)].locals[Operand.text] = Top]
  BY <1>3 DEF StoreVariable
<1>5. /\ Len(Advanced) = Len(frames) /\ Len(frames) \in Nat \ {0}
      /\ \A i \in 1..(Len(frames) - 1) : Advanced[i] = frames[i]
      /\ Advanced[Len(frames)].chunk = Frame.chunk
      /\ Advanced[Len(frames)].instruction = Frame.instruction + 1
      /\ Advanced \in Seq(FrameRecord(Len(heap)))
  BY <1>2, GoToFacts, FrameFacts, AdvancedType DEF Advanced
<1>6. /\ Len(frames') = Len(frames)
      /\ \A i \in 1..(Len(frames) - 1) : frames'[i] = frames[i]
      /\ frames'[Len(frames)].chunk = Frame.chunk
      /\ frames'[Len(frames)].instruction = Frame.instruction + 1
  <2>1. CASE frames' = Advanced
    BY <1>5, <2>1
  <2>2. CASE frames' = [Advanced EXCEPT ![Len(frames)].locals[Operand.text] = Top]
    <3> DEFINE k == Len(frames)
               last == Advanced[k]
               bound == [last EXCEPT !.locals = [last.locals EXCEPT ![Operand.text] = Top]]
    <3>1. last \in FrameRecord(Len(heap))
      BY <1>5
    <3>2. bound.chunk = last.chunk /\ bound.instruction = last.instruction
      BY <3>1 DEF FrameRecord
    <3>3. frames' = [Advanced EXCEPT ![k] = bound]
      BY <2>2
    <3> HIDE DEF bound
    <3>4. Len(frames') = k /\ frames'[k] = bound /\ \A i \in 1..(k - 1) : frames'[i] = Advanced[i]
      BY <1>5, <3>3
    <3> QED BY <1>5, <3>2, <3>4
  <2> QED BY <1>4, <2>1, <2>2
<1> QED BY <1>1, <1>2, <1>4, <1>6, DropsToNext

\* So does Pop (virtual_machine.cpp:90).
LEMMA PopKind ==
  ASSUME TypeOK, Discipline, Pop PROVE Kind
<1>1. Fetches({"Pop"})
  BY DEF Pop
<1>2. Pops(Instruction) = 1 /\ Instruction.op \in EndsStatement /\ Instruction.op # "Return" /\ Running
  BY <1>1, PopsOf DEF Fetches
<1>3. ~PopsFail(1)
  BY <1>1, <1>2, NeverUnderflows
<1>4. stack' = Below(1) /\ UNCHANGED <<unit, outcome>> /\ frames' = Advanced
  BY <1>3 DEF Pop
<1> QED BY <1>1, <1>2, <1>4, GoToFacts, DropsToNext DEF Advanced

\* So does Print (virtual_machine.cpp:89).
LEMMA PrintTopKind ==
  ASSUME TypeOK, Discipline, PrintTop PROVE Kind
<1>1. Fetches({"Print"})
  BY DEF PrintTop
<1>2. Pops(Instruction) = 1 /\ Instruction.op \in EndsStatement /\ Instruction.op # "Return" /\ Running
  BY <1>1, PopsOf DEF Fetches
<1>3. ~PopsFail(1)
  BY <1>1, <1>2, NeverUnderflows
<1>4. stack' = Below(1) /\ UNCHANGED <<unit, outcome>> /\ frames' = Advanced
  BY <1>3 DEF PrintTop
<1> QED BY <1>1, <1>2, <1>4, GoToFacts, DropsToNext DEF Advanced

\* A jump goes from one place without operands to another (virtual_machine.cpp:77).
LEMMA JumpKind ==
  ASSUME TypeOK, Discipline, Jump PROVE Kind
<1> DEFINE target == Instruction.operand
<1>1. /\ Fetches({"Jump"}) /\ frames' = GoTo(target)
      /\ UNCHANGED <<stack, unit, outcome>>
  BY DEF Jump
<1>2. /\ Pops(Instruction) = 0 /\ Pushes(Instruction) = 0
      /\ Instruction.op \in {"Jump", "JumpIfFalse"} /\ Running
      /\ Instruction.op \in EndsStatement
  BY <1>1, PopsOf DEF Fetches, Pushes, EndsStatement
<1>3. /\ target \in 0..Len(Code) /\ Depth[Frame.chunk][target] = 0
      /\ Len(frames) > 1 => target < Len(Code)
      /\ OperandsOf(Frame) \in Nat
      /\ Depth[Frame.chunk][Frame.instruction + 1] = OperandsOf(Frame) - 0 + 0
      /\ Depth[Frame.chunk][Frame.instruction + 1] = 0
  BY <1>1, <1>2, BalanceFacts
<1>4. OperandsOf(Frame) = 0
  BY <1>3
<1>5. Len(stack') = Len(stack) - OperandsOf(Frame) + Depth[Frame.chunk][target]
  BY <1>1, <1>2, <1>3, <1>4, DisciplineFacts
<1> HIDE DEF target
<1>6. MovesTo(target)
  BY <1>1, <1>2, <1>3, <1>5, GoToFacts DEF MovesTo
<1> QED BY <1>3, <1>6 DEF Kind

\* So does a conditional jump, once it has its condition (virtual_machine.cpp:78-80).
LEMMA JumpIfFalseKind ==
  ASSUME TypeOK, Discipline, JumpIfFalse PROVE Kind
<1> DEFINE target == Instruction.operand
<1>1. Fetches({"JumpIfFalse"})
  BY DEF JumpIfFalse
<1>2. /\ Pops(Instruction) = 1 /\ Instruction.op # "Return" /\ Running
      /\ Instruction.op \in EndsStatement /\ Instruction.op \in {"Jump", "JumpIfFalse"}
  BY <1>1, PopsOf DEF Fetches
<1>3. ~PopsFail(1)
  BY <1>1, <1>2, NeverUnderflows
<1>4. /\ stack' = Below(1) /\ UNCHANGED <<unit, outcome>>
      /\ frames' = Advanced \/ frames' = GoTo(target)
  BY <1>3 DEF JumpIfFalse
<1>5. CASE frames' = Advanced
  BY <1>1, <1>2, <1>4, <1>5, GoToFacts, DropsToNext DEF Advanced
<1>6. CASE frames' = GoTo(target)
  <2>1. /\ target \in 0..Len(Code) /\ Depth[Frame.chunk][target] = 0
        /\ Len(frames) > 1 => target < Len(Code)
    BY <1>1, <1>2, BalanceFacts
  <2> HIDE DEF target
  <2>2. MovesTo(target)
    BY <1>1, <1>2, <1>4, <1>6, <2>1, GoToFacts, DropMoves
  <2> QED BY <2>1, <2>2 DEF Kind
<1> QED BY <1>4, <1>5, <1>6

\* A built-in replaces its arguments by its result, and always exists
\* (virtual_machine.cpp:53-65, builtins.cpp:14-55).
LEMMA CallBuiltinKind ==
  ASSUME TypeOK, Discipline, CallBuiltin PROVE Kind
<1> DEFINE n == ArgumentCount(Instruction.operand)
           number == BuiltinNumber(Instruction.operand) + 1
<1>1. Fetches({"Builtin"})
  BY DEF CallBuiltin
<1>2. /\ Pops(Instruction) = n /\ n \in Nat /\ Instruction.op \notin EndsStatement
      /\ Instruction.op = "Builtin" /\ Running
  <2>1. Instruction.operand \in Nat
    BY <1>1, FetchFacts
  <2>2. n \in Nat
    BY <2>1, BytecodeAssumption DEF ArgumentCount
  <2> QED BY <1>1, <2>2, PopsOf DEF Fetches
<1>3. number \in 1..3
  <2>1. OperandInRange(Chunk[Frame.chunk], Instruction)
    BY <1>1, FetchFacts
  <2>2. BuiltinNumber(Instruction.operand) \in 0..2
    BY <1>2, <2>1 DEF OperandInRange
  <2> QED BY <2>2
<1>4. ~CheckFails(n) /\ n \in 0..Len(stack)
  BY <1>1, <1>2, NeverUnderflows
<1>5. InvokeBuiltin(BuiltinOfNumber[number], Arguments(n))
  BY <1>3, <1>4 DEF CallBuiltin
<1>6. BuiltinOfNumber[number] \in Builtin /\ Len(Arguments(n)) = n
  BY <1>3, <1>4, StackType DEF BuiltinOfNumber, Builtin
<1> HIDE DEF n, number
<1>7. \/ Raise("built-in rejects its arguments", Below(n))
      \/ RunOutOfMemory(n)
      \/ \E value : Push(n, value)
      \/ \E elements : PushList(n, elements)
  BY <1>5, <1>6 DEF InvokeBuiltin, Builtin
<1>8. CASE Raise("built-in rejects its arguments", Below(n))
  BY <1>8, RaiseEnds DEF Kind, InternalErrors
<1>9. CASE RunOutOfMemory(n)
  BY <1>9, RunOutOfMemoryEnds DEF Kind
<1>10. CASE (\E value : Push(n, value)) \/ (\E elements : PushList(n, elements))
  <2>1. PICK value : /\ stack' = Append(Below(n), value) /\ frames' = Advanced
                     /\ UNCHANGED <<unit, outcome>>
    BY <1>10 DEF Push, PushList
  <2>2. MovesTo(Frame.instruction + 1)
    BY <1>1, <1>2, <2>1, PushMoves
  <2> QED BY <1>1, <2>2, GoesOn
<1> QED BY <1>7, <1>8, <1>9, <1>10

\* A call enters a function or fails (virtual_machine.cpp:161-172).
LEMMA CallKind ==
  ASSUME TypeOK, Discipline, Call PROVE Kind
<1> DEFINE n == Instruction.operand
           callee == stack[Len(stack) - n]
           parameters == Chunk[callee.function].parameters
           entered == [chunk |-> callee.function, instruction |-> 0,
                       locals |-> Locals(parameters, Arguments(n))]
<1>1. Fetches({"Call"})
  BY DEF Call
<1>2. /\ Pops(Instruction) = n + 1 /\ n \in Nat /\ Instruction.op \notin EndsStatement
      /\ Instruction.op = "Call" /\ Running /\ Pushes(Instruction) = 1
  <2>1. Instruction.operand \in Nat
    BY <1>1, FetchFacts
  <2>2. Instruction.op = "Call" /\ Running
    BY <1>1 DEF Fetches
  <2> QED BY <2>1, <2>2, PopsOf DEF Pushes
<1>3. ~CheckFails(n + 1) /\ n + 1 \in 0..Len(stack)
  BY <1>1, <1>2, NeverUnderflows
<1>4. \/ Raise("can only call compiled functions", Below(n + 1))
      \/ Raise("incorrect number of function arguments", Below(n + 1))
      \/ RunOutOfMemory(n + 1)
      \/ /\ callee.tag = "Function"
         /\ stack' = Below(n + 1) /\ frames' = Append(Advanced, entered)
         /\ UNCHANGED <<unit, outcome>>
  BY <1>3 DEF Call
<1>5. CASE \/ Raise("can only call compiled functions", Below(n + 1))
           \/ Raise("incorrect number of function arguments", Below(n + 1))
  BY <1>5, RaiseEnds DEF Kind, InternalErrors
<1>6. CASE RunOutOfMemory(n + 1)
  BY <1>6, RunOutOfMemoryEnds DEF Kind
<1>7. CASE /\ callee.tag = "Function"
           /\ stack' = Below(n + 1) /\ frames' = Append(Advanced, entered)
           /\ UNCHANGED <<unit, outcome>>
  <2>1. callee \in Value(Len(heap))
    <3>1. n \in 0..Len(stack) /\ n < Len(stack)
      BY <1>2, <1>3
    <3> QED BY <3>1, StackType
  <2>2. entered.chunk \in Handle /\ entered.instruction = 0
    BY <1>7, <2>1 DEF Value, PlainValue, IntegerValue, FloatValue, StringValue, FunctionValue
  <2> HIDE DEF entered, callee
  <2>3. /\ Len(Advanced) = Len(frames) /\ Len(frames) \in Nat \ {0}
        /\ \A i \in 1..(Len(frames) - 1) : Advanced[i] = frames[i]
        /\ Advanced[Len(frames)].chunk = Frame.chunk
        /\ Advanced[Len(frames)].instruction = Frame.instruction + 1
        /\ Advanced \in Seq(FrameRecord(Len(heap)))
    BY <1>2, GoToFacts, FrameFacts, AdvancedType DEF Advanced
  <2>4. /\ Len(frames') = Len(frames) + 1
        /\ \A i \in 1..(Len(frames) - 1) : frames'[i] = frames[i]
        /\ frames'[Len(frames)] = Advanced[Len(frames)]
        /\ frames'[Len(frames) + 1] = entered
    BY <1>7, <2>3
  <2>5. /\ Len(stack') = Len(stack) - (n + 1)
        /\ \A i \in 1..(Len(stack) - (n + 1)) : stack'[i] = stack[i]
    BY <1>3, <1>7, StackType
  <2>6. /\ Frame.instruction \in 0..(Len(Code) - 1)
        /\ n + 1 <= OperandsOf(Frame) /\ OperandsOf(Frame) \in Nat
        /\ Depth[Frame.chunk][Frame.instruction + 1] = OperandsOf(Frame) - (n + 1) + 1
        /\ Len(frames) > 1 => Frame.instruction + 1 < Len(Code)
    BY <1>1, <1>2, BalanceFacts
  <2>7. Len(Code) \in Nat
    BY <1>2, FrameFacts, DepthType DEF Code
  <2>8. /\ Frame.instruction + 1 <= Len(Code)
        /\ Depth[Frame.chunk][Frame.instruction + 1] = OperandsOf(Frame) - n
    BY <1>2, <2>6, <2>7
  <2> HIDE DEF n
  <2>9. Enters(n)
    BY <1>7, <2>2, <2>3, <2>4, <2>5, <2>6, <2>8 DEF Enters
  <2> QED BY <1>2, <2>9 DEF Kind
<1> QED BY <1>4, <1>5, <1>6, <1>7

\* A return leaves the function, or the program when there is none (virtual_machine.cpp:82-88).
LEMMA ReturnKind ==
  ASSUME TypeOK, Discipline, Return PROVE Kind
<1>1. Fetches({"Return"})
  BY DEF Return
<1>2. /\ Pops(Instruction) = 1 /\ Pushes(Instruction) = 0 /\ Running
      /\ Instruction.op \in EndsStatement
  BY <1>1, PopsOf DEF Fetches, Pushes
<1>3. ~PopsFail(1)
  BY <1>1, <1>2, NeverUnderflows
<1>4. CASE Len(frames) = 1
  <2>1. Raise("'return' outside a function", Below(1))
    BY <1>3, <1>4 DEF Return
  <2> QED BY <2>1, RaiseEnds DEF Kind, InternalErrors
<1>5. CASE Len(frames) # 1
  <2>1. frames' = Caller /\ UNCHANGED <<stack, unit, outcome>>
    BY <1>3, <1>5 DEF Return
  <2>2. Len(frames) > 1
    <3>1. Len(frames) \in Nat \ {0}
      BY <1>2, FrameFacts
    <3>2. \A k \in Nat \ {0} : k # 1 => k > 1
      OBVIOUS
    <3> QED BY <1>5, <3>1, <3>2
  <2>3. /\ OperandsOf(Frame) \in Nat
        /\ Depth[Frame.chunk][Frame.instruction + 1] = OperandsOf(Frame) - 1 + 0
        /\ Depth[Frame.chunk][Frame.instruction + 1] = 0
    BY <1>1, <1>2, BalanceFacts
  <2>4. OperandsOf(Frame) = 1
    BY <2>3
  <2> QED BY <2>1, <2>2, <2>4 DEF Kind, Leaves
<1> QED BY <1>4, <1>5

\* Only the outermost frame reaches the end of its code (virtual_machine.cpp:38-41).
LEMMA EndOfCodeKind ==
  ASSUME TypeOK, Discipline, EndOfCode PROVE Kind
<1>1. Running /\ Frame.instruction >= Len(Code)
  BY DEF EndOfCode
<1>2. /\ Len(frames) \in Nat \ {0} /\ Frame = frames[Len(frames)] /\ FramesInCode
      /\ Code = CodeOf(Frame)
  BY <1>1, DisciplineFacts
<1>3. Len(Code) \in Nat /\ Frame.instruction \in Nat
  BY <1>1, FrameFacts, DepthType DEF Code
<1>4. Len(frames) = 1
  <2>1. Len(frames) \in 2..Len(frames) => Frame.instruction < Len(Code)
    BY <1>2 DEF FramesInCode
  <2>2. Len(frames) \notin 2..Len(frames)
    BY <1>1, <1>3, <2>1
  <2>3. Len(frames) \in Nat \ {0}
    BY <1>2
  <2>4. \A k \in Nat \ {0} : k \notin 2..k => k = 1
    OBVIOUS
  <2> QED BY <2>2, <2>3, <2>4
<1>5. unit' = NoUnit /\ outcome' = [outcome EXCEPT ![unit] = "finished"]
  BY <1>4 DEF EndOfCode
<1>6. \A u \in Units : outcome'[u] = outcome[u] \/ outcome'[u] = "finished"
  BY <1>5 DEF TypeOK
<1> QED BY <1>5, <1>6 DEF Kind, Ends, Running, InternalErrors

\* Every step of the dispatch loop is of one of the four kinds.
LEMMA StepKind ==
  ASSUME TypeOK, Discipline, Step PROVE Kind /\ Running
<1>1. Kind
  BY LoadConstantKind, LoadVariableKind, StoreVariableKind, BuildListKind, PopKind,
     PrintTopKind, NegateKind, BinaryKind, CompareKind, JumpKind, JumpIfFalseKind,
     CallBuiltinKind, CallKind, ReturnKind, EndOfCodeKind DEF Step
<1>2. Running
  BY DEF Step, Fetches, LoadConstant, LoadVariable, StoreVariable, BuildList, Pop,
     PrintTop, Negate, Binary, Compare, Jump, JumpIfFalse, CallBuiltin, Call, Return,
     EndOfCode
<1> QED BY <1>1, <1>2

-----------------------------------------------------------------------------
(* The results. *)

\* The inductive invariant.
THEOREM Disciplined == Spec => [](TypeOK /\ Discipline)
<1>1. Init => Discipline
  BY DEF Init, Discipline, Running
<1>2. ASSUME TypeOK, TypeOK', Discipline, [Next]_vars PROVE Discipline'
  <2>1. CASE Step
    <3>1. Kind /\ Running
      BY <1>2, <2>1, StepKind
    <3> QED BY <1>2, <3>1, EndsKeepsDiscipline, MovesKeepsDiscipline,
               EntersKeepsDiscipline, LeavesKeepsDiscipline DEF Kind
  <2>2. CASE \E u \in Units : Execute(u)
    BY <1>2, <2>2, ExecuteKeepsDiscipline
  <2>3. CASE UNCHANGED vars
    <3>1. UNCHANGED <<stack, frames, unit>>
      BY <2>3 DEF vars
    <3> QED BY <1>2, <3>1 DEF Discipline, Running, FramesInCode, CodeOf, Bases, OperandsOf, Frame
  <2> QED BY <1>2, <2>1, <2>2, <2>3 DEF Next
<1> QED BY <1>1, <1>2, TypeCorrect, PTL DEF Spec

\* The operand stack is the operands of the frames, one above the other.
THEOREM StackIsDisciplined == Spec => []StackDiscipline
<1>1. Discipline => StackDiscipline
  BY DEF Discipline, StackDiscipline, Bases
<1> QED BY <1>1, Disciplined, PTL

\* pop() never meets an empty stack and no built-in is unknown.
THEOREM InternalErrorsNeverHappen == Spec => []NoInternalError
<1>1. Init => NoInternalError
  BY DEF Init, NoInternalError
<1>2. ASSUME TypeOK, Discipline, NoInternalError, [Next]_vars PROVE NoInternalError'
  <2>1. CASE Step
    <3>1. Kind
      BY <1>2, <2>1, StepKind
    <3>2. \A u \in Units : outcome'[u] = outcome[u] \/ outcome'[u] \notin InternalErrors
      BY <3>1 DEF Kind, Ends, MovesTo, Enters, Leaves
    <3> QED BY <1>2, <3>2 DEF NoInternalError, InternalErrors
  <2>2. CASE \E u \in Units : Execute(u)
    BY <1>2, <2>2 DEF Execute, NoInternalError
  <2>3. CASE UNCHANGED vars
    BY <1>2, <2>3 DEF vars, NoInternalError
  <2> QED BY <1>2, <2>1, <2>2, <2>3 DEF Next
<1> QED BY <1>1, <1>2, Disciplined, PTL DEF Spec

\* No step touches the operands of a frame that waits for a result.
THEOREM CallersAreSafe == Spec => CallersKeepOperands
<1> DEFINE Safe == Running /\ Running' =>
                     \A i \in 1..(Len(stack) - OperandsOf(Frame)) :
                       i <= Len(stack') /\ stack'[i] = stack[i]
<1>1. ASSUME TypeOK, TypeOK', Discipline, [Next]_vars, Running, Running'
      PROVE  \A i \in 1..(Len(stack) - OperandsOf(Frame)) :
               i <= Len(stack') /\ stack'[i] = stack[i]
  <2>1. /\ Len(stack) \in Nat /\ OperandsOf(Frame) \in Nat
        /\ Frame.chunk \in Handle \cup Units
    <3>1. Frame.chunk \in Handle \cup Units
      BY <1>1, FrameFacts
    <3>2. Frame.instruction \in 0..Len(CodeOf(Frame))
      BY <1>1, DisciplineFacts DEF FramesInCode
    <3> QED BY <1>1, <3>1, <3>2, DisciplineFacts, DepthType DEF CodeOf
  <2>2. CASE Step
    <3>1. (\E target \in Nat : MovesTo(target)) \/ (\E n \in Nat : Enters(n)) \/ Leaves
      BY <1>1, <2>2, StepKind DEF Kind, Ends
    <3>2. ASSUME NEW target \in Nat, MovesTo(target)
          PROVE  \A i \in 1..(Len(stack) - OperandsOf(Frame)) :
                   i <= Len(stack') /\ stack'[i] = stack[i]
      <4>1. target \in 0..Len(Chunk[Frame.chunk].code)
        BY <3>2 DEF MovesTo, Code
      <4>2. Depth[Frame.chunk][target] \in Nat
        BY <2>1, <4>1, DepthType
      <4> QED BY <2>1, <3>2, <4>2 DEF MovesTo
    <3>3. ASSUME NEW n \in Nat, Enters(n)
          PROVE  \A i \in 1..(Len(stack) - OperandsOf(Frame)) :
                   i <= Len(stack') /\ stack'[i] = stack[i]
      BY <2>1, <3>3 DEF Enters
    <3>4. CASE Leaves
      BY <2>1, <3>4 DEF Leaves
    <3> QED BY <3>1, <3>2, <3>3, <3>4
  <2>3. CASE \E u \in Units : Execute(u)
    BY <1>1, <2>3 DEF Execute
  <2>4. CASE UNCHANGED vars
    BY <2>1, <2>4 DEF vars
  <2> QED BY <1>1, <2>2, <2>3, <2>4 DEF Next
<1>2. TypeOK /\ TypeOK' /\ Discipline /\ [Next]_vars => [Safe]_vars
  BY <1>1
<1> QED BY <1>2, Disciplined, PTL DEF Spec, CallersKeepOperands

-----------------------------------------------------------------------------
(***************************************************************************)
(* No frame runs code that was freed.                                      *)
(*                                                                         *)
(* Reachable is a least set: to show that something is reachable one uses  *)
(* that it is closed, to show that nothing else is one gives another       *)
(* closed set.  A step takes what it puts on the stack, into a local or    *)
(* into a list from what was in use, so that no object comes into reach    *)
(* but the list it makes; only the outermost frame takes a global away,    *)
(* and then nothing is in use.                                             *)
(***************************************************************************)

\* The definitions of module VirtualMachine with the program u and the heap h
\* as arguments, so that those of two states can be compared.
ObjectIn(u, h) ==
  {Function(x) : x \in Handle \cup {u}} \cup {List(r) : r \in 1..Len(h)}
HeldIn(u, h, object) ==
  ObjectIn(u, h) \cap (IF object.tag = "Function"
                       THEN {Chunk[object.function].constants[i] :
                               i \in 1..Len(Chunk[object.function].constants)}
                       ELSE {h[object.list][i] : i \in 1..Len(h[object.list])})
ClosedIn(u, h, S) == \A object \in S : HeldIn(u, h, object) \subseteq S
Reach(u, h, values) ==
  {object \in ObjectIn(u, h) :
     \A S \in {(values \cap ObjectIn(u, h)) \cup T :
                 T \in SUBSET (ObjectIn(u, h) \ (values \cap ObjectIn(u, h)))} :
       ClosedIn(u, h, S) => object \in S}

LEMMA ReachableIsReach ==
  ASSUME NEW STATE values
  PROVE  Reachable(values) = Reach(unit, heap, values)
BY DEF Reachable, Reach, Object, ObjectIn, Held, HeldIn, ClosedIn

-----------------------------------------------------------------------------
(* Closed sets. *)

\* Every closed set of objects that has the roots has all that is reachable.
LEMMA ReachLeast ==
  ASSUME NEW u, NEW h, NEW values, NEW S, S \subseteq ObjectIn(u, h),
         values \cap ObjectIn(u, h) \subseteq S, ClosedIn(u, h, S)
  PROVE  Reach(u, h, values) \subseteq S
<1> DEFINE objects == ObjectIn(u, h)
           roots == values \cap objects
<1> HIDE DEF objects
<1>1. S = roots \cup (S \ roots) /\ S \ roots \in SUBSET (objects \ roots)
  BY DEF objects
<1>2. S \in {roots \cup T : T \in SUBSET (objects \ roots)}
  BY <1>1
<1> QED BY <1>2 DEF Reach, objects

\* The roots are reachable, and so is what a reachable object holds.
LEMMA ReachFacts ==
  ASSUME NEW u, NEW h, NEW values
  PROVE  /\ Reach(u, h, values) \subseteq ObjectIn(u, h)
         /\ values \cap ObjectIn(u, h) \subseteq Reach(u, h, values)
         /\ ClosedIn(u, h, Reach(u, h, values))
<1> DEFINE objects == ObjectIn(u, h)
           Sets == {(values \cap objects) \cup T : T \in SUBSET (objects \ (values \cap objects))}
<1>1. Reach(u, h, values) = {object \in objects : \A S \in Sets : ClosedIn(u, h, S) => object \in S}
  BY DEF Reach
<1>2. \A S \in Sets : values \cap objects \subseteq S
  OBVIOUS
<1>3. \A object : HeldIn(u, h, object) \subseteq objects
  BY DEF HeldIn
<1> HIDE DEF objects, Sets
<1>4. ASSUME NEW o \in Reach(u, h, values), NEW x \in HeldIn(u, h, o)
      PROVE  x \in Reach(u, h, values)
  <2>1. ASSUME NEW S \in Sets, ClosedIn(u, h, S) PROVE x \in S
    BY <1>1, <1>4, <2>1 DEF ClosedIn
  <2> QED BY <1>1, <1>3, <1>4, <2>1
<1>5. ClosedIn(u, h, Reach(u, h, values))
  BY <1>4 DEF ClosedIn
<1>6. values \cap objects \subseteq Reach(u, h, values)
  BY <1>1, <1>2
<1>7. Reach(u, h, values) \subseteq objects
  BY <1>1
<1> QED BY <1>5, <1>6, <1>7 DEF objects

\* More roots, more in reach.
LEMMA MoreRoots ==
  ASSUME NEW u, NEW h, NEW V, NEW W, V \cap ObjectIn(u, h) \subseteq W
  PROVE  Reach(u, h, V) \subseteq Reach(u, h, W)
<1>1. V \cap ObjectIn(u, h) \subseteq Reach(u, h, W)
  BY ReachFacts
<1> QED BY <1>1, ReachLeast, ReachFacts

\* The heap grows: the lists there were stay as they are.
Extends(g, h) == Len(h) <= Len(g) /\ \A r \in 1..Len(h) : g[r] = h[r]

\* What the objects are.
LEMMA ObjectFacts ==
  ASSUME NEW u, NEW h, Len(h) \in Nat, NEW o \in ObjectIn(u, h)
  PROVE  \/ o.tag = "Function" /\ o = Function(o.function) /\ o.function \in Handle \cup {u}
         \/ o.tag = "List" /\ o = List(o.list) /\ o.list \in 1..Len(h)
BY DEF ObjectIn, Function, List

\* Objects hold in a grown heap what they held, and perhaps new lists.
LEMMA HeldInGrown ==
  ASSUME NEW u, NEW h, NEW g, Len(h) \in Nat, Len(g) \in Nat, Extends(g, h),
         NEW o \in ObjectIn(u, h)
  PROVE  /\ ObjectIn(u, h) \subseteq ObjectIn(u, g)
         /\ HeldIn(u, h, o) = HeldIn(u, g, o) \cap ObjectIn(u, h)
<1>1. ObjectIn(u, h) \subseteq ObjectIn(u, g)
  BY DEF ObjectIn, Extends
<1>2. CASE o.tag = "Function"
  BY <1>1, <1>2 DEF HeldIn
<1>3. CASE o.tag = "List" /\ o.list \in 1..Len(h)
  <2>1. g[o.list] = h[o.list]
    BY <1>3 DEF Extends
  <2> QED BY <1>1, <1>3, <2>1 DEF HeldIn
<1> QED BY <1>1, <1>2, <1>3, ObjectFacts

\* What was in reach of the same roots is so in a grown heap.
LEMMA GrownReachesMore ==
  ASSUME NEW u, NEW h, NEW g, Len(h) \in Nat, Len(g) \in Nat, Extends(g, h), NEW V
  PROVE  Reach(u, h, V) \subseteq Reach(u, g, V)
<1> DEFINE S == Reach(u, g, V) \cap ObjectIn(u, h)
<1>1. V \cap ObjectIn(u, h) \subseteq S
  <2>1. V \cap ObjectIn(u, g) \subseteq Reach(u, g, V)
    BY ReachFacts
  <2>2. \A o \in ObjectIn(u, h) : o \in ObjectIn(u, g)
    BY HeldInGrown
  <2> QED BY <2>1, <2>2
<1>2. ASSUME NEW o \in S PROVE HeldIn(u, h, o) \subseteq S
  <2>1. HeldIn(u, h, o) = HeldIn(u, g, o) \cap ObjectIn(u, h)
    BY HeldInGrown
  <2>2. HeldIn(u, g, o) \subseteq Reach(u, g, V)
    BY ReachFacts DEF ClosedIn
  <2> QED BY <2>1, <2>2
<1>3. ClosedIn(u, h, S)
  BY <1>2 DEF ClosedIn
<1> HIDE DEF S
<1>4. Reach(u, h, V) \subseteq S
  BY <1>1, <1>3, ReachLeast DEF S
<1> QED BY <1>4 DEF S

\* When what is new in the roots and in the heap was in reach, nothing comes into
\* reach but new lists.
LEMMA GrownReachesNew ==
  ASSUME NEW u, NEW h, NEW g, Len(h) \in Nat, Len(g) \in Nat, Extends(g, h),
         NEW V, NEW W,
         W \cap ObjectIn(u, h) \subseteq Reach(u, h, V),
         \A r \in (Len(h) + 1)..Len(g) : \A i \in 1..Len(g[r]) :
           g[r][i] \in ObjectIn(u, h) => g[r][i] \in Reach(u, h, V)
  PROVE  Reach(u, g, W) \subseteq Reach(u, h, V) \cup (ObjectIn(u, g) \ ObjectIn(u, h))
<1> DEFINE S == Reach(u, h, V) \cup (ObjectIn(u, g) \ ObjectIn(u, h))
<1>1. S \subseteq ObjectIn(u, g)
  BY ReachFacts, HeldInGrown
<1>2. W \cap ObjectIn(u, g) \subseteq S
  OBVIOUS
<1>3. ASSUME NEW o \in S, NEW x \in HeldIn(u, g, o) PROVE x \in S
  <2>1. x \in ObjectIn(u, g)
    BY DEF HeldIn
  <2>2. CASE x \notin ObjectIn(u, h)
    BY <2>1, <2>2
  <2>3. CASE x \in ObjectIn(u, h) /\ o \in Reach(u, h, V)
    <3>1. x \in HeldIn(u, h, o)
      BY <2>3, ReachFacts, HeldInGrown
    <3> QED BY <2>3, <3>1, ReachFacts DEF ClosedIn
  <2>4. CASE x \in ObjectIn(u, h) /\ o \notin Reach(u, h, V)
    <3>1. o \in ObjectIn(u, g) /\ o \notin ObjectIn(u, h)
      BY <1>3, <2>4
    <3>2. o.tag = "List" /\ o = List(o.list) /\ o.list \in 1..Len(g)
      BY <3>1, ObjectFacts DEF ObjectIn
    <3>3. o.list \in (Len(h) + 1)..Len(g)
      BY <3>1, <3>2 DEF ObjectIn
    <3>4. \E i \in 1..Len(g[o.list]) : x = g[o.list][i]
      BY <1>3, <3>2 DEF HeldIn
    <3> QED BY <2>4, <3>3, <3>4
  <2> QED BY <2>2, <2>3, <2>4
<1>4. ClosedIn(u, g, S)
  BY <1>3 DEF ClosedIn
<1> HIDE DEF S
<1> QED BY <1>1, <1>2, <1>4, ReachLeast DEF S
-----------------------------------------------------------------------------
(* The invariant. *)

KeptAlive == Reach(unit, heap, Kept)
InReach == Reach(unit, heap, Kept \cup InUse)

\* What may be put on the stack, into a local or into a list: no object that is
\* not in reach.
Available(v) == v \in ObjectIn(unit, heap) => v \in InReach

\* What may become a frame: a function that is kept, with such locals.
FrameOwned(frame) ==
  Function(frame.chunk) \in KeptAlive /\ \A x \in Names : Available(frame.locals[x])

OutermostIsProgram == frames[1].chunk = unit /\ frames[1].locals = NoBindings
FramesKept == \A i \in 1..Len(frames) : Function(frames[i].chunk) \in KeptAlive

\* That the outermost frame has no locals is needed when it gives a global another
\* value: then nothing but the globals and the program itself is in reach.
Owned ==
  Running =>
    /\ OutermostIsProgram
    /\ FramesKept
    /\ \A o \in InReach : o.tag = "Function" => o \in KeptAlive

LEMMA OwnedFacts ==
  ASSUME TypeOK, Running, Owned
  PROVE  /\ Len(heap) \in Nat /\ Len(frames) \in Nat \ {0} /\ Len(stack) \in Nat
         /\ \A i \in 1..Len(stack) : Available(stack[i])
         /\ \A i \in 1..Len(frames) : FrameOwned(frames[i])
         /\ \A x \in Names : Available(globals[x])
         /\ KeptAlive \subseteq InReach
         /\ \A v : v.tag \notin {"Function", "List"} => Available(v)
<1>1. Len(heap) \in Nat /\ Len(frames) \in Nat \ {0} /\ Len(stack) \in Nat
  BY FrameFacts DEF TypeOK
<1>2. (Kept \cup InUse) \cap ObjectIn(unit, heap) \subseteq InReach
  BY ReachFacts DEF InReach
<1>3. \A v \in Kept \cup InUse : Available(v)
  BY <1>2 DEF Available
<1>4. \A i \in 1..Len(stack) : stack[i] \in InUse
  BY DEF InUse
<1>5. \A i \in 1..Len(frames), x \in Names : frames[i].locals[x] \in InUse
  BY DEF InUse
<1>6. \A x \in Names : globals[x] \in Kept
  BY DEF Kept
<1>7. KeptAlive \subseteq InReach
  BY MoreRoots DEF KeptAlive, InReach
<1>8. \A v : v.tag \notin {"Function", "List"} => Available(v)
  BY <1>1, ObjectFacts DEF Available
<1>9. \A i \in 1..Len(frames) : FrameOwned(frames[i])
  BY <1>3, <1>5 DEF Owned, FramesKept, FrameOwned
<1> QED BY <1>1, <1>3, <1>4, <1>6, <1>7, <1>8, <1>9

-----------------------------------------------------------------------------
(* The two things a step can do. *)

\* It passes on what is in reach.
Passes ==
  /\ unit' = unit /\ globals' = globals
  /\ \/ heap' = heap
     \/ \E list : /\ heap' = Append(heap, list)
                  /\ \A i \in 1..Len(list) : Available(list[i])
  /\ \A i \in 1..Len(stack') : Available(stack'[i])
  /\ Len(frames') >= 1
  /\ \A i \in 1..Len(frames') : FrameOwned(frames'[i])
  /\ frames'[1].chunk = frames[1].chunk /\ frames'[1].locals = frames[1].locals

\* It leaves a program with nothing in use.
NothingInUse ==
  /\ stack = <<>>
  /\ Len(frames) = 1
  /\ OutermostIsProgram

LEMMA PassesKeepsOwned ==
  ASSUME TypeOK, TypeOK', Running, Owned, Passes
  PROVE  Owned'
<1> DEFINE new == ObjectIn(unit, heap') \ ObjectIn(unit, heap)
<1>1. /\ Len(heap) \in Nat /\ Len(heap') \in Nat
      /\ unit' = unit /\ Kept' = Kept
  BY DEF TypeOK, Passes, Kept
<1>2. /\ Extends(heap', heap)
      /\ \A r \in (Len(heap) + 1)..Len(heap') : \A i \in 1..Len(heap'[r]) :
           heap'[r][i] \in ObjectIn(unit, heap) => heap'[r][i] \in InReach
  <2>1. CASE heap' = heap
    BY <1>1, <2>1 DEF Extends
  <2>2. ASSUME NEW list, heap' = Append(heap, list),
               \A i \in 1..Len(list) : Available(list[i])
        PROVE  /\ Extends(heap', heap)
               /\ \A r \in (Len(heap) + 1)..Len(heap') : \A i \in 1..Len(heap'[r]) :
                    heap'[r][i] \in ObjectIn(unit, heap) => heap'[r][i] \in InReach
    <3>1. /\ Len(heap') = Len(heap) + 1 /\ heap'[Len(heap) + 1] = list
          /\ \A r \in 1..Len(heap) : heap'[r] = heap[r]
      <4>1. heap \in Seq(Seq(Value(Len(heap))))
        BY DEF TypeOK
      <4> QED BY <2>2, <4>1
    <3>2. \A r \in (Len(heap) + 1)..Len(heap') : r = Len(heap) + 1
      BY <1>1, <3>1
    <3> QED BY <1>1, <2>2, <3>1, <3>2 DEF Extends, Available
  <2> QED BY <2>1, <2>2 DEF Passes
<1>3. (Kept' \cup InUse') \cap ObjectIn(unit, heap) \subseteq InReach
  <2>1. \A v \in Kept : Available(v)
    BY ReachFacts DEF Available, InReach
  <2>2. \A v \in InUse' : Available(v)
    BY DEF InUse, Passes, FrameOwned
  <2> QED BY <1>1, <2>1, <2>2 DEF Available
<1>4. InReach' \subseteq InReach \cup new
  <2> HIDE DEF new
  <2>1. Reach(unit, heap', Kept' \cup InUse') \subseteq Reach(unit, heap, Kept \cup InUse) \cup new
    BY <1>1, <1>2, <1>3, GrownReachesNew DEF InReach, new
  <2> QED BY <1>1, <2>1 DEF InReach
<1>5. KeptAlive \subseteq KeptAlive'
  <2>1. Reach(unit, heap, Kept) \subseteq Reach(unit, heap', Kept)
    BY <1>1, <1>2, GrownReachesMore
  <2> QED BY <1>1, <2>1 DEF KeptAlive
<1>6. \A o \in new : o.tag = "List"
  BY DEF ObjectIn, List
<1>7. ASSUME NEW o \in InReach', o.tag = "Function" PROVE o \in KeptAlive'
  <2>1. o \in InReach
    BY <1>4, <1>6, <1>7
  <2> QED BY <1>5, <1>7, <2>1 DEF Owned
<1>8. FramesKept'
  BY <1>5 DEF FramesKept, Passes, FrameOwned
<1>9. OutermostIsProgram'
  BY <1>1 DEF OutermostIsProgram, Passes, Owned
<1> QED BY <1>7, <1>8, <1>9 DEF Owned

LEMMA NothingInUseIsOwned ==
  ASSUME TypeOK', NothingInUse'
  PROVE  Owned'
<1>1. Len(heap') \in Nat
  BY DEF TypeOK
<1>2. Unbound \notin ObjectIn(unit', heap')
  BY DEF ObjectIn, Function, List, Unbound
<1>3. InUse' \cap ObjectIn(unit', heap') = {}
  <2>1. Len(stack') = 0 /\ Len(frames') = 1 /\ frames'[1].locals = NoBindings
    BY DEF NothingInUse, OutermostIsProgram
  <2>2. \A v \in InUse' : v = Unbound
    BY <2>1 DEF InUse, NoBindings
  <2> QED BY <1>2, <2>2
<1>4. InReach' \subseteq KeptAlive'
  <2>1. (Kept' \cup InUse') \cap ObjectIn(unit', heap') \subseteq Kept'
    BY <1>3
  <2>2. Reach(unit', heap', Kept' \cup InUse') \subseteq Reach(unit', heap', Kept')
    BY <2>1, MoreRoots
  <2> QED BY <2>2 DEF InReach, KeptAlive
<1>5. Function(unit') \in KeptAlive'
  <2>1. Function(unit') \in Kept' \cap ObjectIn(unit', heap')
    BY DEF Kept, ObjectIn
  <2> QED BY <2>1, ReachFacts DEF KeptAlive
<1>6. FramesKept'
  BY <1>5 DEF FramesKept, NothingInUse, OutermostIsProgram
<1> QED BY <1>4, <1>6 DEF Owned, NothingInUse
-----------------------------------------------------------------------------
(* Frames and operands of the next state. *)

FramesPass ==
  /\ Len(frames') >= 1
  /\ \A i \in 1..Len(frames') : FrameOwned(frames'[i])
  /\ frames'[1].chunk = frames[1].chunk /\ frames'[1].locals = frames[1].locals

StackPasses == \A i \in 1..Len(stack') : Available(stack'[i])

\* Going on in the code changes neither chunk nor locals.
LEMMA GoToOwned ==
  ASSUME TypeOK, Running, Owned, NEW target
  PROVE  /\ Len(GoTo(target)) = Len(frames)
         /\ \A i \in 1..Len(frames) : /\ GoTo(target)[i].chunk = frames[i].chunk
                                      /\ GoTo(target)[i].locals = frames[i].locals
                                      /\ FrameOwned(GoTo(target)[i])
<1>1. frames \in Seq(FrameRecord(Len(heap))) /\ Len(frames) \in Nat \ {0}
  BY FrameFacts DEF TypeOK
<1>2. /\ Len(GoTo(target)) = Len(frames)
      /\ \A i \in 1..Len(frames) : /\ GoTo(target)[i].chunk = frames[i].chunk
                                   /\ GoTo(target)[i].locals = frames[i].locals
  BY <1>1 DEF GoTo, FrameRecord
<1>3. \A i \in 1..Len(frames) : FrameOwned(GoTo(target)[i])
  BY <1>2, OwnedFacts DEF FrameOwned
<1> QED BY <1>2, <1>3

LEMMA GoToPasses ==
  ASSUME TypeOK, Running, Owned, NEW target, frames' = GoTo(target) \/ frames' = Advanced
  PROVE  FramesPass
<1>1. PICK place : frames' = GoTo(place)
  BY DEF Advanced
<1>2. Len(frames) \in Nat \ {0}
  BY FrameFacts
<1> QED BY <1>1, <1>2, GoToOwned DEF FramesPass

\* A function drops out, its caller stays.
LEMMA CallerPasses ==
  ASSUME TypeOK, Running, Owned, Len(frames) > 1, frames' = Caller
  PROVE  FramesPass
<1>1. /\ Len(frames') = Len(frames) - 1
      /\ \A i \in 1..(Len(frames) - 1) : frames'[i] = frames[i]
  BY CallerType
<1>2. Len(frames) \in Nat \ {0} /\ \A i \in 1..Len(frames) : FrameOwned(frames[i])
  BY OwnedFacts
<1> QED BY <1>1, <1>2 DEF FramesPass

\* What is taken off the stack and what is left of it was in use.
LEMMA OperandsAvailable ==
  ASSUME TypeOK, Running, Owned, NEW n \in 0..Len(stack)
  PROVE  /\ Below(n) \in Seq(Value(Len(heap)))
         /\ \A i \in 1..Len(Below(n)) : Available(Below(n)[i])
         /\ Len(Arguments(n)) = n
         /\ \A i \in 1..n : Available(Arguments(n)[i])
<1>1. /\ Len(stack) \in Nat /\ stack \in Seq(Value(Len(heap)))
      /\ \A i \in 1..Len(stack) : Available(stack[i])
  BY OwnedFacts DEF TypeOK
<1>2. /\ Below(n) \in Seq(Value(Len(heap))) /\ Len(Below(n)) = Len(stack) - n
      /\ \A i \in 1..(Len(stack) - n) : Below(n)[i] = stack[i]
      /\ Len(Arguments(n)) = n
  BY StackType
<1>3. \A i \in 1..n : Arguments(n)[i] = stack[Len(stack) - n + i] /\ Len(stack) - n + i \in 1..Len(stack)
  <2>1. Arguments(n) = SubSeq(stack, Len(stack) - n + 1, Len(stack))
    BY DEF Arguments
  <2>2. \A i \in 1..n : SubSeq(stack, Len(stack) - n + 1, Len(stack))[i] = stack[Len(stack) - n + i]
    BY <1>1
  <2> QED BY <1>1, <2>1, <2>2
<1>4. \A i \in 1..Len(Below(n)) : Available(Below(n)[i])
  <2>1. \A i \in 1..Len(Below(n)) : i \in 1..Len(stack) /\ Below(n)[i] = stack[i]
    BY <1>1, <1>2
  <2> QED BY <1>1, <2>1
<1>5. \A i \in 1..n : Available(Arguments(n)[i])
  BY <1>1, <1>3
<1> QED BY <1>2, <1>4, <1>5

\* A value on top of what is left.
LEMMA PushedAvailable ==
  ASSUME TypeOK, Running, Owned, NEW n \in 0..Len(stack), NEW value,
         Available(value), stack' = Append(Below(n), value)
  PROVE  StackPasses
<1>1. /\ Below(n) \in Seq(Value(Len(heap)))
      /\ \A i \in 1..Len(Below(n)) : Available(Below(n)[i])
  BY OperandsAvailable
<1>2. /\ Len(stack') = Len(Below(n)) + 1 /\ stack'[Len(Below(n)) + 1] = value
      /\ \A i \in 1..Len(Below(n)) : stack'[i] = Below(n)[i]
      /\ Len(Below(n)) \in Nat
  BY <1>1
<1>3. \A i \in 1..Len(stack') : i \in 1..Len(Below(n)) \/ i = Len(Below(n)) + 1
  BY <1>2
<1> QED BY <1>1, <1>2, <1>3 DEF StackPasses

LEMMA PushPasses ==
  ASSUME TypeOK, Running, Owned, NEW n \in 0..Len(stack), NEW value,
         Available(value), Push(n, value)
  PROVE  Passes
<1>1. StackPasses
  BY PushedAvailable DEF Push
<1>2. FramesPass
  BY GoToPasses DEF Push
<1> QED BY <1>1, <1>2 DEF Push, Passes, StackPasses, FramesPass

\* A new list is no object yet; its elements are available.
LEMMA PushListPasses ==
  ASSUME TypeOK, Running, Owned, NEW n \in 0..Len(stack), NEW elements,
         \A i \in 1..Len(elements) : Available(elements[i]), PushList(n, elements)
  PROVE  Passes
<1>1. Available(List(Len(heap) + 1))
  <2>1. Len(heap) \in Nat
    BY DEF TypeOK
  <2>2. List(Len(heap) + 1) \notin {Function(x) : x \in Handle \cup {unit}}
    BY DEF Function, List
  <2>3. List(Len(heap) + 1) \notin {List(r) : r \in 1..Len(heap)}
    <3> SUFFICES ASSUME NEW r \in 1..Len(heap), List(Len(heap) + 1) = List(r) PROVE FALSE
      OBVIOUS
    <3>1. List(Len(heap) + 1).list = List(r).list
      OBVIOUS
    <3>2. Len(heap) + 1 = r
      BY <3>1 DEF List
    <3> QED BY <2>1, <3>2
  <2> QED BY <2>2, <2>3 DEF Available, ObjectIn
<1>2. StackPasses
  BY <1>1, PushedAvailable DEF PushList
<1>3. FramesPass
  BY GoToPasses DEF PushList
<1> QED BY <1>2, <1>3 DEF PushList, Passes, StackPasses, FramesPass

\* Instructions that only take operands.
LEMMA DropPasses ==
  ASSUME TypeOK, Running, Owned, NEW n \in 0..Len(stack), stack' = Below(n),
         FramesPass, UNCHANGED <<globals, heap, unit>>
  PROVE  Passes
<1>1. StackPasses
  BY OperandsAvailable DEF StackPasses
<1> QED BY <1>1 DEF Passes, StackPasses, FramesPass

LEMMA ErrorsStop ==
  ASSUME NEW error, NEW rest, NEW n,
         \/ Raise(error, rest) \/ Kill \/ RunOutOfMemory(n) \/ PopsFail(n) \/ CheckFails(n)
  PROVE  ~Running'
BY DEF Raise, Kill, RunOutOfMemory, PopsFail, CheckFails, Running
-----------------------------------------------------------------------------
(* Every instruction passes on, stops, or leaves nothing in use. *)

Safe == ~Running' \/ Passes \/ NothingInUse'

\* LoadConstant: a function among the constants is held by the function that
\* runs (virtual_machine.cpp:44).
LEMMA LoadConstantSafe ==
  ASSUME TypeOK, Discipline, Owned, LoadConstant PROVE Safe
<1>1. Fetches({"LoadConstant"}) /\ Push(0, Operand)
  BY DEF LoadConstant
<1>2. Running /\ Instruction.op = "LoadConstant"
  BY <1>1 DEF Fetches
<1>3. \E i \in 1..Len(Chunk[Frame.chunk].constants) : Operand = Chunk[Frame.chunk].constants[i]
  <2>1. OperandInRange(Chunk[Frame.chunk], Instruction)
    BY <1>1, FetchFacts
  <2>2. Chunk[Frame.chunk].constants \in Seq(Value(0))
    BY <1>2, FrameFacts DEF WellFormed
  <2>3. Instruction.operand \in 0..(Len(Chunk[Frame.chunk].constants) - 1)
    BY <1>2, <2>1 DEF OperandInRange
  <2>4. Instruction.operand + 1 \in 1..Len(Chunk[Frame.chunk].constants)
    BY <2>2, <2>3
  <2> QED BY <2>4 DEF Operand, ConstantAt
<1>4. Function(Frame.chunk) \in InReach
  <2>1. Len(frames) \in 1..Len(frames) /\ KeptAlive \subseteq InReach
    BY <1>2, OwnedFacts
  <2> QED BY <1>2, <2>1, OwnedFacts DEF Frame, FrameOwned
<1>5. Available(Operand)
  <2> SUFFICES ASSUME Operand \in ObjectIn(unit, heap) PROVE Operand \in InReach
    BY DEF Available
  <2>1. Operand \in HeldIn(unit, heap, Function(Frame.chunk))
    <3>1. Function(Frame.chunk).tag = "Function" /\ Function(Frame.chunk).function = Frame.chunk
      BY DEF Function
    <3> QED BY <1>3, <3>1 DEF HeldIn
  <2>2. HeldIn(unit, heap, Function(Frame.chunk)) \subseteq InReach
    BY <1>4, ReachFacts DEF InReach, ClosedIn
  <2> QED BY <2>1, <2>2
<1>6. 0 \in 0..Len(stack)
  BY <1>2, OwnedFacts
<1> QED BY <1>1, <1>2, <1>5, <1>6, PushPasses DEF Safe

\* LoadVariable: a local is in use, a global kept (virtual_machine.cpp:103-110).
LEMMA LoadVariableSafe ==
  ASSUME TypeOK, Discipline, Owned, LoadVariable PROVE Safe
<1>1. Fetches({"LoadVariable"}) /\ Running /\ Instruction.op = "LoadVariable"
  BY DEF LoadVariable, Fetches
<1>2. Operand.text \in Names
  BY <1>1, OperandType
<1>3. Available(Frame.locals[Operand.text]) /\ Available(globals[Operand.text])
  <2>1. Len(frames) \in 1..Len(frames)
    BY <1>1, OwnedFacts
  <2> QED BY <1>1, <1>2, <2>1, OwnedFacts DEF Frame, FrameOwned
<1>4. 0 \in 0..Len(stack)
  BY <1>1, OwnedFacts
<1>5. \/ Push(0, Frame.locals[Operand.text]) \/ Push(0, globals[Operand.text])
      \/ Raise("undefined variable", stack)
  BY DEF LoadVariable
<1> QED BY <1>1, <1>3, <1>4, <1>5, PushPasses, ErrorsStop DEF Safe

\* StoreVariable: a local takes an operand; when a global does, it was the only
\* one (virtual_machine.cpp:112-117).
LEMMA StoreVariableSafe ==
  ASSUME TypeOK, Discipline, Owned, StoreVariable PROVE Safe
<1>1. /\ Fetches({"StoreVariable"}) /\ Running /\ Instruction.op = "StoreVariable"
      /\ Pops(Instruction) = 1 /\ Pushes(Instruction) = 0 /\ Instruction.op \in EndsStatement
  BY PopsOf DEF StoreVariable, Fetches, Pushes
<1>2. Operand.text \in Names
  BY <1>1, OperandType
<1>3. ~PopsFail(1) /\ 1 \in 0..Len(stack)
  BY <1>1, NeverUnderflows
<1>4. /\ stack' = Below(1) /\ UNCHANGED <<heap, unit>>
      /\ IF Len(frames) = 1 THEN frames' = Advanced
         ELSE /\ frames' = [Advanced EXCEPT ![Len(frames)].locals[Operand.text] = Top]
              /\ UNCHANGED globals
  BY <1>3 DEF StoreVariable
<1>5. /\ Len(frames) \in Nat \ {0} /\ Len(stack) \in Nat
      /\ frames \in Seq(FrameRecord(Len(heap)))
  BY <1>1, OwnedFacts DEF TypeOK
<1>6. CASE Len(frames) = 1
  <2>1. PICK base : Bases(base)
    BY <1>1, DisciplineFacts
  <2>2. Len(stack) = 0 + OperandsOf(Frame)
    BY <1>6, <2>1 DEF Bases
  <2>3. /\ OperandsOf(Frame) \in Nat
        /\ Depth[Frame.chunk][Frame.instruction + 1] = OperandsOf(Frame) - 1 + 0
        /\ Depth[Frame.chunk][Frame.instruction + 1] = 0
    BY <1>1, BalanceFacts
  <2>4. Len(stack) - 1 = 0
    BY <2>2, <2>3
  <2>5. stack' = <<>>
    <3>1. Below(1) \in Seq(Value(Len(heap))) /\ Len(Below(1)) = Len(stack) - 1
      BY <1>3, StackType
    <3> QED BY <1>4, <2>4, <3>1
  <2>6. /\ Len(frames') = 1
        /\ frames'[1].chunk = frames[1].chunk /\ frames'[1].locals = frames[1].locals
    BY <1>1, <1>4, <1>6, GoToOwned DEF Advanced
  <2>7. NothingInUse'
    BY <1>1, <1>4, <2>5, <2>6 DEF NothingInUse, OutermostIsProgram, Owned
  <2> QED BY <2>7 DEF Safe
<1>7. CASE Len(frames) # 1
  <2> DEFINE k == Len(frames)
             last == Advanced[k]
             bound == [last EXCEPT !.locals = [last.locals EXCEPT ![Operand.text] = Top]]
  <2>1. Available(Top)
    <3>1. Len(stack) \in 1..Len(stack)
      BY <1>3, <1>5
    <3> QED BY <1>1, <3>1, OwnedFacts DEF Top
  <2>2. /\ Advanced \in Seq(FrameRecord(Len(heap))) /\ Len(Advanced) = k /\ k \in Nat /\ k > 1
        /\ \A i \in 1..k : /\ Advanced[i].chunk = frames[i].chunk
                           /\ Advanced[i].locals = frames[i].locals
                           /\ FrameOwned(Advanced[i])
    BY <1>1, <1>5, <1>7, AdvancedType, GoToOwned DEF Advanced
  <2>3. last \in FrameRecord(Len(heap))
    BY <2>2
  <2>4. /\ bound.chunk = last.chunk
        /\ bound.locals = [last.locals EXCEPT ![Operand.text] = Top]
        /\ last.locals \in Scope(Len(heap))
    BY <2>3 DEF FrameRecord
  <2>5. frames' = [Advanced EXCEPT ![k] = bound]
    BY <1>4, <1>7
  <2>6. FrameOwned(last)
    BY <2>2
  <2> HIDE DEF bound, last
  <2>7. \A x \in Names : bound.locals[x] = IF x = Operand.text THEN Top ELSE last.locals[x]
    BY <1>2, <2>4 DEF Scope
  <2>8. FrameOwned(bound)
    BY <2>1, <2>4, <2>6, <2>7 DEF FrameOwned
  <2>9. /\ Len(frames') = k /\ frames'[k] = bound
        /\ \A i \in 1..(k - 1) : frames'[i] = Advanced[i]
    BY <2>2, <2>5
  <2>10. ASSUME NEW i \in 1..k PROVE FrameOwned(frames'[i])
    BY <2>2, <2>8, <2>9
  <2>11. FramesPass
    <3>1. 1 \in 1..(k - 1) /\ 1 \in 1..k
      BY <2>2
    <3> QED BY <2>2, <2>9, <2>10, <3>1 DEF FramesPass
  <2>12. UNCHANGED globals
    BY <1>4, <1>7
  <2>13. Passes
    BY <1>1, <1>3, <1>4, <2>11, <2>12, DropPasses
  <2> QED BY <2>13 DEF Safe
<1> QED BY <1>6, <1>7

\* BuildList: the elements were operands (virtual_machine.cpp:45-52).
LEMMA BuildListSafe ==
  ASSUME TypeOK, Discipline, Owned, BuildList PROVE Safe
<1> DEFINE n == Instruction.operand
<1>1. /\ Fetches({"BuildList"}) /\ Running
      /\ CheckFails(n) \/ (Len(stack) >= n /\ PushList(n, Arguments(n)))
  BY DEF BuildList, Fetches
<1>2. n \in Nat /\ Len(stack) \in Nat
  BY <1>1, FetchFacts, OwnedFacts
<1> HIDE DEF n
<1>3. CASE CheckFails(n)
  BY <1>3, ErrorsStop DEF Safe
<1>4. CASE Len(stack) >= n /\ PushList(n, Arguments(n))
  <2>1. n \in 0..Len(stack)
    BY <1>2, <1>4
  <2>2. Len(Arguments(n)) = n /\ \A i \in 1..n : Available(Arguments(n)[i])
    BY <1>1, <2>1, OperandsAvailable
  <2>3. Passes
    BY <1>1, <1>4, <2>1, <2>2, PushListPasses
  <2> QED BY <2>3 DEF Safe
<1> QED BY <1>1, <1>3, <1>4

\* Pop, Print and conditional jumps only take an operand (virtual_machine.cpp:78-91).
LEMMA DropsSafe ==
  ASSUME TypeOK, Discipline, Owned, Pop \/ PrintTop \/ JumpIfFalse PROVE Safe
<1>1. Running
  BY DEF Pop, PrintTop, JumpIfFalse, Fetches
<1>2. \/ PopsFail(1)
      \/ /\ Len(stack) >= 1 /\ stack' = Below(1)
         /\ frames' = Advanced \/ frames' = GoTo(Instruction.operand)
         /\ UNCHANGED <<globals, heap, unit>>
  BY DEF Pop, PrintTop, JumpIfFalse
<1>3. CASE PopsFail(1)
  BY <1>3, ErrorsStop DEF Safe
<1>4. CASE ~PopsFail(1)
  <2>1. 1 \in 0..Len(stack)
    BY <1>1, <1>2, <1>4, OwnedFacts
  <2>2. FramesPass
    BY <1>1, <1>2, <1>4, GoToPasses
  <2>3. Passes
    BY <1>1, <1>2, <1>4, <2>1, <2>2, DropPasses
  <2> QED BY <2>3 DEF Safe
<1> QED BY <1>3, <1>4

\* Jump (virtual_machine.cpp:77).
LEMMA JumpSafe ==
  ASSUME TypeOK, Discipline, Owned, Jump PROVE Safe
<1>1. Running /\ frames' = GoTo(Instruction.operand) /\ UNCHANGED <<stack, globals, heap, unit>>
  BY DEF Jump, Fetches
<1>2. FramesPass
  BY <1>1, GoToPasses
<1>3. StackPasses
  BY <1>1, OwnedFacts DEF StackPasses
<1>4. Passes
  BY <1>1, <1>2, <1>3 DEF Passes, FramesPass, StackPasses
<1> QED BY <1>4 DEF Safe
\* What an operator puts on the stack is no object.
LEMMA ResultsAreNoObjects ==
  ASSUME NEW l, NEW r, NEW op, NEW b, NEW s, NEW i
  PROVE  /\ ArithmeticResult(op, l, r).tag \notin {"Function", "List"}
         /\ Negation(l).tag \notin {"Function", "List"}
         /\ String(s).tag \notin {"Function", "List"}
         /\ Boolean(b).tag \notin {"Function", "List"}
         /\ Integer(i).tag \notin {"Function", "List"}
<1>1. \A n : Integer(n).tag = "Integer"
  BY DEF Integer
<1>2. \A n, d : Float(n, d).tag = "Float"
  BY DEF Float
<1>3. ArithmeticResult(op, l, r).tag \in {"Integer", "Float"}
  BY <1>1, <1>2 DEF ArithmeticResult, Sum, Difference, Product, Quotient, Remainder
<1>4. Negation(l).tag \in {"Integer", "Float"}
  BY <1>1, <1>2 DEF Negation
<1> QED BY <1>1, <1>3, <1>4 DEF String, Boolean

\* Unary minus (virtual_machine.cpp:66-71).
LEMMA NegateSafe ==
  ASSUME TypeOK, Discipline, Owned, Negate PROVE Safe
<1>1. /\ Running
      /\ \/ PopsFail(1) \/ Raise("unary '-' requires a number", Below(1))
         \/ Len(stack) >= 1 /\ Push(1, Negation(Top))
  BY DEF Negate, Fetches
<1>2. CASE Len(stack) >= 1 /\ Push(1, Negation(Top))
  <2>1. 1 \in 0..Len(stack)
    <3>1. Len(stack) \in Nat
      BY <1>1, OwnedFacts
    <3> QED BY <1>2, <3>1
  <2>2. Available(Negation(Top))
    BY <1>1, OwnedFacts, ResultsAreNoObjects
  <2>3. Passes
    BY <1>1, <1>2, <2>1, <2>2, PushPasses
  <2> QED BY <2>3 DEF Safe
<1> QED BY <1>1, <1>2, ErrorsStop DEF Safe

\* Operators of two operands (virtual_machine.cpp:119-159).
LEMMA BinarySafe ==
  ASSUME TypeOK, Discipline, Owned, Binary \/ Compare PROVE Safe
<1>1. Running
  BY DEF Binary, Compare, Fetches
<1>2. \/ PopsFail(2) \/ Kill
      \/ \E error, rest : Raise(error, rest)
      \/ /\ Len(stack) >= 2
         /\ \E value : Push(2, value) /\ value.tag \notin {"Function", "List"}
  <2>1. CASE Binary
    <3>1. PopsFail(2) \/ (Len(stack) >= 2 /\ Compute(Instruction.op, Second, Top))
      BY <2>1 DEF Binary
    <3> QED BY <3>1, ResultsAreNoObjects DEF Compute
  <2>2. CASE Compare
    BY <2>2, ResultsAreNoObjects DEF Compare
  <2> QED BY <2>1, <2>2
<1>3. ASSUME Len(stack) >= 2, NEW value, Push(2, value), value.tag \notin {"Function", "List"}
      PROVE  Safe
  <2>1. 2 \in 0..Len(stack)
    BY <1>1, <1>3, OwnedFacts
  <2>2. Available(value)
    BY <1>1, <1>3, OwnedFacts
  <2>3. Passes
    BY <1>1, <1>3, <2>1, <2>2, PushPasses
  <2> QED BY <2>3 DEF Safe
<1> QED BY <1>2, <1>3, ErrorsStop DEF Safe

\* range() makes a list of integers, the other built-ins no object
\* (virtual_machine.cpp:53-65, builtins.cpp:14-55).
LEMMA CallBuiltinSafe ==
  ASSUME TypeOK, Discipline, Owned, CallBuiltin PROVE Safe
<1> DEFINE n == ArgumentCount(Instruction.operand)
           number == BuiltinNumber(Instruction.operand) + 1
<1>1. /\ Fetches({"Builtin"}) /\ Running
      /\ \/ CheckFails(n)
         \/ /\ Len(stack) >= n
            /\ IF number \in 1..3 THEN InvokeBuiltin(BuiltinOfNumber[number], Arguments(n))
               ELSE Raise("unknown builtin", Below(n))
  BY DEF CallBuiltin, Fetches
<1>2. n \in Nat /\ Len(stack) \in Nat
  <2>1. Instruction.operand \in Nat
    BY <1>1, FetchFacts
  <2>2. n \in Nat
    BY <2>1, BytecodeAssumption DEF ArgumentCount
  <2> QED BY <2>2 DEF TypeOK
<1> HIDE DEF n, number
<1>3. ASSUME Len(stack) >= n, number \in 1..3,
             InvokeBuiltin(BuiltinOfNumber[number], Arguments(n))
      PROVE  Safe
  <2> DEFINE builtin == BuiltinOfNumber[number]
             arguments == Arguments(n)
  <2>1. n \in 0..Len(stack)
    BY <1>2, <1>3
  <2>2. Len(arguments) = n /\ arguments \in Seq(Value(Len(heap))) /\ Len(heap) \in Nat
    BY <1>1, <2>1, StackType, OwnedFacts
  <2>3. builtin \in {"len", "type", "range"}
    BY <1>3 DEF BuiltinOfNumber
  <2> HIDE DEF builtin, arguments
  <2>4. \/ Raise("built-in rejects its arguments", Below(n))
        \/ RunOutOfMemory(n)
        \/ Push(n, Integer(Wrap(LengthOf(arguments[1], heap))))
        \/ Push(n, String(TypeName[arguments[1].tag]))
        \/ /\ ~BuiltinRejects("range", arguments) /\ ~RangeExhausts(arguments)
           /\ PushList(n, RangeElements(arguments))
    BY <1>3, <2>2, <2>3 DEF InvokeBuiltin, builtin, arguments
  <2>5. CASE Push(n, Integer(Wrap(LengthOf(arguments[1], heap))))
    <3> DEFINE value == Integer(Wrap(LengthOf(arguments[1], heap)))
    <3>1. value.tag \notin {"Function", "List"}
      BY ResultsAreNoObjects
    <3> HIDE DEF value
    <3>2. Available(value)
      BY <1>1, <3>1, OwnedFacts
    <3>3. Passes
      BY <1>1, <2>1, <2>5, <3>2, PushPasses DEF value
    <3> QED BY <3>3 DEF Safe
  <2>6. CASE Push(n, String(TypeName[arguments[1].tag]))
    <3> DEFINE value == String(TypeName[arguments[1].tag])
    <3>1. value.tag \notin {"Function", "List"}
      BY ResultsAreNoObjects
    <3> HIDE DEF value
    <3>2. Available(value)
      BY <1>1, <3>1, OwnedFacts
    <3>3. Passes
      BY <1>1, <2>1, <2>6, <3>2, PushPasses DEF value
    <3> QED BY <3>3 DEF Safe
  <2>7. CASE /\ ~BuiltinRejects("range", arguments) /\ ~RangeExhausts(arguments)
             /\ PushList(n, RangeElements(arguments))
    <3> DEFINE elements == RangeElements(arguments)
    <3>1. elements \in Seq(Value(Len(heap)))
      BY <2>2, <2>7, RangeType
    <3>2. \A i \in DOMAIN elements : elements[i].tag \notin {"Function", "List"}
      BY ResultsAreNoObjects DEF RangeElements
    <3> HIDE DEF elements
    <3>3. \A i \in 1..Len(elements) : elements[i].tag \notin {"Function", "List"}
      BY <3>1, <3>2
    <3>4. \A v : v.tag \notin {"Function", "List"} => Available(v)
      BY <1>1, OwnedFacts
    <3>5. \A i \in 1..Len(elements) : Available(elements[i])
      BY <3>3, <3>4
    <3>6. Passes
      BY <1>1, <2>1, <2>7, <3>5, PushListPasses DEF elements
    <3> QED BY <3>6 DEF Safe
  <2> QED BY <2>4, <2>5, <2>6, <2>7, ErrorsStop DEF Safe
<1> QED BY <1>1, <1>3, ErrorsStop DEF Safe

\* A local of a new frame is an argument.
LEMMA LocalsAreArguments ==
  ASSUME NEW parameters \in Seq(Names), NEW arguments, NEW x \in Names
  PROVE  \/ Locals(parameters, arguments)[x] = Unbound
         \/ \E i \in 1..Len(parameters) : Locals(parameters, arguments)[x] = arguments[i]
<1> DEFINE positions == {i \in 1..Len(parameters) : parameters[i] = x}
           first == CHOOSE i \in positions : \A j \in positions : i <= j
<1>1. Locals(parameters, arguments)[x] = IF positions = {} THEN Unbound ELSE arguments[first]
  BY DEF Locals
<1>2. ASSUME positions # {} PROVE first \in 1..Len(parameters)
  <2>1. positions \in SUBSET (0..Len(parameters)) /\ Len(parameters) \in Nat
    OBVIOUS
  <2>2. \E i \in positions : \A j \in positions : i <= j
    <3> HIDE DEF positions
    <3> QED BY <1>2, <2>1, LeastElement
  <2>3. first \in positions
    <3> HIDE DEF positions
    <3> QED BY <2>2
  <2> HIDE DEF first
  <2> QED BY <2>3
<1> HIDE DEF positions, first
<1> QED BY <1>1, <1>2

\* Call: the callee was an operand, so that it is kept, and the locals of the new
\* frame were operands too (virtual_machine.cpp:161-172).
LEMMA CallSafe ==
  ASSUME TypeOK, Discipline, Owned, Call PROVE Safe
<1> DEFINE n == Instruction.operand
           callee == stack[Len(stack) - n]
           parameters == Chunk[callee.function].parameters
           locals == Locals(parameters, Arguments(n))
           entered == [chunk |-> callee.function, instruction |-> 0, locals |-> locals]
<1>1. /\ Fetches({"Call"}) /\ Running
      /\ \/ CheckFails(n + 1) \/ RunOutOfMemory(n + 1)
         \/ \E error, rest : Raise(error, rest)
         \/ /\ Len(stack) > n /\ callee.tag = "Function" /\ Len(parameters) = n
            /\ stack' = Below(n + 1) /\ frames' = Append(Advanced, entered)
            /\ UNCHANGED <<globals, heap, unit>>
  BY DEF Call, Fetches
<1>2. CASE /\ Len(stack) > n /\ callee.tag = "Function" /\ Len(parameters) = n
           /\ stack' = Below(n + 1) /\ frames' = Append(Advanced, entered)
           /\ UNCHANGED <<globals, heap, unit>>
  <2>1. /\ n \in Nat /\ Len(stack) \in Nat
        /\ n \in 0..Len(stack) /\ n + 1 \in 0..Len(stack) /\ Len(stack) - n \in 1..Len(stack)
    <3>1. n \in Nat
      BY <1>1, FetchFacts
    <3>2. Len(stack) \in Nat
      BY <1>1, OwnedFacts
    <3>3. Len(stack) > n
      BY <1>2
    <3> HIDE DEF n
    <3> QED BY <3>1, <3>2, <3>3
  <2>2. callee \in Value(Len(heap)) /\ Available(callee)
    <3>1. callee \in Value(Len(heap))
      BY <1>2, <2>1, StackType
    <3> QED BY <1>1, <2>1, <3>1, OwnedFacts
  <2>3. callee.function \in Handle /\ callee = Function(callee.function)
    BY <1>2, <2>2 DEF Value, PlainValue, IntegerValue, FloatValue, StringValue, FunctionValue, Function
  <2>4. parameters \in Seq(Names)
    BY <2>3, CompiledAssumption DEF WellFormed
  <2>5. \A i \in 1..n : Available(Arguments(n)[i])
    BY <1>1, <2>1, OperandsAvailable
  <2>6. Function(callee.function) \in KeptAlive
    <3> HIDE DEF callee
    <3>1. callee \in ObjectIn(unit, heap)
      BY <2>3 DEF ObjectIn
    <3>2. callee \in InReach
      BY <2>2, <3>1 DEF Available
    <3> QED BY <1>1, <1>2, <2>3, <3>2 DEF Owned
  <2>7. Available(Unbound)
    BY <1>1, OwnedFacts DEF Unbound
  <2>8. \A x \in Names : Available(locals[x])
    <3> HIDE DEF parameters, n
    <3> SUFFICES ASSUME NEW x \in Names PROVE Available(locals[x])
      OBVIOUS
    <3>1. \/ locals[x] = Unbound
          \/ \E i \in 1..Len(parameters) : locals[x] = Arguments(n)[i]
      BY <2>4, LocalsAreArguments
    <3> QED BY <1>2, <2>5, <2>7, <3>1
  <2> HIDE DEF callee, locals
  <2>9. FrameOwned(entered)
    BY <2>6, <2>8 DEF FrameOwned
  <2> HIDE DEF entered, n
  <2>10. /\ Advanced \in Seq(FrameRecord(Len(heap))) /\ Len(Advanced) = Len(frames)
         /\ Len(frames) \in Nat \ {0}
         /\ \A i \in 1..Len(frames) : /\ Advanced[i].chunk = frames[i].chunk
                                      /\ Advanced[i].locals = frames[i].locals
                                      /\ FrameOwned(Advanced[i])
    BY <1>1, FrameFacts, AdvancedType, GoToOwned DEF Advanced
  <2>11. /\ Len(frames') = Len(frames) + 1 /\ frames'[Len(frames) + 1] = entered
         /\ \A i \in 1..Len(frames) : frames'[i] = Advanced[i]
    BY <1>2, <2>10
  <2>12. ASSUME NEW i \in 1..(Len(frames) + 1) PROVE FrameOwned(frames'[i])
    BY <2>9, <2>10, <2>11
  <2>13. FramesPass
    BY <2>10, <2>11, <2>12 DEF FramesPass
  <2>14. Passes
    BY <1>1, <1>2, <2>1, <2>13, DropPasses
  <2> QED BY <2>14 DEF Safe
<1> QED BY <1>1, <1>2, ErrorsStop DEF Safe

\* Return (virtual_machine.cpp:82-88).
LEMMA ReturnSafe ==
  ASSUME TypeOK, Discipline, Owned, Return PROVE Safe
<1>1. /\ Running
      /\ \/ PopsFail(1) \/ Raise("'return' outside a function", Below(1))
         \/ Len(frames) # 1 /\ frames' = Caller /\ UNCHANGED <<stack, globals, heap, unit>>
  BY DEF Return, Fetches
<1>2. CASE Len(frames) # 1 /\ frames' = Caller /\ UNCHANGED <<stack, globals, heap, unit>>
  <2>1. Len(frames) > 1
    <3>1. Len(frames) \in Nat \ {0}
      BY <1>1, FrameFacts
    <3>2. \A k \in Nat \ {0} : k # 1 => k > 1
      OBVIOUS
    <3> QED BY <1>2, <3>1, <3>2
  <2>2. FramesPass
    BY <1>1, <1>2, <2>1, CallerPasses
  <2>3. StackPasses
    BY <1>1, <1>2, OwnedFacts DEF StackPasses
  <2>4. Passes
    BY <1>2, <2>2, <2>3 DEF Passes, FramesPass, StackPasses
  <2> QED BY <2>4 DEF Safe
<1> QED BY <1>1, <1>2, ErrorsStop DEF Safe

\* At the end of the code the program ends (virtual_machine.cpp:38-41).
LEMMA EndOfCodeSafe ==
  ASSUME TypeOK, Discipline, Owned, EndOfCode PROVE Safe
<1>1. Running /\ Len(frames) = 1 => ~Running'
  BY DEF EndOfCode, Running
<1>2. CASE Len(frames) # 1
  <2>1. Running /\ frames' = Caller /\ UNCHANGED <<stack, globals, heap, unit>>
    BY <1>2 DEF EndOfCode
  <2>2. Len(frames) > 1
    <3>1. Len(frames) \in Nat \ {0}
      BY <2>1, FrameFacts
    <3>2. \A k \in Nat \ {0} : k # 1 => k > 1
      OBVIOUS
    <3> QED BY <1>2, <3>1, <3>2
  <2>3. FramesPass /\ StackPasses
    BY <2>1, <2>2, CallerPasses, OwnedFacts DEF StackPasses
  <2>4. Passes
    BY <2>1, <2>3 DEF Passes, FramesPass, StackPasses
  <2> QED BY <2>4 DEF Safe
<1> QED BY <1>1, <1>2 DEF EndOfCode, Safe

\* A program starts with nothing in use (virtual_machine.cpp:22-31).
LEMMA ExecuteSafe ==
  ASSUME NEW u \in Units, Execute(u) PROVE NothingInUse'
BY DEF Execute, NothingInUse, OutermostIsProgram

LEMMA NextKeepsOwned ==
  ASSUME TypeOK, TypeOK', Discipline, Owned, [Next]_vars PROVE Owned'
<1>1. CASE Step
  <2>1. Safe
    BY <1>1, LoadConstantSafe, LoadVariableSafe, StoreVariableSafe, BuildListSafe,
       DropsSafe, NegateSafe, BinarySafe, JumpSafe, CallBuiltinSafe, CallSafe,
       ReturnSafe, EndOfCodeSafe DEF Step
  <2>2. Running
    BY <1>1, StepKind
  <2>3. CASE ~Running'
    BY <2>3 DEF Owned
  <2>4. CASE Passes
    BY <2>2, <2>4, PassesKeepsOwned
  <2>5. CASE NothingInUse'
    BY <2>5, NothingInUseIsOwned
  <2> QED BY <2>1, <2>3, <2>4, <2>5 DEF Safe
<1>2. CASE \E u \in Units : Execute(u)
  BY <1>2, ExecuteSafe, NothingInUseIsOwned
<1>3. CASE UNCHANGED vars
  BY <1>3 DEF vars, Owned, Running, OutermostIsProgram, FramesKept, InReach, KeptAlive,
     Kept, InUse
<1> QED BY <1>1, <1>2, <1>3 DEF Next

-----------------------------------------------------------------------------
(* The results. *)

LEMMA AlwaysOwned == Spec => [](TypeOK /\ Owned)
<1>1. Init => Owned
  BY DEF Init, Owned, Running
<1> QED BY <1>1, NextKeepsOwned, Disciplined, PTL DEF Spec

\* What is on the stack or in a local never is the last owner of a function.
THEOREM FunctionsAreKept == Spec => []FunctionsKept
<1>1. Owned => FunctionsKept
  BY ReachableIsReach DEF Owned, FunctionsKept, InReach, KeptAlive
<1> QED BY <1>1, AlwaysOwned, PTL

\* The code of every frame is there as long as the frame, also when a function
\* gives its own name another value (virtual_machine.cpp:169).
THEOREM NoFrameDangles == Spec => []NoDanglingFrame
<1>1. TypeOK /\ Owned => NoDanglingFrame
  <2> SUFFICES ASSUME TypeOK, Owned, Running,
                      NEW i \in 1..Len(frames)
               PROVE  Function(frames[i].chunk) \in Reachable(Kept \cup InUse)
    BY DEF NoDanglingFrame
  <2>1. Function(frames[i].chunk) \in InReach
    BY OwnedFacts DEF FrameOwned
  <2> QED BY <2>1, ReachableIsReach DEF InReach
<1> QED BY <1>1, AlwaysOwned, PTL

-----------------------------------------------------------------------------
(* The machine implements CallStacks.  The invariant says that there are    *)
(* bases at which the stack can be cut; the equations between them leave no *)
(* choice, so that the bases before and after a step agree wherever the     *)
(* frames do.  Each of the four kinds of steps is one action of CallStacks. *)

(* Bases and slices, without the machine. *)

\* Two rows that begin alike, and are alike at each place when they are at the
\* place before, are alike: there would be a first place where they differ.
LEMMA RowsAgree ==
  ASSUME NEW m \in Nat, NEW b, NEW c, b[1] = c[1],
         \A i \in 1..(m - 1) : b[i] = c[i] => b[i + 1] = c[i + 1]
  PROVE  \A i \in 1..m : b[i] = c[i]
<1> DEFINE differ == {i \in 1..m : b[i] # c[i]}
           before == {pair \in Nat \X Nat : pair[1] < pair[2]}
<1>1. SUFFICES ASSUME differ # {} PROVE FALSE
  OBVIOUS
<1>2. differ \subseteq Nat
  OBVIOUS
<1>3. \A i, j \in Nat : i < j => <<i, j>> \in before
  OBVIOUS
<1>4. IsWellFoundedOn(before, Nat)
  BY NatLessThanWellFounded DEF OpToRel
<1> HIDE DEF before
<1>5. PICK i \in differ : \A j \in differ : <<j, i>> \notin before
  BY <1>1, <1>2, <1>4, WFMin
<1>6. i \in 1..m /\ i # 1 /\ b[i] # c[i]
  OBVIOUS
<1>7. i - 1 \in 1..(m - 1) /\ i - 1 \in 1..m /\ i - 1 < i /\ (i - 1) + 1 = i
  BY <1>6
<1>8. b[i - 1] # c[i - 1]
  BY <1>6, <1>7
<1>9. i - 1 \in differ /\ i \in Nat /\ i - 1 \in Nat
  BY <1>7, <1>8
<1> QED BY <1>3, <1>5, <1>7, <1>9

\* Equal elements make equal parts.
LEMMA PartsAgree ==
  ASSUME NEW S, NEW s \in Seq(S), NEW t \in Seq(S), NEW m \in Nat \ {0}, NEW n \in Nat,
         n <= Len(s), n <= Len(t), \A i \in 1..n : s[i] = t[i]
  PROVE  SubSeq(s, m, n) = SubSeq(t, m, n)
<1>1. (\A i \in m..n : s[i] \in S) /\ (\A i \in m..n : t[i] \in S)
  OBVIOUS
<1>2. /\ SubSeq(s, m, n) \in Seq(S) /\ SubSeq(t, m, n) \in Seq(S)
      /\ Len(SubSeq(s, m, n)) = IF m <= n THEN n - m + 1 ELSE 0
      /\ Len(SubSeq(t, m, n)) = IF m <= n THEN n - m + 1 ELSE 0
      /\ \A i \in 1..(n - m + 1) : SubSeq(s, m, n)[i] = s[m + i - 1]
      /\ \A i \in 1..(n - m + 1) : SubSeq(t, m, n)[i] = t[m + i - 1]
  BY <1>1, SubSeqProperties
<1>3. \A i \in 1..Len(SubSeq(s, m, n)) : SubSeq(s, m, n)[i] = SubSeq(t, m, n)[i]
  <2> SUFFICES ASSUME NEW i \in 1..Len(SubSeq(s, m, n))
               PROVE  SubSeq(s, m, n)[i] = SubSeq(t, m, n)[i]
    OBVIOUS
  <2>1. i \in 1..(n - m + 1) /\ m + i - 1 \in 1..n
    BY <1>2
  <2> QED BY <1>2, <2>1
<1> QED BY <1>2, <1>3, SeqEqual

\* The stack s of k frames, cut at the bases b.
Cut(b, s, k) == [i \in 1..k |-> SubSeq(s, b[i] + 1, IF i = k THEN Len(s) ELSE b[i + 1])]

\* Two rows of bases that agree where they meet, and the lowest place that counts.
\* What is cut below it is the same in both stacks.
LEMMA LowerSlices ==
  ASSUME NEW S, NEW s \in Seq(S), NEW t \in Seq(S), NEW b, NEW c,
         NEW k \in Nat, NEW l \in Nat, NEW i \in Nat, 1 <= i, i < k, i < l,
         b[i] \in Nat, b[i + 1] \in Nat, c[i] = b[i], c[i + 1] = b[i + 1],
         b[i + 1] <= Len(s), b[i + 1] <= Len(t),
         \A j \in 1..b[i + 1] : s[j] = t[j]
  PROVE  Cut(c, t, l)[i] = Cut(b, s, k)[i]
<1> DEFINE m == b[i] + 1
           n == b[i + 1]
<1>1. i \in 1..k /\ i \in 1..l /\ i # k /\ i # l
  OBVIOUS
<1>2. Cut(b, s, k)[i] = SubSeq(s, m, n) /\ Cut(c, t, l)[i] = SubSeq(t, c[i] + 1, c[i + 1])
  BY <1>1 DEF Cut
<1>3. m \in Nat \ {0} /\ n \in Nat /\ n <= Len(s) /\ n <= Len(t) /\ \A j \in 1..n : s[j] = t[j]
  OBVIOUS
<1>4. m = c[i] + 1 /\ n = c[i + 1]
  OBVIOUS
<1> HIDE DEF m, n
<1>5. SubSeq(s, m, n) = SubSeq(t, m, n)
  BY <1>3, PartsAgree
<1> QED BY <1>2, <1>4, <1>5

\* A part of a part.
LEMMA FrontOfRest ==
  ASSUME NEW S, NEW s \in Seq(S), NEW t \in Seq(S), NEW m \in Nat, m <= Len(t),
         Len(t) <= Len(s), \A i \in 1..Len(t) : s[i] = t[i]
  PROVE  SubSeq(t, m + 1, Len(t)) = SubSeq(SubSeq(s, m + 1, Len(s)), 1, Len(t) - m)
<1> DEFINE rest == SubSeq(s, m + 1, Len(s))
           left == Len(t) - m
           back == SubSeq(t, m + 1, Len(t))
<1>1. Len(s) \in Nat /\ Len(t) \in Nat
  OBVIOUS
<1>2. /\ rest \in Seq(S) /\ Len(rest) = Len(s) - m
      /\ \A i \in 1..(Len(s) - m) : rest[i] = s[m + i]
  <2>1. \A i \in (m + 1)..Len(s) : s[i] \in S
    OBVIOUS
  <2>2. /\ rest \in Seq(S)
        /\ Len(rest) = IF m + 1 <= Len(s) THEN Len(s) - (m + 1) + 1 ELSE 0
        /\ \A i \in 1..(Len(s) - (m + 1) + 1) : rest[i] = s[(m + 1) + i - 1]
    BY <1>1, <2>1, SubSeqProperties
  <2> QED BY <1>1, <2>2
<1>3. /\ back \in Seq(S) /\ Len(back) = left
      /\ \A i \in 1..left : back[i] = t[m + i]
  <2>1. \A i \in (m + 1)..Len(t) : t[i] \in S
    OBVIOUS
  <2>2. /\ back \in Seq(S)
        /\ Len(back) = IF m + 1 <= Len(t) THEN Len(t) - (m + 1) + 1 ELSE 0
        /\ \A i \in 1..(Len(t) - (m + 1) + 1) : back[i] = t[(m + 1) + i - 1]
    BY <1>1, <2>1, SubSeqProperties
  <2> QED BY <1>1, <2>2
<1> HIDE DEF rest, back
<1>4. /\ SubSeq(rest, 1, left) \in Seq(S) /\ Len(SubSeq(rest, 1, left)) = left
      /\ \A i \in 1..left : SubSeq(rest, 1, left)[i] = rest[i]
  <2>1. left \in Nat /\ left <= Len(rest)
    BY <1>1, <1>2
  <2>2. \A i \in 1..left : rest[i] \in S
    BY <1>2, <2>1
  <2>3. /\ SubSeq(rest, 1, left) \in Seq(S)
        /\ Len(SubSeq(rest, 1, left)) = IF 1 <= left THEN left - 1 + 1 ELSE 0
        /\ \A i \in 1..(left - 1 + 1) : SubSeq(rest, 1, left)[i] = rest[1 + i - 1]
    BY <2>1, <2>2, SubSeqProperties
  <2> QED BY <2>1, <2>3
<1>5. \A i \in 1..left : SubSeq(rest, 1, left)[i] = back[i]
  <2> SUFFICES ASSUME NEW i \in 1..left PROVE SubSeq(rest, 1, left)[i] = back[i]
    OBVIOUS
  <2>1. i \in 1..(Len(s) - m) /\ m + i \in 1..Len(t)
    BY <1>1
  <2> QED BY <1>2, <1>3, <1>4, <2>1
<1> HIDE DEF left
<1>6. SubSeq(rest, 1, left) = back
  BY <1>3, <1>4, <1>5, SeqEqual
<1> QED BY <1>6 DEF rest, back, left

\* The result of a call, at the end of what its caller had.
LEMMA OneMore ==
  ASSUME NEW S, NEW s \in Seq(S), NEW m \in Nat, NEW n \in Nat, m <= n, Len(s) = n + 1
  PROVE  /\ SubSeq(s, n + 1, Len(s)) = <<s[n + 1]>>
         /\ SubSeq(s, m + 1, Len(s)) = Append(SubSeq(s, m + 1, n), s[n + 1])
<1>1. m + 1 \in 1..Len(s) /\ Len(s) \in (m + 1)..Len(s) /\ Len(s) - 1 = n
  OBVIOUS
<1>2. SubSeq(s, m + 1, Len(s)) = SubSeq(s, m + 1, Len(s) - 1) \o <<s[Len(s)]>>
  BY <1>1, SubSeqRecursiveSecond
<1>3. SubSeq(s, m + 1, n) \in Seq(S)
  <2>1. \A i \in (m + 1)..n : s[i] \in S
    OBVIOUS
  <2> QED BY <2>1, SubSeqProperties
<1>4. s[n + 1] \in S
  OBVIOUS
<1>5. SubSeq(s, m + 1, n) \o <<s[n + 1]>> = Append(SubSeq(s, m + 1, n), s[n + 1])
  BY <1>3, <1>4, AppendIsConcat
<1>6. SubSeq(s, n + 1, Len(s)) = <<s[n + 1]>>
  <2>1. n + 1 \in Int /\ Len(s) \in Int /\ \A i \in (n + 1)..Len(s) : s[i] \in S
    OBVIOUS
  <2>2. /\ SubSeq(s, n + 1, Len(s)) \in Seq(S)
        /\ Len(SubSeq(s, n + 1, Len(s))) = IF n + 1 <= Len(s) THEN Len(s) - (n + 1) + 1 ELSE 0
        /\ \A i \in 1..(Len(s) - (n + 1) + 1) :
             SubSeq(s, n + 1, Len(s))[i] = s[(n + 1) + i - 1]
    BY <2>1, SubSeqProperties
  <2>3. Len(SubSeq(s, n + 1, Len(s))) = 1 /\ SubSeq(s, n + 1, Len(s))[1] = s[n + 1]
    BY <2>2
  <2>4. <<s[n + 1]>> \in Seq(S) /\ Len(<<s[n + 1]>>) = 1 /\ <<s[n + 1]>>[1] = s[n + 1]
    BY <1>4
  <2>5. \A i \in 1..1 : SubSeq(s, n + 1, Len(s))[i] = <<s[n + 1]>>[i]
    BY <2>3, <2>4
  <2>6. SubSeq(s, n + 1, Len(s)) \in Seq(S)
    BY <2>2
  <2> QED BY <2>3, <2>4, <2>5, <2>6, SeqEqual
<1> QED BY <1>1, <1>2, <1>5, <1>6

\* There are as many slices as frames.
LEMMA CutLength ==
  ASSUME NEW b, NEW s, NEW k \in Nat
  PROVE  Len(Cut(b, s, k)) = k /\ (k > 0 => Cut(b, s, k) # <<>>)
BY DEF Cut

\* What the slices are.
LEMMA CutParts ==
  ASSUME NEW b, NEW s, NEW k \in Nat \ {0}
  PROVE  /\ Cut(b, s, k)[k] = SubSeq(s, b[k] + 1, Len(s))
         /\ \A i \in 1..(k - 1) : Cut(b, s, k)[i] = SubSeq(s, b[i] + 1, b[i + 1])
         /\ DOMAIN Cut(b, s, k) = 1..k
         /\ Cut(b, s, k) = [i \in 1..k |-> Cut(b, s, k)[i]]
<1>1. k \in 1..k /\ \A i \in 1..(k - 1) : i \in 1..k /\ i # k
  OBVIOUS
<1> QED BY <1>1 DEF Cut

\* An empty stack is one empty slice.
LEMMA EmptyCut ==
  ASSUME NEW b, b[1] = 0 PROVE Cut(b, <<>>, 1) = <<<<>>>>
<1>1. SubSeq(<<>>, b[1] + 1, Len(<<>>)) = <<>>
  OBVIOUS
<1>2. Cut(b, <<>>, 1) = [i \in 1..1 |-> <<>>]
  BY <1>1 DEF Cut
<1> QED BY <1>2

-----------------------------------------------------------------------------
(* The slices of the machine. *)

\* While a program runs there are bases, and they cut the stack.
LEMMA BaseFacts ==
  ASSUME TypeOK, Discipline, Running
  PROVE  /\ Bases(Base)
         /\ Slices = Cut(Base, stack, Len(frames))
<1>1. \E b : Bases(b)
  BY DEF Discipline
<1>2. \E b \in [1..Len(frames) -> 0..Len(stack)] : Bases(b)
  BY <1>1 DEF Bases
<1>3. Bases(Base)
  BY <1>2 DEF Base
<1> QED BY <1>3 DEF Slices, Slice, Cut

\* The same after the step.
LEMMA NextBaseFacts ==
  ASSUME TypeOK', Discipline', Running'
  PROVE  \E c : /\ Bases(c)'
                /\ Slices' = Cut(c, stack', Len(frames'))
<1>1. PICK d : Bases(d)'
  BY DEF Discipline
<1>2. PICK c : c = Base'
  OBVIOUS
<1>3. \E b \in [1..Len(frames') -> 0..Len(stack')] : Bases(b)'
  BY <1>1 DEF Bases
<1>4. Bases(c)'
  BY <1>2, <1>3 DEF Base
<1>5. Slices' = Cut(c, stack', Len(frames'))
  BY <1>2 DEF Slices, Slice, Cut
<1> QED BY <1>4, <1>5

\* Frames that were and stay at the same depth have their operands begin at the
\* same place.
LEMMA SameBases ==
  ASSUME NEW b, NEW c, NEW m \in Nat
  PROVE  (/\ Len(frames) \in Nat /\ Len(frames') \in Nat
          /\ Bases(b) /\ Bases(c)' /\ 1 <= m /\ m <= Len(frames) /\ m <= Len(frames')
          /\ \A i \in 1..(m - 1) : frames'[i] = frames[i])
         => \A i \in 1..m : b[i] = c[i]
<1> DEFINE same ==
             /\ Len(frames) \in Nat /\ Len(frames') \in Nat
             /\ Bases(b) /\ Bases(c)' /\ 1 <= m /\ m <= Len(frames) /\ m <= Len(frames')
             /\ \A i \in 1..(m - 1) : frames'[i] = frames[i]
<1>1. same => b[1] = c[1]
  BY DEF Bases
<1>2. same => \A i \in 1..(m - 1) : b[i] = c[i] => b[i + 1] = c[i + 1]
  <2> SUFFICES ASSUME same, NEW i \in 1..(m - 1), b[i] = c[i] PROVE b[i + 1] = c[i + 1]
    OBVIOUS
  <2>1. i \in 1..(Len(frames) - 1) /\ i \in 1..(Len(frames') - 1)
    OBVIOUS
  <2>2. b[i + 1] = b[i] + OperandsOf(frames[i]) - 1
    BY <2>1 DEF Bases
  <2>3. c[i + 1] = c[i] + OperandsOf(frames'[i]) - 1
    BY <2>1 DEF Bases
  <2> QED BY <2>2, <2>3
<1> HIDE DEF same
<1>3. same => \A i \in 1..m : b[i] = c[i]
  BY <1>1, <1>2, RowsAgree
<1> QED BY <1>3 DEF same

\* The stack before and after a step is a sequence of the same kind of things.
LEMMA StacksType ==
  ASSUME TypeOK, TypeOK'
  PROVE  \E S : stack \in Seq(S) /\ stack' \in Seq(S)
<1> DEFINE S == Value(Len(heap)) \cup Value(Len(heap'))
<1>1. stack \in Seq(Value(Len(heap))) /\ stack' \in Seq(Value(Len(heap')))
  BY DEF TypeOK
<1>2. stack \in Seq(S) /\ stack' \in Seq(S)
  <2> HIDE DEF TypeOK
  <2>1. Value(Len(heap)) \subseteq S /\ Value(Len(heap')) \subseteq S
    OBVIOUS
  <2> HIDE DEF S
  <2> QED BY <1>1, <2>1
<1> QED BY <1>2

\* If the bases agree up to the frame m and so does the stack below it, the
\* slices below it stay as they are.
LEMMA LowerCuts ==
  ASSUME TypeOK, TypeOK', NEW b, NEW c, NEW m \in Nat,
         Len(frames) \in Nat, Len(frames') \in Nat,
         Bases(b), Bases(c)', 1 <= m, m <= Len(frames), m <= Len(frames'),
         \A i \in 1..m : b[i] = c[i],
         \A j \in 1..b[m] : stack'[j] = stack[j]
  PROVE  \A i \in 1..(m - 1) :
           Cut(c, stack', Len(frames'))[i] = Cut(b, stack, Len(frames))[i]
<1>1. PICK S : stack \in Seq(S) /\ stack' \in Seq(S)
  BY StacksType
<1> SUFFICES ASSUME NEW i \in 1..(m - 1)
             PROVE  Cut(c, stack', Len(frames'))[i] = Cut(b, stack, Len(frames))[i]
  OBVIOUS
<1>2. /\ i \in Nat /\ 1 <= i /\ i < Len(frames) /\ i < Len(frames')
      /\ i \in 1..m /\ i + 1 \in 1..m
      /\ i + 1 \in 1..Len(frames) /\ i + 1 \in 1..Len(frames') /\ i \in 1..Len(frames)
      /\ m \in 1..Len(frames) /\ i + 1 <= m
  OBVIOUS
<1>3. b \in [1..Len(frames) -> 0..Len(stack)] /\ c \in [1..Len(frames') -> 0..Len(stack')]
  BY DEF Bases
<1>4. Len(stack) \in Nat /\ Len(stack') \in Nat
  BY <1>1
<1>5. /\ b[i] \in Nat /\ b[i + 1] \in Nat /\ c[i] = b[i] /\ c[i + 1] = b[i + 1]
      /\ b[i + 1] <= Len(stack) /\ b[i + 1] <= Len(stack') /\ b[m] \in Nat
  BY <1>2, <1>3, <1>4
<1>6. b[i + 1] <= b[m]
  BY <1>2 DEF Bases
<1>7. \A j \in 1..b[i + 1] : stack[j] = stack'[j]
  BY <1>5, <1>6
<1> QED BY <1>1, <1>2, <1>5, <1>7, LowerSlices

-----------------------------------------------------------------------------
(* The kinds of steps are actions of CallStacks. *)

\* The calls whose operands are in view, before a step.
LEMMA CallsBefore ==
  ASSUME TypeOK, Discipline, Running
  PROVE  /\ Len(Slices) = Len(frames) /\ Slices # <<>> /\ Separate!Nesting = Len(frames)
         /\ Separate!Innermost = Slices[Len(frames)]
<1>1. Len(frames) \in Nat \ {0}
  BY DisciplineFacts
<1>2. Slices = Cut(Base, stack, Len(frames))
  BY BaseFacts
<1>3. Len(Slices) = Len(frames) /\ Slices # <<>>
  BY <1>1, <1>2, CutLength
<1> QED BY <1>3 DEF Separate!Nesting, Separate!Innermost

\* Whatever else a step does that leaves the callers and their operands alone, it
\* works on the operands of the innermost call.
LEMMA WorksOnInnermost ==
  ASSUME TypeOK, TypeOK', Discipline, Discipline', Running, UNCHANGED <<unit, outcome>>,
         Len(frames') = Len(frames),
         \A i \in 1..(Len(frames) - 1) : frames'[i] = frames[i],
         \A i \in 1..(Len(stack) - OperandsOf(Frame)) : stack'[i] = stack[i]
  PROVE  Separate!Work
<1> DEFINE k == Len(frames)
<1>1. k \in Nat \ {0} /\ Frame = frames[k] /\ Len(stack) \in Nat
  BY DisciplineFacts
<1>2. Running'
  BY DEF Running
<1>3. PICK b : b = Base
  OBVIOUS
<1>4. Bases(b) /\ Slices = Cut(b, stack, k)
  BY <1>3, BaseFacts
<1>5. PICK c : Bases(c)' /\ Slices' = Cut(c, stack', Len(frames'))
  BY <1>2, NextBaseFacts
<1>6. \A i \in 1..k : b[i] = c[i]
  BY <1>1, <1>4, <1>5, SameBases
<1>7. b[k] = Len(stack) - OperandsOf(Frame)
  <2>1. Len(stack) = b[k] + OperandsOf(Frame) /\ b[k] \in 0..Len(stack)
    BY <1>1, <1>4 DEF Bases
  <2>2. OperandsOf(Frame) \in Nat
    BY <1>1, FrameFacts, DepthType, DisciplineFacts DEF FramesInCode, CodeOf
  <2> QED BY <2>1, <2>2
<1>8. \A i \in 1..(k - 1) : Slices'[i] = Slices[i]
  <2>1. \A j \in 1..b[k] : stack'[j] = stack[j]
    BY <1>7
  <2>2. k \in Nat /\ Len(frames') \in Nat /\ 1 <= k /\ k <= k /\ k <= Len(frames')
    BY <1>1
  <2>3. \A i \in 1..(k - 1) :
          Cut(c, stack', Len(frames'))[i] = Cut(b, stack, Len(frames))[i]
    BY <1>4, <1>5, <1>6, <2>1, <2>2, LowerCuts, Zenon
  <2> QED BY <1>4, <1>5, <2>3
<1>9. Len(Slices') = k
  BY <1>1, <1>5, CutLength
<1>10. UNCHANGED Finished
  BY DEF Finished
<1> QED BY <1>8, <1>9, <1>10, CallsBefore DEF Separate!Work

\* What the innermost frame has on the stack is above its base.
LEMMA TopBase ==
  ASSUME TypeOK, Discipline, Running, NEW b, Bases(b)
  PROVE  /\ b[Len(frames)] \in 0..Len(stack)
         /\ OperandsOf(Frame) \in Nat
         /\ b[Len(frames)] = Len(stack) - OperandsOf(Frame)
         /\ \A i \in 1..Len(frames) : b[i] \in 0..Len(stack)
<1>1. Len(frames) \in Nat \ {0} /\ Frame = frames[Len(frames)] /\ Len(stack) \in Nat
  BY DisciplineFacts
<1>2. Len(stack) = b[Len(frames)] + OperandsOf(Frame) /\ b \in [1..Len(frames) -> 0..Len(stack)]
  BY DEF Bases
<1>3. OperandsOf(Frame) \in Nat
  BY <1>1, FrameFacts, DepthType, DisciplineFacts DEF FramesInCode, CodeOf
<1> QED BY <1>1, <1>2, <1>3

\* A call enters the callee.
LEMMA EntersCall ==
  ASSUME TypeOK, TypeOK', Discipline, Discipline', Running, NEW n \in Nat, Enters(n)
  PROVE  Separate!Enter
<1> DEFINE k == Len(frames)
           left == Len(stack) - (n + 1) - Base[k]
<1>1. /\ k \in Nat \ {0} /\ Frame = frames[k] /\ Len(stack) \in Nat /\ Len(stack') \in Nat
      /\ Len(frames') = k + 1
  <2>1. stack' \in Seq(Value(Len(heap')))
    BY DEF TypeOK
  <2> QED BY <2>1, DisciplineFacts DEF Enters
<1>2. /\ Running' /\ UNCHANGED outcome
      /\ \A i \in 1..(k - 1) : frames'[i] = frames[i]
      /\ n + 1 <= OperandsOf(Frame)
      /\ Len(stack') = Len(stack) - (n + 1)
      /\ \A i \in 1..(Len(stack) - (n + 1)) : stack'[i] = stack[i]
  BY DEF Enters, Running
<1>3. PICK b : b = Base
  OBVIOUS
<1>4. Bases(b) /\ Slices = Cut(b, stack, k)
  BY <1>3, BaseFacts
<1>5. PICK c : Bases(c)' /\ Slices' = Cut(c, stack', k + 1)
  BY <1>1, <1>2, NextBaseFacts
<1>6. \A i \in 1..k : b[i] = c[i]
  BY <1>1, <1>2, <1>4, <1>5, SameBases
<1>7. /\ b[k] \in 0..Len(stack) /\ OperandsOf(Frame) \in Nat
      /\ b[k] = Len(stack) - OperandsOf(Frame)
  BY <1>4, TopBase
<1>8. c[k + 1] = Len(stack')
  <2>1. frames'[k + 1].chunk \in Handle /\ frames'[k + 1].instruction = 0
    BY DEF Enters
  <2>2. OperandsOf(frames'[k + 1]) = 0
    BY <2>1, DepthType DEF OperandsOf
  <2>3. Frame' = frames'[k + 1]
    BY <1>1 DEF Frame
  <2>4. Len(stack') = c[k + 1] + OperandsOf(frames'[k + 1]) /\ c[k + 1] \in 0..Len(stack')
    BY <1>1, <1>5, <2>3 DEF Bases
  <2> QED BY <2>2, <2>4
<1>9. \A i \in 1..(k - 1) : Slices'[i] = Slices[i]
  <2>1. \A j \in 1..b[k] : stack'[j] = stack[j]
    BY <1>2, <1>7
  <2>2. k \in Nat /\ Len(frames') \in Nat /\ 1 <= k /\ k <= k /\ k <= Len(frames')
    BY <1>1
  <2>3. \A i \in 1..(k - 1) : Cut(c, stack', Len(frames'))[i] = Cut(b, stack, Len(frames))[i]
    BY <1>4, <1>5, <1>6, <2>1, <2>2, LowerCuts, Zenon
  <2> QED BY <1>1, <1>4, <1>5, <2>3
<1>10. PICK S : stack \in Seq(S) /\ stack' \in Seq(S)
  BY StacksType
<1>11. Slices[k] = SubSeq(stack, b[k] + 1, Len(stack))
  BY <1>1, <1>4, CutParts
<1>12. Slices'[k] = SubSeq(Slices[k], 1, Len(stack') - b[k])
  <2>1. Slices'[k] = SubSeq(stack', c[k] + 1, c[k + 1])
    BY <1>1, <1>5, CutParts
  <2>2. SubSeq(stack', b[k] + 1, Len(stack')) = SubSeq(Slices[k], 1, Len(stack') - b[k])
    <3>1. b[k] \in Nat /\ b[k] <= Len(stack') /\ Len(stack') <= Len(stack)
      BY <1>1, <1>2, <1>7
    <3>2. \A i \in 1..Len(stack') : stack[i] = stack'[i]
      BY <1>2
    <3>3. SubSeq(stack', b[k] + 1, Len(stack'))
            = SubSeq(SubSeq(stack, b[k] + 1, Len(stack)), 1, Len(stack') - b[k])
      BY <1>10, <3>1, <3>2, FrontOfRest
    <3> QED BY <1>11, <3>3
  <2>3. c[k] = b[k]
    BY <1>1, <1>6
  <2> QED BY <1>8, <2>1, <2>2, <2>3
<1>13. Slices'[k + 1] = <<>>
  <2>1. Slices'[k + 1] = SubSeq(stack', Len(stack') + 1, Len(stack'))
    BY <1>1, <1>5, <1>8, CutParts
  <2> QED BY <1>1, <1>10, <2>1, SubSeqEmpty
<1>14. Len(Slices[k]) = Len(stack) - b[k]
  <2>1. \A i \in (b[k] + 1)..Len(stack) : stack[i] \in S
    BY <1>7, <1>10
  <2> QED BY <1>1, <1>7, <1>11, <2>1, SubSeqProperties
<1>15. Len(stack') - b[k] \in 0..(Len(Slices[k]) - 1)
  <2>1. Len(stack') - b[k] = OperandsOf(Frame) - (n + 1)
    BY <1>1, <1>2, <1>7
  <2>2. Len(Slices[k]) = OperandsOf(Frame)
    BY <1>1, <1>7, <1>14
  <2> QED BY <1>2, <1>7, <2>1, <2>2
<1>16. Slices' = [i \in 1..(k + 1) |-> IF i < k THEN Slices[i]
                                     ELSE IF i = k THEN SubSeq(Slices[k], 1, Len(stack') - b[k])
                                     ELSE <<>>]
  <2>1. DOMAIN Slices' = 1..(k + 1) /\ Slices' = [i \in 1..(k + 1) |-> Slices'[i]]
    BY <1>1, <1>5, CutParts
  <2> QED BY <1>1, <1>9, <1>12, <1>13, <2>1
<1>17. UNCHANGED Finished
  BY <1>2 DEF Finished
<1> QED BY <1>15, <1>16, <1>17, CallsBefore DEF Separate!Enter

\* A return leaves the innermost call.
LEMMA LeavesCall ==
  ASSUME TypeOK, TypeOK', Discipline, Discipline', Running, Leaves
  PROVE  Separate!Leave
<1> DEFINE k == Len(frames)
<1>1. /\ k \in Nat \ {0} /\ k > 1 /\ Len(stack) \in Nat /\ OperandsOf(Frame) = 1
      /\ stack' = stack /\ Running' /\ UNCHANGED outcome
  BY DisciplineFacts DEF Leaves, Running
<1>2. Len(frames') = k - 1 /\ \A i \in 1..(k - 1) : frames'[i] = frames[i]
  BY CallerType DEF Leaves
<1>3. PICK b : b = Base
  OBVIOUS
<1>4. Bases(b) /\ Slices = Cut(b, stack, k)
  BY <1>3, BaseFacts
<1>5. PICK c : Bases(c)' /\ Slices' = Cut(c, stack, k - 1)
  BY <1>1, <1>2, NextBaseFacts
<1>6. k - 1 \in Nat \ {0} /\ 1 <= k - 1 /\ k - 1 <= k /\ k - 1 \in 1..k /\ k \in 1..k
  <2>1. k \in Nat /\ k > 1
    BY <1>1
  <2> HIDE DEF k
  <2> QED BY <2>1
<1>7. \A i \in 1..(k - 1) : b[i] = c[i]
  <2>1. \A i \in 1..((k - 1) - 1) : frames'[i] = frames[i]
    BY <1>2, <1>6
  <2> QED BY <1>2, <1>4, <1>5, <1>6, <2>1, SameBases
<1>8. /\ b[k] \in Nat /\ b[k - 1] \in Nat /\ Len(stack) = b[k] + 1 /\ b[k - 1] <= b[k]
  <2>1. b[k - 1] <= b[k]
    BY <1>4, <1>6 DEF Bases
  <2>2. b[k] = Len(stack) - 1 /\ \A i \in 1..k : b[i] \in 0..Len(stack)
    BY <1>1, <1>4, TopBase
  <2> QED BY <1>1, <1>6, <2>1, <2>2
<1>9. \A i \in 1..(k - 2) : Slices'[i] = Slices[i]
  <2>1. \A j \in 1..b[k - 1] : stack'[j] = stack[j]
    BY <1>1
  <2>2. \A i \in 1..((k - 1) - 1) :
          Cut(c, stack', Len(frames'))[i] = Cut(b, stack, Len(frames))[i]
    <3>1. Len(frames') \in Nat /\ k - 1 <= Len(frames') /\ k - 1 \in Nat /\ k \in Nat
      BY <1>2, <1>6
    <3> QED BY <1>4, <1>5, <1>6, <1>7, <2>1, <3>1, LowerCuts, Zenon
  <2>3. (k - 1) - 1 = k - 2
    BY <1>1
  <2> QED BY <1>1, <1>2, <1>4, <1>5, <2>2, <2>3
<1>10. PICK S : stack \in Seq(S)
  BY StacksType
<1>11. /\ Slices[k] = SubSeq(stack, b[k] + 1, Len(stack))
       /\ Slices[k - 1] = SubSeq(stack, b[k - 1] + 1, b[k])
       /\ Slices'[k - 1] = SubSeq(stack, b[k - 1] + 1, Len(stack))
  <2>1. Slices[k] = SubSeq(stack, b[k] + 1, Len(stack))
    BY <1>1, <1>4, CutParts
  <2>2. Slices[k - 1] = SubSeq(stack, b[k - 1] + 1, b[k])
    <3>1. k - 1 \in 1..(k - 1) /\ (k - 1) + 1 = k
      BY <1>1
    <3>2. Cut(b, stack, k)[k - 1] = SubSeq(stack, b[k - 1] + 1, b[(k - 1) + 1])
      BY <1>1, <3>1, CutParts
    <3> QED BY <1>4, <3>1, <3>2
  <2>3. Slices'[k - 1] = SubSeq(stack, c[k - 1] + 1, Len(stack))
    BY <1>5, <1>6, CutParts
  <2>4. c[k - 1] = b[k - 1]
    BY <1>6, <1>7
  <2> QED BY <2>1, <2>2, <2>3, <2>4
<1>12. /\ Slices[k] = <<stack[b[k] + 1]>>
       /\ Slices'[k - 1] = Append(Slices[k - 1], stack[b[k] + 1])
  <2>1. /\ SubSeq(stack, b[k] + 1, Len(stack)) = <<stack[b[k] + 1]>>
        /\ SubSeq(stack, b[k - 1] + 1, Len(stack))
             = Append(SubSeq(stack, b[k - 1] + 1, b[k]), stack[b[k] + 1])
    BY <1>8, <1>10, OneMore
  <2> QED BY <1>11, <2>1
<1>13. Len(Slices[k]) = 1 /\ Slices'[k - 1] = Append(Slices[k - 1], Slices[k][1])
  BY <1>12
<1>14. Slices' = [i \in 1..(k - 1) |-> IF i = k - 1 THEN Append(Slices[i], Slices[k][1])
                                     ELSE Slices[i]]
  <2>1. Slices' = [i \in 1..(k - 1) |-> Slices'[i]]
    BY <1>5, <1>6, CutParts
  <2>2. \A i \in 1..(k - 1) : i # k - 1 => i \in 1..(k - 2)
    BY <1>1
  <2> QED BY <1>9, <1>13, <2>1, <2>2
<1>15. UNCHANGED Finished
  BY <1>1 DEF Finished
<1> QED BY <1>1, <1>13, <1>14, <1>15, CallsBefore DEF Separate!Leave

-----------------------------------------------------------------------------
(* How programs end. *)

\* A program that runs has not ended yet.
UnitRuns == Running => outcome[unit] = "none"

\* A step leaves all outcomes as they are, or ends the program, unfinished.
Unfinished ==
  \/ UNCHANGED outcome
  \/ \E ended : ended # "finished" /\ outcome' = [outcome EXCEPT ![unit] = ended]

\* An error ends a program before its code does.
LEMMA RaiseUnfinished ==
  ASSUME NEW error, error # "finished", NEW rest, Raise(error, rest)
  PROVE  Unfinished
BY DEF Raise, Unfinished

\* So does the end of the process.
LEMMA KillUnfinished ==
  ASSUME Kill PROVE Unfinished
BY DEF Kill, Unfinished

\* And whatever else takes operands away.
LEMMA FailureUnfinished ==
  ASSUME NEW n, RunOutOfMemory(n) \/ PopsFail(n) \/ CheckFails(n)
  PROVE  Unfinished
BY RaiseUnfinished, KillUnfinished, Zenon DEF RunOutOfMemory, PopsFail, CheckFails

\* An instruction that has a result goes on.
LEMMA PushUnfinished ==
  /\ \A n, value : Push(n, value) => Unfinished
  /\ \A n, elements : PushList(n, elements) => Unfinished
BY DEF Push, PushList, Unfinished

\* Only at the end of its code does a program finish.
LEMMA OnlyAtTheEnd ==
  ASSUME Step PROVE EndOfCode \/ Unfinished
<1>1. LoadConstant => Unfinished
  BY PushUnfinished DEF LoadConstant
<1>2. LoadVariable => Unfinished
  BY PushUnfinished, RaiseUnfinished, Zenon DEF LoadVariable
<1>3. StoreVariable => Unfinished
  BY FailureUnfinished, Zenon DEF StoreVariable, Unfinished
<1>4. BuildList => Unfinished
  BY PushUnfinished, FailureUnfinished, Zenon DEF BuildList
<1>5. Pop => Unfinished
  BY FailureUnfinished, Zenon DEF Pop, Unfinished
<1>6. PrintTop => Unfinished
  BY FailureUnfinished, Zenon DEF PrintTop, Unfinished
<1>7. Negate => Unfinished
  BY PushUnfinished, RaiseUnfinished, FailureUnfinished, Zenon DEF Negate
<1>8. Binary => Unfinished
  <2>1. ASSUME NEW op, NEW l, NEW r, Compute(op, l, r) PROVE Unfinished
    <3>1. ArithmeticError(op, l, r) # "finished"
      BY Zenon DEF ArithmeticError
    <3> QED BY <2>1, <3>1, PushUnfinished, RaiseUnfinished, KillUnfinished, Zenon DEF Compute
  <2> QED BY <2>1, FailureUnfinished DEF Binary
<1>9. Compare => Unfinished
  BY PushUnfinished, RaiseUnfinished, FailureUnfinished, Zenon DEF Compare
<1>10. Jump => Unfinished
  BY DEF Jump, Unfinished
<1>11. JumpIfFalse => Unfinished
  BY FailureUnfinished, Zenon DEF JumpIfFalse, Unfinished
<1>12. CallBuiltin => Unfinished
  <2>1. ASSUME NEW builtin \in {"len", "type", "range"}, NEW arguments,
               InvokeBuiltin(builtin, arguments)
        PROVE  Unfinished
    BY <2>1, PushUnfinished, RaiseUnfinished, FailureUnfinished, Zenon DEF InvokeBuiltin
  <2>2. \A number \in 1..3 : BuiltinOfNumber[number] \in {"len", "type", "range"}
    BY DEF BuiltinOfNumber
  <2> QED BY <2>1, <2>2, FailureUnfinished, RaiseUnfinished, Zenon DEF CallBuiltin
<1>13. Call => Unfinished
  BY RaiseUnfinished, FailureUnfinished, Zenon DEF Call, Unfinished
<1>14. Return => Unfinished
  BY RaiseUnfinished, FailureUnfinished, Zenon DEF Return, Unfinished
<1> QED BY <1>1, <1>2, <1>3, <1>4, <1>5, <1>6, <1>7, <1>8, <1>9, <1>10, <1>11, <1>12,
           <1>13, <1>14 DEF Step

\* At the end of its code a program has no operands and no calls.
LEMMA EndFinishes ==
  ASSUME TypeOK, Discipline, Running, UnitRuns, EndOfCode, Ends
  PROVE  Separate!Finish(unit) /\ unit \in Units
<1>1. Len(frames) = 1 /\ unit' = NoUnit /\ outcome' = [outcome EXCEPT ![unit] = "finished"]
  BY DEF EndOfCode, Ends, Running
<1>2. unit \in Units /\ outcome \in [Units -> Outcome] /\ outcome[unit] = "none"
  BY DEF TypeOK, Running, UnitRuns
<1>3. Frame = frames[1] /\ FramesInCode /\ Code = CodeOf(Frame) /\ Len(stack) \in Nat
  BY <1>1, DisciplineFacts
<1>4. Frame.chunk \in Handle \cup Units /\ Frame.instruction \in Nat /\ Len(Code) \in Nat
  BY FrameFacts, DepthType DEF Code
<1>5. Frame.instruction = Len(Code)
  <2>1. Frame.instruction \in 0..Len(Code)
    BY <1>1, <1>3 DEF FramesInCode
  <2>2. Frame.instruction >= Len(Code)
    BY DEF EndOfCode
  <2> QED BY <1>4, <2>1, <2>2
<1>6. OperandsOf(Frame) = 0
  BY <1>3, <1>4, <1>5, CompiledAssumption DEF Balanced, OperandsOf, CodeOf
<1>7. PICK b : b = Base
  OBVIOUS
<1>8. Bases(b) /\ Slices = Cut(b, stack, 1)
  BY <1>1, <1>7, BaseFacts
<1>9. b[1] = 0 /\ Len(stack) = 0
  BY <1>1, <1>3, <1>6, <1>8 DEF Bases
<1>10. Slices = <<<<>>>>
  <2>1. stack = <<>>
    BY <1>9 DEF TypeOK
  <2> QED BY <1>8, <1>9, <2>1, EmptyCut
<1>11. Slices' = <<>>
  BY <1>1 DEF Slices, Running
<1>12. unit \notin Finished
  BY <1>2 DEF Finished
<1>13. Finished' = Finished \cup {unit}
  BY <1>1, <1>2 DEF Finished
<1> QED BY <1>2, <1>10, <1>11, <1>12, <1>13 DEF Separate!Finish

\* Whatever else ends a program ends all its calls.
LEMMA ErrorAborts ==
  ASSUME TypeOK, Discipline, Running, UnitRuns, Unfinished, Ends
  PROVE  Separate!Abort
<1>1. unit \in Units /\ outcome \in [Units -> Outcome] /\ outcome[unit] = "none"
  BY DEF TypeOK, Running, UnitRuns
<1>2. UNCHANGED Finished
  BY <1>1 DEF Finished, Unfinished
<1>3. Slices' = <<>>
  BY DEF Slices, Ends
<1> QED BY <1>2, <1>3, CallsBefore DEF Separate!Abort

\* A program begins with one call, which has no operands.
LEMMA ExecuteBegins ==
  ASSUME TypeOK, TypeOK', Discipline', NEW u \in Units, Execute(u)
  PROVE  Separate!Begin
<1>1. /\ ~Running /\ Running' /\ stack' = <<>> /\ UNCHANGED outcome /\ Len(frames') = 1
  BY MachineAssumption DEF Execute, Running
<1>2. Slices = <<>> /\ UNCHANGED Finished
  BY <1>1 DEF Slices, Finished
<1>3. PICK c : Bases(c)' /\ Slices' = Cut(c, <<>>, 1)
  BY <1>1, NextBaseFacts
<1>4. c[1] = 0
  BY <1>3 DEF Bases
<1>5. Slices' = <<<<>>>>
  BY <1>3, <1>4, EmptyCut
<1> QED BY <1>2, <1>5 DEF Separate!Begin

-----------------------------------------------------------------------------
(* The results. *)

\* A program that runs has no outcome yet.
THEOREM RunningHasNoOutcome == Spec => []UnitRuns
<1>1. Init => UnitRuns
  BY DEF Init, UnitRuns, Running
<1>2. ASSUME TypeOK, Discipline, UnitRuns, [Next]_vars PROVE UnitRuns'
  <2>1. CASE Step
    <3>1. Kind
      BY <1>2, <2>1, StepKind
    <3>2. ~Running' \/ UNCHANGED <<unit, outcome>>
      BY <3>1 DEF Kind, Ends, MovesTo, Enters, Leaves
    <3> QED BY <1>2, <3>2 DEF UnitRuns, Running
  <2>2. CASE \E u \in Units : Execute(u)
    BY <2>2 DEF Execute, UnitRuns
  <2>3. CASE UNCHANGED vars
    BY <1>2, <2>3 DEF vars, UnitRuns, Running
  <2> QED BY <1>2, <2>1, <2>2, <2>3 DEF Next
<1> QED BY <1>1, <1>2, Disciplined, PTL DEF Spec

\* The machine with one stack implements calls with operands of their own.
THEOREM CallsAreAsIfSeparate == Spec => CallsAreSeparate
<1>1. Init => Separate!Init
  BY DEF Init, Separate!Init, Slices, Running, Finished
<1>2. ASSUME TypeOK, TypeOK', Discipline, Discipline', UnitRuns, [Next]_vars
      PROVE  [Separate!Next]_<<Slices, Finished>>
  <2>1. CASE Step
    <3>1. Kind /\ Running /\ (EndOfCode \/ Unfinished)
      BY <1>2, <2>1, StepKind, OnlyAtTheEnd
    <3>2. CASE Ends
      BY <1>2, <3>1, <3>2, EndFinishes, ErrorAborts DEF Separate!Next
    <3>3. ASSUME NEW target \in Nat, MovesTo(target) PROVE Separate!Work
      <4>1. /\ Len(frames') = Len(frames)
            /\ \A i \in 1..(Len(frames) - 1) : frames'[i] = frames[i]
            /\ \A i \in 1..(Len(stack) - OperandsOf(Frame)) : stack'[i] = stack[i]
            /\ UNCHANGED <<unit, outcome>>
        BY <3>3 DEF MovesTo
      <4> QED BY <1>2, <3>1, <4>1, WorksOnInnermost
    <3>4. ASSUME NEW n \in Nat, Enters(n) PROVE Separate!Enter
      BY <1>2, <3>1, <3>4, EntersCall
    <3>5. CASE Leaves
      BY <1>2, <3>1, <3>5, LeavesCall DEF Separate!Next
    <3> QED BY <3>1, <3>2, <3>3, <3>4, <3>5 DEF Kind, Separate!Next
  <2>2. CASE \E u \in Units : Execute(u)
    BY <1>2, <2>2, ExecuteBegins DEF Separate!Next
  <2>3. CASE UNCHANGED vars
    <3>1. UNCHANGED <<stack, frames, unit, outcome>>
      BY <2>3 DEF vars
    <3>2. UNCHANGED Finished
      BY <3>1 DEF Finished
    <3>3. CASE Running
      BY <1>2, <3>1, <3>3, WorksOnInnermost DEF Separate!Next
    <3>4. CASE ~Running
      BY <3>1, <3>2, <3>4 DEF Slices, Running
    <3> QED BY <3>3, <3>4
  <2> QED BY <1>2, <2>1, <2>2, <2>3 DEF Next
<1> QED BY <1>1, <1>2, Disciplined, RunningHasNoOutcome, PTL
        DEF Spec, CallsAreSeparate, Separate!Spec, Separate!vars
=============================================================================
