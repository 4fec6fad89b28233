------------------------ MODULE VirtualMachineProofs ------------------------
(***************************************************************************)
(* Proofs about the virtual machine, for every program, every width of the *)
(* integers and every bound.                                               *)
(***************************************************************************)
EXTENDS VirtualMachine, ValuesProofs, SequenceTheorems

-----------------------------------------------------------------------------
(* Types. *)

\* What was a value, a scope or a frame still is one when more lists are made.
LEMMA Monotone ==
  ASSUME NEW m \in Nat, NEW n \in Nat, m <= n
  PROVE  /\ Seq(Value(m)) \subseteq Seq(Value(n))
         /\ Seq(Seq(Value(m))) \subseteq Seq(Seq(Value(n)))
         /\ Scope(m) \subseteq Scope(n)
         /\ Seq(FrameRecord(m)) \subseteq Seq(FrameRecord(n))
<1>1. Value(m) \subseteq Value(n)
  BY ValueMonotone
<1>2. Seq(Value(m)) \subseteq Seq(Value(n))
  BY <1>1, SeqMonotonic
<1>3. Seq(Seq(Value(m))) \subseteq Seq(Seq(Value(n)))
  BY <1>2, SeqMonotonic
<1>4. Scope(m) \subseteq Scope(n)
  BY <1>1 DEF Scope
<1>5. FrameRecord(m) \subseteq FrameRecord(n)
  BY <1>4 DEF FrameRecord
<1>6. Seq(FrameRecord(m)) \subseteq Seq(FrameRecord(n))
  BY <1>5, SeqMonotonic
<1> QED
  BY <1>2, <1>3, <1>4, <1>6

\* The innermost frame and its chunk.
LEMMA FrameFacts ==
  ASSUME TypeOK, Running
  PROVE  /\ Len(frames) \in Nat \ {0}
         /\ Frame \in FrameRecord(Len(heap))
         /\ Frame.chunk \in Handle \cup Units
         /\ Frame.instruction \in Nat
         /\ Frame.locals \in Scope(Len(heap))
         /\ WellFormed(Chunk[Frame.chunk])
<1>1. frames \in Seq(FrameRecord(Len(heap))) /\ frames # <<>>
  BY DEF TypeOK
<1>2. Len(frames) \in Nat \ {0} /\ Frame \in FrameRecord(Len(heap))
  BY <1>1 DEF Frame
<1> QED
  BY <1>2, CompiledAssumption DEF FrameRecord

\* The instruction about to be executed.
LEMMA FetchFacts ==
  ASSUME TypeOK, NEW ops, Fetches(ops)
  PROVE  /\ Running
         /\ Frame.instruction \in 0..(Len(Code) - 1)
         /\ Instruction \in InstructionRecord
         /\ Instruction.op \in OpCode /\ Instruction.operand \in Nat
         /\ Instruction.op \in ops
         /\ OperandInRange(Chunk[Frame.chunk], Instruction)
<1>1. Running /\ Frame.instruction < Len(Code) /\ Instruction.op \in ops
  BY DEF Fetches
<1>2. WellFormed(Chunk[Frame.chunk]) /\ Frame.instruction \in Nat
  BY <1>1, FrameFacts
<1>3. Code \in Seq(InstructionRecord)
  BY <1>2 DEF WellFormed, Code
<1>4. Frame.instruction + 1 \in 1..Len(Code)
  BY <1>1, <1>2, <1>3
<1>5. OperandInRange(Chunk[Frame.chunk], Instruction)
  BY <1>2, <1>4 DEF WellFormed, Code, Instruction
<1>6. Instruction \in InstructionRecord
  BY <1>3, <1>4 DEF Instruction
<1> QED
  BY <1>1, <1>2, <1>3, <1>5, <1>6 DEF InstructionRecord

\* Moving the innermost frame keeps the frames frames.
LEMMA GoToType ==
  ASSUME TypeOK, Running, NEW target \in Nat
  PROVE  /\ GoTo(target) \in Seq(FrameRecord(Len(heap)))
         /\ Len(GoTo(target)) = Len(frames)
         /\ GoTo(target) # <<>>
<1>1. frames \in Seq(FrameRecord(Len(heap))) /\ Len(frames) \in 1..Len(frames)
  BY FrameFacts DEF TypeOK
<1>2. [Frame EXCEPT !.instruction = target] \in FrameRecord(Len(heap))
  BY FrameFacts DEF FrameRecord
<1>3. GoTo(target) = [frames EXCEPT ![Len(frames)] = [Frame EXCEPT !.instruction = target]]
  BY <1>1 DEF GoTo, Frame
<1> QED
  BY <1>1, <1>2, <1>3, ExceptSeq

\* Going on to the next instruction keeps them too.
LEMMA AdvancedType ==
  ASSUME TypeOK, Running
  PROVE  /\ Advanced \in Seq(FrameRecord(Len(heap)))
         /\ Len(Advanced) = Len(frames)
         /\ Advanced # <<>>
BY FrameFacts, GoToType DEF Advanced

\* The frames below the innermost one.
LEMMA CallerType ==
  ASSUME TypeOK, Running
  PROVE  /\ Caller \in Seq(FrameRecord(Len(heap)))
         /\ Len(Caller) = Len(frames) - 1
         /\ \A i \in 1..(Len(frames) - 1) : Caller[i] = frames[i]
<1>1. frames \in Seq(FrameRecord(Len(heap))) /\ Len(frames) \in Nat \ {0}
  BY FrameFacts DEF TypeOK
<1> DEFINE n == Len(frames) - 1
<1>2. n \in Nat /\ \A i \in 1..n : frames[i] \in FrameRecord(Len(heap))
  BY <1>1
<1>3. Caller = SubSeq(frames, 1, n)
  BY DEF Caller
<1> HIDE DEF n
<1>4. /\ Caller \in Seq(FrameRecord(Len(heap)))
      /\ Len(Caller) = n
      /\ \A i \in 1..n : Caller[i] = frames[i]
  BY <1>2, <1>3, SubSeqProperties
<1> QED BY <1>4 DEF n

\* What is left of the operands, and what was on top of them.
LEMMA StackType ==
  ASSUME TypeOK, NEW n \in 0..Len(stack)
  PROVE  /\ Below(n) \in Seq(Value(Len(heap)))
         /\ Len(Below(n)) = Len(stack) - n
         /\ \A i \in 1..(Len(stack) - n) : Below(n)[i] = stack[i]
         /\ Arguments(n) \in Seq(Value(Len(heap)))
         /\ Len(Arguments(n)) = n
         /\ n >= 1 => Top \in Value(Len(heap))
         /\ n >= 2 => Second \in Value(Len(heap))
         /\ n < Len(stack) => stack[Len(stack) - n] \in Value(Len(heap))
<1>1. stack \in Seq(Value(Len(heap))) /\ Len(stack) \in Nat
  BY DEF TypeOK
<1>2. Below(n) = SubSeq(stack, 1, Len(stack) - n) /\ Arguments(n) = SubSeq(stack, Len(stack) - n + 1, Len(stack))
  BY DEF Below, Arguments
<1>3. /\ Below(n) \in Seq(Value(Len(heap)))
      /\ Len(Below(n)) = Len(stack) - n
      /\ \A i \in 1..(Len(stack) - n) : Below(n)[i] = stack[i]
  BY <1>1, <1>2
<1>4. Arguments(n) \in Seq(Value(Len(heap))) /\ Len(Arguments(n)) = n
  BY <1>1, <1>2
<1> QED
  BY <1>1, <1>3, <1>4 DEF Top, Second

-----------------------------------------------------------------------------
(* What the instructions have in common keeps the types. *)

\* An instruction that replaces operands by a value (virtual_machine.cpp:101).
LEMMA PushType ==
  ASSUME TypeOK, Running, NEW n \in 0..Len(stack), NEW value \in Value(Len(heap)),
         Push(n, value)
  PROVE  TypeOK'
<1>1. Below(n) \in Seq(Value(Len(heap))) /\ Advanced \in Seq(FrameRecord(Len(heap))) /\ Advanced # <<>>
  BY StackType, AdvancedType
<1>2. /\ stack' = Append(Below(n), value) /\ frames' = Advanced
      /\ UNCHANGED <<globals, heap, output, unit, outcome>>
  BY DEF Push
<1> QED
  BY <1>1, <1>2 DEF TypeOK, Running

\* One that makes a list of some values and pushes it (virtual_machine.cpp:45-52).
LEMMA PushListType ==
  ASSUME TypeOK, Running, NEW n \in 0..Len(stack),
         NEW elements \in Seq(Value(Len(heap))), PushList(n, elements)
  PROVE  TypeOK'
<1>1. /\ heap' = Append(heap, elements)
      /\ stack' = Append(Below(n), List(Len(heap) + 1))
      /\ frames' = Advanced
      /\ UNCHANGED <<globals, output, unit, outcome>>
  BY DEF PushList
<1>2. heap \in Seq(Seq(Value(Len(heap)))) /\ Len(heap) \in Nat
  BY DEF TypeOK
<1>3. Len(heap') = Len(heap) + 1
  BY <1>1, <1>2
<1>4. List(Len(heap) + 1) \in Value(Len(heap'))
  BY <1>2, <1>3, ConstructorTypes
<1>5. /\ Seq(Value(Len(heap))) \subseteq Seq(Value(Len(heap')))
      /\ Seq(Seq(Value(Len(heap)))) \subseteq Seq(Seq(Value(Len(heap'))))
      /\ Scope(Len(heap)) \subseteq Scope(Len(heap'))
      /\ Seq(FrameRecord(Len(heap))) \subseteq Seq(FrameRecord(Len(heap')))
  BY <1>2, <1>3, Monotone
<1>6. Below(n) \in Seq(Value(Len(heap))) /\ Advanced \in Seq(FrameRecord(Len(heap))) /\ Advanced # <<>>
  BY StackType, AdvancedType
<1>7. stack' \in Seq(Value(Len(heap')))
  BY <1>1, <1>4, <1>5, <1>6
<1>8. heap' \in Seq(Seq(Value(Len(heap'))))
  BY <1>1, <1>2, <1>5
<1> QED
  BY <1>1, <1>5, <1>6, <1>7, <1>8 DEF TypeOK, Running

\* An error with the operands that are left (virtual_machine.cpp:174-176).
LEMMA RaiseType ==
  ASSUME TypeOK, Running, NEW error \in Errors, NEW rest \in Seq(Value(Len(heap))),
         Raise(error, rest)
  PROVE  TypeOK'
<1>1. Advanced \in Seq(FrameRecord(Len(heap)))
  BY AdvancedType
<1>2. /\ stack' = rest /\ frames' = Advanced /\ unit' = NoUnit
      /\ outcome' = [outcome EXCEPT ![unit] = error]
      /\ UNCHANGED <<globals, heap, output>>
  BY DEF Raise
<1>3. outcome' \in [Units -> Outcome]
  BY <1>2 DEF TypeOK, Outcome
<1> QED
  BY <1>1, <1>2, <1>3 DEF TypeOK, Running

\* The end of the process.
LEMMA KillType ==
  ASSUME TypeOK, Running, Kill
  PROVE  TypeOK'
<1>1. outcome' \in [Units -> Outcome]
  BY DEF TypeOK, Outcome, Kill
<1> QED
  BY <1>1 DEF TypeOK, Running, Kill

\* A failed allocation, in either of its ways.
LEMMA RunOutOfMemoryType ==
  ASSUME TypeOK, Running, NEW n \in 0..Len(stack), RunOutOfMemory(n)
  PROVE  TypeOK'
BY KillType, RaiseType, StackType DEF RunOutOfMemory, Errors

\* An operand that is not there (virtual_machine.cpp:95-96).
LEMMA PopsFailType ==
  ASSUME TypeOK, Running, NEW n \in Nat, PopsFail(n) \/ CheckFails(n)
  PROVE  TypeOK'
<1>1. <<>> \in Seq(Value(Len(heap))) /\ stack \in Seq(Value(Len(heap)))
  BY DEF TypeOK
<1>2. "stack underflow" \in Errors
  BY DEF Errors
<1> QED
  BY <1>1, <1>2, RaiseType DEF PopsFail, CheckFails

-----------------------------------------------------------------------------
(* Every action keeps the types. *)

\* The text of an operand that names a variable, the value of one that is loaded.
LEMMA OperandType ==
  ASSUME TypeOK, NEW ops, Fetches(ops)
  PROVE  /\ Instruction.op \in {"LoadVariable", "StoreVariable"} => Operand.text \in Names
         /\ Instruction.op = "LoadConstant" => Operand \in Value(Len(heap))
<1> DEFINE chunk == Chunk[Frame.chunk]
<1>1. WellFormed(chunk) /\ OperandInRange(chunk, Instruction)
  BY FetchFacts, FrameFacts
<1> HIDE DEF chunk
<1>2. Operand = ConstantAt(chunk, Instruction.operand)
  BY DEF Operand, chunk
<1>3. ASSUME Instruction.op \in {"LoadVariable", "StoreVariable"}
      PROVE  Operand.text \in Names
  BY <1>1, <1>2, <1>3 DEF OperandInRange
<1>4. ASSUME Instruction.op = "LoadConstant"
      PROVE  Operand \in Value(Len(heap))
  <2>1. chunk.constants \in Seq(Value(0))
    BY <1>1 DEF WellFormed
  <2>2. Instruction.operand \in 0..(Len(chunk.constants) - 1)
    BY <1>1, <1>4 DEF OperandInRange
  <2>3. Operand \in Value(0)
    BY <1>2, <2>1, <2>2 DEF ConstantAt
  <2>4. Len(heap) \in Nat
    BY DEF TypeOK
  <2> QED
    BY <2>3, <2>4, ValueMonotone
<1> QED
  BY <1>3, <1>4

\* What a bound name stands for is a value.
LEMMA BoundIsValue ==
  ASSUME NEW lists, NEW scope \in Scope(lists), NEW x \in Names
  PROVE  scope[x] # Unbound => scope[x] \in Value(lists)
BY DEF Scope

\* LoadConstant (virtual_machine.cpp:44).
LEMMA LoadConstantType ==
  ASSUME TypeOK, LoadConstant PROVE TypeOK'
<1>1. Running /\ Instruction.op = "LoadConstant" /\ Operand \in Value(Len(heap))
  BY FetchFacts, OperandType DEF LoadConstant
<1>2. 0 \in 0..Len(stack)
  BY DEF TypeOK
<1> QED
  BY <1>1, <1>2, PushType DEF LoadConstant

\* LoadVariable: locals hide globals, and both hold values (virtual_machine.cpp:103-110).
LEMMA LoadVariableType ==
  ASSUME TypeOK, LoadVariable PROVE TypeOK'
<1>1. Running /\ Operand.text \in Names
  BY FetchFacts, OperandType DEF LoadVariable
<1>2. 0 \in 0..Len(stack) /\ stack \in Seq(Value(Len(heap)))
  BY DEF TypeOK
<1>3. Frame.locals \in Scope(Len(heap)) /\ globals \in Scope(Len(heap))
  BY <1>1, FrameFacts DEF TypeOK
<1>4. CASE Frame.locals[Operand.text] # Unbound
  <2>1. Push(0, Frame.locals[Operand.text])
    BY <1>4 DEF LoadVariable
  <2> QED BY <1>1, <1>2, <1>3, <1>4, <2>1, BoundIsValue, PushType
<1>5. CASE Frame.locals[Operand.text] = Unbound /\ globals[Operand.text] # Unbound
  <2>1. Push(0, globals[Operand.text])
    BY <1>5 DEF LoadVariable
  <2> QED BY <1>1, <1>2, <1>3, <1>5, <2>1, BoundIsValue, PushType
<1>6. CASE Frame.locals[Operand.text] = Unbound /\ globals[Operand.text] = Unbound
  <2>1. Raise("undefined variable", stack)
    BY <1>6 DEF LoadVariable
  <2> QED BY <1>1, <1>2, <2>1, RaiseType DEF Errors
<1> QED BY <1>4, <1>5, <1>6

\* StoreVariable, to the globals or to the locals (virtual_machine.cpp:112-117).
LEMMA StoreVariableType ==
  ASSUME TypeOK, StoreVariable PROVE TypeOK'
<1>1. Running /\ Operand.text \in Names
  BY FetchFacts, OperandType DEF StoreVariable
<1>2. CASE PopsFail(1)
  BY <1>1, <1>2, PopsFailType
<1>3. CASE ~PopsFail(1)
  <2>1. /\ Len(stack) >= 1 /\ stack' = Below(1)
        /\ UNCHANGED <<heap, output, unit, outcome>>
    BY <1>3 DEF StoreVariable
  <2>2. Below(1) \in Seq(Value(Len(heap))) /\ Top \in Value(Len(heap))
    BY <2>1, StackType DEF TypeOK
  <2>3. /\ Advanced \in Seq(FrameRecord(Len(heap))) /\ Advanced # <<>>
        /\ Len(Advanced) = Len(frames) /\ Len(frames) \in Nat \ {0}
    BY <1>1, AdvancedType, FrameFacts
  <2>4. CASE Len(frames) = 1
    <3>1. globals' = [globals EXCEPT ![Operand.text] = Top] /\ frames' = Advanced
      BY <1>3, <2>4 DEF StoreVariable
    <3>2. globals' \in Scope(Len(heap))
      BY <1>1, <2>2, <3>1 DEF TypeOK, Scope
    <3> QED BY <2>1, <2>2, <2>3, <3>1, <3>2 DEF TypeOK, Running
  <2>5. CASE Len(frames) # 1
    <3> DEFINE last == Advanced[Len(frames)]
               bound == [last EXCEPT !.locals = [last.locals EXCEPT ![Operand.text] = Top]]
    <3>1. frames' = [Advanced EXCEPT ![Len(frames)].locals[Operand.text] = Top] /\ UNCHANGED globals
      BY <1>3, <2>5 DEF StoreVariable
    <3>2. last \in FrameRecord(Len(heap))
      BY <2>3
    <3>3. bound \in FrameRecord(Len(heap))
      BY <1>1, <2>2, <3>2 DEF FrameRecord, Scope
    <3>4. frames' = [Advanced EXCEPT ![Len(frames)] = bound]
      BY <3>1
    <3>5. frames' \in Seq(FrameRecord(Len(heap))) /\ frames' # <<>>
      <4> HIDE DEF bound
      <4> QED BY <2>3, <3>3, <3>4, ExceptSeq
    <3> QED BY <2>1, <2>2, <3>1, <3>5 DEF TypeOK, Running
  <2> QED BY <2>4, <2>5
<1> QED BY <1>2, <1>3

\* BuildList (virtual_machine.cpp:45-52).
LEMMA BuildListType ==
  ASSUME TypeOK, BuildList PROVE TypeOK'
<1> DEFINE n == Instruction.operand
<1>1. Running /\ n \in Nat
  BY FetchFacts DEF BuildList
<1>2. CheckFails(n) \/ (Len(stack) >= n /\ PushList(n, Arguments(n)))
  BY DEF BuildList
<1> HIDE DEF n
<1>3. CASE CheckFails(n)
  BY <1>1, <1>3, PopsFailType
<1>4. CASE Len(stack) >= n /\ PushList(n, Arguments(n))
  <2>1. n \in 0..Len(stack) 
    BY <1>1, <1>4 DEF TypeOK
  <2> QED BY <1>1, <1>4, <2>1, StackType, PushListType
<1> QED BY <1>2, <1>3, <1>4

\* Pop (virtual_machine.cpp:90).
LEMMA PopType ==
  ASSUME TypeOK, Pop PROVE TypeOK'
<1>1. Running
  BY FetchFacts DEF Pop
<1>2. CASE PopsFail(1)
  BY <1>1, <1>2, PopsFailType
<1>3. CASE ~PopsFail(1)
  <2>1. /\ Len(stack) >= 1 /\ stack' = Below(1) /\ frames' = Advanced
        /\ UNCHANGED <<globals, heap, output, unit, outcome>>
    BY <1>3 DEF Pop
  <2>2. Below(1) \in Seq(Value(Len(heap)))
    BY <2>1, StackType DEF TypeOK
  <2> QED BY <1>1, <2>1, <2>2, AdvancedType DEF TypeOK, Running
<1> QED BY <1>2, <1>3

\* Print (virtual_machine.cpp:89).
LEMMA PrintTopType ==
  ASSUME TypeOK, PrintTop PROVE TypeOK'
<1>1. Running
  BY FetchFacts DEF PrintTop
<1>2. CASE PopsFail(1)
  BY <1>1, <1>2, PopsFailType
<1>3. CASE ~PopsFail(1)
  <2>1. /\ Len(stack) >= 1 /\ stack' = Below(1) /\ frames' = Advanced
        /\ output' = Append(output, Top)
        /\ UNCHANGED <<globals, heap, unit, outcome>>
    BY <1>3 DEF PrintTop
  <2>2. Below(1) \in Seq(Value(Len(heap))) /\ Top \in Value(Len(heap))
    BY <2>1, StackType DEF TypeOK
  <2>3. output' \in Seq(Value(Len(heap)))
    BY <2>1, <2>2 DEF TypeOK
  <2> QED BY <1>1, <2>1, <2>2, <2>3, AdvancedType DEF TypeOK, Running
<1> QED BY <1>2, <1>3

\* Negate, which wraps at the least integer (virtual_machine.cpp:70-75).
LEMMA NegateType ==
  ASSUME TypeOK, Negate PROVE TypeOK'
<1>1. Running /\ Len(heap) \in Nat
  <2>1. Running
    BY FetchFacts DEF Negate
  <2> QED BY <2>1 DEF TypeOK
<1>2. CASE PopsFail(1)
  BY <1>1, <1>2, PopsFailType
<1>3. CASE ~PopsFail(1)
  <2>1. 1 \in 0..Len(stack)
    <3>1. Len(stack) >= 1
      BY <1>3 DEF Negate
    <3> QED BY <3>1 DEF TypeOK
  <2>2. Below(1) \in Seq(Value(Len(heap))) /\ Top \in Value(Len(heap))
    BY <2>1, StackType
  <2>3. CASE IsNumber(Top)
    <3>1. Push(1, Negation(Top)) /\ Negation(Top) \in Value(Len(heap))
      BY <1>1, <1>3, <2>2, <2>3, ArithmeticTypes DEF Negate
    <3> QED BY <1>1, <2>1, <3>1, PushType
  <2>4. CASE ~IsNumber(Top)
    <3>1. Raise("unary '-' requires a number", Below(1))
      BY <1>3, <2>4 DEF Negate
    <3> QED BY <1>1, <2>2, <3>1, RaiseType DEF Errors
  <2> QED BY <2>3, <2>4
<1> QED BY <1>2, <1>3

\* Both operands of an operator are numbers when it computes.
LEMMA ArithmeticResultType ==
  ASSUME NEW lists \in Nat, NEW op \in Arithmetic,
         NEW l \in Value(lists), NEW r \in Value(lists),
         ArithmeticError(op, l, r) = "none"
  PROVE  ArithmeticResult(op, l, r) \in Value(lists)
<1>1. IsNumber(l) /\ IsNumber(r)
  BY DEF ArithmeticError
<1>2. CASE op \in {"Add", "Subtract", "Multiply"}
  BY <1>1, <1>2, ArithmeticTypes DEF ArithmeticResult
<1>3. CASE op = "Divide"
  BY <1>1, <1>3, QuotientType DEF ArithmeticResult, ArithmeticError
<1>4. CASE op = "Modulo"
  <2>1. AreIntegers(l, r) /\ Numerator(r) # 0
    BY <1>4 DEF ArithmeticError
  <2>2. r.integer # 0
    BY <2>1 DEF AreIntegers, Numerator
  <2>3. Remainder(l, r) \in Value(lists)
    BY <2>1, <2>2, RemainderType
  <2> QED BY <1>4, <2>3 DEF ArithmeticResult
<1> QED BY <1>2, <1>3, <1>4 DEF Arithmetic

\* binary() with its two operands (virtual_machine.cpp:122-142).
LEMMA ComputeType ==
  ASSUME TypeOK, Running, Len(stack) >= 2, NEW op \in Arithmetic,
         Compute(op, Second, Top)
  PROVE  TypeOK'
<1>1. 2 \in 0..Len(stack) /\ Len(heap) \in Nat
  BY DEF TypeOK
<1>2. /\ Below(2) \in Seq(Value(Len(heap)))
      /\ Top \in Value(Len(heap)) /\ Second \in Value(Len(heap))
  BY <1>1, StackType
<1>3. CASE Concatenates(op, Second, Top)
  <2>1. Push(2, String(Second.text \o Top.text))
    BY <1>3 DEF Compute
  <2>2. Second.text \in Seq(Character) /\ Top.text \in Seq(Character)
    BY <1>2, <1>3
       DEF Concatenates, Value, PlainValue, IntegerValue, FloatValue, StringValue, FunctionValue
  <2>3. String(Second.text \o Top.text) \in Value(Len(heap))
    <3>1. Second.text \o Top.text \in Seq(Character)
      BY <2>2
    <3> QED BY <1>1, <3>1, ConstructorTypes
  <2> QED BY <1>1, <2>1, <2>3, PushType
<1>4. CASE ~Concatenates(op, Second, Top) /\ ArithmeticError(op, Second, Top) # "none"
  <2>1. Raise(ArithmeticError(op, Second, Top), Below(2))
    BY <1>4 DEF Compute
  <2>2. ArithmeticError(op, Second, Top) \in Errors
    BY <1>4 DEF ArithmeticError, Errors
  <2> QED BY <1>2, <2>1, <2>2, RaiseType
<1>5. CASE ~Concatenates(op, Second, Top) /\ ArithmeticError(op, Second, Top) = "none"
  <2>1. Push(2, ArithmeticResult(op, Second, Top)) \/ Kill
    BY <1>5 DEF Compute
  <2>2. ArithmeticResult(op, Second, Top) \in Value(Len(heap))
    BY <1>1, <1>2, <1>5, ArithmeticResultType
  <2> QED BY <1>1, <2>1, <2>2, PushType, KillType
<1> QED BY <1>3, <1>4, <1>5

\* The five arithmetic instructions (virtual_machine.cpp:119-143).
LEMMA BinaryType ==
  ASSUME TypeOK, Binary PROVE TypeOK'
<1>1. Running /\ Instruction.op \in Arithmetic
  BY FetchFacts DEF Binary
<1>2. CASE PopsFail(2)
  BY <1>1, <1>2, PopsFailType
<1>3. CASE ~PopsFail(2)
  BY <1>1, <1>3, ComputeType DEF Binary
<1> QED BY <1>2, <1>3

\* A comparison is true or false, whatever is compared (virtual_machine.cpp:149-158).
LEMMA CompareResultType ==
  ASSUME NEW lists \in Nat, NEW l \in Value(lists), NEW r \in Value(lists),
         NEW token \in Comparison,
         token \in {EqualEqual, BangEqual} \/ (IsNumber(l) /\ IsNumber(r))
  PROVE  CompareResult(token, l, r) \in BOOLEAN
<1>1. Equal(l, r) \in BOOLEAN
  BY DEF Equal, NumberEqual
<1>2. ASSUME IsNumber(l), IsNumber(r)
      PROVE  NumberLess(l, r) \in BOOLEAN /\ NumberLess(r, l) \in BOOLEAN
  <2>1. /\ Numerator(l) \in Int /\ Denominator(l) \in Int
        /\ Numerator(r) \in Int /\ Denominator(r) \in Int
    BY <1>2, NumberParts
  <2>2. /\ Numerator(l) * Denominator(r) \in Int
        /\ Numerator(r) * Denominator(l) \in Int
    BY <2>1
  <2> QED BY <2>2 DEF NumberLess
<1>3. token \in {22, 23, 24, 25, 26, 27}
  BY DEF Comparison, EqualEqual, GreaterEqual
<1>4. CASE token \in {EqualEqual, BangEqual}
  <2> DEFINE equal == Equal(l, r)
  <2>1. CASE token = 22
    <3>1. CompareResult(token, l, r) = equal
      BY <2>1 DEF CompareResult, EqualEqual, BangEqual, Less, LessEqual, Greater, GreaterEqual
    <3> QED BY <1>1, <3>1
  <2>2. CASE token = 23
    <3>1. CompareResult(token, l, r) = ~equal
      BY <2>2 DEF CompareResult, EqualEqual, BangEqual, Less, LessEqual, Greater, GreaterEqual
    <3> QED BY <1>1, <3>1
  <2> QED BY <1>4, <2>1, <2>2 DEF EqualEqual, BangEqual
<1>5. CASE token \notin {EqualEqual, BangEqual}
  BY <1>2, <1>3, <1>5
     DEF CompareResult, EqualEqual, BangEqual, Less, LessEqual, Greater, GreaterEqual
<1> QED BY <1>4, <1>5

\* Compare (virtual_machine.cpp:145-159).
LEMMA CompareType ==
  ASSUME TypeOK, Compare PROVE TypeOK'
<1> DEFINE token == Instruction.operand
<1>1. Running /\ token \in Comparison
  <2>1. Fetches({"Compare"})
    BY DEF Compare
  <2>2. Running /\ Instruction.op = "Compare" /\ OperandInRange(Chunk[Frame.chunk], Instruction)
    BY <2>1, FetchFacts
  <2> QED BY <2>2 DEF OperandInRange
<1>2. CASE PopsFail(2)
  BY <1>1, <1>2, PopsFailType
<1>3. CASE ~PopsFail(2)
  <2>1. 2 \in 0..Len(stack) /\ Len(heap) \in Nat
    <3>1. Len(stack) >= 2
      BY <1>3 DEF Compare
    <3> QED BY <3>1 DEF TypeOK
  <2>2. /\ Below(2) \in Seq(Value(Len(heap)))
        /\ Second \in Value(Len(heap)) /\ Top \in Value(Len(heap))
    BY <2>1, StackType
  <2>3. CASE token \in {EqualEqual, BangEqual} \/ (IsNumber(Second) /\ IsNumber(Top))
    <3>1. Push(2, Boolean(CompareResult(token, Second, Top)))
      BY <1>3, <2>3 DEF Compare
    <3>2. Boolean(CompareResult(token, Second, Top)) \in Value(Len(heap))
      BY <1>1, <2>1, <2>2, <2>3, CompareResultType, ConstructorTypes
    <3> QED BY <1>1, <2>1, <3>1, <3>2, PushType
  <2>4. CASE ~(token \in {EqualEqual, BangEqual} \/ (IsNumber(Second) /\ IsNumber(Top)))
    <3>1. Raise("comparison requires numeric operands", Below(2))
      BY <1>3, <2>4 DEF Compare
    <3> QED BY <1>1, <2>2, <3>1, RaiseType DEF Errors
  <2> QED BY <2>3, <2>4
<1> QED BY <1>2, <1>3

\* Jump (virtual_machine.cpp:77).
LEMMA JumpType ==
  ASSUME TypeOK, Jump PROVE TypeOK'
<1>1. Running /\ Instruction.operand \in Nat
  BY FetchFacts DEF Jump
<1> QED BY <1>1, GoToType DEF Jump, TypeOK, Running

\* JumpIfFalse (virtual_machine.cpp:78-80).
LEMMA JumpIfFalseType ==
  ASSUME TypeOK, JumpIfFalse PROVE TypeOK'
<1>1. Running /\ Instruction.operand \in Nat
  BY FetchFacts DEF JumpIfFalse
<1>2. CASE PopsFail(1)
  BY <1>1, <1>2, PopsFailType
<1>3. CASE ~PopsFail(1)
  <2>1. /\ Len(stack) >= 1 /\ stack' = Below(1)
        /\ frames' = Advanced \/ frames' = GoTo(Instruction.operand)
        /\ UNCHANGED <<globals, heap, output, unit, outcome>>
    BY <1>3 DEF JumpIfFalse
  <2>2. Below(1) \in Seq(Value(Len(heap)))
    BY <2>1, StackType DEF TypeOK
  <2>3. frames' \in Seq(FrameRecord(Len(heap))) /\ frames' # <<>>
    BY <1>1, <2>1, AdvancedType, GoToType
  <2> QED BY <2>1, <2>2, <2>3 DEF TypeOK, Running
<1> QED BY <1>2, <1>3

\* Return (virtual_machine.cpp:82-88).
LEMMA ReturnType ==
  ASSUME TypeOK, Return PROVE TypeOK'
<1>1. Running
  BY FetchFacts DEF Return
<1>2. CASE PopsFail(1)
  BY <1>1, <1>2, PopsFailType
<1>3. CASE ~PopsFail(1) /\ Len(frames) = 1
  <2>1. Len(stack) >= 1 /\ Raise("'return' outside a function", Below(1))
    BY <1>3 DEF Return
  <2>2. Below(1) \in Seq(Value(Len(heap)))
    <3>1. stack \in Seq(Value(Len(heap))) /\ Len(stack) >= 1
      BY <2>1 DEF TypeOK
    <3>2. 1 \in 0..Len(stack)
      BY <3>1
    <3> QED BY <3>2, StackType
  <2> QED BY <1>1, <2>1, <2>2, RaiseType DEF Errors
<1>4. CASE ~PopsFail(1) /\ Len(frames) # 1
  <2>1. frames' = Caller /\ UNCHANGED <<stack, globals, heap, output, unit, outcome>>
    BY <1>4 DEF Return
  <2>2. Len(frames) \in Nat \ {0}
    BY <1>1, FrameFacts
  <2>3. Caller \in Seq(FrameRecord(Len(heap))) /\ Caller # <<>>
    BY <1>1, <1>4, <2>2, CallerType
  <2> QED BY <2>1, <2>3 DEF TypeOK, Running
<1> QED BY <1>2, <1>3, <1>4

\* The end of the code of a frame (virtual_machine.cpp:38-41).
LEMMA EndOfCodeType ==
  ASSUME TypeOK, EndOfCode PROVE TypeOK'
<1>1. Running /\ frames' = Caller /\ UNCHANGED <<stack, globals, heap, output>>
  BY DEF EndOfCode
<1>2. frames \in Seq(FrameRecord(Len(heap))) /\ Len(frames) \in Nat \ {0}
  BY <1>1, FrameFacts DEF TypeOK
<1>3. Caller \in Seq(FrameRecord(Len(heap)))
  BY <1>1, CallerType
<1>4. CASE Len(frames) = 1
  <2>1. unit' = NoUnit /\ outcome' = [outcome EXCEPT ![unit] = "finished"]
    BY <1>4 DEF EndOfCode
  <2>2. outcome' \in [Units -> Outcome]
    BY <2>1 DEF TypeOK, Outcome
  <2> QED BY <1>1, <1>3, <2>1, <2>2 DEF TypeOK, Running
<1>5. CASE Len(frames) # 1
  <2>1. UNCHANGED <<unit, outcome>>
    BY <1>5 DEF EndOfCode
  <2>2. Caller # <<>>
    BY <1>1, <1>2, <1>3, <1>5, CallerType
  <2> QED BY <1>1, <1>3, <2>1, <2>2 DEF TypeOK, Running
<1> QED BY <1>4, <1>5

\* The beginning of a program (virtual_machine.cpp:33-35).
LEMMA ExecuteType ==
  ASSUME TypeOK, NEW u \in Units, Execute(u) PROVE TypeOK'
<1>1. /\ stack' = <<>> /\ unit' = u
      /\ frames' = <<[chunk |-> u, instruction |-> 0, locals |-> NoBindings]>>
      /\ UNCHANGED <<globals, heap, output, outcome>>
  BY DEF Execute
<1>2. [chunk |-> u, instruction |-> 0, locals |-> NoBindings] \in FrameRecord(Len(heap))
  BY DEF FrameRecord, Scope, NoBindings
<1> QED BY <1>1, <1>2 DEF TypeOK, Running

\* A built-in applied to its arguments (builtins.cpp:14-55).
LEMMA InvokeBuiltinType ==
  ASSUME TypeOK, Running, NEW n \in 0..Len(stack), NEW builtin \in Builtin,
         InvokeBuiltin(builtin, Arguments(n))
  PROVE  TypeOK'
<1> DEFINE arguments == Arguments(n)
<1>1. /\ arguments \in Seq(Value(Len(heap))) /\ Len(arguments) = n
      /\ Below(n) \in Seq(Value(Len(heap)))
  BY StackType
<1>2. heap \in Seq(Seq(Value(Len(heap)))) /\ Len(heap) \in Nat
  BY DEF TypeOK
<1>3. InvokeBuiltin(builtin, arguments)
  OBVIOUS
<1> HIDE DEF arguments
<1>4. CASE BuiltinRejects(builtin, arguments)
  <2>1. Raise("built-in rejects its arguments", Below(n))
    BY <1>1, <1>3, <1>4 DEF InvokeBuiltin
  <2> QED BY <1>1, <2>1, RaiseType DEF Errors
<1>5. CASE ~BuiltinRejects(builtin, arguments) /\ builtin = "len"
  <2>1. Push(n, Integer(Wrap(LengthOf(arguments[1], heap))))
    BY <1>1, <1>3, <1>5 DEF InvokeBuiltin
  <2>2. Len(arguments) = 1 /\ arguments[1].tag \in {"String", "List"}
    BY <1>5 DEF BuiltinRejects
  <2>3. LengthOf(arguments[1], heap) \in Nat
    <3>1. Len(arguments) = 1
      BY <2>2
    <3>2. arguments[1] \in Value(Len(heap))
      BY <1>1, <3>1
    <3> QED BY <1>2, <2>2, <3>2, LengthType
  <2>4. Integer(Wrap(LengthOf(arguments[1], heap))) \in Value(Len(heap))
    BY <1>2, <2>3, WrapInRange, ConstructorTypes
  <2> QED BY <2>1, <2>4, PushType
<1>6. CASE ~BuiltinRejects(builtin, arguments) /\ builtin = "type"
  <2>1. Push(n, String(TypeName[arguments[1].tag]))
    BY <1>1, <1>3, <1>6 DEF InvokeBuiltin
  <2>2. arguments[1] \in Value(Len(heap))
    <3>1. Len(arguments) = 1
      BY <1>6 DEF BuiltinRejects
    <3> QED BY <1>1, <3>1
  <2>3. String(TypeName[arguments[1].tag]) \in Value(Len(heap))
    BY <1>2, <2>2, TypeNameType, ConstructorTypes
  <2> QED BY <2>1, <2>3, PushType
<1>7. CASE ~BuiltinRejects(builtin, arguments) /\ builtin = "range"
  <2>1. CASE RangeExhausts(arguments)
    <3>1. RunOutOfMemory(n)
      BY <1>1, <1>3, <1>7, <2>1 DEF InvokeBuiltin
    <3> QED BY <3>1, RunOutOfMemoryType
  <2>2. CASE ~RangeExhausts(arguments)
    <3>1. PushList(n, RangeElements(arguments))
      BY <1>1, <1>3, <1>7, <2>2 DEF InvokeBuiltin
    <3>2. RangeElements(arguments) \in Seq(Value(Len(heap)))
      BY <1>1, <1>2, <1>7, <2>2, RangeType
    <3> QED BY <3>1, <3>2, PushListType
  <2> QED BY <2>1, <2>2
<1> QED BY <1>4, <1>5, <1>6, <1>7 DEF Builtin

\* Builtin (virtual_machine.cpp:53-65).
LEMMA CallBuiltinType ==
  ASSUME TypeOK, CallBuiltin PROVE TypeOK'
<1> DEFINE n == ArgumentCount(Instruction.operand)
           number == BuiltinNumber(Instruction.operand) + 1
<1>1. Running /\ Instruction.operand \in Nat
  BY FetchFacts DEF CallBuiltin
<1>2. n \in Nat
  BY <1>1, BytecodeAssumption DEF ArgumentCount
<1>3. \/ CheckFails(n)
      \/ /\ Len(stack) >= n
         /\ IF number \in 1..3 THEN InvokeBuiltin(BuiltinOfNumber[number], Arguments(n))
            ELSE Raise("unknown builtin", Below(n))
  BY DEF CallBuiltin
<1> HIDE DEF n, number
<1>4. CASE CheckFails(n)
  BY <1>1, <1>2, <1>4, PopsFailType
<1>5. CASE Len(stack) >= n /\ number \in 1..3
  <2>1. n \in 0..Len(stack) /\ BuiltinOfNumber[number] \in Builtin
    BY <1>2, <1>5 DEF TypeOK, BuiltinOfNumber, Builtin
  <2> QED BY <1>1, <1>3, <1>5, <2>1, InvokeBuiltinType, PopsFailType, <1>2
<1>6. CASE Len(stack) >= n /\ number \notin 1..3
  <2>1. n \in 0..Len(stack)
    BY <1>2, <1>6 DEF TypeOK
  <2>2. Below(n) \in Seq(Value(Len(heap)))
    BY <2>1, StackType
  <2>3. "unknown builtin" \in Errors
    BY DEF Errors
  <2> QED BY <1>1, <1>2, <1>3, <1>6, <2>2, <2>3, RaiseType, PopsFailType
<1> QED BY <1>3, <1>4, <1>5, <1>6

\* A parameter gets the argument of its first position.
LEMMA LocalsType ==
  ASSUME NEW lists \in Nat, NEW parameters \in Seq(Names),
         NEW arguments \in Seq(Value(lists)), Len(arguments) = Len(parameters)
  PROVE  /\ Locals(parameters, arguments) \in Scope(lists)
         /\ \A j \in 1..Len(parameters) :
              Locals(parameters, arguments)[parameters[j]] \in Value(lists)
<1> DEFINE Positions(x) == {i \in 1..Len(parameters) : parameters[i] = x}
           First(x) == CHOOSE i \in Positions(x) : \A j \in Positions(x) : i <= j
           Local(x) == IF Positions(x) = {} THEN Unbound ELSE arguments[First(x)]
<1>1. ASSUME NEW x \in Names, Positions(x) # {}
      PROVE  Local(x) \in Value(lists)
  <2>1. Positions(x) \in SUBSET (0..Len(parameters)) /\ Len(parameters) \in Nat
    OBVIOUS
  <2>2. \E i \in Positions(x) : \A j \in Positions(x) : i <= j
    <3> HIDE DEF Positions
    <3> QED BY <1>1, <2>1, LeastElement
  <2>3. First(x) \in Positions(x)
    <3> HIDE DEF Positions
    <3> QED BY <2>2
  <2>4. First(x) \in 1..Len(arguments)
    <3> HIDE DEF First
    <3> QED BY <2>3
  <2> HIDE DEF Positions, First
  <2> QED BY <1>1, <2>4
<1>2. Locals(parameters, arguments) = [x \in Names |-> Local(x)]
  BY DEF Locals
<1>3. ASSUME NEW x \in Names PROVE Local(x) \in Value(lists) \cup {Unbound}
  <2>1. CASE Positions(x) = {}
    BY <2>1
  <2> QED BY <1>1, <2>1
<1>4. ASSUME NEW j \in 1..Len(parameters)
      PROVE  parameters[j] \in Names /\ Positions(parameters[j]) # {}
  OBVIOUS
<1> HIDE DEF Positions, Local
<1> QED BY <1>1, <1>2, <1>3, <1>4 DEF Scope

\* Call: the locals of the new frame are values (virtual_machine.cpp:161-172).
LEMMA CallType ==
  ASSUME TypeOK, Call PROVE TypeOK'
<1> DEFINE n == Instruction.operand
           callee == stack[Len(stack) - n]
           parameters == Chunk[callee.function].parameters
           locals == Locals(parameters, Arguments(n))
           entered == [chunk |-> callee.function, instruction |-> 0, locals |-> locals]
<1>1. Running /\ n \in Nat
  BY FetchFacts DEF Call
<1>2. CASE CheckFails(n + 1)
  BY <1>1, <1>2, PopsFailType
<1>3. CASE ~CheckFails(n + 1)
  <2>1. Len(stack) > n
    BY <1>3 DEF Call
  <2>2. n \in 0..Len(stack) /\ n + 1 \in 0..Len(stack) /\ Len(heap) \in Nat
    BY <1>1, <2>1 DEF TypeOK
  <2>3. /\ Below(n + 1) \in Seq(Value(Len(heap)))
        /\ Arguments(n) \in Seq(Value(Len(heap))) /\ Len(Arguments(n)) = n
        /\ callee \in Value(Len(heap))
    BY <2>1, <2>2, StackType
  <2>4. \/ Raise("can only call compiled functions", Below(n + 1))
        \/ Raise("incorrect number of function arguments", Below(n + 1))
        \/ RunOutOfMemory(n + 1)
        \/ /\ callee.tag = "Function" /\ Len(parameters) = n
           /\ stack' = Below(n + 1) /\ frames' = Append(Advanced, entered)
           /\ UNCHANGED <<globals, heap, output, unit, outcome>>
    BY <1>3 DEF Call
  <2>5. CASE \/ Raise("can only call compiled functions", Below(n + 1))
             \/ Raise("incorrect number of function arguments", Below(n + 1))
    <3>1. /\ "can only call compiled functions" \in Errors
          /\ "incorrect number of function arguments" \in Errors
      BY DEF Errors
    <3> QED BY <1>1, <2>3, <2>5, <3>1, RaiseType
  <2>6. CASE RunOutOfMemory(n + 1)
    BY <1>1, <2>2, <2>6, RunOutOfMemoryType
  <2>7. CASE /\ callee.tag = "Function" /\ Len(parameters) = n
             /\ stack' = Below(n + 1) /\ frames' = Append(Advanced, entered)
             /\ UNCHANGED <<globals, heap, output, unit, outcome>>
    <3>1. callee.function \in Handle
      BY <2>3, <2>7 DEF Value, PlainValue, IntegerValue, FloatValue, StringValue, FunctionValue
    <3>2. parameters \in Seq(Names)
      BY <3>1, CompiledAssumption DEF WellFormed
    <3>3. locals \in Scope(Len(heap))
      BY <2>2, <2>3, <2>7, <3>2, LocalsType
    <3> HIDE DEF locals
    <3>4. entered \in FrameRecord(Len(heap))
      BY <3>1, <3>3 DEF FrameRecord
    <3> HIDE DEF entered
    <3>5. frames' \in Seq(FrameRecord(Len(heap))) /\ frames' # <<>>
      BY <1>1, <2>7, <3>4, AdvancedType
    <3> HIDE DEF n, callee
    <3> QED BY <2>3, <2>7, <3>5 DEF TypeOK, Running
  <2> QED BY <2>4, <2>5, <2>6, <2>7
<1> QED BY <1>2, <1>3

\* Every variable of the machine has its type in every state of every session.
THEOREM TypeCorrect == Spec => []TypeOK
<1>1. Init => TypeOK
  BY DEF Init, TypeOK, NoBindings, Scope, Running, Outcome
<1>2. ASSUME TypeOK, [Next]_vars PROVE TypeOK'
  <2>1. CASE Step
    BY <1>2, <2>1, LoadConstantType, LoadVariableType, StoreVariableType, BuildListType,
       PopType, PrintTopType, NegateType, BinaryType, CompareType, JumpType,
       JumpIfFalseType, CallBuiltinType, CallType, ReturnType, EndOfCodeType DEF Step
  <2>2. CASE \E u \in Units : Execute(u)
    BY <1>2, <2>2, ExecuteType
  <2>3. CASE UNCHANGED vars
    BY <1>2, <2>3 DEF vars, TypeOK, Running
  <2> QED BY <1>2, <2>1, <2>2, <2>3 DEF Next
<1> QED BY <1>1, <1>2, PTL DEF Spec

-----------------------------------------------------------------------------
(* Parameters of a called function are never unbound. *)

ParametersOf(frame) == Chunk[frame.chunk].parameters

HasParameters(frame) ==
  \A j \in 1..Len(ParametersOf(frame)) : frame.locals[ParametersOf(frame)[j]] # Unbound

\* A value is not the mark of an unbound name.
LEMMA ValueIsBound ==
  ASSUME NEW lists, NEW v \in Value(lists)
  PROVE  v # Unbound
BY DEF Value, PlainValue, Unbound, IntegerValue, FloatValue, StringValue, FunctionValue

\* What a step can do to the frames.
FramesAfter ==
  \/ frames' = frames
  \/ \E target : frames' = GoTo(target)
  \/ \E name \in Names, value \in Value(Len(heap)) :
       frames' = [Advanced EXCEPT ![Len(frames)].locals[name] = value]
  \/ \E entered : HasParameters(entered) /\ frames' = Append(Advanced, entered)
  \/ frames' = Caller

\* An error leaves the frames as they were, but for the instruction pointer (virtual_machine.cpp:174-176).
LEMMA RaiseFrames == ASSUME NEW error, NEW rest, Raise(error, rest) PROVE FramesAfter
BY DEF Raise, FramesAfter, Advanced

\* So does an instruction that pushes a value (virtual_machine.cpp:101).
LEMMA PushFrames == ASSUME NEW n, NEW value, Push(n, value) PROVE FramesAfter
BY DEF Push, FramesAfter, Advanced

\* And one that pushes a new list (virtual_machine.cpp:45-52).
LEMMA PushListFrames == ASSUME NEW n, NEW elements, PushList(n, elements) PROVE FramesAfter
BY DEF PushList, FramesAfter, Advanced

\* Nothing happens to the frames of a process that is ended.
LEMMA KillFrames == ASSUME Kill PROVE FramesAfter
BY DEF Kill, FramesAfter

\* Errors found before the operands are taken leave the frames alone too.
LEMMA FailFrames ==
  ASSUME NEW n, PopsFail(n) \/ CheckFails(n) \/ RunOutOfMemory(n) PROVE FramesAfter
BY RaiseFrames, KillFrames DEF PopsFail, CheckFails, RunOutOfMemory

\* A store gives a local a value and never takes one away (virtual_machine.cpp:112-117).
LEMMA StoreVariableFrames ==
  ASSUME TypeOK, StoreVariable PROVE FramesAfter
<1>1. Operand.text \in Names
  BY FetchFacts, OperandType DEF StoreVariable
<1>2. CASE PopsFail(1)
  BY <1>2, FailFrames
<1>3. CASE ~PopsFail(1)
  <2>1. Len(stack) >= 1
    BY <1>3 DEF StoreVariable
  <2>2. Top \in Value(Len(heap))
    <3>1. stack \in Seq(Value(Len(heap)))
      BY DEF TypeOK
    <3> QED BY <2>1, <3>1 DEF Top
  <2>3. \/ frames' = Advanced
        \/ frames' = [Advanced EXCEPT ![Len(frames)].locals[Operand.text] = Top]
    BY <1>3 DEF StoreVariable
  <2> QED BY <1>1, <2>2, <2>3 DEF FramesAfter, Advanced
<1> QED BY <1>2, <1>3

\* A call binds each parameter to an argument (virtual_machine.cpp:168-171).
LEMMA CallFrames ==
  ASSUME TypeOK, Call PROVE FramesAfter
<1> DEFINE n == Instruction.operand
           callee == stack[Len(stack) - n]
           parameters == Chunk[callee.function].parameters
           locals == Locals(parameters, Arguments(n))
           entered == [chunk |-> callee.function, instruction |-> 0, locals |-> locals]
<1>1. CASE CheckFails(n + 1)
  BY <1>1, FailFrames
<1>2. CASE ~CheckFails(n + 1)
  <2>1. Len(stack) > n
    BY <1>2 DEF Call
  <2>2. \/ Raise("can only call compiled functions", Below(n + 1))
        \/ Raise("incorrect number of function arguments", Below(n + 1))
        \/ RunOutOfMemory(n + 1)
        \/ callee.tag = "Function" /\ Len(parameters) = n /\ frames' = Append(Advanced, entered)
    BY <1>2 DEF Call
  <2>3. CASE callee.tag = "Function" /\ Len(parameters) = n /\ frames' = Append(Advanced, entered)
    <3>1. n \in Nat
      BY FetchFacts DEF Call
    <3>2. n \in 0..Len(stack) /\ Len(heap) \in Nat
      BY <2>1, <3>1 DEF TypeOK
    <3>3. /\ callee \in Value(Len(heap))
          /\ Arguments(n) \in Seq(Value(Len(heap))) /\ Len(Arguments(n)) = n
      BY <2>1, <3>2, StackType
    <3>4. callee.function \in Handle
      BY <2>3, <3>3 DEF Value, PlainValue, IntegerValue, FloatValue, StringValue, FunctionValue
    <3>5. parameters \in Seq(Names)
      BY <3>4, CompiledAssumption DEF WellFormed
    <3>6. \A j \in 1..Len(parameters) : locals[parameters[j]] \in Value(Len(heap))
      BY <2>3, <3>2, <3>3, <3>5, LocalsType
    <3>7. HasParameters(entered)
      <4> HIDE DEF locals
      <4> QED BY <3>6, ValueIsBound DEF HasParameters, ParametersOf
    <3> QED BY <2>3, <3>7 DEF FramesAfter
  <2> QED BY <2>2, <2>3, RaiseFrames, FailFrames
<1> QED BY <1>1, <1>2

\* Every instruction does one of these things to the frames.
LEMMA StepFrames ==
  ASSUME TypeOK, Step PROVE FramesAfter
<1>1. CASE LoadConstant
  BY <1>1, PushFrames DEF LoadConstant
<1>2. CASE LoadVariable
  BY <1>2, PushFrames, RaiseFrames DEF LoadVariable
<1>3. CASE StoreVariable
  BY <1>3, StoreVariableFrames
<1>4. CASE BuildList
  BY <1>4, PushListFrames, FailFrames DEF BuildList
<1>5. CASE Pop
  BY <1>5, FailFrames DEF Pop, FramesAfter, Advanced
<1>6. CASE PrintTop
  BY <1>6, FailFrames DEF PrintTop, FramesAfter, Advanced
<1>7. CASE Negate
  BY <1>7, PushFrames, RaiseFrames, FailFrames DEF Negate
<1>8. CASE Binary
  BY <1>8, PushFrames, RaiseFrames, KillFrames, FailFrames DEF Binary, Compute
<1>9. CASE Compare
  BY <1>9, PushFrames, RaiseFrames, FailFrames DEF Compare
<1>10. CASE Jump
  BY <1>10 DEF Jump, FramesAfter
<1>11. CASE JumpIfFalse
  BY <1>11, FailFrames DEF JumpIfFalse, FramesAfter, Advanced
<1>12. CASE CallBuiltin
  <2>1. ASSUME NEW builtin, NEW arguments, InvokeBuiltin(builtin, arguments)
        PROVE  FramesAfter \/ builtin \notin Builtin
    BY <2>1, PushFrames, PushListFrames, RaiseFrames, FailFrames DEF InvokeBuiltin, Builtin
  <2>2. \A number \in 1..3 : BuiltinOfNumber[number] \in Builtin
    BY DEF BuiltinOfNumber, Builtin
  <2> QED BY <1>12, <2>1, <2>2, RaiseFrames, FailFrames DEF CallBuiltin
<1>13. CASE Call
  BY <1>13, CallFrames
<1>14. CASE Return
  BY <1>14, RaiseFrames, FailFrames DEF Return, FramesAfter
<1>15. CASE EndOfCode
  BY <1>15 DEF EndOfCode, FramesAfter
<1> QED
  BY <1>1, <1>2, <1>3, <1>4, <1>5, <1>6, <1>7, <1>8, <1>9, <1>10, <1>11, <1>12,
     <1>13, <1>14, <1>15 DEF Step

\* Called frames have their parameters: what ParametersBound says, also between programs.
AllBound == \A i \in 2..Len(frames) : HasParameters(frames[i])

\* And each of them keeps the parameters bound.
LEMMA StepKeepsBound ==
  ASSUME TypeOK, Running, AllBound, FramesAfter
  PROVE  AllBound'
<1> DEFINE k == Len(frames)
<1>1. /\ frames \in Seq(FrameRecord(Len(heap))) /\ k \in Nat \ {0}
      /\ Advanced \in Seq(FrameRecord(Len(heap))) /\ Len(Advanced) = k
  BY FrameFacts, AdvancedType DEF TypeOK
<1>2. ASSUME NEW target
      PROVE  /\ Len(GoTo(target)) = k
             /\ \A i \in 1..k : /\ GoTo(target)[i].chunk = frames[i].chunk
                                /\ GoTo(target)[i].locals = frames[i].locals
  BY <1>1 DEF GoTo, FrameRecord
<1>3. ASSUME NEW target PROVE \A i \in 2..k : HasParameters(GoTo(target)[i])
  BY <1>1, <1>2 DEF AllBound, HasParameters, ParametersOf
<1>4. \A i \in 2..k : HasParameters(Advanced[i])
  BY <1>3 DEF Advanced
<1>5. CASE frames' = frames
  BY <1>5 DEF AllBound, HasParameters, ParametersOf
<1>6. CASE \E target : frames' = GoTo(target)
  BY <1>2, <1>3, <1>6 DEF AllBound, HasParameters, ParametersOf
<1>7. ASSUME NEW name \in Names, NEW value \in Value(Len(heap)),
             frames' = [Advanced EXCEPT ![k].locals[name] = value]
      PROVE  AllBound'
  <2> DEFINE last == Advanced[k]
             bound == [last EXCEPT !.locals = [last.locals EXCEPT ![name] = value]]
  <2>1. last \in FrameRecord(Len(heap))
    BY <1>1
  <2>2. /\ bound.chunk = last.chunk
        /\ bound.locals = [last.locals EXCEPT ![name] = value]
        /\ last.locals \in Scope(Len(heap))
    BY <2>1 DEF FrameRecord
  <2>3. frames' = [Advanced EXCEPT ![k] = bound]
    BY <1>7
  <2>4. HasParameters(last) => HasParameters(bound)
    <3> HIDE DEF bound, last
    <3>1. \A x \in Names : bound.locals[x] = IF x = name THEN value ELSE last.locals[x]
      BY <2>2 DEF Scope
    <3>2. last.chunk \in Handle \cup Units
      BY <2>1 DEF FrameRecord
    <3>3. Chunk[last.chunk].parameters \in Seq(Names)
      BY <3>2, CompiledAssumption DEF WellFormed
    <3> QED BY <2>2, <3>1, <3>3, ValueIsBound DEF HasParameters, ParametersOf
  <2> HIDE DEF bound
  <2>5. Len(frames') = k /\ frames'[k] = bound /\ \A i \in 1..(k - 1) : frames'[i] = Advanced[i]
    BY <1>1, <2>3
  <2>6. ASSUME NEW i \in 2..k PROVE HasParameters(frames'[i])
    <3>1. CASE i = k
      BY <1>4, <2>4, <2>5, <2>6, <3>1
    <3>2. CASE i # k
      BY <1>1, <1>4, <2>5, <2>6, <3>2
    <3> QED BY <3>1, <3>2
  <2> QED BY <2>5, <2>6 DEF AllBound, HasParameters, ParametersOf
<1>8. ASSUME NEW entered, HasParameters(entered), frames' = Append(Advanced, entered)
      PROVE  AllBound'
  <2>1. /\ Len(frames') = k + 1 /\ frames'[k + 1] = entered
        /\ \A i \in 1..k : frames'[i] = Advanced[i]
    BY <1>1, <1>8
  <2>2. ASSUME NEW i \in 2..(k + 1) PROVE HasParameters(frames'[i])
    <3>1. CASE i = k + 1
      BY <1>8, <2>1, <3>1
    <3>2. CASE i # k + 1
      BY <1>1, <1>4, <2>1, <2>2, <3>2
    <3> QED BY <3>1, <3>2
  <2> QED BY <2>1, <2>2 DEF AllBound, HasParameters, ParametersOf
<1>9. CASE frames' = Caller
  <2>1. Len(frames') = k - 1 /\ \A i \in 1..(k - 1) : frames'[i] = frames[i]
    BY <1>9, CallerType
  <2>2. ASSUME NEW i \in 2..(k - 1) PROVE HasParameters(frames'[i])
    <3>1. i \in 2..k /\ i \in 1..(k - 1)
      BY <1>1
    <3> QED BY <2>1, <3>1 DEF AllBound
  <2> QED BY <2>1, <2>2 DEF AllBound, HasParameters, ParametersOf
<1> QED BY <1>5, <1>6, <1>7, <1>8, <1>9 DEF FramesAfter

\* In the body of a function its parameters have a value.
THEOREM ParametersAreBound == Spec => []ParametersBound
<1>1. Init => AllBound
  BY DEF Init, AllBound
<1>2. ASSUME TypeOK, AllBound, [Next]_vars PROVE AllBound'
  <2>1. CASE Step
    <3>1. Running
      BY <2>1 DEF Step, Fetches, LoadConstant, LoadVariable, StoreVariable, BuildList, Pop,
         PrintTop, Negate, Binary, Compare, Jump, JumpIfFalse, CallBuiltin, Call, Return,
         EndOfCode
    <3> QED BY <1>2, <2>1, <3>1, StepFrames, StepKeepsBound
  <2>2. CASE \E u \in Units : Execute(u)
    <3>1. Len(frames') = 1
      BY <2>2 DEF Execute
    <3> QED BY <3>1 DEF AllBound
  <2>3. CASE UNCHANGED vars
    BY <1>2, <2>3 DEF vars, AllBound, HasParameters, ParametersOf
  <2> QED BY <1>2, <2>1, <2>2, <2>3 DEF Next
<1>3. AllBound => ParametersBound
  BY DEF AllBound, ParametersBound, HasParameters, ParametersOf
<1> QED BY <1>1, <1>2, <1>3, TypeCorrect, PTL DEF Spec
=============================================================================
