--------------------------- MODULE VirtualMachine ---------------------------
(***************************************************************************)
(* The stack machine that runs SKript (src/src/vm/virtual_machine.cpp),    *)
(* one action per opcode.                                                  *)
(*                                                                         *)
(* A session is the life of one VirtualMachine object: the prompt keeps    *)
(* one for all its lines, a script run uses one once.  Each unit is a      *)
(* compiled program handed to execute(); it names its chunk, as the handle *)
(* of a Function names the chunk of its body.  execute() clears the        *)
(* operand stack and the frames when it begins and not when it ends; the   *)
(* globals live as long as the machine.                                    *)
(***************************************************************************)
EXTENDS Bytecode

CONSTANTS
  Units,       \* the programs of the session
  Chunk,       \* the bytecode of each function and program
  Depth,       \* the operand depths that balance it
  FrameLimit,  \* frames that fit in memory
  NoUnit       \* no program is running

ASSUME MachineAssumption ==
  /\ FrameLimit \in Nat \ {0}
  /\ Units \cap Handle = {}
  /\ NoUnit \notin Units

\* What the compiler guarantees of the chunks (module Compiler).
ASSUME CompiledAssumption ==
  /\ DOMAIN Chunk = Handle \cup Units
  /\ DOMAIN Depth = Handle \cup Units
  /\ \A h \in Handle \cup Units : WellFormed(Chunk[h]) /\ Balanced(Chunk[h], Depth[h])
  /\ \A h \in Handle : AlwaysReturns(Chunk[h])

VARIABLES
  stack,    \* stack_, the operands, the top last
  frames,   \* frames_, the innermost call last
  globals,  \* globals_
  heap,     \* the elements of each List object made so far
  output,   \* the values printed so far
  unit,     \* the program execute() is running
  outcome   \* how execute() left each program

vars == <<stack, frames, globals, heap, output, unit, outcome>>

Unbound == [tag |-> "Unbound"]
Scope(lists) == [Names -> Value(lists) \cup {Unbound}]
FrameRecord(lists) ==
  [chunk : Handle \cup Units, instruction : Nat, locals : Scope(lists)]
NoBindings == [x \in Names |-> Unbound]

Errors == {"stack underflow", "undefined variable", "unary '-' requires a number",
           "operator requires compatible numeric operands",
           "'%' requires integer operands", "division by zero",
           "comparison requires numeric operands", "built-in rejects its arguments",
           "unknown builtin", "can only call compiled functions",
           "incorrect number of function arguments", "'return' outside a function",
           "out of memory"}
Outcome == {"none", "finished", "killed"} \cup Errors

Frame == frames[Len(frames)]
Code == Chunk[Frame.chunk].code
Instruction == Code[Frame.instruction + 1]
Operand == ConstantAt(Chunk[Frame.chunk], Instruction.operand)

Running == unit # NoUnit
Killed == \E u \in Units : outcome[u] = "killed"

Init ==
  /\ stack = <<>>
  /\ frames = <<>>
  /\ globals = NoBindings
  /\ heap = <<>>
  /\ output = <<>>
  /\ unit = NoUnit
  /\ outcome = [u \in Units |-> "none"]

-----------------------------------------------------------------------------
(* What the instructions have in common. *)

\* The next instruction of the innermost frame is one of ops.
Fetches(ops) ==
  /\ Running
  /\ Frame.instruction < Len(Code)
  /\ Instruction.op \in ops

GoTo(target) == [frames EXCEPT ![Len(frames)].instruction = target]
Advanced == GoTo(Frame.instruction + 1)

Top == stack[Len(stack)]
Second == stack[Len(stack) - 1]
Below(n) == SubSeq(stack, 1, Len(stack) - n)
Arguments(n) == SubSeq(stack, Len(stack) - n + 1, Len(stack))

\* Mutant: the operands are taken and the result is not put back.
PushForgets(n, value) ==
  /\ stack' = Below(n)
  /\ frames' = Advanced
  /\ UNCHANGED <<globals, heap, output, unit, outcome>>

Push(n, value) ==
  /\ stack' = Append(Below(n), value)
  /\ frames' = Advanced
  /\ UNCHANGED <<globals, heap, output, unit, outcome>>

PushList(n, elements) ==
  /\ heap' = Append(heap, elements)
  /\ stack' = Append(Below(n), List(Len(heap) + 1))
  /\ frames' = Advanced
  /\ UNCHANGED <<globals, output, unit, outcome>>

\* Mutant: the dispatch loop swallows the error and tries the instruction again.
RaiseRetries(error, rest) ==
  stack' = rest /\ UNCHANGED <<frames, globals, heap, output, unit, outcome>>

\* Mutant: the program counts as finished.
RaiseFinishes(error, rest) ==
  /\ stack' = rest
  /\ frames' = Advanced
  /\ unit' = NoUnit
  /\ outcome' = [outcome EXCEPT ![unit] = "finished"]
  /\ UNCHANGED <<globals, heap, output>>

\* An exception leaves execute(); the operands popped before it are gone, the
\* rest of the stack and the frames stay as they are.
Raise(error, rest) ==
  /\ stack' = rest
  /\ frames' = Advanced
  /\ unit' = NoUnit
  /\ outcome' = [outcome EXCEPT ![unit] = error]
  /\ UNCHANGED <<globals, heap, output>>

\* The operating system ends the process.
Kill ==
  /\ unit' = NoUnit
  /\ outcome' = [outcome EXCEPT ![unit] = "killed"]
  /\ UNCHANGED <<stack, frames, globals, heap, output>>

\* An allocation fails: bad_alloc is thrown, or the process is ended first.
RunOutOfMemory(n) == Raise("out of memory", Below(n)) \/ Kill

\* n calls of pop() on a stack with fewer operands.
PopsFail(n) == Len(stack) < n /\ Raise("stack underflow", <<>>)
\* The same found by a test before the first pop().
CheckFails(n) == Len(stack) < n /\ Raise("stack underflow", stack)

-----------------------------------------------------------------------------
(* Operands and variables. *)

LoadConstant == Fetches({"LoadConstant"}) /\ Push(0, Operand)

LoadVariable ==
  /\ Fetches({"LoadVariable"})
  /\ LET name == Operand.text
     IN CASE Frame.locals[name] # Unbound -> Push(0, Frame.locals[name])
          [] Frame.locals[name] = Unbound /\ globals[name] # Unbound ->
               Push(0, globals[name])
          [] OTHER -> Raise("undefined variable", stack)

\* Mutant: every frame stores to the globals.
StoreVariableGlobally ==
  /\ Fetches({"StoreVariable"})
  /\ Len(stack) >= 1
  /\ stack' = Below(1)
  /\ globals' = [globals EXCEPT ![Operand.text] = Top]
  /\ frames' = Advanced
  /\ UNCHANGED <<heap, output, unit, outcome>>

\* The outermost frame stores to the globals, a called function to its locals.
StoreVariable ==
  /\ Fetches({"StoreVariable"})
  /\ \/ PopsFail(1)
     \/ /\ Len(stack) >= 1
        /\ stack' = Below(1)
        /\ IF Len(frames) = 1
           THEN /\ globals' = [globals EXCEPT ![Operand.text] = Top]
                /\ frames' = Advanced
           ELSE /\ frames' = [Advanced EXCEPT
                                ![Len(frames)].locals[Operand.text] = Top]
                /\ UNCHANGED globals
        /\ UNCHANGED <<heap, output, unit, outcome>>

BuildList ==
  /\ Fetches({"BuildList"})
  /\ LET n == Instruction.operand
     IN CheckFails(n) \/ (Len(stack) >= n /\ PushList(n, Arguments(n)))

Pop ==
  /\ Fetches({"Pop"})
  /\ \/ PopsFail(1)
     \/ /\ Len(stack) >= 1
        /\ stack' = Below(1)
        /\ frames' = Advanced
        /\ UNCHANGED <<globals, heap, output, unit, outcome>>

PrintTop ==
  /\ Fetches({"Print"})
  /\ \/ PopsFail(1)
     \/ /\ Len(stack) >= 1
        /\ output' = Append(output, Top)
        /\ stack' = Below(1)
        /\ frames' = Advanced
        /\ UNCHANGED <<globals, heap, unit, outcome>>

-----------------------------------------------------------------------------
(* Operators.  Both operands are popped before either is looked at. *)

Negate ==
  /\ Fetches({"Negate"})
  /\ \/ PopsFail(1)
     \/ /\ Len(stack) >= 1
        /\ IF IsNumber(Top) THEN Push(1, Negation(Top))
           ELSE Raise("unary '-' requires a number", Below(1))

Concatenates(op, l, r) == op = "Add" /\ l.tag = "String" /\ r.tag = "String"

ArithmeticError(op, l, r) ==
  IF ~IsNumber(l) \/ ~IsNumber(r)
  THEN "operator requires compatible numeric operands"
  ELSE IF op = "Modulo" /\ ~AreIntegers(l, r) THEN "'%' requires integer operands"
  ELSE IF op \in {"Divide", "Modulo"} /\ Numerator(r) = 0 THEN "division by zero"
  ELSE "none"

ArithmeticResult(op, l, r) ==
  CASE op = "Add" -> Sum(l, r)
    [] op = "Subtract" -> Difference(l, r)
    [] op = "Multiply" -> Product(l, r)
    [] op = "Divide" -> Quotient(l, r)
    [] OTHER -> Remainder(l, r)

\* binary().  The remainder that traps either yields 0 or ends the process.
Compute(op, l, r) ==
  IF Concatenates(op, l, r) THEN Push(2, String(l.text \o r.text))
  ELSE IF ArithmeticError(op, l, r) # "none"
  THEN Raise(ArithmeticError(op, l, r), Below(2))
  ELSE \/ Push(2, ArithmeticResult(op, l, r))
       \/ op = "Modulo" /\ RemainderTraps(l, r) /\ Kill

Binary ==
  /\ Fetches(Arithmetic)
  /\ PopsFail(2) \/ (Len(stack) >= 2 /\ Compute(Instruction.op, Second, Top))

\* equal(): numbers by value, strings by content, functions and lists by identity.
Equal(l, r) == IF IsNumber(l) /\ IsNumber(r) THEN NumberEqual(l, r) ELSE l = r

CompareResult(token, l, r) ==
  CASE token = EqualEqual -> Equal(l, r)
    [] token = BangEqual -> ~Equal(l, r)
    [] token = Less -> NumberLess(l, r)
    [] token = LessEqual -> ~NumberLess(r, l)
    [] token = Greater -> NumberLess(r, l)
    [] token = GreaterEqual -> ~NumberLess(l, r)

Compare ==
  /\ Fetches({"Compare"})
  /\ \/ PopsFail(2)
     \/ /\ Len(stack) >= 2
        /\ IF \/ Instruction.operand \in {EqualEqual, BangEqual}
              \/ IsNumber(Second) /\ IsNumber(Top)
           THEN Push(2, Boolean(CompareResult(Instruction.operand, Second, Top)))
           ELSE Raise("comparison requires numeric operands", Below(2))

-----------------------------------------------------------------------------
(* Control. *)

Jump ==
  /\ Fetches({"Jump"})
  /\ frames' = GoTo(Instruction.operand)
  /\ UNCHANGED <<stack, globals, heap, output, unit, outcome>>

\* Mutant: the condition is looked at and not popped.
JumpIfFalsePeeks ==
  /\ Fetches({"JumpIfFalse"})
  /\ Len(stack) >= 1
  /\ frames' = IF Truthy(Top, heap) THEN Advanced ELSE GoTo(Instruction.operand)
  /\ UNCHANGED <<stack, globals, heap, output, unit, outcome>>

JumpIfFalse ==
  /\ Fetches({"JumpIfFalse"})
  /\ \/ PopsFail(1)
     \/ /\ Len(stack) >= 1
        /\ frames' = IF Truthy(Top, heap) THEN Advanced ELSE GoTo(Instruction.operand)
        /\ stack' = Below(1)
        /\ UNCHANGED <<globals, heap, output, unit, outcome>>

\* invoke_builtin() on the popped arguments.
InvokeBuiltin(builtin, arguments) ==
  LET n == Len(arguments)
  IN IF BuiltinRejects(builtin, arguments)
     THEN Raise("built-in rejects its arguments", Below(n))
     ELSE CASE builtin = "len" -> Push(n, Integer(Wrap(LengthOf(arguments[1], heap))))
            [] builtin = "type" -> Push(n, String(TypeName[arguments[1].tag]))
            [] builtin = "range" -> IF RangeExhausts(arguments) THEN RunOutOfMemory(n)
                                    ELSE PushList(n, RangeElements(arguments))

BuiltinOfNumber == <<"len", "type", "range">>

CallBuiltin ==
  /\ Fetches({"Builtin"})
  /\ LET n == ArgumentCount(Instruction.operand)
         number == BuiltinNumber(Instruction.operand) + 1
     IN \/ CheckFails(n)
        \/ /\ Len(stack) >= n
           /\ IF number \in 1..3 THEN InvokeBuiltin(BuiltinOfNumber[number], Arguments(n))
              ELSE Raise("unknown builtin", Below(n))

\* Mutant: the last parameter is forgotten.
LocalsButLast(parameters, arguments) ==
  [x \in Names |->
     LET positions == {i \in 1..(Len(parameters) - 1) : parameters[i] = x}
     IN IF positions = {} THEN Unbound
        ELSE arguments[CHOOSE i \in positions : \A j \in positions : i <= j]]

\* Mutant: a later argument takes the place of an earlier one of the same name.
LocalsOfLast(parameters, arguments) ==
  [x \in Names |->
     LET positions == {i \in 1..Len(parameters) : parameters[i] = x}
     IN IF positions = {} THEN Unbound
        ELSE arguments[CHOOSE i \in positions : \A j \in positions : j <= i]]

\* emplace() keeps the first argument of a parameter that occurs twice.
Locals(parameters, arguments) ==
  [x \in Names |->
     LET positions == {i \in 1..Len(parameters) : parameters[i] = x}
     IN IF positions = {} THEN Unbound
        ELSE arguments[CHOOSE i \in positions : \A j \in positions : i <= j]]

\* Mutant: the callee and its arguments are erased at the wrong end of the stack.
CallErasesBottom ==
  /\ Fetches({"Call"})
  /\ LET n == Instruction.operand
         callee == stack[Len(stack) - n]
     IN /\ Len(stack) > n
        /\ callee.tag = "Function" /\ Len(Chunk[callee.function].parameters) = n
        /\ Len(frames) < FrameLimit
        /\ stack' = SubSeq(stack, n + 2, Len(stack))
        /\ frames' = Append(Advanced,
             [chunk |-> callee.function, instruction |-> 0,
              locals |-> Locals(Chunk[callee.function].parameters, Arguments(n))])
        /\ UNCHANGED <<globals, heap, output, unit, outcome>>

\* The new frame points to the code of the callee and does not own it.
Call ==
  /\ Fetches({"Call"})
  /\ LET n == Instruction.operand
         callee == stack[Len(stack) - n]
     IN \/ CheckFails(n + 1)
        \/ /\ Len(stack) > n
           /\ IF callee.tag # "Function"
              THEN Raise("can only call compiled functions", Below(n + 1))
              ELSE IF Len(Chunk[callee.function].parameters) # n
              THEN Raise("incorrect number of function arguments", Below(n + 1))
              ELSE IF Len(frames) = FrameLimit
              THEN RunOutOfMemory(n + 1)
              ELSE /\ stack' = Below(n + 1)
                   /\ frames' = Append(Advanced,
                        [chunk |-> callee.function, instruction |-> 0,
                         locals |-> Locals(Chunk[callee.function].parameters, Arguments(n))])
                   /\ UNCHANGED <<globals, heap, output, unit, outcome>>

Caller == SubSeq(frames, 1, Len(frames) - 1)

\* Mutant: the result is popped with the frame.
ReturnDropsResult ==
  /\ Fetches({"Return"})
  /\ Len(frames) > 1 /\ Len(stack) >= 1
  /\ stack' = Below(1)
  /\ frames' = Caller
  /\ UNCHANGED <<globals, heap, output, unit, outcome>>

\* Mutant: the stack is cleared before the result is put back.
ReturnClearsStack ==
  /\ Fetches({"Return"})
  /\ Len(frames) > 1 /\ Len(stack) >= 1
  /\ stack' = <<Top>>
  /\ frames' = Caller
  /\ UNCHANGED <<globals, heap, output, unit, outcome>>

Return ==
  /\ Fetches({"Return"})
  /\ \/ PopsFail(1)
     \/ /\ Len(stack) >= 1
        /\ IF Len(frames) = 1
           THEN Raise("'return' outside a function", Below(1))
           ELSE /\ frames' = Caller
                /\ UNCHANGED <<stack, globals, heap, output, unit, outcome>>

\* Mutant: the end of the code is looked for one instruction too late.
EndOfCodeLate ==
  /\ Running
  /\ Frame.instruction > Len(Code)
  /\ frames' = Caller
  /\ unit' = NoUnit
  /\ outcome' = [outcome EXCEPT ![unit] = "finished"]
  /\ UNCHANGED <<stack, globals, heap, output>>

\* The code of the innermost frame is at its end.  With the outermost frame
\* gone, execute() returns.
EndOfCode ==
  /\ Running
  /\ Frame.instruction >= Len(Code)
  /\ frames' = Caller
  /\ IF Len(frames) = 1
     THEN unit' = NoUnit /\ outcome' = [outcome EXCEPT ![unit] = "finished"]
     ELSE UNCHANGED <<unit, outcome>>
  /\ UNCHANGED <<stack, globals, heap, output>>

\* Mutant: what the last program left on the stack stays there.
ExecuteKeepsStack(u) ==
  /\ ~Running
  /\ ~Killed
  /\ outcome[u] = "none"
  /\ frames' = <<[chunk |-> u, instruction |-> 0, locals |-> NoBindings]>>
  /\ unit' = u
  /\ UNCHANGED <<stack, globals, heap, output, outcome>>

\* Mutant: a program starts without the globals of those before it.
ExecuteForgetsGlobals(u) ==
  /\ ~Running
  /\ ~Killed
  /\ outcome[u] = "none"
  /\ stack' = <<>>
  /\ frames' = <<[chunk |-> u, instruction |-> 0, locals |-> NoBindings]>>
  /\ globals' = NoBindings
  /\ unit' = u
  /\ UNCHANGED <<heap, output, outcome>>

\* execute() is given the next program; each is given once.
Execute(u) ==
  /\ ~Running
  /\ ~Killed
  /\ outcome[u] = "none"
  /\ stack' = <<>>
  /\ frames' = <<[chunk |-> u, instruction |-> 0, locals |-> NoBindings]>>
  /\ unit' = u
  /\ UNCHANGED <<globals, heap, output, outcome>>

Step ==
  \/ LoadConstant \/ LoadVariable \/ StoreVariable \/ BuildList \/ Pop \/ PrintTop
  \/ Negate \/ Binary \/ Compare \/ Jump \/ JumpIfFalse
  \/ CallBuiltin \/ Call \/ Return \/ EndOfCode

Next == Step \/ \E u \in Units : Execute(u)

Spec == Init /\ [][Next]_vars

\* execute() is a loop that nothing suspends; nobody has to enter another program.
FairSpec == Spec /\ WF_vars(Step)

-----------------------------------------------------------------------------
\* Types: every variable holds what the C++ type of its member allows, and
\* every list value refers to a List object that has been made.
TypeOK ==
  /\ stack \in Seq(Value(Len(heap)))
  /\ frames \in Seq(FrameRecord(Len(heap)))
  /\ globals \in Scope(Len(heap))
  /\ heap \in Seq(Seq(Value(Len(heap))))
  /\ output \in Seq(Value(Len(heap)))
  /\ unit \in Units \cup {NoUnit}
  /\ outcome \in [Units -> Outcome]
  /\ Running => frames # <<>>

OperandsOf(frame) == Depth[frame.chunk][frame.instruction]

\* base[i] is where the operands of frame i begin on the operand stack.  A caller
\* has one operand less than its code says while it waits for the result of a
\* call.
Bases(base) ==
  /\ base \in [1..Len(frames) -> 0..Len(stack)]
  /\ base[1] = 0
  /\ \A i \in 1..(Len(frames) - 1) : base[i + 1] = base[i] + OperandsOf(frames[i]) - 1
  /\ \A i, j \in 1..Len(frames) : i <= j => base[i] <= base[j]
  /\ Len(stack) = base[Len(frames)] + OperandsOf(Frame)

\* The operand stack is the operands of the frames, one frame above the other:
\* calls, returns, jumps, loops and the errors of earlier programs leave nothing
\* behind on it and take nothing that is not theirs (virtual_machine.cpp:32-101).
StackDiscipline == Running => \E base \in [1..Len(frames) -> 0..Len(stack)] : Bases(base)

\* No program ends with one of the two errors that mean that its bytecode is
\* wrong: pop() on an empty stack (virtual_machine.cpp:96) and a built-in that
\* does not exist (builtins.cpp:54).
NoInternalError == \A u \in Units : outcome[u] \notin {"stack underflow", "unknown builtin"}

\* What a step does to the operand stack stays within the operands of the
\* innermost frame: the half-evaluated expressions of its callers are as they
\* were when it was called (virtual_machine.cpp:82-101).
CallersKeepOperands ==
  [][Running /\ Running' =>
       \A i \in 1..(Len(stack) - OperandsOf(Frame)) :
         i <= Len(stack') /\ stack'[i] = stack[i]]_vars

\* In the body of a function its parameters always have a value, whatever
\* their number and however often one of them is repeated
\* (virtual_machine.cpp:168-170).
ParametersBound ==
  Running => \A i \in 2..Len(frames) :
    \A j \in 1..Len(Chunk[frames[i].chunk].parameters) :
      frames[i].locals[Chunk[frames[i].chunk].parameters[j]] # Unbound

-----------------------------------------------------------------------------
(* Ownership.  A shared_ptr keeps its object alive; frames_ holds plain      *)
(* pointers to chunks.                                                       *)

\* What a value can refer to: of the programs' own chunks only the running one.
Object ==
  {Function(h) : h \in Handle \cup {unit}} \cup {List(r) : r \in 1..Len(heap)}

\* The objects among the values an object holds: the constants of a function's
\* chunk, the elements of a list.
Held(object) ==
  Object \cap (IF object.tag = "Function"
               THEN {Chunk[object.function].constants[i] :
                       i \in 1..Len(Chunk[object.function].constants)}
               ELSE {heap[object.list][i] : i \in 1..Len(heap[object.list])})

\* The objects that are reachable from a set of values: those in every set that
\* has the objects among the values and what its members hold.
Reachable(values) ==
  LET roots == values \cap Object
      Closed(S) == \A object \in S : Held(object) \subseteq S
  IN {object \in Object :
        \A S \in {roots \cup T : T \in SUBSET (Object \ roots)} :
          Closed(S) => object \in S}

\* The running program's chunk is kept by execute_source() in main.cpp and a
\* global by globals_; stack_ and the locals of the frames keep their values.
Kept == {Function(unit)} \cup {globals[x] : x \in Names}
InUse ==
  {stack[i] : i \in 1..Len(stack)}
    \cup {frames[i].locals[x] : i \in 1..Len(frames), x \in Names}

\* The code a frame executes, or will return to, has not been freed: also not
\* when a function's own name is given another value while it runs
\* (virtual_machine.cpp:169).
NoDanglingFrame ==
  Running =>
    {Function(frames[i].chunk) : i \in 1..Len(frames)} \subseteq Reachable(Kept \cup InUse)

\* The reason for it: what is on the stack or in a local never is the last
\* owner of a function.
FunctionsKept ==
  Running =>
    {object \in Reachable(Kept \cup InUse) : object.tag = "Function"} \subseteq Reachable(Kept)

-----------------------------------------------------------------------------
\* Every program that is started ends (in programs whose loops and recursion
\* do): the machine never hangs in its dispatch loop.
EveryProgramEnds == Running ~> ~Running
=============================================================================
