------------------------------ MODULE Bytecode ------------------------------
(***************************************************************************)
(* The bytecode that passes from the compiler to the virtual machine       *)
(* (src/src/compiler/bytecode.hpp) and what it means for it to be well     *)
(* formed.  The machine never checks these facts; it relies on the         *)
(* compiler for them.                                                      *)
(*                                                                         *)
(* A chunk is a record [code, constants, parameters].  The parameters sit  *)
(* in the runtime::Function that owns the chunk; each Function owns one    *)
(* chunk, so that one handle names both.  Positions in the code and in the *)
(* constants count from 0, as operands do.                                 *)
(***************************************************************************)
EXTENDS Values

CONSTANTS
  Names,          \* the identifiers a program uses, as string texts
  ArgumentLimit   \* a Builtin operand keeps the argument count below this (2^16)

ASSUME BytecodeAssumption ==
  Names \subseteq Seq(Character) /\ ArgumentLimit \in Nat \ {0}

Arithmetic == {"Add", "Subtract", "Multiply", "Divide", "Modulo"}

\* The operand of Compare is a TokenType, an enumerator of token.hpp.
EqualEqual == 22
BangEqual == 23
Less == 24
Greater == 25
LessEqual == 26
GreaterEqual == 27
Comparison == EqualEqual..GreaterEqual

OpCode == {"LoadConstant", "BuildList", "Builtin", "LoadVariable",
           "StoreVariable", "Negate", "Compare", "Jump", "JumpIfFalse",
           "Call", "Return", "Print", "Pop"} \cup Arithmetic
InstructionRecord == [op : OpCode, operand : Nat]

\* How the operand of Builtin is taken apart.
ArgumentCount(operand) == operand % ArgumentLimit
BuiltinNumber(operand) == operand \div ArgumentLimit

ConstantAt(chunk, position) == chunk.constants[position + 1]

-----------------------------------------------------------------------------
\* How many operands an instruction takes from the stack and puts back.
Pops(instruction) ==
  CASE instruction.op \in {"LoadConstant", "LoadVariable", "Jump"} -> 0
    [] instruction.op = "BuildList" -> instruction.operand
    [] instruction.op = "Builtin" -> ArgumentCount(instruction.operand)
    [] instruction.op = "Call" -> instruction.operand + 1
    [] instruction.op \in Arithmetic \cup {"Compare"} -> 2
    [] OTHER -> 1

\* The instructions that end a statement: they leave no operand behind.
EndsStatement == {"StoreVariable", "JumpIfFalse", "Jump", "Return", "Print", "Pop"}
Pushes(instruction) == IF instruction.op \in EndsStatement THEN 0 ELSE 1

OperandInRange(chunk, instruction) ==
  CASE instruction.op = "LoadConstant" ->
         instruction.operand \in 0..(Len(chunk.constants) - 1)
    [] instruction.op \in {"LoadVariable", "StoreVariable"} ->
         /\ instruction.operand \in 0..(Len(chunk.constants) - 1)
         /\ ConstantAt(chunk, instruction.operand).tag = "String"
         /\ ConstantAt(chunk, instruction.operand).text \in Names
    [] instruction.op = "Compare" -> instruction.operand \in Comparison
    [] instruction.op \in {"Jump", "JumpIfFalse"} ->
         instruction.operand \in 0..Len(chunk.code)
    [] instruction.op = "Builtin" -> BuiltinNumber(instruction.operand) \in 0..2
    [] OTHER -> TRUE

\* depth[p] is the number of operands the frame that runs the chunk has on the
\* stack when it is about to fetch the instruction at p.
BalancedAt(chunk, depth, p) ==
  LET instruction == chunk.code[p + 1]
  IN /\ Pops(instruction) <= depth[p]
     /\ depth[p + 1] = depth[p] - Pops(instruction) + Pushes(instruction)
     /\ instruction.op \in EndsStatement => depth[p + 1] = 0
     /\ instruction.op \in {"Jump", "JumpIfFalse"} => depth[instruction.operand] = 0

Balanced(chunk, depth) ==
  /\ depth \in [0..Len(chunk.code) -> Nat]
  /\ depth[0] = 0
  /\ depth[Len(chunk.code)] = 0
  /\ \A p \in 0..(Len(chunk.code) - 1) : BalancedAt(chunk, depth, p)

\* The code of a function leaves only by a Return: it is the last instruction,
\* and no jump goes past it.
AlwaysReturns(chunk) ==
  /\ chunk.code # <<>>
  /\ chunk.code[Len(chunk.code)].op = "Return"
  /\ \A i \in 1..Len(chunk.code) :
       chunk.code[i].op \in {"Jump", "JumpIfFalse"} =>
         chunk.code[i].operand < Len(chunk.code)

WellFormed(chunk) ==
  /\ chunk.code \in Seq(InstructionRecord)
  /\ chunk.constants \in Seq(Value(0))
  /\ chunk.parameters \in Seq(Names)
  /\ \A i \in 1..Len(chunk.code) : OperandInRange(chunk, chunk.code[i])
=============================================================================
