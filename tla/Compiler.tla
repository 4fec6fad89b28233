------------------------------ MODULE Compiler ------------------------------
(***************************************************************************)
(* The bytecode compiler (src/src/compiler/compiler.cpp).  A Compiler      *)
(* object is a record that each operator takes and returns changed:        *)
(*   handle     the identity of the chunk being written                    *)
(*   code, constants                     that chunk                        *)
(*   chunks     the finished chunks of the functions declared in it        *)
(*   echo       echo_expressions_                                          *)
(*   failed     an exception was thrown; the result is discarded           *)
(*   agenda     what the active functions have still to do, the innermost  *)
(*              first: the descent of the C++ functions, cut at their calls*)
(***************************************************************************)
EXTENDS Bytecode, Ast

NewCompiler(handle, echo, statements) ==
  [handle |-> handle, code |-> <<>>, constants |-> <<>>, chunks |-> <<>>,
   echo |-> echo, failed |-> FALSE, agenda |-> <<<<"Block", statements>>>>]

Emit(c, op, operand) ==
  [c EXCEPT !.code = Append(@, [op |-> op, operand |-> operand])]

\* add_constant() and the instruction that uses its position.
EmitConstant(c, op, value) ==
  Emit([c EXCEPT !.constants = Append(@, value)], op, Len(c.constants))

EmitVariable(c, op, name) == EmitConstant(c, op, String(name))

\* emit_jump() leaves the target open; patch_jump() fills it in at `at`.
EmitJump(c, op) == Emit(c, op, -1)
\* Mutant: the jump skips the instruction it should go to.
PatchJumpTooFar(c, at) == [c EXCEPT !.code[at].operand = Len(c.code) + 1]

PatchJump(c, at) == [c EXCEPT !.code[at].operand = Len(c.code)]

\* literal(): std::stoll() throws when an integer is too large.
EmitLiteral(c, value) ==
  IF value.tag = "Integer" /\ value.integer > IntegerMax
  THEN [c EXCEPT !.failed = TRUE]
  ELSE EmitConstant(c, "LoadConstant", value)

-----------------------------------------------------------------------------
(* What a function does next: the calls it makes, one after the other.     *)

Then(c, steps) == [c EXCEPT !.agenda = steps \o @]

Expression(e) == <<"Expression", e>>
Expressions(es) == <<"Expressions", es>>
Emission(op, operand) == <<"Emit", op, operand>>
Block(statements) == <<"Block", statements>>

-----------------------------------------------------------------------------
(* Expressions. *)

BuiltinNumbers == <<"len", "type", "range">>
BuiltinsNamed(callee) ==
  {i \in 1..3 : callee.kind = "Variable" /\ callee.name = BuiltinName[BuiltinNumbers[i]]}

\* number << 16 | count: a count that is too large for its bits runs into
\* those of the number, of which one at most is set.
Packed(number, count) ==
  LET above == count \div ArgumentLimit
      isSet == number = 0 \/ (above \div number) % 2 = 1
  IN (IF isSet THEN above ELSE above + number) * ArgumentLimit + (count % ArgumentLimit)

OpCodeOf == [Plus |-> "Add", Minus |-> "Subtract", Star |-> "Multiply",
             Slash |-> "Divide", Percent |-> "Modulo"]
TokenOf == [EqualEqual |-> EqualEqual, BangEqual |-> BangEqual, Less |-> Less,
            LessEqual |-> LessEqual, Greater |-> Greater, GreaterEqual |-> GreaterEqual]

BinaryInstruction(op) ==
  IF op \in DOMAIN OpCodeOf THEN Emission(OpCodeOf[op], 0)
  ELSE Emission("Compare", TokenOf[op])

\* One expression after the other.
CompileAll(c, expressions) ==
  IF expressions = <<>> THEN c
  ELSE Then(c, <<Expression(Head(expressions)), Expressions(Tail(expressions))>>)

\* The operands of a call are its callee, unless that names a built-in, and
\* its arguments.
CompileCall(c, call) ==
  LET numbers == BuiltinsNamed(call.callee)
      count == Len(call.arguments)
  IN IF numbers = {}
     THEN Then(c, <<Expression(call.callee), Expressions(call.arguments),
                    Emission("Call", count)>>)
     ELSE Then(c, <<Expressions(call.arguments),
                    Emission("Builtin", Packed((CHOOSE i \in numbers : TRUE) - 1, count))>>)

CompileExpression(c, e) ==
  CASE e.kind = "Literal" -> EmitLiteral(c, e.value)
    [] e.kind = "Variable" -> EmitVariable(c, "LoadVariable", e.name)
    [] e.kind = "List" -> Then(c, <<Expressions(e.elements),
                                    Emission("BuildList", Len(e.elements))>>)
    [] e.kind = "Unary" -> Then(c, IF e.op = "Minus"
                                   THEN <<Expression(e.right), Emission("Negate", 0)>>
                                   ELSE <<Expression(e.right)>>)
    [] e.kind = "Binary" -> Then(c, <<Expressions(<<e.left, e.right>>), BinaryInstruction(e.op)>>)
    [] e.kind = "Call" -> CompileCall(c, e)

-----------------------------------------------------------------------------
(* Statements. *)

CompileBlock(c, statements) ==
  IF statements = <<>> THEN c
  ELSE Then(c, <<<<"Statement", Head(statements)>>, Block(Tail(statements))>>)

\* The condition, with a jump over what it guards.
CompileIf(c, s) == Then(c, <<Expression(s.condition), <<"Then", s>>>>)
CompileThen(c, s) ==
  LET false_jump == Len(c.code) + 1
  IN Then(EmitJump(c, "JumpIfFalse"), <<Block(s.then_branch), <<"EndThen", s, false_jump>>>>)
EndThen(c, s, false_jump) ==
  LET end_jump == Len(c.code) + 1
  IN IF s.else_branch = <<>> THEN PatchJump(c, false_jump)
     ELSE Then(PatchJump(EmitJump(c, "Jump"), false_jump),
               <<Block(s.else_branch[1]), <<"Patch", end_jump>>>>)

CompileWhile(c, s) == Then(c, <<Expression(s.condition), <<"Body", s, Len(c.code)>>>>)
CompileBody(c, s, loop_start) ==
  LET exit_jump == Len(c.code) + 1
  IN Then(EmitJump(c, "JumpIfFalse"), <<Block(s.body), <<"EndBody", loop_start, exit_jump>>>>)
EndBody(c, loop_start, exit_jump) == PatchJump(Emit(c, "Jump", loop_start), exit_jump)

EmitReturnNone(c) == Emit(EmitConstant(c, "LoadConstant", NoneValue), "Return", 0)
CompileReturn(c, s) ==
  IF s.value = <<>> THEN EmitReturnNone(c)
  ELSE Then(c, <<Expression(s.value[1]), Emission("Return", 0)>>)

CompileStatement(c, s) ==
  CASE s.kind = "Expression" -> Then(c, <<Expression(s.expression),
                                          Emission(IF c.echo THEN "Print" ELSE "Pop", 0)>>)
    [] s.kind = "Assignment" -> Then(c, <<Expression(s.value), <<"Store", s.name>>>>)
    [] s.kind = "Print" -> Then(c, <<Expression(s.expression), Emission("Print", 0)>>)
    [] s.kind = "If" -> CompileIf(c, s)
    [] s.kind = "While" -> CompileWhile(c, s)
    [] s.kind = "Return" -> CompileReturn(c, s)

\* Work on whatever is next, unless it is the body of a function.
Work(c) ==
  LET step == Head(c.agenda)
      rest == [c EXCEPT !.agenda = Tail(@)]
  IN CASE step[1] = "Expression" -> CompileExpression(rest, step[2])
       [] step[1] = "Expressions" -> CompileAll(rest, step[2])
       [] step[1] = "Emit" -> Emit(rest, step[2], step[3])
       [] step[1] = "Statement" -> CompileStatement(rest, step[2])
       [] step[1] = "Block" -> CompileBlock(rest, step[2])
       [] step[1] = "Store" -> EmitVariable(rest, "StoreVariable", step[2])
       [] step[1] = "Then" -> CompileThen(rest, step[2])
       [] step[1] = "EndThen" -> EndThen(rest, step[2], step[3])
       [] step[1] = "Body" -> CompileBody(rest, step[2], step[3])
       [] step[1] = "EndBody" -> EndBody(rest, step[2], step[3])
       [] step[1] = "Patch" -> PatchJump(rest, step[2])

-----------------------------------------------------------------------------
(* Functions. *)

Declares(c) ==
  /\ c.agenda # <<>>
  /\ Head(c.agenda)[1] = "Statement"
  /\ Head(c.agenda)[2].kind = "Function"
Declaration(c) == Head(c.agenda)[2]

\* Mutant: the new compiler echoes as the one around it does.
NestedEchoes(c) ==
  NewCompiler(Append(c.handle, Len(c.constants)), c.echo, Declaration(c).body)

\* compile_function(): a compiler of its own, which does not echo, ...
Nested(c) == NewCompiler(Append(c.handle, Len(c.constants)), FALSE, Declaration(c).body)

ChunkOf(c, parameters) ==
  [handle \in {c.handle} |->
     [code |-> c.code, constants |-> c.constants, parameters |-> parameters]]
Joined(a, b) ==
  [handle \in DOMAIN a \cup DOMAIN b |-> IF handle \in DOMAIN a THEN a[handle] ELSE b[handle]]

\* Mutant: no return is added to the body.
FunctionCompiledBare(nested) == nested

\* ... and a final `return None`.
FunctionCompiled(nested) == EmitReturnNone(nested)

\* Nothing is compiled after an exception.
CompileDefinition(c, nested) ==
  LET s == Declaration(c)
      rest == [c EXCEPT !.agenda = Tail(@)]
      loaded == EmitConstant(rest, "LoadConstant", Function(nested.handle))
      stored == EmitVariable(loaded, "StoreVariable", s.name)
  IN [stored EXCEPT !.chunks = Joined(@, Joined(nested.chunks,
                                           ChunkOf(FunctionCompiled(nested), s.parameters))),
                    !.failed = nested.failed]

-----------------------------------------------------------------------------
\* All the chunks of a compiled program, by their handles.
ChunksOf(compiled) == Joined(compiled.chunks, ChunkOf(compiled, <<>>))

\* The depths a linear pass over the code finds.
DepthsOf(chunk) ==
  LET depth[p \in 0..Len(chunk.code)] ==
        IF p = 0 THEN 0
        ELSE depth[p - 1] - Pops(chunk.code[p]) + Pushes(chunk.code[p])
  IN [p \in 0..Len(chunk.code) |-> depth[p]]
=============================================================================
