-------------------------- MODULE MCVirtualMachine --------------------------
(***************************************************************************)
(* Sessions for TLC: small programs, compiled by the model of the          *)
(* compiler, entered in every order.  Each is the text above it.           *)
(***************************************************************************)
EXTENDS StackRefinement, Compilation, SequencesExt

f == <<"f">>
g == <<"g">>
n == <<"n">>
x == <<"x">>
MCNames == {f, g, n, x}
MCCharacter ==
  UNION {ToSet(TypeName[tag]) : tag \in DOMAIN TypeName} \cup {"a", "b", "f", "g", "n", "x"}

Number(i) == LiteralExpr(Integer(i))
Call1(name, argument) == CallExpr(VariableExpr(name), <<argument>>)
Plus(l, r) == BinaryExpr(l, "Plus", r)

\* def f(n):
\*     f = n
\*     return f
DefinesF ==
  <<FunctionStmt(f, <<n>>, <<AssignmentStmt(f, VariableExpr(n)),
                             ReturnStmt(<<VariableExpr(f)>>)>>)>>

\* f = 2 - f(f(1)) + f([f])
ReplacesF ==
  <<AssignmentStmt(f, Plus(BinaryExpr(Number(2), "Minus", Call1(f, Call1(f, Number(1)))),
                           Call1(f, ListExpr(<<VariableExpr(f)>>))))>>

\* f = f(f(f))
RebindsF == <<AssignmentStmt(f, Call1(f, Call1(f, VariableExpr(f))))>>

\* def g(n, n):
\*     def f(n):
\*         if n == 0:
\*             return f
\*         n = 0
\*         g = [f, f]
\*     return f
\* g = g(0, 1)
MakesG ==
  <<FunctionStmt(g, <<n, n>>,
      <<FunctionStmt(f, <<n>>,
          <<IfStmt(BinaryExpr(VariableExpr(n), "EqualEqual", Number(0)),
                   <<ReturnStmt(<<VariableExpr(f)>>)>>, <<>>),
            AssignmentStmt(n, Number(0)),
            AssignmentStmt(g, ListExpr(<<VariableExpr(f), VariableExpr(f)>>))>>),
        ReturnStmt(<<VariableExpr(f)>>)>>),
    AssignmentStmt(g, CallExpr(VariableExpr(g), <<Number(0), Number(1)>>))>>

\* g(1)
\* x = g(0)
UsesG == <<ExpressionStmt(Call1(g, Number(1))), AssignmentStmt(x, Call1(g, Number(0)))>>

\* x = 2
\* while x > 0:
\*     if g:
\*         x = x - 1
\*     else:
\*         x = x + -1
\*     print([x, f])
Loops ==
  <<AssignmentStmt(x, Number(2)),
    WhileStmt(BinaryExpr(VariableExpr(x), "Greater", Number(0)),
      <<IfStmt(VariableExpr(g),
          <<AssignmentStmt(x, BinaryExpr(VariableExpr(x), "Minus", Number(1)))>>,
          <<<<AssignmentStmt(x, Plus(VariableExpr(x), UnaryExpr("Minus", Number(1))))>>>>),
        PrintStmt(ListExpr(<<VariableExpr(x), VariableExpr(f)>>))>>)>>

CallPrograms == <<DefinesF, ReplacesF, RebindsF, MakesG, UsesG, Loops>>

-----------------------------------------------------------------------------
Text(characters) == LiteralExpr(String(characters))
Var(name) == VariableExpr(name)
Minus(l, r) == BinaryExpr(l, "Minus", r)
Builtin1(name, argument) == CallExpr(Var(BuiltinName[name]), <<argument>>)
RangeCall(start, stop, step) ==
  CallExpr(Var(BuiltinName.range), <<start, stop, step>>)

\* x = -7 - 1
\* return -x % -1
Traps ==
  <<AssignmentStmt(x, Minus(UnaryExpr("Minus", Number(7)), Number(1))),
    ReturnStmt(<<BinaryExpr(UnaryExpr("Minus", Var(x)), "Percent",
                            UnaryExpr("Minus", Number(1)))>>)>>

\* def f(n):
\*     return 1 - f(n)
\* x = [1, f(2)]
NeverReturns ==
  <<FunctionStmt(f, <<n>>, <<ReturnStmt(<<Minus(Number(1), Call1(f, Var(n)))>>)>>),
    AssignmentStmt(x, ListExpr(<<Number(1), Call1(f, Number(2))>>))>>

\* if x:
\*     f(x, +x)
\* else:
\*     x(x)
WrongCalls ==
  <<IfStmt(Var(x),
      <<ExpressionStmt(CallExpr(Var(f), <<Var(x), UnaryExpr("Plus", Var(x))>>))>>,
      <<<<ExpressionStmt(Call1(x, Var(x)))>>>>)>>

\* x = "a" + "b"
\* if type(x) == "str":
\*     x = len(x) * 2 == 4.0
\* x = 1 - x
Strings ==
  <<AssignmentStmt(x, Plus(Text(<<"a">>), Text(<<"b">>))),
    IfStmt(BinaryExpr(Builtin1("type", Var(x)), "EqualEqual", Text(TypeName.String)),
      <<AssignmentStmt(x, BinaryExpr(BinaryExpr(Builtin1("len", Var(x)), "Star", Number(2)),
                                     "EqualEqual", LiteralExpr(Float(4, 1))))>>, <<>>),
    AssignmentStmt(x, Minus(Number(1), Var(x)))>>

\* x = range(0, 6, 5)
\* x = len(x) % len("")
Wraps ==
  <<AssignmentStmt(x, RangeCall(Number(0), Number(6), Number(5))),
    AssignmentStmt(x, BinaryExpr(Builtin1("len", Var(x)), "Percent",
                                 Builtin1("len", Text(<<>>))))>>

\* if x == 0:
\*     None < x
\* range(x, 7, 2)
Exhausts ==
  <<IfStmt(BinaryExpr(Var(x), "EqualEqual", Number(0)),
      <<ExpressionStmt(BinaryExpr(LiteralExpr(NoneValue), "Less", Var(x)))>>, <<>>),
    ExpressionStmt(RangeCall(Var(x), Number(7), Number(2)))>>

\* x = 3 / 2
\* while x != 0:
\*     x = x - 1 / 2
\* x % 1
Fractions ==
  <<AssignmentStmt(x, BinaryExpr(Number(3), "Slash", Number(2))),
    WhileStmt(BinaryExpr(Var(x), "BangEqual", Number(0)),
      <<AssignmentStmt(x, Minus(Var(x), BinaryExpr(Number(1), "Slash", Number(2))))>>),
    ExpressionStmt(BinaryExpr(Var(x), "Percent", Number(1)))>>

\* -1
\* -None
Negates ==
  <<ExpressionStmt(UnaryExpr("Minus", Number(1))),
    ExpressionStmt(UnaryExpr("Minus", LiteralExpr(NoneValue)))>>

ErrorPrograms ==
  <<Traps, NeverReturns, WrongCalls, Strings, Wraps, Exhausts, Fractions, Negates>>

-----------------------------------------------------------------------------
\* Each program is compiled on its own; the prompt does it with echo.  The
\* handle of a function begins with that of its program.
CompiledPrograms(programs, echo) ==
  LET tables == [i \in DOMAIN programs |-> ChunksOf(Compile(<<i>>, programs[i], echo))]
  IN [h \in UNION {DOMAIN tables[i] : i \in DOMAIN programs} |-> tables[h[1]][h]]
DepthsOfAll(chunks) == [h \in DOMAIN chunks |-> DepthsOf(chunks[h])]

\* TLC keeps the value of a definition without parameters, but evaluates the one
\* that a .cfg puts in the place of a constant anew at each use.  The LETs below
\* keep its coverage from counting the compiler's expressions once for each use.
CompiledCalls == CompiledPrograms(CallPrograms, TRUE)
HandlesOfCalls == DOMAIN CompiledCalls
DepthsOfCalls == DepthsOfAll(CompiledCalls)

CallUnits == {<<i>> : i \in DOMAIN CallPrograms}
CallChunk == LET chunk == CompiledCalls IN chunk
CallHandle == LET handles == HandlesOfCalls \ CallUnits IN handles
CallDepth == LET depth == DepthsOfCalls IN depth

CompiledErrors == CompiledPrograms(ErrorPrograms, FALSE)
HandlesOfErrors == DOMAIN CompiledErrors
DepthsOfErrors == DepthsOfAll(CompiledErrors)

ErrorUnits == {<<i>> : i \in DOMAIN ErrorPrograms}
ErrorChunk == LET chunk == CompiledErrors IN chunk
ErrorHandle == LET handles == HandlesOfErrors \ ErrorUnits IN handles
ErrorDepth == LET depth == DepthsOfErrors IN depth
=============================================================================
