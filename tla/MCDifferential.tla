--------------------------- MODULE MCDifferential ---------------------------
(***************************************************************************)
(* The programs                                                            *)
(*     x = <start>                                                         *)
(*     def f(n):                                                           *)
(*         <body>                                                          *)
(*     <tail>                                                              *)
(* for every choice of the three parts.                                    *)
(***************************************************************************)
EXTENDS Differential, Compilation

f == <<"f">>
g == <<"g">>
n == <<"n">>
x == <<"x">>
MCNames == {f, g, n, x} \cup {BuiltinName[b] : b \in Builtin}
MCCharacter ==
  UNION {ToSet(TypeName[tag]) : tag \in DOMAIN TypeName} \cup {"a", "b", "f", "g", "n", "x"}

Number(i) == LiteralExpr(Integer(i))
Text(characters) == LiteralExpr(String(characters))
Var(name) == VariableExpr(name)
F == Var(f)
N == Var(n)
X == Var(x)
CallOf(callee, argument) == CallExpr(callee, <<argument>>)
BuiltinCall(name, argument) == CallOf(Var(BuiltinName[name]), argument)
Infix(l, op, r) == BinaryExpr(l, op, r)
Pair(l, r) == ListExpr(<<l, r>>)
Return1(value) == ReturnStmt(<<value>>)
Set1(name, value) == AssignmentStmt(name, value)

Starts == <<Number(2), Text(<<"a">>), ListExpr(<<Number(1)>>), LiteralExpr(NoneValue)>>

Bodies ==
  << \* return n - x
     <<Return1(Infix(N, "Minus", X))>>,
     \* if n > 0:
     \*     return f(n - 1) + n
     \* return 0
     <<IfStmt(Infix(N, "Greater", Number(0)),
              <<Return1(Infix(CallOf(F, Infix(N, "Minus", Number(1))), "Plus", N))>>, <<>>),
       Return1(Number(0))>>,
     \* x = 0
     \* while n:
     \*     n = n - 1
     \*     x = x + 2
     \* return [n, x]
     <<Set1(x, Number(0)),
       WhileStmt(N, <<Set1(n, Infix(N, "Minus", Number(1))),
                      Set1(x, Infix(X, "Plus", Number(2)))>>),
       Return1(Pair(N, X))>>,
     \* def g(x):
     \*     if type(x) == "function":
     \*         return
     \*     print(x)
     \* g(n)
     \* g(x)
     \* return g
     <<FunctionStmt(g, <<x>>,
         <<IfStmt(Infix(BuiltinCall("type", X), "EqualEqual", Text(TypeName.Function)),
                  <<ReturnStmt(<<>>)>>, <<>>),
           PrintStmt(X)>>),
       ExpressionStmt(CallOf(Var(g), N)),
       ExpressionStmt(CallOf(Var(g), X)),
       Return1(Var(g))>>,
     \* if n == x:
     \*     return -n
     \* else:
     \*     f = x
     \* return f
     <<IfStmt(Infix(N, "EqualEqual", X), <<Return1(UnaryExpr("Minus", N))>>,
              <<<<Set1(f, X)>>>>),
       Return1(F)>>,
     \* print([n, x] == [n, x])
     \* n(0)
     <<PrintStmt(Infix(Pair(N, X), "EqualEqual", Pair(N, X))),
       ExpressionStmt(CallOf(N, Number(0)))>> >>

Tails ==
  << \* print(f(x))
     <<PrintStmt(CallOf(F, X))>>,
     \* x = f(2)
     \* x(f(x))
     <<Set1(x, CallOf(F, Number(2))), ExpressionStmt(CallOf(X, CallOf(F, X)))>>,
     \* f = f(f)
     \* print(f + 1)
     <<Set1(f, CallOf(F, F)), PrintStmt(Infix(F, "Plus", Number(1)))>>,
     \* x = range(f(3), 4)
     \* return len(x) / 2
     <<Set1(x, CallExpr(Var(BuiltinName.range), <<CallOf(F, Number(3)), Number(4)>>)),
       Return1(Infix(BuiltinCall("len", X), "Slash", Number(2)))>>,
     \* if f(1) != [1, f(4)]:
     \*     x = 7 + f(1) * 4
     \* print(x <= x)
     <<IfStmt(Infix(CallOf(F, Number(1)), "BangEqual", Pair(Number(1), CallOf(F, Number(4)))),
              <<Set1(x, Infix(Number(7), "Plus",
                              Infix(CallOf(F, Number(1)), "Star", Number(4))))>>, <<>>),
       PrintStmt(Infix(X, "LessEqual", X))>>,
     \* print((-7 - 1) % -1)
     \* f(1, n)
     <<PrintStmt(Infix(Infix(UnaryExpr("Minus", Number(7)), "Minus", Number(1)), "Percent",
                       UnaryExpr("Minus", Number(1)))),
       ExpressionStmt(CallExpr(F, <<Number(1), N>>))>>,
     \* print(x)
     \* x(f(2))
     <<PrintStmt(X), ExpressionStmt(CallOf(X, CallOf(F, Number(2))))>> >>

ProgramOf(u) ==
  <<Set1(x, Starts[u[1]]), FunctionStmt(f, <<n>>, Bodies[u[2]])>> \o Tails[u[3]]

AllUnits == (1..Len(Starts)) \X (1..Len(Bodies)) \X (1..Len(Tails))
AllPrograms == [u \in AllUnits |-> ProgramOf(u)]

\* The trees that programs are made of.
RECURSIVE ExpressionsOf(_)
ExpressionsOf(e) ==
  {e} \cup
    CASE e.kind = "Call" -> UNION {ExpressionsOf(part) : part \in ToSet(<<e.callee>> \o e.arguments)}
      [] e.kind \in {"List", "Unary", "Binary"} ->
           UNION {ExpressionsOf(part) : part \in ToSet(Operands(e))}
      [] OTHER -> {}

RECURSIVE StatementsIn(_)
StatementsOf(s) ==
  {s} \cup CASE s.kind \in {"While", "Function"} -> StatementsIn(s.body)
             [] s.kind = "If" -> StatementsIn(s.then_branch \o FlattenSeq(s.else_branch))
             [] OTHER -> {}
StatementsIn(statements) == UNION {StatementsOf(s) : s \in ToSet(statements)}

StmtsOf(programs) == UNION {StatementsIn(programs[u]) : u \in DOMAIN programs}
ExprsOf(programs) ==
  UNION {ExpressionsOf(ExpressionOf(s)) : s \in {t \in StmtsOf(programs) : t.kind # "Function"}}

\* All in one definition: TLC then evaluates it once.
CompiledFrom(programs, echo) ==
  LET entries ==
        UNION {LET table == ChunksOf(Compile(u, programs[u], echo))
               IN {[handle |-> h, chunk |-> table[h], depth |-> DepthsOf(table[h])] :
                     h \in DOMAIN table} : u \in DOMAIN programs}
      Entry(h) == CHOOSE entry \in entries : entry.handle = h
      handles == {entry.handle : entry \in entries}
  IN [chunk |-> [h \in handles |-> Entry(h).chunk],
      depth |-> [h \in handles |-> Entry(h).depth]]
Compiled == CompiledFrom(AllPrograms, FALSE)

\* The LETs keep the coverage of TLC from counting the compiler's expressions
\* once for each use.
MCUnits == AllUnits
MCPrograms == LET programs == AllPrograms IN programs
MCChunk == LET chunk == Compiled.chunk IN chunk
MCHandle == LET handles == DOMAIN Compiled.chunk \ MCUnits IN handles
MCStmts == LET statements == StmtsOf(AllPrograms) IN statements
MCExprs == LET expressions == ExprsOf(AllPrograms) IN expressions
MCDepth == LET depth == Compiled.depth IN depth
=============================================================================
