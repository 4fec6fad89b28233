----------------------------- MODULE MCSessions ------------------------------
(***************************************************************************)
(* Sessions of programs that define, replace and use the same functions    *)
(* and variables, and of which many fail, depending on those before.       *)
(***************************************************************************)
EXTENDS Sessions, MCDifferential

G == Var(g)

Entered ==
  << \* x = 2
     <<Set1(x, Number(2))>>,
     \* def f(n):
     \*     x = n - 1
     \*     return g(x)
     <<FunctionStmt(f, <<n>>, <<Set1(x, Infix(N, "Minus", Number(1))), Return1(CallOf(G, X))>>)>>,
     \* def g(n):
     \*     print(x)
     \*     if n > 0:
     \*         return f(n)
     \*     n
     <<FunctionStmt(g, <<n>>,
         <<PrintStmt(X),
           IfStmt(Infix(N, "Greater", Number(0)), <<Return1(CallOf(F, N))>>, <<>>),
           ExpressionStmt(N)>>)>>,
     \* def g(x):
     \*     x = [x, 1 / x]
     \*     return len(x)
     <<FunctionStmt(g, <<x>>,
         <<Set1(x, Pair(X, Infix(Number(1), "Slash", X))), Return1(BuiltinCall("len", X))>>)>>,
     \* f(x)
     <<ExpressionStmt(CallOf(F, X))>>,
     \* x = f(1) + x
     \* x
     <<Set1(x, Infix(CallOf(F, Number(1)), "Plus", X)), ExpressionStmt(X)>>,
     \* n = f
     \* def f(x):
     \*     return [x, n]
     \* [n, g(2)]
     <<Set1(n, F), FunctionStmt(f, <<x>>, <<Return1(Pair(X, N))>>),
       ExpressionStmt(Pair(N, CallOf(G, Number(2))))>>,
     \* while x:
     \*     x = x - 1
     \*     g(x)
     <<WhileStmt(X, <<Set1(x, Infix(X, "Minus", Number(1))), ExpressionStmt(CallOf(G, X))>>)>>,
     \* if n == f:
     \*     print(n)
     \* else:
     \*     n = x
     \*     n
     \* return f(n)
     <<IfStmt(Infix(N, "EqualEqual", F), <<PrintStmt(N)>>,
              <<<<Set1(n, X), ExpressionStmt(N)>>>>),
       Return1(CallOf(F, N))>> >>

EnteredUnits == (1..Len(Entered)) \X {1}
EnteredPrograms == [u \in EnteredUnits |-> Entered[u[1]]]
EnteredCompiled == CompiledFrom(EnteredPrograms, TRUE)

MCEnteredUnits == EnteredUnits
MCEnteredPrograms == LET programs == EnteredPrograms IN programs
MCEnteredChunk == LET chunk == EnteredCompiled.chunk IN chunk
MCEnteredHandle == LET handles == DOMAIN EnteredCompiled.chunk \ EnteredUnits IN handles
MCEnteredStmts == LET statements == StmtsOf(EnteredPrograms) IN statements
MCEnteredExprs == LET expressions == ExprsOf(EnteredPrograms) IN expressions
MCEnteredDepth == LET depth == EnteredCompiled.depth IN depth
=============================================================================
