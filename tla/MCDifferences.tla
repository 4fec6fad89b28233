--------------------------- MODULE MCDifferences ----------------------------
(***************************************************************************)
(* Programs in which the engines differ: repeated parameters, signs,       *)
(* nested functions that use variables of the functions around them, and   *)
(* functions that are compared.                                            *)
(***************************************************************************)
EXTENDS MCDifferential

G == Var(g)
Plus(e) == UnaryExpr("Plus", e)
Calling(callee, a, b) == CallExpr(callee, <<a, b>>)

Functions ==
  << \* def f(n, n):
     \*     x = n
     \*     return [n, x]
     FunctionStmt(f, <<n, n>>, <<Set1(x, N), Return1(Pair(N, X))>>),
     \* def f(x, n):
     \*     print(+x)
     \*     if n:
     \*         return -(+n)
     \*     return +[x, +n]
     FunctionStmt(f, <<x, n>>,
       <<PrintStmt(Plus(X)), IfStmt(N, <<Return1(UnaryExpr("Minus", Plus(N)))>>, <<>>),
         Return1(Plus(Pair(X, Plus(N))))>>),
     \* def f(n, g):
     \*     def g(x, x):
     \*         n = +x
     \*         return [n, g]       (the parameter, a global or undefined)
     \*     n = n + 1
     \*     return g(n, 0)
     FunctionStmt(f, <<n, g>>,
       <<FunctionStmt(g, <<x, x>>, <<Set1(n, Plus(X)), Return1(Pair(N, G))>>),
         Set1(n, Infix(N, "Plus", Number(1))), Return1(Calling(G, N, Number(0)))>>),
     \* def f(n, x):
     \*     def g():
     \*         return [n, x]
     \*     if n == x:
     \*         return g
     \*     return g()
     FunctionStmt(f, <<n, x>>,
       <<FunctionStmt(g, <<>>, <<Return1(Pair(N, X))>>),
         IfStmt(Infix(N, "EqualEqual", X), <<Return1(G)>>, <<>>), Return1(CallExpr(G, <<>>))>>),
     \* def f(g, n):
     \*     while n:
     \*         def g(x):
     \*             if x:
     \*                 return g(x - 1)
     \*             return n
     \*         n = n - 1
     \*     return g
     FunctionStmt(f, <<g, n>>,
       <<WhileStmt(N,
           <<FunctionStmt(g, <<x>>,
               <<IfStmt(X, <<Return1(CallOf(G, Infix(X, "Minus", Number(1))))>>, <<>>),
                 Return1(N)>>),
             Set1(n, Infix(N, "Minus", Number(1)))>>),
         Return1(G)>>) >>

Uses ==
  << \* print(f(1, x))
     <<PrintStmt(Calling(F, Number(1), X))>>,
     \* x = f(x, 2)
     \* print(+x)
     <<Set1(x, Calling(F, X, Number(2))), PrintStmt(Plus(X))>>,
     \* print(f(x, x) == f(x, x))
     <<PrintStmt(Infix(Calling(F, X, X), "EqualEqual", Calling(F, X, X)))>>,
     \* n = 3
     \* g = f(x, 1)
     \* g(1)
     \* print([g == f(2, 1), n])
     <<Set1(n, Number(3)), Set1(g, Calling(F, X, Number(1))), ExpressionStmt(CallOf(G, Number(1))),
       PrintStmt(Pair(Infix(G, "EqualEqual", Calling(F, Number(2), Number(1))), N))>>,
     \* while x:
     \*     def g(n):
     \*         x = +n
     \*         return g
     \*     if g(x) != g:
     \*         print(x)
     \*     else:
     \*         print(f)
     \*     x = x - 1
     <<WhileStmt(X,
         <<FunctionStmt(g, <<n>>, <<Set1(x, Plus(N)), Return1(G)>>),
           IfStmt(Infix(CallOf(G, X), "BangEqual", G), <<PrintStmt(X)>>, <<<<PrintStmt(F)>>>>),
           Set1(x, Infix(X, "Minus", Number(1)))>>)>>,
     \* f(1)
     <<ExpressionStmt(CallOf(F, Number(1)))>> >>

OtherProgramOf(u) == <<Set1(x, Starts[u[1]]), Functions[u[2]]>> \o Uses[u[3]]

OtherUnits == (1..Len(Starts)) \X (1..Len(Functions)) \X (1..Len(Uses))
OtherPrograms == [u \in OtherUnits |-> OtherProgramOf(u)]
OtherCompiled == CompiledFrom(OtherPrograms, FALSE)

MCOtherUnits == OtherUnits
MCOtherPrograms == LET programs == OtherPrograms IN programs
MCOtherChunk == LET chunk == OtherCompiled.chunk IN chunk
MCOtherHandle == LET handles == DOMAIN OtherCompiled.chunk \ OtherUnits IN handles
MCOtherStmts == LET statements == StmtsOf(OtherPrograms) IN statements
MCOtherExprs == LET expressions == ExprsOf(OtherPrograms) IN expressions
MCOtherDepth == LET depth == OtherCompiled.depth IN depth
=============================================================================
