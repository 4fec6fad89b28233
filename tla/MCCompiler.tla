----------------------------- MODULE MCCompiler -----------------------------
(***************************************************************************)
(* All programs of one or two statements built from a few expressions and  *)
(* blocks; functions and loops are nested up to three deep.                *)
(***************************************************************************)
EXTENDS CompilerRun, SequencesExt

f == <<"f">>
n == <<"n">>
MCNames == {f, n} \cup {BuiltinName[b] : b \in DOMAIN BuiltinName}
MCCharacter ==
  UNION {ToSet(TypeName[tag]) : tag \in DOMAIN TypeName} \cup {"a", "b", "f", "g", "n", "x"}

Number(i) == LiteralExpr(Integer(i))
N == VariableExpr(n)

Atoms == {Number(1), N}
ProgramExpressions ==
  Atoms \cup
  { ListExpr(<<>>), ListExpr(<<N, Number(1)>>),
    UnaryExpr("Minus", N), UnaryExpr("Plus", N),
    BinaryExpr(N, "Plus", ListExpr(<<N>>)), BinaryExpr(Number(1), "LessEqual", N),
    CallExpr(VariableExpr(f), <<>>),
    CallExpr(CallExpr(VariableExpr(f), <<N>>), <<N, Number(1)>>),
    CallExpr(VariableExpr(BuiltinName.len), <<CallExpr(VariableExpr(f), <<N>>)>>),
    CallExpr(VariableExpr(BuiltinName.range), <<N, Number(1), N>>),
    Number(8) }

Simple ==
  {ExpressionStmt(e) : e \in ProgramExpressions} \cup {AssignmentStmt(n, e) : e \in ProgramExpressions}
    \cup {ReturnStmt(<<e>>) : e \in Atoms} \cup {ReturnStmt(<<>>)}

\* Blocks of one simple statement or one that is nested.
Inner == {<<ExpressionStmt(N)>>, <<ReturnStmt(<<N>>)>>, <<AssignmentStmt(n, Number(1)), ReturnStmt(<<>>)>>}
Around(blocks) ==
  {WhileStmt(N, b) : b \in blocks} \cup {IfStmt(N, b, <<>>) : b \in blocks}
    \cup {IfStmt(N, b, <<c>>) : b \in blocks, c \in blocks}
    \cup {FunctionStmt(f, <<n>>, b) : b \in blocks}
Level1 == Around(Inner)
Level2 == Around({<<s>> : s \in Level1})

MCPrograms ==
  {<<s>> : s \in Simple \cup Level2}
    \cup {<<s, t>> : s \in Simple \cup Level1, t \in Simple \cup Level1}
    \cup {<<s, PrintStmt(N), t>> : s \in Level1, t \in Level1}

\* The trees that these are made of.
RECURSIVE Within(_)
Within(e) ==
  {e} \cup
    CASE e.kind = "List" -> UNION {Within(element) : element \in ToSet(e.elements)}
      [] e.kind = "Unary" -> Within(e.right)
      [] e.kind = "Binary" -> Within(e.left) \cup Within(e.right)
      [] e.kind = "Call" ->
           Within(e.callee) \cup UNION {Within(argument) : argument \in ToSet(e.arguments)}
      [] OTHER -> {}
MCExprs == UNION {Within(e) : e \in ProgramExpressions}
MCStmts == Simple \cup Level1 \cup Level2 \cup {PrintStmt(N)} \cup UNION {ToSet(b) : b \in Inner}
MCHandle == Seq(Nat)

\* Programs print, but no function does.
ASSUME QuietAssumption == Printless(MCStmts \ {PrintStmt(N)})
=============================================================================
