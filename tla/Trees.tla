------------------------------- MODULE Trees -------------------------------
(***************************************************************************)
(* The syntax trees the parser builds (src/src/ast/ast.hpp, module         *)
(* Parser): every part of a tree is an expression or a statement itself.   *)
(***************************************************************************)
EXTENDS Bytecode, Ast

CONSTANTS Exprs, Stmts   \* syntax trees, each with its parts

\* The values of literals, before it is seen whether they fit.
LiteralValue ==
  [tag : {"None"}] \cup [tag : {"Boolean"}, boolean : BOOLEAN] \cup FloatValue
    \cup StringValue \cup [tag : {"Integer"}, integer : Nat]

BinaryOperator ==
  {"Plus", "Minus", "Star", "Slash", "Percent", "EqualEqual", "BangEqual",
   "Less", "LessEqual", "Greater", "GreaterEqual"}

IsExpression(e) ==
  CASE e.kind = "Literal" -> e.value \in LiteralValue
    [] e.kind = "Variable" -> e.name \in Names
    [] e.kind = "List" -> e.elements \in Seq(Exprs)
    [] e.kind = "Unary" -> e.right \in Exprs
    [] e.kind = "Binary" -> {e.left, e.right} \subseteq Exprs /\ e.op \in BinaryOperator
    [] e.kind = "Call" -> e.callee \in Exprs /\ e.arguments \in Seq(Exprs)
    [] OTHER -> FALSE

IsStatement(s) ==
  CASE s.kind \in {"Expression", "Print"} -> s.expression \in Exprs
    [] s.kind = "Assignment" -> s.name \in Names /\ s.value \in Exprs
    [] s.kind = "If" -> /\ s.condition \in Exprs
                        /\ s.then_branch \in Seq(Stmts)
                        /\ s.else_branch = <<>> \/ s.else_branch[1] \in Seq(Stmts)
    [] s.kind = "While" -> s.condition \in Exprs /\ s.body \in Seq(Stmts)
    [] s.kind = "Return" -> s.value = <<>> \/ s.value[1] \in Exprs
    [] s.kind = "Function" ->
         s.name \in Names /\ s.parameters \in Seq(Names) /\ s.body \in Seq(Stmts)
    [] OTHER -> FALSE

ASSUME TreeAssumption ==
  /\ \A e \in Exprs : IsExpression(e)
  /\ \A s \in Stmts : IsStatement(s)
=============================================================================
