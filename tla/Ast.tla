-------------------------------- MODULE Ast --------------------------------
(***************************************************************************)
(* The syntax tree that passes from the parser to the compiler and to the  *)
(* interpreter (src/src/ast/ast.hpp): a record for each node, named after  *)
(* its class.  Positions in the source are left out, operators are the     *)
(* names of their tokens.                                                  *)
(***************************************************************************)
EXTENDS Sequences

LiteralExpr(value) == [kind |-> "Literal", value |-> value]
VariableExpr(name) == [kind |-> "Variable", name |-> name]
ListExpr(elements) == [kind |-> "List", elements |-> elements]
UnaryExpr(op, right) == [kind |-> "Unary", op |-> op, right |-> right]
BinaryExpr(left, op, right) ==
  [kind |-> "Binary", left |-> left, op |-> op, right |-> right]
CallExpr(callee, arguments) ==
  [kind |-> "Call", callee |-> callee, arguments |-> arguments]

ExpressionStmt(expression) == [kind |-> "Expression", expression |-> expression]
AssignmentStmt(name, value) == [kind |-> "Assignment", name |-> name, value |-> value]
PrintStmt(expression) == [kind |-> "Print", expression |-> expression]
WhileStmt(condition, body) == [kind |-> "While", condition |-> condition, body |-> body]
FunctionStmt(name, parameters, body) ==
  [kind |-> "Function", name |-> name, parameters |-> parameters, body |-> body]

\* An absent else branch and an absent return value are null pointers, here
\* sequences without an element.
IfStmt(condition, then_branch, else_branch) ==
  [kind |-> "If", condition |-> condition, then_branch |-> then_branch,
   else_branch |-> else_branch]
ReturnStmt(value) == [kind |-> "Return", value |-> value]
=============================================================================
