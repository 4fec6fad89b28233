------------------------------- MODULE Parser -------------------------------
(***************************************************************************)
(* The parser (src/src/parser/parser.cpp): one parse() of the tokens of a  *)
(* text.  The descent of the C++ functions is kept as the list of what     *)
(* they still have to do, innermost first, and what they have built as a   *)
(* stack of trees; an action is the part of a function up to the next call.*)
(***************************************************************************)
EXTENDS Ast, TokenStream, SequencesExt

CONSTANT Sources   \* the token sequences that are parsed

\* The operators of equality(), comparison(), term() and factor().
Levels ==
  <<{"EqualEqual", "BangEqual"}, {"Less", "LessEqual", "Greater", "GreaterEqual"},
    {"Plus", "Minus"}, {"Star", "Slash", "Percent"}>>
Signs == {"Minus", "Plus"}
Literals == {"Integer", "Float", "String", "True", "False", "None"}
Ends == {"Dedent", "EndOfFile"}
TokenType ==
  UNION ToSet(Levels) \cup Literals \cup Ends
    \cup {"Newline", "Indent", "Identifier", "If", "Else", "While", "Def", "Return", "Print",
          "Assign", "LeftParen", "RightParen", "LeftBrace", "RightBrace", "LeftBracket",
          "RightBracket", "Comma", "Colon"}
Token == [type : TokenType, lexeme : STRING]

\* What the lexer gives (property ParserCanRely of module Lexer).
ASSUME ParserAssumption ==
  \A source \in Sources :
    source \in Seq(Token) /\ FormsLines([i \in DOMAIN source |-> source[i].type])

VARIABLES
  tokens,    \* tokens_
  current,   \* current_, counted from 1
  agenda,    \* what the active functions have still to do, the innermost first
  trees,     \* what they have built so far, the latest last
  status     \* "parsing", "done" or "error"; an error is one of the token at current

vars == <<tokens, current, agenda, trees, status>>

Type == tokens[current].type
Check(types) == Type \in types
Advance == current' = IF Check({"EndOfFile"}) THEN current ELSE current + 1

Push(tree) == trees' = Append(trees, tree)

Init ==
  /\ tokens \in Sources
  /\ current = 1
  /\ agenda = <<<<"Statements", {"EndOfFile"}>>>>
  /\ trees = <<<<>>>>
  /\ status = "parsing"

-----------------------------------------------------------------------------
(* What a function does next: the calls it makes, one after the other. *)

Doing(step) == status = "parsing" /\ agenda # <<>> /\ Head(agenda)[1] = step
Argument == Head(agenda)[2]
Then(steps) == agenda' = steps \o Tail(agenda) /\ UNCHANGED <<tokens, status>>
Error == status' = "error" /\ UNCHANGED <<tokens, current, agenda, trees>>

Consume(type) == <<"Consume", type>>
Make(node) == <<"Make", node>>
Level(i) == IF i <= Len(Levels) THEN <<"Binary", i>> ELSE <<"Unary">>
Expression == Level(1)
Items(item, close) == <<<<"Items", item, close>>, Consume(close)>>
LineEnd == <<"LineEnd">>
Block == <<Consume("Colon"), <<"Suite">>>>

IfStatement == <<Expression>> \o Block \o <<<<"Else">>>>
WhileStatement == <<Expression>> \o Block \o <<Make("While")>>
FunctionStatement ==
  <<Consume("Identifier"), Consume("LeftParen")>>
    \o Items(Consume("Identifier"), "RightParen") \o Block \o <<Make("Function")>>
PrintStatement ==
  <<Consume("LeftParen"), Expression, Consume("RightParen"), LineEnd, Make("Print")>>
Keywords == {"If", "While", "Def", "Return", "Print"}
StatementOf(keyword) ==
  CASE keyword = "If" -> IfStatement
    [] keyword = "While" -> WhileStatement
    [] keyword = "Def" -> FunctionStatement
    [] keyword = "Return" -> <<<<"Return">>>>
    [] keyword = "Print" -> PrintStatement

-----------------------------------------------------------------------------
(* Statements. *)

SkipNewline ==
  /\ Doing("Statements") /\ Check({"Newline"})
  /\ Advance
  /\ UNCHANGED <<tokens, agenda, trees, status>>

\* Mutant: skip_newlines() takes the end of the text for a newline, too, where
\* advance() does not move.
StatementsBeforeEnd ==
  /\ Doing("Statements") /\ ~Check({"Newline", "EndOfFile"})
  /\ Then(IF Check(Argument) THEN <<>> ELSE <<<<"Statement">>, <<"Collect">>, Head(agenda)>>)
  /\ UNCHANGED <<current, trees>>

Statements ==
  /\ Doing("Statements") /\ ~Check({"Newline"})
  /\ Then(IF Check(Argument) THEN <<>> ELSE <<<<"Statement">>, <<"Collect">>, Head(agenda)>>)
  /\ UNCHANGED <<current, trees>>

KeywordStatement ==
  /\ Doing("Statement") /\ Check(Keywords)
  /\ Advance
  /\ Then(StatementOf(Type))
  /\ UNCHANGED trees

IsAssignment == Check({"Identifier"}) /\ tokens[current + 1].type = "Assign"

AssignmentStatement ==
  /\ Doing("Statement") /\ IsAssignment
  /\ current' = current + 2
  /\ Push(tokens[current].lexeme)
  /\ Then(<<Expression, LineEnd, Make("Assignment")>>)

ExpressionStatement ==
  /\ Doing("Statement") /\ ~Check(Keywords) /\ ~IsAssignment
  /\ Then(<<Expression, LineEnd, Make("Expression")>>)
  /\ UNCHANGED <<current, trees>>

Else ==
  /\ Doing("Else")
  /\ IF Check({"Else"})
     THEN Advance /\ Then(Block \o <<Make("IfElse")>>)
     ELSE UNCHANGED current /\ Then(<<Make("If")>>)
  /\ UNCHANGED trees

ReturnStatement ==
  /\ Doing("Return")
  /\ Then(IF Check(Ends \cup {"Newline"}) THEN <<LineEnd, Make("ReturnNothing")>>
          ELSE <<Expression, LineEnd, Make("Return")>>)
  /\ UNCHANGED <<current, trees>>

Suite ==
  /\ Doing("Suite")
  /\ Push(<<>>)
  /\ Then(<<Consume("Newline"), Consume("Indent"), <<"Statements", Ends>>, Consume("Dedent")>>)
  /\ UNCHANGED current

ConsumeLineEnd ==
  /\ Doing("LineEnd")
  /\ IF Check({"Newline"}) THEN Advance /\ Then(<<>>) /\ UNCHANGED trees
     ELSE IF Check(Ends) THEN Then(<<>>) /\ UNCHANGED <<current, trees>>
     ELSE Error

-----------------------------------------------------------------------------
(* Expressions. *)

Binary ==
  /\ Doing("Binary")
  /\ Then(<<Level(Argument + 1), <<"Operators", Argument>>>>)
  /\ UNCHANGED <<current, trees>>

\* Mutant: operators group to the right.
OperatorsToTheRight ==
  /\ Doing("Operators")
  /\ IF Check(Levels[Argument])
     THEN Advance /\ Push(Type) /\ Then(<<Level(Argument), Make("Binary")>>)
     ELSE Then(<<>>) /\ UNCHANGED <<current, trees>>

Operators ==
  /\ Doing("Operators")
  /\ IF Check(Levels[Argument])
     THEN Advance /\ Push(Type) /\ Then(<<Level(Argument + 1), Make("Binary"), Head(agenda)>>)
     ELSE Then(<<>>) /\ UNCHANGED <<current, trees>>

Unary ==
  /\ Doing("Unary")
  /\ IF Check(Signs)
     THEN Advance /\ Push(Type) /\ Then(<<<<"Unary">>, Make("Unary")>>)
     ELSE Then(<<<<"Primary">>, <<"Calls">>>>) /\ UNCHANGED <<current, trees>>

Calls ==
  /\ Doing("Calls")
  /\ IF Check({"LeftParen"})
     THEN Advance /\ Then(Items(Expression, "RightParen") \o <<Make("Call"), <<"Calls">>>>)
     ELSE Then(<<>>) /\ UNCHANGED current
  /\ UNCHANGED trees

\* A token that is a whole expression.
Leaf ==
  /\ Doing("Primary") /\ Check(Literals \cup {"Identifier"})
  /\ Advance
  /\ Push(IF Check(Literals) THEN LiteralExpr(tokens[current].lexeme)
          ELSE VariableExpr(tokens[current].lexeme))
  /\ Then(<<>>)

Bracketed ==
  /\ Doing("Primary") /\ Check({"LeftBracket", "LeftParen"})
  /\ Advance
  /\ Then(IF Check({"LeftParen"}) THEN <<Expression, Consume("RightParen")>>
          ELSE Items(Expression, "RightBracket") \o <<Make("List")>>)
  /\ UNCHANGED trees

NoExpression ==
  /\ Doing("Primary") /\ ~Check(Literals \cup {"Identifier", "LeftBracket", "LeftParen"})
  /\ Error

\* Mutant: there has to be one.
BeginSomeItems ==
  /\ Doing("Items")
  /\ Push(<<>>)
  /\ Then(<<Argument, <<"Collect">>, <<"MoreItems", Argument>>>>)
  /\ UNCHANGED current

\* Arguments, elements or parameters: none, or some with commas in between.
BeginItems ==
  /\ Doing("Items")
  /\ Push(<<>>)
  /\ Then(IF Check({Head(agenda)[3]}) THEN <<>>
          ELSE <<Argument, <<"Collect">>, <<"MoreItems", Argument>>>>)
  /\ UNCHANGED current

MoreItems ==
  /\ Doing("MoreItems")
  /\ IF Check({"Comma"})
     THEN Advance /\ Then(<<Argument, <<"Collect">>, Head(agenda)>>)
     ELSE Then(<<>>) /\ UNCHANGED current
  /\ UNCHANGED trees

-----------------------------------------------------------------------------
(* What a function does with what the functions it called return. *)

\* Mutant: a token that is not the expected one is passed over.
ConsumeAnyToken ==
  /\ Doing("Consume")
  /\ current' = current + 1
  /\ Then(<<>>)
  /\ IF Check({"Identifier"}) THEN Push(tokens[current].lexeme) ELSE UNCHANGED trees

\* The token consumed is only kept when it is a name.
ConsumeToken ==
  /\ Doing("Consume")
  /\ IF Check({Argument})
     THEN /\ Advance /\ Then(<<>>)
          /\ IF Check({"Identifier"}) THEN Push(tokens[current].lexeme) ELSE UNCHANGED trees
     ELSE Error

\* push_back(): the last tree joins the sequence before it.
Collect ==
  /\ Doing("Collect")
  /\ LET n == Len(trees)
     IN trees' = Append(SubSeq(trees, 1, n - 2), Append(trees[n - 1], trees[n]))
  /\ Then(<<>>)
  /\ UNCHANGED current

\* How many trees a node is made of, and the node.
Parts(kind) ==
  CASE kind = "ReturnNothing" -> 0
    [] kind \in {"Expression", "Print", "Return", "List"} -> 1
    [] kind \in {"Assignment", "If", "While", "Unary", "Call"} -> 2
    [] kind \in {"IfElse", "Function", "Binary"} -> 3
Node(kind, t) ==
  CASE kind = "Assignment" -> AssignmentStmt(t[1], t[2])
    [] kind = "Expression" -> ExpressionStmt(t[1])
    [] kind = "If" -> IfStmt(t[1], t[2], <<>>)
    [] kind = "IfElse" -> IfStmt(t[1], t[2], <<t[3]>>)
    [] kind = "While" -> WhileStmt(t[1], t[2])
    [] kind = "Function" -> FunctionStmt(t[1], t[2], t[3])
    [] kind = "Return" -> ReturnStmt(<<t[1]>>)
    [] kind = "ReturnNothing" -> ReturnStmt(<<>>)
    [] kind = "Print" -> PrintStmt(t[1])
    [] kind = "Binary" -> BinaryExpr(t[1], t[2], t[3])
    [] kind = "Unary" -> UnaryExpr(t[1], t[2])
    [] kind = "Call" -> CallExpr(t[1], t[2])
    [] kind = "List" -> ListExpr(t[1])

MakeNode ==
  /\ Doing("Make")
  /\ LET n == Len(trees) - Parts(Argument)
     IN trees' = Append(SubSeq(trees, 1, n), Node(Argument, SubSeq(trees, n + 1, Len(trees))))
  /\ Then(<<>>)
  /\ UNCHANGED current

Finish ==
  /\ status = "parsing" /\ agenda = <<>>
  /\ status' = "done"
  /\ UNCHANGED <<tokens, current, agenda, trees>>

Next ==
  \/ SkipNewline \/ Statements \/ KeywordStatement \/ AssignmentStatement \/ ExpressionStatement
  \/ Else \/ ReturnStatement \/ Suite \/ ConsumeLineEnd
  \/ Binary \/ Operators \/ Unary \/ Calls \/ Leaf \/ Bracketed \/ NoExpression
  \/ BeginItems \/ MoreItems \/ ConsumeToken \/ Collect \/ MakeNode \/ Finish

Spec == Init /\ [][Next]_vars
FairSpec == Spec /\ WF_vars(Next)

-----------------------------------------------------------------------------
(* Properties. *)

\* No position after EndOfFile is ever looked at (parser.cpp:186-188), and a
\* text is parsed when all of it is, with one tree as the result.
TypeOK ==
  /\ tokens \in Seq(Token)
  /\ current \in DOMAIN tokens
  /\ status \in {"parsing", "done", "error"}
  /\ status = "done" => agenda = <<>> /\ Len(trees) = 1 /\ Check({"EndOfFile"})

\* Every text is parsed or rejected: all the loops of the descent come to an
\* end, although advance() stays where it is at EndOfFile (parser.cpp:186).
EveryTextEnds == <>(status # "parsing")
=============================================================================
