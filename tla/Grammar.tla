------------------------------ MODULE Grammar -------------------------------
(***************************************************************************)
(* What the parser is for: the trees of a text, by the rules of the        *)
(* language instead of by a descent.  A rule says which trees the tokens   *)
(* from position i to position j have; operators of a level group to the   *)
(* left by a rule that is recursive on the left.                           *)
(***************************************************************************)
EXTENDS Parser

Is(t, i, types) == i \in DOMAIN t /\ t[i].type \in types

RECURSIVE Trees(_, _, _, _), UnaryTrees(_, _, _), CallTrees(_, _, _), Lists(_, _, _)
\* Expressions with operators of a level or a tighter one.
Trees(t, level, i, j) ==
  IF i > j THEN {}
  ELSE IF level > Len(Levels) THEN UnaryTrees(t, i, j)
  ELSE Trees(t, level + 1, i, j)
         \cup UNION {UNION {{BinaryExpr(l, t[k].type, r) : r \in Trees(t, level + 1, k + 1, j)} :
                               l \in Trees(t, level, i, k - 1)} :
                       k \in {m \in i..j : t[m].type \in Levels[level]}}
UnaryTrees(t, i, j) ==
  IF Is(t, i, Signs) THEN {UnaryExpr(t[i].type, r) : r \in Trees(t, Len(Levels) + 1, i + 1, j)}
  ELSE CallTrees(t, i, j)
\* A call, or what may be called.
CallTrees(t, i, j) ==
  IF i = j
  THEN {LiteralExpr(t[m].lexeme) : m \in {m \in {i} : Is(t, m, Literals)}}
         \cup {VariableExpr(t[m].lexeme) : m \in {m \in {i} : Is(t, m, {"Identifier"})}}
  ELSE (IF Is(t, i, {"LeftParen"}) /\ Is(t, j, {"RightParen"}) THEN Trees(t, 1, i + 1, j - 1)
        ELSE {})
         \cup (IF Is(t, i, {"LeftBracket"}) /\ Is(t, j, {"RightBracket"})
               THEN {ListExpr(e) : e \in Lists(t, i + 1, j - 1)} ELSE {})
         \cup UNION {UNION {{CallExpr(c, a) : a \in Lists(t, k + 1, j - 1)} :
                               c \in CallTrees(t, i, k - 1)} :
                       k \in {m \in (i + 1)..(j - 1) :
                                t[m].type = "LeftParen" /\ t[j].type = "RightParen"}}
\* Expressions with commas in between.
Lists(t, i, j) ==
  IF i > j THEN {<<>>}
  ELSE {<<e>> : e \in Trees(t, 1, i, j)}
         \cup UNION {UNION {{<<e>> \o rest : rest \in Lists(t, k + 1, j) \ {<<>>}} :
                               e \in Trees(t, 1, i, k - 1)} :
                       k \in {m \in i..j : t[m].type = "Comma"}}
Names(t, i, j) ==
  IF i > j THEN {<<>>}
  ELSE IF /\ (j - i) % 2 = 0
          /\ \A k \in i..j : t[k].type = IF (k - i) % 2 = 0 THEN "Identifier" ELSE "Comma"
       THEN {[m \in 1..((j - i) \div 2 + 1) |-> t[i + 2 * (m - 1)].lexeme]} ELSE {}

RECURSIVE Blocks(_, _, _), StatementTrees(_, _, _)
\* What stands in a line.
SimpleTrees(t, i, j) ==
  CASE Is(t, i, {"Return"}) ->
         {ReturnStmt(<<>>) : m \in {i} \cap {j}} \cup {ReturnStmt(<<e>>) : e \in Trees(t, 1, i + 1, j)}
    [] Is(t, i, {"Print"}) ->
         IF Is(t, i + 1, {"LeftParen"}) /\ Is(t, j, {"RightParen"})
         THEN {PrintStmt(e) : e \in Trees(t, 1, i + 2, j - 1)} ELSE {}
    [] Is(t, i, {"Identifier"}) /\ Is(t, i + 1, {"Assign"}) ->
         {AssignmentStmt(t[i].lexeme, e) : e \in Trees(t, 1, i + 2, j)}
    [] OTHER -> {ExpressionStmt(e) : e \in Trees(t, 1, i, j)}
Suites(t, i, j) ==
  IF Is(t, i, {"Colon"}) /\ Is(t, i + 1, {"Newline"}) /\ Is(t, i + 2, {"Indent"})
     /\ Is(t, j, {"Dedent"}) /\ i + 2 < j
  THEN Blocks(t, i + 3, j - 1) ELSE {}
Positions(t, i, j, type) == {m \in i..j : t[m].type = type}
StatementTrees(t, i, j) ==
  LET colons == Positions(t, i + 1, j, "Colon")
  IN CASE Is(t, i, {"If"}) ->
            UNION {{IfStmt(e, b, <<>>) : e \in Trees(t, 1, i + 1, c - 1), b \in Suites(t, c, j)}
                   \cup UNION {{IfStmt(e, b, <<b2>>) :
                                  e \in Trees(t, 1, i + 1, c - 1),
                                  b \in Suites(t, c, m - 1), b2 \in Suites(t, m + 1, j)} :
                                m \in Positions(t, c, j, "Else")} : c \in colons}
       [] Is(t, i, {"While"}) ->
            UNION {{WhileStmt(e, b) : e \in Trees(t, 1, i + 1, c - 1), b \in Suites(t, c, j)} :
                     c \in colons}
       [] Is(t, i, {"Def"}) ->
            UNION {{FunctionStmt(t[i + 1].lexeme, names, b) :
                      names \in Names(t, i + 3, c - 2), b \in Suites(t, c, j)} :
                     c \in {c \in colons : /\ Is(t, i + 1, {"Identifier"})
                                           /\ Is(t, i + 2, {"LeftParen"})
                                           /\ Is(t, c - 1, {"RightParen"}) /\ i + 2 < c - 1}}
       [] OTHER -> IF Is(t, j, {"Newline"}) THEN SimpleTrees(t, i, j - 1)
                   ELSE IF Is(t, j + 1, Ends) THEN SimpleTrees(t, i, j) ELSE {}
\* Statements with empty lines anywhere in between.
Blocks(t, i, j) ==
  IF i > j THEN {<<>>}
  ELSE IF t[i].type = "Newline" THEN Blocks(t, i + 1, j)
  ELSE UNION {UNION {{<<s>> \o rest : rest \in Blocks(t, k + 1, j)} :
                       s \in StatementTrees(t, i, k)} : k \in i..j}

Programs(t) == Blocks(t, 1, Len(t) - 1)
-----------------------------------------------------------------------------
(* Properties. *)

\* The parser accepts the texts of the language and no others, and gives each
\* the one tree it has: operators bind and group as their levels say, lines and
\* blocks end where they end (parser.cpp:13-175).
ParsesTheLanguage ==
  /\ status = "done" => Programs(tokens) = {trees[1]}
  /\ status = "error" => Programs(tokens) = {}

Valid == LET valid == {t \in Sources : Programs(t) # {}} IN valid

\* An error is not reported before it is one: no text of the language begins
\* with the tokens up to that of the error (parser.cpp:174-190).
ErrorsAreErrors ==
  status = "error" =>
    \A t \in Valid :
      \E i \in 1..current : i \notin DOMAIN t \/ t[i].type # tokens[i].type
=============================================================================
