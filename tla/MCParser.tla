------------------------------ MODULE MCParser -------------------------------
(***************************************************************************)
(* Texts for the parser: programs with each statement, everything that one *)
(* wrong token makes of them, expressions with all pairs of operators, and *)
(* short rows of any tokens.                                               *)
(***************************************************************************)
EXTENDS Grammar

\* Every type has one lexeme, but for names, which stand for themselves.
Tok(word) ==
  IF word \in TokenType THEN [type |-> word, lexeme |-> word]
  ELSE [type |-> "Identifier", lexeme |-> word]
Text(words) == Append([i \in DOMAIN words |-> Tok(words[i])], Tok("EndOfFile"))

Suite1(words) == <<"Colon", "Newline", "Indent">> \o words \o <<"Dedent">>
Line(words) == Append(words, "Newline")

Bases ==
  { \* def f(a, b):
    \*     return a - b
    \* print(f(a, 1))
    <<"Def", "f", "LeftParen", "a", "Comma", "b", "RightParen">>
      \o Suite1(Line(<<"Return", "a", "Minus", "b">>))
      \o Line(<<"Print", "LeftParen", "f", "LeftParen", "a", "Comma", "Integer", "RightParen",
                "RightParen">>),
    \* def f():
    \*     while a:
    \*         return
    <<"Def", "f", "LeftParen", "RightParen">>
      \o Suite1(<<"While", "a">> \o Suite1(Line(<<"Return">>))),
    \* if a < b:
    \*     if a:
    \*         a
    \* else:
    \*     b = [a, 1]
    <<"If", "a", "Less", "b">> \o Suite1(<<"If", "a">> \o Suite1(Line(<<"a">>)))
      \o <<"Else">> \o Suite1(Line(<<"b", "Assign", "LeftBracket", "a", "Comma", "Integer",
                                     "RightBracket">>)),
    \* a = -(f()([])) == b
    Line(<<"a", "Assign", "Minus", "LeftParen", "f", "LeftParen", "RightParen", "LeftParen",
           "LeftBracket", "RightBracket", "RightParen", "RightParen", "EqualEqual", "b">>),
    \* Blank lines that end in CR LF: an empty block, and empty lines.
    <<"Newline", "While", "a">> \o Suite1(<<"Newline", "Newline">>) \o <<"Newline", "a">> }

Words == {"a", "Integer", "Newline", "Indent", "Dedent", "If", "Else", "Def", "Return", "Print",
          "Minus", "Star", "Assign", "LeftParen", "RightParen", "LeftBracket", "RightBracket",
          "Comma", "Colon"}
Mistakes(base) ==
  {base} \cup {SubSeq(base, 1, i) : i \in DOMAIN base}
    \cup {RemoveAt(base, i) : i \in DOMAIN base}
    \cup {InsertAt(base, i, w) : i \in DOMAIN base, w \in Words}
    \cup {ReplaceAt(base, i, w) : i \in DOMAIN base, w \in Words}

\* As the lexer ends a text: with a Newline, and with all blocks closed.
Ended(words) ==
  LET line == IF words = <<>> \/ Last(words) \in {"Newline", "Dedent"} THEN words ELSE Line(words)
  IN line \o [i \in 1..OpenBlocks(line, Len(line)) |-> "Dedent"]
FromLexer(words) == FormsLines(Append([i \in DOMAIN words |-> Tok(words[i]).type], "EndOfFile"))

Operator == UNION ToSet(Levels)
Expressions ==
  {<<"a", o, "b", p, "Integer">> : o \in Operator, p \in Operator}
    \cup {<<"Minus", "a", o, "Plus", "Minus", "b", "LeftParen", "RightParen">> : o \in Operator}
    \cup {<<"a", o, "b", p, "a", q, "b">> :
            o \in {"Less", "EqualEqual"}, p \in {"Plus", "Star"}, q \in Operator}

Short == {"a", "String", "Minus", "Assign", "LeftParen", "RightParen", "LeftBracket",
          "RightBracket", "Comma"}
Rows == UNION {[1..k -> Words \cup {"While", "LeftBrace"}] : k \in 0..2}
          \cup UNION {[1..k -> Short] : k \in 3..4}

Everything == UNION {Mistakes(base) : base \in Bases} \cup Expressions \cup Rows
AllSources ==
  LET texts == {Text(words) : words \in {w \in {Ended(e) : e \in Everything} : FromLexer(w)}}
  IN texts
=============================================================================
