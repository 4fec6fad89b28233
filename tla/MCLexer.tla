------------------------------- MODULE MCLexer -------------------------------
(***************************************************************************)
(* Texts for the lexer: all layouts of a few lines, all short rows of      *)
(* classes of characters, and all short strings.                           *)
(***************************************************************************)
EXTENDS Lexer, SequencesExt

\* What may stand in a line: nothing, a comment or code, at several widths.
Shapes == [indent : 0..2, content : {"", "hash", "letter"}]
Odd == {<<"tab", "letter">>, <<"space", "tab">>, <<"letter", "space", "hash", "letter">>,
        <<"letter", "return">>, <<"space", "letter", "return">>, <<"return", "letter">>, <<"return">>,
        <<"return", "hash">>, <<"return", "space">>, <<"space", "return", "tab", "hash">>}

Shape(s) ==
  [i \in 1..s.indent |-> "space"] \o (IF s.content = "" THEN <<>> ELSE <<s.content>>)
Lines == {Shape(s) : s \in Shapes} \cup Odd

RowsOf(elements, n) == UNION {[1..k -> elements] : k \in 0..n}
Joined(lines) == FlattenSeq([i \in 1..(2 * Len(lines) - 1) |->
                              IF i % 2 = 1 THEN lines[(i + 1) \div 2] ELSE <<"newline">>])

Narrow == {Shape(s) : s \in [indent : 0..2, content : {"letter"}]} \cup {<<>>, <<"hash">>}
Layouts ==
  {Joined(lines) : lines \in [1..3 -> Lines]}
    \cup {Joined(lines \o <<<<>>>>) : lines \in [1..4 -> Narrow]}

Rows == RowsOf(CharacterClass, 3)

Strings ==
  {<<"quote">> \o s : s \in RowsOf({"letter", "quote", "backslash", "newline", "hash"}, 4)}

Numbers == RowsOf({"digit", "dot", "letter"}, 5)

Everything == LET all == Layouts \cup Rows \cup Strings \cup Numbers IN all

\* Lines that end as those of a file written on Windows do.
ReturnLines ==
  LET endings == {<<"letter">>, <<"space", "letter">>, <<>>}
  IN {Joined([i \in 1..3 |-> lines[i] \o <<"return">>]) : lines \in [1..3 -> endings]}

\* Some texts with an error in the indentation.
Misplaced ==
  LET all == {Joined(lines) : lines \in [1..3 -> Lines]} IN all
=============================================================================
