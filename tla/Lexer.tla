-------------------------------- MODULE Lexer --------------------------------
(***************************************************************************)
(* The lexer (src/src/lexer/lexer.cpp): a Lexer object from its            *)
(* construction to the end of tokenize(), one action for each branch of    *)
(* the loop and one for each character of a string.                        *)
(*                                                                         *)
(* A text is a sequence of classes of characters.  A "letter" is one that  *)
(* may follow a backslash, such as n; the other letters differ from it     *)
(* only there, as "other" does, which begins no token.  The text of a      *)
(* token is kept as its bounds in the source.                              *)
(***************************************************************************)
EXTENDS TokenStream, FiniteSetsExt

CONSTANT Sources   \* the texts to be lexed

CharacterClass ==
  {"newline", "return", "space", "tab", "hash", "letter", "digit", "dot", "quote",
   "apostrophe", "backslash", "equals", "angle", "bang", "symbol", "other"}

ASSUME LexerAssumption == Sources \subseteq Seq(CharacterClass)

VARIABLES
  source,         \* source_
  current,        \* current_, how many characters have been read
  line, column,   \* line_, column_, the place of the next character
  start,          \* start_, where the token being read begins
  token_line, token_column,   \* token_line_, token_column_, the place of that
  at_line_start,  \* at_line_start_
  indentation,    \* indentation_, the widths of the open blocks, innermost last
  tokens,         \* tokens_
  quote,          \* the quote that ends the string being read
  status          \* how tokenize() goes

vars == <<source, current, line, column, start, token_line, token_column,
          at_line_start, indentation, tokens, quote, status>>
place == <<current, line, column>>
token == <<start, token_line, token_column>>

TokenType ==
  {"Newline", "Indent", "Dedent", "Word", "Number", "String", "Symbol", "EndOfFile"}
Errors == {"tabs are not supported for indentation", "inconsistent indentation",
           "unexpected character", "expected '=' after '!'", "unterminated string",
           "unsupported escape sequence"}
NoQuote == "none"

AtEnd == current >= Len(source)
Peek == source[current + 1]
PeekIs(classes) == ~AtEnd /\ Peek \in classes

\* Where the characters of some classes that follow position p end.
EndOfRun(classes, p) ==
  Min({i \in p..Len(source) : i = Len(source) \/ source[i + 1] \notin classes})

\* advance() over characters of one line, and over the end of a line.
AdvanceTo(p) == current' = p /\ column' = column + (p - current) /\ line' = line
\* Mutant: the column goes on in the next line.
AdvanceLineKeepsColumn ==
  current' = current + 1 /\ line' = line + 1 /\ column' = column + 1

AdvanceLine == current' = current + 1 /\ line' = line + 1 /\ column' = 1

\* A token without a text.
Mark(type, c) == [type |-> type, from |-> current, to |-> current, line |-> line, column |-> c]

Init ==
  /\ source \in Sources
  /\ current = 0 /\ line = 1 /\ column = 1
  /\ start = 0 /\ token_line = 1 /\ token_column = 1
  /\ at_line_start = TRUE
  /\ indentation = <<0>>
  /\ tokens = <<>>
  /\ quote = NoQuote
  /\ status = "scanning"

\* error() reports token_line_ and token_column_, whatever is wrong where.
Fail(error) ==
  /\ status' = error
  /\ UNCHANGED <<source, at_line_start, indentation, tokens, quote>>

-----------------------------------------------------------------------------
(* The beginning of a line. *)

LineStarts == status = "scanning" /\ at_line_start /\ ~AtEnd
Content == EndOfRun({"space"}, current)
ContentIs(classes) == Content < Len(source) /\ source[Content + 1] \in classes
Width == Content - current

TabError ==
  /\ LineStarts
  /\ ContentIs({"tab"})
  /\ AdvanceTo(Content)
  /\ Fail("tabs are not supported for indentation")
  /\ UNCHANGED token

\* Mutant: a comment is found but not skipped.
EmptyLineStays ==
  /\ LineStarts
  /\ \/ /\ ContentIs({"newline"})
        /\ current' = Content + 1 /\ line' = line + 1 /\ column' = 1
     \/ (ContentIs({"hash"}) \/ Content = Len(source)) /\ AdvanceTo(Content)
  /\ UNCHANGED <<source, token, at_line_start, indentation, tokens, quote, status>>

\* A line that is empty or a comment has no width.
EmptyLine ==
  /\ LineStarts
  /\ \/ /\ ContentIs({"newline"})
        /\ current' = Content + 1 /\ line' = line + 1 /\ column' = 1
     \/ ContentIs({"hash"}) /\ AdvanceTo(EndOfRun(CharacterClass \ {"newline"}, Content))
     \/ Content = Len(source) /\ AdvanceTo(Content)
  /\ UNCHANGED <<source, token, at_line_start, indentation, tokens, quote, status>>

\* Mutant: the indentation of a comment counts.
BeginsContentOrComment ==
  LineStarts /\ Content < Len(source) /\ ~ContentIs({"tab", "newline"})

BeginsContent ==
  LineStarts /\ Content < Len(source) /\ ~ContentIs({"tab", "newline", "hash"})

\* The blocks that a line of some width belongs to.
Enclosing(width) == {i \in 1..Len(indentation) : indentation[i] <= width}

ScanIndentation ==
  /\ BeginsContent
  /\ LET depth == Cardinality(Enclosing(Width))
         dedents == [i \in 1..(Len(indentation) - depth) |-> Mark("Dedent", 1)]
     IN IF Width > indentation[Len(indentation)]
        THEN /\ indentation' = Append(indentation, Width)
             /\ tokens' = Append(tokens, Mark("Indent", 1))
             /\ status' = status /\ at_line_start' = FALSE
        ELSE /\ indentation' = SubSeq(indentation, 1, depth)
             /\ tokens' = tokens \o dedents
             /\ IF indentation[depth] = Width
                THEN status' = status /\ at_line_start' = FALSE
                ELSE status' = "inconsistent indentation" /\ at_line_start' = TRUE
  /\ AdvanceTo(Content)
  /\ UNCHANGED <<source, token, quote>>

-----------------------------------------------------------------------------
(* The rest of a line. *)

InLine == status = "scanning" /\ ~at_line_start /\ quote = NoQuote

\* Mutant: a comment takes the end of its line with it.
SkipLine ==
  /\ InLine
  /\ PeekIs({"hash"})
  /\ LET end == EndOfRun(CharacterClass \ {"newline"}, current)
     IN end < Len(source) /\ current' = end + 1 /\ line' = line + 1 /\ column' = 1
  /\ UNCHANGED <<source, token, at_line_start, indentation, tokens, quote, status>>

Skip ==
  /\ InLine
  /\ \/ PeekIs({"space", "tab", "return"})
          /\ AdvanceTo(EndOfRun({"space", "tab", "return"}, current))
     \/ PeekIs({"hash"}) /\ AdvanceTo(EndOfRun(CharacterClass \ {"newline"}, current))
  /\ UNCHANGED <<source, token, at_line_start, indentation, tokens, quote, status>>

\* start_ and the place of the token are those of its first character.
Begin == start' = current /\ token_line' = line /\ token_column' = column
Read(type, p) ==
  tokens' = Append(tokens, [type |-> type, from |-> current, to |-> p,
                            line |-> line, column |-> column])

EndLine ==
  /\ InLine
  /\ PeekIs({"newline"})
  /\ Begin
  /\ Read("Newline", current + 1)
  /\ AdvanceLine
  /\ at_line_start' = TRUE
  /\ UNCHANGED <<source, indentation, quote, status>>

ReadToken(type, p) ==
  /\ Begin
  /\ Read(type, p)
  /\ AdvanceTo(p)
  /\ UNCHANGED <<source, at_line_start, indentation, quote, status>>

ScanIdentifier ==
  InLine /\ PeekIs({"letter"}) /\ ReadToken("Word", EndOfRun({"letter", "digit"}, current))

\* Digits, and a fraction when a digit follows the dot.
ScanNumber ==
  /\ InLine
  /\ PeekIs({"digit"})
  /\ LET dot == EndOfRun({"digit"}, current)
         fraction == EndOfRun({"digit"}, dot + 1)
         isFloat == dot + 1 < Len(source) /\ source[dot + 1] = "dot" /\ source[dot + 2] = "digit"
     IN ReadToken("Number", IF isFloat THEN fraction ELSE dot)

ScanSymbol ==
  /\ InLine
  /\ LET doubled == current + 1 < Len(source) /\ source[current + 2] = "equals"
     IN \/ PeekIs({"symbol"}) /\ ReadToken("Symbol", current + 1)
        \/ PeekIs({"equals", "angle"})
             /\ ReadToken("Symbol", IF doubled THEN current + 2 ELSE current + 1)
        \/ PeekIs({"bang"}) /\ doubled /\ ReadToken("Symbol", current + 2)

\* What begins no token; advance() has passed it when it is reported.
BeginsNothing ==
  /\ InLine
  /\ \/ PeekIs({"other", "dot", "backslash"}) /\ Fail("unexpected character")
     \/ /\ PeekIs({"bang"})
        /\ ~(current + 1 < Len(source) /\ source[current + 2] = "equals")
        /\ Fail("expected '=' after '!'")
  /\ Begin
  /\ AdvanceTo(current + 1)

-----------------------------------------------------------------------------
(* Strings. *)

BeginString ==
  /\ InLine
  /\ PeekIs({"quote", "apostrophe"})
  /\ Begin
  /\ quote' = Peek
  /\ AdvanceTo(current + 1)
  /\ UNCHANGED <<source, at_line_start, indentation, tokens, status>>

InString == status = "scanning" /\ quote # NoQuote
InStringUnchanged == UNCHANGED <<source, token, at_line_start, indentation, tokens, quote, status>>

StringCharacter ==
  /\ InString
  /\ PeekIs(CharacterClass \ {quote, "newline", "backslash"})
  /\ AdvanceTo(current + 1)
  /\ InStringUnchanged

\* Mutant: what follows a backslash is passed without a look at the end.
StringEscapeBlindly ==
  InString /\ PeekIs({"backslash"}) /\ AdvanceTo(current + 2) /\ InStringUnchanged

\* A backslash and what follows it.
StringEscape ==
  /\ InString
  /\ PeekIs({"backslash"})
  /\ current + 1 < Len(source)
  /\ source[current + 2] \in {"letter", "backslash", "quote", "apostrophe"}
  /\ AdvanceTo(current + 2)
  /\ InStringUnchanged

StringEnd ==
  /\ InString
  /\ PeekIs({quote})
  /\ tokens' = Append(tokens, [type |-> "String", from |-> start, to |-> current + 1,
                               line |-> token_line, column |-> token_column])
  /\ quote' = NoQuote
  /\ AdvanceTo(current + 1)
  /\ UNCHANGED <<source, token, at_line_start, indentation, status>>

Unterminated ==
  /\ InString
  /\ \/ (AtEnd \/ PeekIs({"newline"})) /\ UNCHANGED place
     \/ PeekIs({"backslash"}) /\ current + 1 = Len(source) /\ AdvanceTo(current + 1)
  /\ Fail("unterminated string")
  /\ UNCHANGED token

UnsupportedEscape ==
  /\ InString
  /\ PeekIs({"backslash"})
  /\ current + 1 < Len(source)
  /\ source[current + 2] \notin {"letter", "backslash", "quote", "apostrophe"}
  /\ IF source[current + 2] = "newline"
     THEN current' = current + 2 /\ line' = line + 1 /\ column' = 1
     ELSE AdvanceTo(current + 2)
  /\ Fail("unsupported escape sequence")
  /\ UNCHANGED token

-----------------------------------------------------------------------------
(* The end of the text. *)

\* Mutant: blocks still open at the end are not closed.
FinishOpen ==
  /\ status = "scanning" /\ quote = NoQuote
  /\ AtEnd
  /\ tokens' = Append(tokens, Mark("EndOfFile", column))
  /\ indentation' = <<0>>
  /\ status' = "done"
  /\ UNCHANGED <<source, place, token, at_line_start, quote>>

\* Mutant: the last line ends where the text does.
FinishLine ==
  /\ status = "scanning" /\ quote = NoQuote
  /\ AtEnd
  /\ tokens' = tokens \o [i \in 1..(Len(indentation) - 1) |-> Mark("Dedent", 1)]
                  \o <<Mark("EndOfFile", column)>>
  /\ indentation' = <<0>>
  /\ status' = "done"
  /\ UNCHANGED <<source, place, token, at_line_start, quote>>

Finish ==
  /\ status = "scanning" /\ quote = NoQuote
  /\ AtEnd
  /\ LET newline == IF tokens # <<>> /\ tokens[Len(tokens)].type # "Newline"
                    THEN <<Mark("Newline", column)>> ELSE <<>>
         dedents == [i \in 1..(Len(indentation) - 1) |-> Mark("Dedent", 1)]
     IN tokens' = tokens \o newline \o dedents \o <<Mark("EndOfFile", column)>>
  /\ indentation' = <<0>>
  /\ status' = "done"
  /\ UNCHANGED <<source, place, token, at_line_start, quote>>

Next ==
  \/ TabError \/ EmptyLine \/ ScanIndentation
  \/ Skip \/ EndLine \/ ScanIdentifier \/ ScanNumber \/ ScanSymbol \/ BeginsNothing
  \/ BeginString \/ StringCharacter \/ StringEscape \/ StringEnd
  \/ Unterminated \/ UnsupportedEscape
  \/ Finish

Spec == Init /\ [][Next]_vars

\* tokenize() is one loop that nothing suspends.
FairSpec == Spec /\ WF_vars(Next)

-----------------------------------------------------------------------------
(* Properties. *)

Count(type, k) == Cardinality({i \in 1..k : tokens[i].type = type})
Depth(k) == Count("Indent", k) - Count("Dedent", k)

IsText(t) == t.type \in {"Word", "Number", "String", "Symbol"}
Texts == {k \in DOMAIN tokens : IsText(tokens[k])}

\* The beginning of the line of position p, and how many spaces are there.
LineStart(p) == Max({0} \cup {i \in 1..p : source[i] = "newline"})
SpacesBefore(p) ==
  Cardinality({i \in (LineStart(p) + 1)..p :
                 \A j \in (LineStart(p) + 1)..i : source[j] = "space"})
WidthOf(k) == SpacesBefore(tokens[k].from)

\* Every variable has its type.  No scan runs past the end of the text
\* (peek(), peek_next() and match() look before they advance).
TypeOK ==
  /\ source \in Sources
  /\ current \in 0..Len(source)
  /\ {line, column, token_line, token_column} \subseteq Nat \ {0}
  /\ start \in 0..Len(source)
  /\ at_line_start \in BOOLEAN
  /\ indentation \in Seq(Nat)
  /\ tokens \in Seq([type : TokenType, from : 0..Len(source), to : 0..Len(source),
                     line : Nat \ {0}, column : Nat \ {0}])
  /\ quote \in {NoQuote, "quote", "apostrophe"}
  /\ status \in {"scanning", "done"} \cup Errors

\* Indents and dedents pair up (lexer.cpp:142-152, 102-105): at no token have
\* more blocks been closed than opened, the open ones are those on
\* indentation_, each wider than the one around it, and at the end of the
\* text all are closed.
BlocksPair ==
  /\ \A k \in DOMAIN tokens : Depth(k) >= 0
  /\ Depth(Len(tokens)) = Len(indentation) - 1
  /\ indentation # <<>> /\ indentation[1] = 0
  /\ \A i \in 2..Len(indentation) : indentation[i - 1] < indentation[i]
  /\ status = "done" => Depth(Len(tokens)) = 0

\* The blocks are those that the widths of the lines with code say, whatever
\* blank lines and comments stand between: a block stays open over the lines
\* that are as wide as it is, its lines are at one depth, wider ones are
\* deeper, and a narrower line closes it (lexer.cpp:133-153).
BlocksFollowCode ==
  \A a, b \in Texts : a < b =>
    LET narrower == {c \in Texts \cap (a..b) : WidthOf(c) < WidthOf(a)}
    IN /\ narrower = {} =>
            /\ \A k \in a..b : Depth(k) >= Depth(a)
            /\ Depth(b) = Depth(a) <=> WidthOf(b) = WidthOf(a)
       /\ narrower # {} => \E k \in a..b : Depth(k) < Depth(a)

\* A line without code in which a carriage return is the first character other
\* than a space.
HasBlankReturn ==
  \E r, e \in 1..Len(source) :
    /\ source[r] = "return"
    /\ \A i \in (LineStart(r) + 1)..(r - 1) : source[i] = "space"
    /\ r <= e /\ \A i \in r..e : source[i] \in {"space", "tab", "return"}
    /\ e = Len(source) \/ source[e + 1] \in {"newline", "hash"}

\* The same, of texts without such a line.
BlocksFollowLines == ~HasBlankReturn => BlocksFollowCode

\* The line and column of a token are those of its first character, and those
\* of an error in a line those of the token that is wrong, however many lines,
\* comments and strings were read (lexer.cpp:58-60, 116-125).
PlacesAreRight ==
  LET lineOf(p) == 1 + Cardinality({i \in 1..p : source[i] = "newline"})
      columnOf(p) == 1 + p - LineStart(p)
  IN /\ \A k \in DOMAIN tokens :
          tokens[k].type \notin {"Indent", "Dedent"} =>
            /\ tokens[k].line = lineOf(tokens[k].from)
            /\ tokens[k].column = columnOf(tokens[k].from)
     /\ status \in {"unexpected character", "expected '=' after '!'", "unterminated string",
                    "unsupported escape sequence"} =>
          token_line = lineOf(start) /\ token_column = columnOf(start)

\* Every character of a text is in one token, or it is white space, in a
\* comment, or the end of a line without code; no token is read twice
\* (lexer.cpp:36-97).
NothingLost ==
  LET in(i) == {k \in DOMAIN tokens : tokens[k].from < i /\ i <= tokens[k].to}
      inComment(i) ==
        \E h \in (LineStart(i) + 1)..i : source[h] = "hash" /\ in(h) = {}
      codeBefore(i) == \E k \in Texts : LineStart(i - 1) < tokens[k].to /\ tokens[k].to < i
  IN status = "done" =>
       \A i \in 1..Len(source) :
         \/ Cardinality(in(i)) = 1
         \/ /\ in(i) = {}
            /\ \/ source[i] \in {"space", "tab", "return"}
               \/ source[i] = "newline" /\ ~codeBefore(i)
               \/ source[i] # "newline" /\ inComment(i)

\* What the parser relies on: every line that has tokens ends with a Newline, also
\* the last one, blocks begin and end between lines, and one EndOfFile ends the
\* text (lexer.cpp:99-111, 133-153).
ParserCanRely == status = "done" => FormsLines([k \in DOMAIN tokens |-> tokens[k].type])

\* The loop of tokenize() ends on every text.
EveryTextEnds == <>(status # "scanning")

\* An error in the indentation is reported at a place in its line.
ErrorsInTheirLine ==
  status \in {"tabs are not supported for indentation", "inconsistent indentation"} =>
    token_line = line
=============================================================================
