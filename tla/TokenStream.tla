---------------------------- MODULE TokenStream -----------------------------
(***************************************************************************)
(* What passes from the lexer to the parser: the types of the tokens of a  *)
(* text.  The parser relies on their order and looks at none of it again   *)
(* (src/src/main.cpp:14-15).                                               *)
(***************************************************************************)
EXTENDS Integers, Sequences, FiniteSets

\* How many blocks are open after the first k tokens.
OpenBlocks(types, k) ==
  LET Count(type) == Cardinality({i \in 1..k : types[i] = type})
  IN Count("Indent") - Count("Dedent")

\* The tokens from i on only close what is open.
OnlyCloses(types, i) == \A k \in i..(Len(types) - 1) : types[k] = "Dedent"

\* Lines of tokens, each with its Newline; blocks begin and end between lines and
\* pair up; EndOfFile is the last token and no other.
FormsLines(types) ==
  LET n == Len(types)
      StartsLine(i) == i = 1 \/ types[i - 1] = "Newline"
  IN /\ n > 0
     /\ \A i \in 1..n : types[i] = "EndOfFile" <=> i = n
     /\ \A i \in 1..n : OpenBlocks(types, i) >= 0
     /\ OpenBlocks(types, n) = 0
     /\ \A i \in 1..(n - 1) :
          /\ types[i] = "Indent" => StartsLine(i) /\ types[i + 1] \notin {"Indent", "Dedent"}
          /\ types[i] = "Dedent" =>
               /\ StartsLine(i) \/ types[i - 1] = "Dedent"
               /\ types[i + 1] # "Indent"
          /\ OnlyCloses(types, i + 1) => types[i] \in {"Newline", "Dedent"}
=============================================================================
