----------------------------- MODULE LexerProofs -----------------------------
(***************************************************************************)
(* For every text: the lexer never reads past its end, the blocks it opens *)
(* it closes, its tokens form the lines that the parser relies on and have *)
(* the places that are counted in the text, no character is lost, and the  *)
(* blocks are those that the widths of the lines say.                      *)
(*                                                                         *)
(* BlocksPair says of neighbours on indentation_ that the inner one is     *)
(* wider; the proof needs it of any two, for without induction the one     *)
(* does not give the other.  With it a line closes the blocks on top and   *)
(* no others.                                                              *)
(*                                                                         *)
(* What the blocks are is proved last: a line is as wide as the innermost  *)
(* block says (LineState), and that block, and every one around it, as the *)
(* texts in it (Nested).                                                   *)
(***************************************************************************)
EXTENDS Lexer, FiniteSetTheorems, SequenceTheorems, TLAPS

-----------------------------------------------------------------------------
(* Least elements, and runs of characters. *)

LEMMA LeastElement ==
  ASSUME NEW n \in Nat, NEW T \in SUBSET (0..n), T # {}
  PROVE  \E least \in T : \A j \in T : least <= j
<1> DEFINE Beginning == {0..i : i \in T}
           Order == StrictSubsetOrdering(0..n)
<1>1. IsWellFoundedOn(Order, FiniteSubsetsOf(0..n))
  BY FS_StrictSubsetOrderingWellFounded
<1>2. Beginning \subseteq FiniteSubsetsOf(0..n) /\ Beginning # {}
  <2> SUFFICES ASSUME NEW i \in T PROVE 0..i \in FiniteSubsetsOf(0..n)
    OBVIOUS
  <2>1. IsFiniteSet(0..i)
    BY FS_Interval
  <2> QED BY <2>1 DEF FiniteSubsetsOf
<1>3. PICK S \in Beginning : \A U \in Beginning : ~(<<U, S>> \in Order)
  <2> HIDE DEF Beginning, Order
  <2> QED BY <1>1, <1>2, WFMin
<1>4. PICK least \in T : S = 0..least
  BY <1>3
<1>5. ASSUME NEW j \in T, ~(least <= j) PROVE FALSE
  <2>1. 0..j \subseteq 0..least /\ 0..j # 0..least
    BY <1>5
  <2>2. <<0..j, S>> \in Order
    BY <1>4, <2>1 DEF StrictSubsetOrdering
  <2> QED BY <1>3, <2>2
<1> QED BY <1>5

\* A run ends in the text, not before its beginning.
LEMMA RunEnds ==
  ASSUME Len(source) \in Nat, NEW classes, NEW p \in 0..Len(source)
  PROVE  EndOfRun(classes, p) \in p..Len(source)
<1> DEFINE ends == {i \in p..Len(source) : i = Len(source) \/ source[i + 1] \notin classes}
<1>1. ends \in SUBSET (0..Len(source)) /\ Len(source) \in ends
  OBVIOUS
<1>2. \E least \in ends : \A j \in ends : least <= j
  <2> HIDE DEF ends
  <2> QED BY <1>1, LeastElement
<1>3. Min(ends) \in ends
  <2> HIDE DEF ends
  <2> QED BY <1>2 DEF Min
<1>4. EndOfRun(classes, p) = Min(ends)
  BY DEF EndOfRun
<1> QED BY <1>3, <1>4

-----------------------------------------------------------------------------
(* Counting the indents and dedents of a sequence of tokens. *)

CountIn(s, type, k) == Cardinality({i \in 1..k : s[i].type = type})
DepthIn(s, k) == CountIn(s, "Indent", k) - CountIn(s, "Dedent", k)

\* Blocks are opened before they are closed, and open ones are still open.
Pairs(s, open) ==
  /\ \A k \in DOMAIN s : DepthIn(s, k) >= 0
  /\ DepthIn(s, Len(s)) = open

LEMMA CountType ==
  ASSUME NEW s, NEW type, NEW k \in Nat
  PROVE  IsFiniteSet({i \in 1..k : s[i].type = type}) /\ CountIn(s, type, k) \in Nat
<1>1. IsFiniteSet(1..k)
  BY FS_Interval
<1>2. IsFiniteSet({i \in 1..k : s[i].type = type})
  BY <1>1, FS_Subset
<1> QED BY <1>2, FS_CardinalityType DEF CountIn

LEMMA CountOfNone ==
  ASSUME NEW s, NEW type
  PROVE  CountIn(s, type, 0) = 0
<1>1. {i \in 1..0 : s[i].type = type} = {}
  OBVIOUS
<1> QED BY <1>1, FS_EmptySet DEF CountIn

\* The tokens that are added do not change what was counted.
LEMMA CountAgrees ==
  ASSUME NEW s, NEW t, NEW type, NEW k, \A i \in 1..k : s[i] = t[i]
  PROVE  CountIn(s, type, k) = CountIn(t, type, k)
<1>1. {i \in 1..k : s[i].type = type} = {i \in 1..k : t[i].type = type}
  OBVIOUS
<1> QED BY <1>1 DEF CountIn

\* The tokens after m, to k, are of one type.
RunOf(s, m, k, run) == \A i \in (m + 1)..k : s[i].type = run

LEMMA CountRun ==
  ASSUME NEW s, NEW m \in Nat, NEW k \in Nat, m <= k, NEW run, RunOf(s, m, k, run), NEW type
  PROVE  /\ type # run => CountIn(s, type, k) = CountIn(s, type, m)
         /\ type = run => CountIn(s, type, k) = CountIn(s, type, m) + (k - m)
<1> DEFINE Of(l) == {i \in 1..l : s[i].type = type}
<1>1. IsFiniteSet(Of(m)) /\ Cardinality(Of(m)) \in Nat
  BY CountType DEF CountIn
<1>2. ASSUME type # run PROVE CountIn(s, type, k) = CountIn(s, type, m)
  <2>1. Of(k) = Of(m)
    BY <1>2 DEF RunOf
  <2> QED BY <2>1 DEF CountIn
<1>3. ASSUME type = run PROVE CountIn(s, type, k) = CountIn(s, type, m) + (k - m)
  <2> DEFINE added == (m + 1)..k
  <2>1. Of(k) = Of(m) \cup added /\ Of(m) \cap added = {}
    BY <1>3 DEF RunOf
  <2>2. IsFiniteSet(added) /\ Cardinality(added) = k - m
    <3>1. m + 1 \in Int /\ k \in Int
      OBVIOUS
    <3>2. /\ IsFiniteSet(added)
          /\ Cardinality(added) = IF m + 1 > k THEN 0 ELSE k - (m + 1) + 1
      BY <3>1, FS_Interval
    <3> QED BY <3>2
  <2> HIDE DEF Of, added
  <2>3. Cardinality(Of(m) \cup added) = Cardinality(Of(m)) + Cardinality(added) - Cardinality({})
    BY <1>1, <2>1, <2>2, FS_Union
  <2>4. Cardinality(Of(k)) = Cardinality(Of(m)) + (k - m)
    BY <1>1, <2>1, <2>2, <2>3, FS_EmptySet
  <2> QED BY <2>4 DEF CountIn, Of
<1> QED BY <1>2, <1>3

LEMMA DepthRun ==
  ASSUME NEW s, NEW m \in Nat, NEW k \in Nat, m <= k, NEW run, RunOf(s, m, k, run)
  PROVE  /\ DepthIn(s, m) \in Int
         /\ run = "Indent" => DepthIn(s, k) = DepthIn(s, m) + (k - m)
         /\ run = "Dedent" => DepthIn(s, k) = DepthIn(s, m) - (k - m)
         /\ run \notin {"Indent", "Dedent"} => DepthIn(s, k) = DepthIn(s, m)
<1>1. CountIn(s, "Indent", m) \in Nat /\ CountIn(s, "Dedent", m) \in Nat
  BY CountType
<1>2. ASSUME NEW type
      PROVE  /\ type # run => CountIn(s, type, k) = CountIn(s, type, m)
             /\ type = run => CountIn(s, type, k) = CountIn(s, type, m) + (k - m)
  BY CountRun
<1>3. /\ "Indent" # run => CountIn(s, "Indent", k) = CountIn(s, "Indent", m)
      /\ "Indent" = run => CountIn(s, "Indent", k) = CountIn(s, "Indent", m) + (k - m)
      /\ "Dedent" # run => CountIn(s, "Dedent", k) = CountIn(s, "Dedent", m)
      /\ "Dedent" = run => CountIn(s, "Dedent", k) = CountIn(s, "Dedent", m) + (k - m)
      /\ "Indent" # "Dedent"
  BY <1>2
<1> QED BY <1>1, <1>3 DEF DepthIn

\* Tokens of one type after others.
LEMMA PairsConcat ==
  ASSUME NEW T, NEW s \in Seq(T), NEW t \in Seq(T), NEW run,
         \A i \in 1..Len(t) : t[i].type = run,
         NEW open \in Nat, Pairs(s, open)
  PROVE  /\ run \notin {"Indent", "Dedent"} => Pairs(s \o t, open)
         /\ run = "Indent" => Pairs(s \o t, open + Len(t))
         /\ run = "Dedent" /\ Len(t) <= open => Pairs(s \o t, open - Len(t))
<1> DEFINE m == Len(s)
           n == Len(t)
           u == s \o t
<1>1. /\ m \in Nat /\ n \in Nat
      /\ u \in Seq(T) /\ Len(u) = m + n /\ DOMAIN u = 1..(m + n) /\ DOMAIN s = 1..m
      /\ \A i \in 1..m : u[i] = s[i]
      /\ \A i \in 1..n : u[m + i] = t[i]
  BY ConcatProperties
<1> HIDE DEF m, n, u
<1>2. \A k \in 0..m : DepthIn(u, k) = DepthIn(s, k)
  <2> SUFFICES ASSUME NEW k \in 0..m PROVE DepthIn(u, k) = DepthIn(s, k)
    OBVIOUS
  <2>1. \A i \in 1..k : u[i] = s[i]
    BY <1>1
  <2> QED BY <2>1, CountAgrees DEF DepthIn
<1>3. DepthIn(u, m) = open /\ \A k \in 1..m : DepthIn(u, k) >= 0
  BY <1>1, <1>2 DEF Pairs, m
<1>4. ASSUME NEW k \in m..(m + n)
      PROVE  /\ run \notin {"Indent", "Dedent"} => DepthIn(u, k) = open
             /\ run = "Indent" => DepthIn(u, k) = open + (k - m)
             /\ run = "Dedent" => DepthIn(u, k) = open - (k - m)
  <2>1. RunOf(u, m, k, run)
    <3> SUFFICES ASSUME NEW i \in (m + 1)..k PROVE u[i].type = run
      BY DEF RunOf
    <3>1. i - m \in 1..n /\ m + (i - m) = i
      BY <1>1
    <3>2. u[i] = t[i - m]
      BY <1>1, <3>1
    <3> QED BY <3>1, <3>2 DEF n
  <2>2. k \in Nat /\ m \in Nat /\ m <= k
    BY <1>1
  <2>3. /\ run = "Indent" => DepthIn(u, k) = DepthIn(u, m) + (k - m)
        /\ run = "Dedent" => DepthIn(u, k) = DepthIn(u, m) - (k - m)
        /\ run \notin {"Indent", "Dedent"} => DepthIn(u, k) = DepthIn(u, m)
    BY <2>1, <2>2, DepthRun
  <2> QED BY <1>3, <2>3
<1>5. DOMAIN u = 1..(m + n) /\ \A k \in 1..(m + n) : k \in 1..m \/ k \in m..(m + n)
  BY <1>1
<1>6. Len(u) \in m..(m + n) /\ Len(u) - m = n /\ open \in Nat
  BY <1>1
<1>7. ASSUME run \notin {"Indent", "Dedent"} PROVE Pairs(u, open)
  <2>1. \A k \in m..(m + n) : DepthIn(u, k) = open
    BY <1>4, <1>7
  <2> HIDE DEF Pairs
  <2>2. \A k \in DOMAIN u : DepthIn(u, k) >= 0
    BY <1>3, <1>5, <1>6, <2>1
  <2> QED BY <1>6, <2>1, <2>2 DEF Pairs
<1>8. ASSUME run = "Indent" PROVE Pairs(u, open + n)
  <2>1. \A k \in m..(m + n) : DepthIn(u, k) = open + (k - m)
    BY <1>4, <1>8
  <2>2. \A k \in m..(m + n) : k - m >= 0
    BY <1>1
  <2>3. \A k \in DOMAIN u : DepthIn(u, k) >= 0
    BY <1>1, <1>3, <1>5, <1>6, <2>1, <2>2
  <2> QED BY <1>6, <2>1, <2>3 DEF Pairs
<1>9. ASSUME run = "Dedent", n <= open PROVE Pairs(u, open - n)
  <2>1. \A k \in m..(m + n) : DepthIn(u, k) = open - (k - m)
    BY <1>4, <1>9
  <2>2. \A k \in m..(m + n) : k - m <= open
    BY <1>1, <1>9
  <2>3. ASSUME NEW k \in m..(m + n) PROVE open - (k - m) >= 0
    <3>1. k - m <= open
      BY <2>2
    <3>2. k \in Int /\ m \in Int
      BY <1>1
    <3>3. k - m \in Int /\ open \in Int
      BY <3>2
    <3> QED BY <3>1, <3>3
  <2>4. \A k \in DOMAIN u : DepthIn(u, k) >= 0
    BY <1>3, <1>5, <2>1, <2>3
  <2> QED BY <1>6, <2>1, <2>4 DEF Pairs
<1> QED BY <1>7, <1>8, <1>9 DEF n, u

\* A single token.
LEMMA PairsAppend ==
  ASSUME NEW T, NEW s \in Seq(T), NEW t \in T, NEW open \in Nat, Pairs(s, open)
  PROVE  /\ t.type \notin {"Indent", "Dedent"} => Pairs(Append(s, t), open)
         /\ t.type = "Indent" => Pairs(Append(s, t), open + 1)
<1>1. <<t>> \in Seq(T) /\ Len(<<t>>) = 1 /\ \A i \in 1..Len(<<t>>) : <<t>>[i].type = t.type
  OBVIOUS
<1>2. Append(s, t) = s \o <<t>>
  BY AppendIsConcat
<1> DEFINE added == <<t>>
<1> HIDE DEF added
<1>3. added \in Seq(T) /\ Len(added) = 1 /\ \A i \in 1..Len(added) : added[i].type = t.type
  BY <1>1 DEF added
<1>4. /\ t.type \notin {"Indent", "Dedent"} => Pairs(s \o added, open)
      /\ t.type = "Indent" => Pairs(s \o added, open + Len(added))
  BY <1>3, PairsConcat
<1> QED BY <1>2, <1>3, <1>4 DEF added

-----------------------------------------------------------------------------
(* The widths on indentation_. *)

\* The outermost block is the text itself, and any block is narrower than the
\* ones in it.
Ascends ==
  /\ indentation # <<>> /\ indentation[1] = 0
  /\ \A i, j \in 1..Len(indentation) : i < j => indentation[i] < indentation[j]

\* A line belongs to the outermost blocks, to as many as are not wider.
LEMMA EnclosingIsPrefix ==
  ASSUME indentation \in Seq(Nat), Ascends, NEW width \in Nat
  PROVE  /\ Cardinality(Enclosing(width)) \in 1..Len(indentation)
         /\ \A i \in 1..Cardinality(Enclosing(width)) : indentation[i] <= width
<1> DEFINE n == Len(indentation)
           wider == {i \in 1..n : ~(indentation[i] <= width)}
<1>1. n \in Nat \ {0} /\ \A i \in 1..n : indentation[i] \in Nat
  BY EmptySeq, LenProperties, ElementOfSeq DEF Ascends
<1>2. 1 \in Enclosing(width) /\ 1 \notin wider
  BY <1>1 DEF Enclosing, Ascends
<1>3. ASSUME NEW d \in 1..n, Enclosing(width) = 1..d
      PROVE  /\ Cardinality(Enclosing(width)) \in 1..n
             /\ \A i \in 1..Cardinality(Enclosing(width)) : indentation[i] <= width
  <2>1. Cardinality(1..d) = d
    <3>1. 1 \in Int /\ d \in Int
      BY <1>1
    <3>2. Cardinality(1..d) = IF 1 > d THEN 0 ELSE d - 1 + 1
      BY <3>1, FS_Interval
    <3> QED BY <1>1, <3>2
  <2>2. \A i \in Enclosing(width) : indentation[i] <= width
    BY DEF Enclosing
  <2> QED BY <1>3, <2>1, <2>2
<1>4. CASE wider = {}
  <2>1. Enclosing(width) = 1..n
    BY <1>4 DEF Enclosing
  <2>2. n \in 1..n
    BY <1>1
  <2> QED BY <1>3, <2>1, <2>2
<1>5. CASE wider # {}
  <2>1. wider \in SUBSET (0..n)
    OBVIOUS
  <2>2. \E least \in wider : \A j \in wider : least <= j
    <3> HIDE DEF wider, n
    <3> QED BY <1>1, <1>5, <2>1, LeastElement
  <2>3. PICK least \in wider : \A j \in wider : least <= j
    BY <2>2
  <2>4. least \in 2..n /\ ~(indentation[least] <= width)
    BY <1>1, <1>2
  <2>5. Enclosing(width) = 1..(least - 1)
    <3>1. ASSUME NEW i \in Enclosing(width) PROVE i \in 1..(least - 1)
      <4>1. i \in 1..n /\ indentation[i] <= width
        BY <3>1 DEF Enclosing
      <4>2. i # least
        BY <2>4, <4>1
      <4>3. ~(least < i)
        <5> SUFFICES ASSUME least < i PROVE FALSE
          OBVIOUS
        <5>1. indentation[least] < indentation[i]
          BY <2>4, <4>1 DEF Ascends
        <5> QED BY <1>1, <2>4, <4>1, <5>1
      <4> QED BY <2>4, <4>1, <4>2, <4>3
    <3>2. ASSUME NEW i \in 1..(least - 1) PROVE i \in Enclosing(width)
      <4>1. i \in 1..n /\ ~(least <= i)
        BY <2>4, <1>1
      <4>2. i \notin wider
        BY <2>3, <4>1
      <4> QED BY <4>1, <4>2 DEF Enclosing
    <3> QED BY <3>1, <3>2
  <2>6. least - 1 \in 1..n
    BY <1>1, <2>4
  <2> QED BY <1>3, <2>5, <2>6
<1> QED BY <1>4, <1>5

-----------------------------------------------------------------------------
(* The invariant. *)

Blocks ==
  /\ Pairs(tokens, Len(indentation) - 1)
  /\ Ascends
  /\ status = "done" => Len(indentation) = 1

Token ==
  [type : TokenType, from : 0..Len(source), to : 0..Len(source),
   line : Nat \ {0}, column : Nat \ {0}]

IInv == TypeOK /\ Blocks

LEMMA Lengths ==
  ASSUME IInv
  PROVE  /\ Len(source) \in Nat
         /\ tokens \in Seq(Token)
         /\ indentation \in Seq(Nat)
         /\ Len(indentation) \in Nat \ {0}
         /\ Len(indentation) - 1 \in Nat
         /\ \A i \in 1..Len(indentation) : indentation[i] \in Nat
<1>1. source \in Seq(CharacterClass) /\ indentation \in Seq(Nat)
  BY LexerAssumption DEF IInv, TypeOK
<1>2. tokens \in Seq(Token)
  BY DEF IInv, TypeOK, Token
<1>3. indentation # <<>>
  BY DEF IInv, Blocks, Ascends
<1>4. Len(indentation) \in Nat \ {0}
  BY <1>1, <1>3, EmptySeq, LenProperties
<1> QED BY <1>1, <1>2, <1>4, LenProperties, ElementOfSeq

\* What a step appends to tokens_ is a token.
LEMMA AppendedIsToken ==
  ASSUME IInv, IInv', UNCHANGED source, NEW t, tokens' = Append(tokens, t)
  PROVE  t \in Token
<1>1. tokens' \in Seq(Token)
  BY DEF IInv, TypeOK, Token
<1>2. tokens \in Seq(Token)
  BY Lengths
<1>3. Len(tokens') = Len(tokens) + 1 /\ tokens'[Len(tokens) + 1] = t /\ Len(tokens) \in Nat
  BY <1>2, AppendProperties
<1>4. Len(tokens) + 1 \in 1..Len(tokens')
  BY <1>3
<1> QED BY <1>1, <1>3, <1>4, ElementOfSeq

\* Characters are passed, and no token, block or string is begun or ended.
LEMMA SkimKeeps ==
  ASSUME IInv,
         UNCHANGED <<source, indentation, tokens>>,
         current' \in 0..Len(source), line' \in Nat \ {0}, column' \in Nat \ {0},
         start' \in 0..Len(source), token_line' \in Nat \ {0}, token_column' \in Nat \ {0},
         at_line_start' \in BOOLEAN, quote' \in {NoQuote, "quote", "apostrophe"},
         status' \in {"scanning"} \cup Errors
  PROVE  IInv'
<1>1. TypeOK'
  BY DEF IInv, TypeOK
<1>2. status' # "done"
  BY DEF Errors
<1>3. Blocks'
  BY <1>2 DEF IInv, Blocks, Ascends, Pairs, DepthIn, CountIn
<1> QED BY <1>1, <1>3 DEF IInv

\* A token is read, or the end of a line, neither of which is an indent.
LEMMA ReadKeeps ==
  ASSUME IInv,
         UNCHANGED <<source, indentation, status>>, status = "scanning",
         NEW t \in Token, t.type \notin {"Indent", "Dedent"}, tokens' = Append(tokens, t),
         current' \in 0..Len(source), line' \in Nat \ {0}, column' \in Nat \ {0},
         start' \in 0..Len(source), token_line' \in Nat \ {0}, token_column' \in Nat \ {0},
         at_line_start' \in BOOLEAN, quote' \in {NoQuote, "quote", "apostrophe"}
  PROVE  IInv'
<1>1. tokens \in Seq(Token) /\ Len(indentation) - 1 \in Nat
  BY Lengths
<1>2. tokens' \in Seq(Token)
  BY <1>1, AppendProperties
<1>3. TypeOK'
  BY <1>2 DEF IInv, TypeOK, Token
<1>4. Pairs(tokens', Len(indentation) - 1)
  <2> DEFINE open == Len(indentation) - 1
  <2>1. Pairs(tokens, open)
    BY DEF IInv, Blocks
  <2> HIDE DEF open
  <2>2. open \in Nat
    BY <1>1 DEF open
  <2>3. Pairs(Append(tokens, t), open)
    BY <1>1, <2>1, <2>2, PairsAppend
  <2> QED BY <2>3 DEF open
<1>5. Blocks'
  BY <1>4 DEF IInv, Blocks, Ascends
<1> QED BY <1>3, <1>5 DEF IInv

-----------------------------------------------------------------------------
(* The steps that read at most one token. *)

\* The next character is one of the text, and it has a place.
Moved == current' \in 0..Len(source) /\ line' \in Nat \ {0} /\ column' \in Nat \ {0}

LEMMA AdvanceTypes ==
  ASSUME IInv, NEW p \in current..Len(source), AdvanceTo(p)
  PROVE  Moved
<1>1. Len(source) \in Nat /\ current \in 0..Len(source) /\ line \in Nat \ {0} /\ column \in Nat \ {0}
  BY Lengths DEF IInv, TypeOK
<1>2. p \in 0..Len(source) /\ p - current \in Nat
  BY <1>1
<1> QED BY <1>1, <1>2 DEF AdvanceTo, Moved

LEMMA CurrentTypes ==
  ASSUME IInv
  PROVE  /\ current \in 0..Len(source) /\ line \in Nat \ {0} /\ column \in Nat \ {0}
         /\ start \in 0..Len(source) /\ token_line \in Nat \ {0} /\ token_column \in Nat \ {0}
         /\ at_line_start \in BOOLEAN /\ quote \in {NoQuote, "quote", "apostrophe"}
         /\ Len(source) \in Nat
BY Lengths DEF IInv, TypeOK

\* The classes of the next character are known only where there is one.
LEMMA PeekIsInside ==
  ASSUME IInv, NEW classes, PeekIs(classes)
  PROVE  current + 1 \in 0..Len(source) /\ current + 1 \in current..Len(source)
BY CurrentTypes DEF PeekIs, AtEnd

LEMMA SkimStep ==
  ASSUME IInv,
         TabError \/ EmptyLine \/ Skip \/ BeginsNothing \/ BeginString \/ StringCharacter
           \/ StringEscape \/ Unterminated \/ UnsupportedEscape
  PROVE  IInv'
<1>0. /\ line \in Nat \ {0} /\ column \in Nat \ {0}
      /\ start \in 0..Len(source) /\ token_line \in Nat \ {0} /\ token_column \in Nat \ {0}
      /\ at_line_start \in BOOLEAN /\ quote \in {NoQuote, "quote", "apostrophe"}
  BY CurrentTypes
<1>1. Len(source) \in Nat /\ current \in 0..Len(source)
  BY CurrentTypes
<1>2. ASSUME LineStarts PROVE Content \in current..Len(source) /\ Content \in 0..Len(source)
  <2>1. Content \in current..Len(source)
    BY <1>1, RunEnds DEF Content
  <2> QED BY <1>1, <2>1
<1>3. CASE TabError
  <2>1. Moved
    BY <1>2, <1>3, AdvanceTypes DEF TabError
  <2> QED BY <1>3, <2>1, <1>0, SkimKeeps DEF Moved, TabError, Fail, token, Errors
<1>4. CASE EmptyLine
  <2>1. LineStarts
    BY <1>4 DEF EmptyLine
  <2>2. ASSUME ContentIs({"newline"}), current' = Content + 1, line' = line + 1, column' = 1
        PROVE  Moved
    BY <1>0, <1>1, <1>2, <2>1, <2>2 DEF ContentIs, Moved
  <2>3. ASSUME AdvanceTo(EndOfRun(CharacterClass \ {"newline"}, Content)) PROVE Moved
    <3> DEFINE p == EndOfRun(CharacterClass \ {"newline"}, Content)
    <3>1. p \in Content..Len(source)
      BY <1>1, <1>2, <2>1, RunEnds
    <3> HIDE DEF p
    <3>2. p \in current..Len(source)
      BY <1>1, <1>2, <2>1, <3>1
    <3>3. AdvanceTo(p)
      BY <2>3 DEF p
    <3> QED BY <3>2, <3>3, AdvanceTypes
  <2>4. ASSUME AdvanceTo(Content) PROVE Moved
    BY <1>2, <2>1, <2>4, AdvanceTypes
  <2>5. Moved
    BY <1>4, <2>2, <2>3, <2>4 DEF EmptyLine
  <2> QED BY <1>4, <2>1, <2>5, <1>0, SkimKeeps DEF Moved, EmptyLine, token, LineStarts
<1>5. CASE Skip
  <2>1. PICK p \in current..Len(source) : AdvanceTo(p)
    <3>1. CASE AdvanceTo(EndOfRun({"space", "tab", "return"}, current))
      BY <1>1, <3>1, RunEnds
    <3>2. CASE AdvanceTo(EndOfRun(CharacterClass \ {"newline"}, current))
      BY <1>1, <3>2, RunEnds
    <3> QED BY <1>5, <3>1, <3>2 DEF Skip
  <2>2. Moved
    BY <2>1, AdvanceTypes
  <2> QED BY <1>5, <2>2, <1>0, SkimKeeps DEF Moved, Skip, token, InLine
<1>6. CASE BeginsNothing
  <2>1. current + 1 \in current..Len(source)
    BY <1>6, PeekIsInside DEF BeginsNothing
  <2>2. Moved
    BY <1>6, <2>1, AdvanceTypes DEF BeginsNothing
  <2>3. Begin /\ UNCHANGED <<source, at_line_start, indentation, tokens, quote>> /\ status' \in Errors
    BY <1>6 DEF BeginsNothing, Fail, Errors
  <2> QED BY <1>0, <1>1, <2>2, <2>3, SkimKeeps DEF Moved, Begin
<1>7. CASE BeginString
  <2>1. current + 1 \in current..Len(source) /\ quote' \in {"quote", "apostrophe"}
    BY <1>7, PeekIsInside DEF BeginString, PeekIs
  <2>2. Moved
    BY <1>7, <2>1, AdvanceTypes DEF BeginString
  <2>3. Begin /\ UNCHANGED <<source, at_line_start, indentation, tokens>> /\ status' = "scanning"
    BY <1>7 DEF BeginString, InLine
  <2> QED BY <1>0, <1>1, <2>1, <2>2, <2>3, SkimKeeps DEF Moved, Begin
<1>8. CASE StringCharacter
  <2>1. current + 1 \in current..Len(source)
    BY <1>8, PeekIsInside DEF StringCharacter
  <2>2. Moved
    BY <1>8, <2>1, AdvanceTypes DEF StringCharacter
  <2> QED BY <1>8, <2>2, <1>0, SkimKeeps DEF Moved, StringCharacter, InStringUnchanged, InString, token
<1>9. CASE StringEscape
  <2>1. current + 2 \in current..Len(source)
    BY <1>1, <1>9 DEF StringEscape
  <2>2. Moved
    BY <1>9, <2>1, AdvanceTypes DEF StringEscape
  <2> QED BY <1>9, <2>2, <1>0, SkimKeeps DEF Moved, StringEscape, InStringUnchanged, InString, token
<1>10. CASE Unterminated
  <2>1. ASSUME AdvanceTo(current + 1), current + 1 = Len(source)
        PROVE  Moved
    <3>1. current + 1 \in current..Len(source)
      BY <1>1, <2>1
    <3> QED BY <2>1, <3>1, AdvanceTypes
  <2>2. Moved
    BY <1>0, <1>1, <1>10, <2>1 DEF Unterminated, place, Moved
  <2> QED BY <1>10, <2>2, <1>0, SkimKeeps DEF Moved, Unterminated, Fail, Errors, token
<1>11. CASE UnsupportedEscape
  <2>0. current + 1 < Len(source)
    BY <1>11 DEF UnsupportedEscape
  <2>1. current + 2 \in current..Len(source) /\ current + 2 \in 0..Len(source)
    BY <1>1, <2>0
  <2>2. ASSUME AdvanceTo(current + 2)
        PROVE  Moved
    BY <2>1, <2>2, AdvanceTypes
  <2>3. ASSUME current' = current + 2, line' = line + 1, column' = 1 PROVE Moved
    BY <1>0, <2>1, <2>3 DEF Moved
  <2>4. Moved
    BY <1>11, <2>2, <2>3 DEF UnsupportedEscape
  <2> QED BY <1>11, <2>4, <1>0, SkimKeeps DEF Moved, UnsupportedEscape, Fail, Errors, token
<1> QED BY <1>3, <1>4, <1>5, <1>6, <1>7, <1>8, <1>9, <1>10, <1>11

\* A token that begins here, or began where the string being read did.
LEMMA TokenTypes ==
  ASSUME IInv, NEW type \in TokenType, NEW to \in 0..Len(source)
  PROVE  /\ [type |-> type, from |-> current, to |-> to, line |-> line, column |-> column] \in Token
         /\ [type |-> type, from |-> start, to |-> to,
             line |-> token_line, column |-> token_column] \in Token
BY CurrentTypes DEF Token

LEMMA ReadTokenKeeps ==
  ASSUME IInv, InLine, NEW type \in TokenType \ {"Indent", "Dedent"},
         NEW p \in current..Len(source), ReadToken(type, p)
  PROVE  IInv'
<1>1. Len(source) \in Nat /\ current \in 0..Len(source)
  BY CurrentTypes
<1>2. p \in 0..Len(source) /\ Moved
  BY <1>1, AdvanceTypes DEF ReadToken
<1> DEFINE t == [type |-> type, from |-> current, to |-> p, line |-> line, column |-> column]
<1>3. t \in Token /\ t.type \notin {"Indent", "Dedent"} /\ tokens' = Append(tokens, t)
  BY <1>2, TokenTypes DEF ReadToken, Read
<1>4. /\ start' \in 0..Len(source) /\ token_line' \in Nat \ {0} /\ token_column' \in Nat \ {0}
      /\ at_line_start' \in BOOLEAN /\ quote' \in {NoQuote, "quote", "apostrophe"}
  BY CurrentTypes DEF ReadToken, Begin
<1>5. UNCHANGED <<source, indentation, status>> /\ status = "scanning"
  BY DEF ReadToken, InLine
<1> HIDE DEF t
<1> QED BY <1>2, <1>3, <1>4, <1>5, ReadKeeps DEF Moved

LEMMA ReadStep ==
  ASSUME IInv, EndLine \/ ScanIdentifier \/ ScanNumber \/ ScanSymbol \/ StringEnd
  PROVE  IInv'
<1>1. Len(source) \in Nat /\ current \in 0..Len(source)
  BY CurrentTypes
<1>2. ASSUME NEW p \in current..Len(source), NEW classes
      PROVE  EndOfRun(classes, p) \in p..Len(source) /\ EndOfRun(classes, p) \in current..Len(source)
  <2>1. p \in 0..Len(source)
    BY <1>1
  <2>2. EndOfRun(classes, p) \in p..Len(source)
    BY <1>1, <2>1, RunEnds
  <2> QED BY <1>1, <2>2
<1>3. CASE EndLine
  <2>1. current + 1 \in 0..Len(source)
    BY <1>3, PeekIsInside DEF EndLine
  <2> DEFINE t == [type |-> "Newline", from |-> current, to |-> current + 1,
                   line |-> line, column |-> column]
  <2>2. t \in Token /\ t.type \notin {"Indent", "Dedent"} /\ tokens' = Append(tokens, t)
    BY <1>3, <2>1, TokenTypes DEF EndLine, Read, TokenType
  <2>3. Moved
    BY <1>3, <2>1, CurrentTypes DEF EndLine, AdvanceLine, Moved
  <2>4. /\ start' \in 0..Len(source) /\ token_line' \in Nat \ {0} /\ token_column' \in Nat \ {0}
        /\ at_line_start' \in BOOLEAN /\ quote' \in {NoQuote, "quote", "apostrophe"}
    BY <1>3, CurrentTypes DEF EndLine, Begin
  <2>5. UNCHANGED <<source, indentation, status>> /\ status = "scanning"
    BY <1>3 DEF EndLine, InLine
  <2> HIDE DEF t
  <2> QED BY <2>2, <2>3, <2>4, <2>5, ReadKeeps DEF Moved
<1>4. CASE ScanIdentifier
  <2>1. EndOfRun({"letter", "digit"}, current) \in current..Len(source)
    BY <1>1, <1>2
  <2> QED BY <1>4, <2>1, ReadTokenKeeps DEF ScanIdentifier, TokenType
<1>5. CASE ScanNumber
  <2> DEFINE dot == EndOfRun({"digit"}, current)
             fraction == EndOfRun({"digit"}, dot + 1)
             isFloat == dot + 1 < Len(source) /\ source[dot + 1] = "dot" /\ source[dot + 2] = "digit"
  <2>1. dot \in current..Len(source)
    BY <1>1, <1>2
  <2>2. ASSUME dot + 1 < Len(source) PROVE fraction \in current..Len(source)
    <3> HIDE DEF dot
    <3>1. dot + 1 \in current..Len(source)
      BY <1>1, <2>1, <2>2
    <3> QED BY <1>2, <3>1
  <2> DEFINE p == IF isFloat THEN fraction ELSE dot
  <2>3. p \in current..Len(source)
    BY <2>1, <2>2
  <2>4. InLine /\ ReadToken("Number", p)
    BY <1>5 DEF ScanNumber
  <2> HIDE DEF p
  <2> QED BY <2>3, <2>4, ReadTokenKeeps DEF TokenType
<1>6. CASE ScanSymbol
  <2>1. PICK p \in current..Len(source) : ReadToken("Symbol", p)
    <3>1. ASSUME NEW classes, PeekIs(classes) PROVE current + 1 \in current..Len(source)
      BY <3>1, PeekIsInside
    <3>2. ASSUME current + 1 < Len(source) PROVE current + 2 \in current..Len(source)
      BY <1>1, <3>2
    <3> QED BY <1>6, <3>1, <3>2 DEF ScanSymbol
  <2>2. InLine
    BY <1>6 DEF ScanSymbol
  <2> QED BY <2>1, <2>2, ReadTokenKeeps DEF TokenType
<1>7. CASE StringEnd
  <2>1. current + 1 \in 0..Len(source) /\ current + 1 \in current..Len(source)
    BY <1>7, PeekIsInside DEF StringEnd
  <2> DEFINE t == [type |-> "String", from |-> start, to |-> current + 1,
                   line |-> token_line, column |-> token_column]
  <2>2. t \in Token /\ t.type \notin {"Indent", "Dedent"} /\ tokens' = Append(tokens, t)
    BY <1>7, <2>1, TokenTypes DEF StringEnd, TokenType
  <2>3. Moved
    BY <1>7, <2>1, AdvanceTypes DEF StringEnd
  <2>4. /\ start' \in 0..Len(source) /\ token_line' \in Nat \ {0} /\ token_column' \in Nat \ {0}
        /\ at_line_start' \in BOOLEAN /\ quote' \in {NoQuote, "quote", "apostrophe"}
    BY <1>7, CurrentTypes DEF StringEnd, token
  <2>5. UNCHANGED <<source, indentation, status>> /\ status = "scanning"
    BY <1>7 DEF StringEnd, InString
  <2> HIDE DEF t
  <2> QED BY <2>2, <2>3, <2>4, <2>5, ReadKeeps DEF Moved
<1> QED BY <1>3, <1>4, <1>5, <1>6, <1>7

-----------------------------------------------------------------------------
(* The steps that open and close blocks. *)

LEMMA MarkType ==
  ASSUME IInv, NEW type \in TokenType, NEW c \in Nat \ {0}
  PROVE  Mark(type, c) \in Token /\ Mark(type, c).type = type
BY CurrentTypes DEF Mark, Token

Dedents(n) == [i \in 1..n |-> Mark("Dedent", 1)]

LEMMA DedentsType ==
  ASSUME IInv, NEW n \in Nat
  PROVE  /\ Dedents(n) \in Seq(Token)
         /\ Len(Dedents(n)) = n
         /\ \A i \in 1..Len(Dedents(n)) : Dedents(n)[i].type = "Dedent"
<1>1. Mark("Dedent", 1) \in Token /\ Mark("Dedent", 1).type = "Dedent"
  BY MarkType DEF TokenType
<1> DEFINE dedent == Mark("Dedent", 1)
<1> HIDE DEF dedent
<1>2. Dedents(n) = [i \in 1..n |-> dedent] /\ dedent \in Token /\ dedent.type = "Dedent"
  BY <1>1 DEF Dedents, dedent
<1>3. [i \in 1..n |-> dedent] \in Seq(Token) /\ Len([i \in 1..n |-> dedent]) = n
  BY <1>2, IsASeq, LenProperties
<1> QED BY <1>2, <1>3

\* A wider line opens a block in the innermost.
LEMMA IndentStep ==
  ASSUME IInv, NEW width \in Nat, width > indentation[Len(indentation)],
         indentation' = Append(indentation, width),
         tokens' = Append(tokens, Mark("Indent", 1))
  PROVE  /\ indentation' \in Seq(Nat) /\ tokens' \in Seq(Token)
         /\ Ascends' /\ Pairs(tokens', Len(indentation') - 1)
<1> DEFINE n == Len(indentation)
<1>1. /\ indentation \in Seq(Nat) /\ tokens \in Seq(Token) /\ n \in Nat \ {0} /\ n - 1 \in Nat
      /\ \A i \in 1..n : indentation[i] \in Nat
  BY Lengths
<1>2. /\ indentation' \in Seq(Nat) /\ Len(indentation') = n + 1
      /\ \A i \in 1..n : indentation'[i] = indentation[i]
      /\ indentation'[n + 1] = width
  BY <1>1, AppendProperties
<1>3. Mark("Indent", 1) \in Token /\ Mark("Indent", 1).type = "Indent"
  BY MarkType DEF TokenType
<1>4. tokens' \in Seq(Token)
  BY <1>1, <1>3, AppendProperties
<1>5. Pairs(tokens', Len(indentation') - 1)
  <2> DEFINE open == n - 1
             indent == Mark("Indent", 1)
  <2>1. Pairs(tokens, open) /\ open \in Nat
    BY <1>1 DEF IInv, Blocks
  <2>2. Len(indentation') - 1 = open + 1
    BY <1>1, <1>2
  <2>3. tokens' = Append(tokens, indent) /\ indent \in Token /\ indent.type = "Indent"
    BY <1>3
  <2> HIDE DEF open, indent
  <2>4. Pairs(Append(tokens, indent), open + 1)
    BY <1>1, <2>1, <2>3, PairsAppend
  <2> QED BY <2>2, <2>3, <2>4
<1>6. Ascends'
  <2>1. Ascends
    BY DEF IInv, Blocks
  <2> HIDE DEF n
  <2>2. indentation' # <<>> /\ indentation'[1] = 0
    BY <1>1, <1>2, <2>1, EmptySeq DEF Ascends
  <2>3. ASSUME NEW i \in 1..(n + 1), NEW j \in 1..(n + 1), i < j
        PROVE  indentation'[i] < indentation'[j]
    <3>1. i \in 1..n /\ n \in 1..n
      BY <1>1, <2>3
    <3>2. CASE j \in 1..n
      BY <1>2, <2>1, <2>3, <3>1, <3>2 DEF Ascends, n
    <3>3. CASE j = n + 1
      <4>1. i = n \/ indentation[i] < indentation[n]
        BY <1>1, <2>1, <3>1 DEF Ascends, n
      <4>2. indentation[i] \in Nat /\ indentation[n] \in Nat /\ indentation[n] < width
        BY <1>1, <3>1 DEF n
      <4>3. indentation[i] < width
        BY <4>1, <4>2
      <4> QED BY <1>2, <3>1, <3>3, <4>3
    <3>4. j \in 1..n \/ j = n + 1
      BY <1>1, <2>3
    <3> QED BY <3>2, <3>3, <3>4
  <2> QED BY <1>2, <2>2, <2>3 DEF Ascends
<1> QED BY <1>2, <1>4, <1>5, <1>6

\* Another line closes the blocks that are wider.
LEMMA DedentStep ==
  ASSUME IInv, NEW depth \in 1..Len(indentation),
         indentation' = SubSeq(indentation, 1, depth),
         tokens' = tokens \o Dedents(Len(indentation) - depth)
  PROVE  /\ indentation' \in Seq(Nat) /\ tokens' \in Seq(Token)
         /\ Ascends' /\ Pairs(tokens', Len(indentation') - 1)
<1> DEFINE n == Len(indentation)
           closed == n - depth
<1>1. /\ indentation \in Seq(Nat) /\ tokens \in Seq(Token) /\ n \in Nat \ {0} /\ n - 1 \in Nat
  BY Lengths
<1>2. /\ indentation' \in Seq(Nat) /\ Len(indentation') = depth
      /\ \A i \in 1..depth : indentation'[i] = indentation[i]
  <2>1. 1 \in 1..(n + 1) /\ depth \in 1..n
    BY <1>1
  <2> QED BY <1>1, <2>1, SubSeqProperties
<1>3. closed \in Nat /\ closed <= n - 1 /\ (n - 1) - closed = depth - 1
  BY <1>1
<1> HIDE DEF closed
<1>4. /\ Dedents(closed) \in Seq(Token) /\ Len(Dedents(closed)) = closed
      /\ \A i \in 1..Len(Dedents(closed)) : Dedents(closed)[i].type = "Dedent"
  BY <1>3, DedentsType
<1>5. tokens' = tokens \o Dedents(closed)
  BY DEF closed
<1>6. tokens' \in Seq(Token)
  BY <1>1, <1>4, <1>5, ConcatProperties
<1>7. Pairs(tokens', Len(indentation') - 1)
  <2> DEFINE open == n - 1
             dedents == Dedents(closed)
  <2>1. Pairs(tokens, open) /\ open \in Nat /\ closed <= open /\ open - closed = depth - 1
    BY <1>1, <1>3 DEF IInv, Blocks
  <2>2. /\ dedents \in Seq(Token) /\ Len(dedents) = closed
        /\ \A i \in 1..Len(dedents) : dedents[i].type = "Dedent"
    BY <1>4
  <2> HIDE DEF open, dedents
  <2>3. Pairs(tokens \o dedents, open - Len(dedents))
    BY <1>1, <2>1, <2>2, PairsConcat
  <2> QED BY <1>2, <1>5, <2>1, <2>2, <2>3 DEF dedents
<1>8. Ascends'
  <2>1. Ascends /\ depth \in 1..n
    BY DEF IInv, Blocks
  <2> HIDE DEF n
  <2>2. 1 \in 1..depth /\ depth # 0
    BY <1>1, <2>1
  <2>3. indentation' # <<>> /\ indentation'[1] = 0
    BY <1>2, <2>2, <2>1, EmptySeq DEF Ascends
  <2>4. ASSUME NEW i \in 1..depth, NEW j \in 1..depth, i < j
        PROVE  indentation'[i] < indentation'[j]
    <3>1. i \in 1..n /\ j \in 1..n
      BY <1>1, <2>1
    <3> QED BY <1>2, <2>1, <2>4, <3>1 DEF Ascends, n
  <2> QED BY <1>2, <2>3, <2>4 DEF Ascends
<1> QED BY <1>2, <1>6, <1>7, <1>8

LEMMA ScanIndentationStep ==
  ASSUME IInv, ScanIndentation
  PROVE  IInv'
<1> DEFINE depth == Cardinality(Enclosing(Width))
<1>1. Len(source) \in Nat /\ current \in 0..Len(source)
  BY CurrentTypes
<1>2. Content \in current..Len(source)
  BY <1>1, RunEnds DEF Content
<1>3. Width \in Nat /\ Moved
  <2>1. AdvanceTo(Content)
    BY DEF ScanIndentation
  <2>2. Width \in Nat
    BY <1>1, <1>2 DEF Width
  <2> QED BY <1>2, <2>1, <2>2, AdvanceTypes
<1>4. depth \in 1..Len(indentation)
  BY <1>3, Lengths, EnclosingIsPrefix DEF IInv, Blocks
<1>5. /\ indentation' \in Seq(Nat) /\ tokens' \in Seq(Token)
      /\ Ascends' /\ Pairs(tokens', Len(indentation') - 1)
  <2>1. CASE Width > indentation[Len(indentation)]
    <3>1. indentation' = Append(indentation, Width) /\ tokens' = Append(tokens, Mark("Indent", 1))
      BY <2>1 DEF ScanIndentation
    <3> QED BY <1>3, <2>1, <3>1, IndentStep
  <2>2. CASE ~(Width > indentation[Len(indentation)])
    <3>1. /\ indentation' = SubSeq(indentation, 1, depth)
          /\ tokens' = tokens \o Dedents(Len(indentation) - depth)
      BY <2>2 DEF ScanIndentation, Dedents
    <3> HIDE DEF depth
    <3> QED BY <1>4, <3>1, DedentStep
  <2> QED BY <2>1, <2>2
<1>6. /\ UNCHANGED <<source, token, quote>>
      /\ at_line_start' \in BOOLEAN
      /\ status' \in {"scanning", "inconsistent indentation"}
  BY DEF ScanIndentation, BeginsContent, LineStarts
<1>7. TypeOK'
  BY <1>3, <1>5, <1>6 DEF IInv, TypeOK, Token, Moved, token, Errors
<1>8. Blocks'
  BY <1>5, <1>6 DEF Blocks
<1> QED BY <1>7, <1>8 DEF IInv

\* At the end of the text the last line and all blocks end.
LEMMA FinishStep ==
  ASSUME IInv, Finish
  PROVE  IInv'
<1> DEFINE newline == IF tokens # <<>> /\ tokens[Len(tokens)].type # "Newline"
                      THEN <<Mark("Newline", column)>> ELSE <<>>
           open == Len(indentation) - 1
           dedents == Dedents(open)
           end == <<Mark("EndOfFile", column)>>
           first == tokens \o newline
           second == first \o dedents
<1>1. tokens \in Seq(Token) /\ open \in Nat /\ column \in Nat \ {0}
  BY Lengths, CurrentTypes
<1>2. tokens' = second \o end
  BY DEF Finish, Dedents
<1>3. newline \in Seq(Token) /\ \A i \in 1..Len(newline) : newline[i].type = "Newline"
  <2>1. Mark("Newline", column) \in Token /\ Mark("Newline", column).type = "Newline"
    BY <1>1, MarkType DEF TokenType
  <2> QED BY <2>1
<1>4. /\ dedents \in Seq(Token) /\ Len(dedents) = open
      /\ \A i \in 1..Len(dedents) : dedents[i].type = "Dedent"
  BY <1>1, DedentsType
<1>5. end \in Seq(Token) /\ \A i \in 1..Len(end) : end[i].type = "EndOfFile"
  <2>1. Mark("EndOfFile", column) \in Token /\ Mark("EndOfFile", column).type = "EndOfFile"
    BY <1>1, MarkType DEF TokenType
  <2> QED BY <2>1
<1>6. Pairs(tokens, open)
  BY DEF IInv, Blocks
<1> HIDE DEF newline, open, dedents, end
<1>7. first \in Seq(Token) /\ Pairs(first, open)
  BY <1>1, <1>3, <1>6, PairsConcat, ConcatProperties
<1> HIDE DEF first
<1>8. second \in Seq(Token) /\ Pairs(second, 0)
  <2>1. open - Len(dedents) = 0 /\ Len(dedents) <= open
    BY <1>1, <1>4
  <2>2. second \in Seq(Token) /\ Pairs(second, open - Len(dedents))
    BY <1>1, <1>4, <1>7, <2>1, PairsConcat, ConcatProperties
  <2> QED BY <2>1, <2>2
<1> HIDE DEF second
<1>9. tokens' \in Seq(Token) /\ Pairs(tokens', 0)
  <2>1. 0 \in Nat
    OBVIOUS
  <2> QED BY <1>2, <1>5, <1>8, <2>1, PairsConcat, ConcatProperties
<1>10. /\ UNCHANGED <<source, place, token, at_line_start, quote>>
       /\ indentation' = <<0>> /\ status' = "done"
  BY DEF Finish
<1>11. /\ indentation' \in Seq(Nat) /\ Len(indentation') = 1 /\ Len(indentation') - 1 = 0
       /\ Ascends'
  BY <1>10 DEF Ascends
<1>12. TypeOK'
  BY <1>9, <1>10, <1>11 DEF IInv, TypeOK, Token, place, token
<1>13. Blocks'
  BY <1>9, <1>11 DEF Blocks
<1> QED BY <1>12, <1>13 DEF IInv

-----------------------------------------------------------------------------
(* The specification. *)

LEMMA InitInv == Init => IInv
<1> SUFFICES ASSUME Init PROVE IInv
  OBVIOUS
<1>1. source \in Seq(CharacterClass) /\ Len(source) \in Nat
  BY LexerAssumption DEF Init
<1>2. TypeOK
  BY <1>1 DEF Init, TypeOK
<1>3. Pairs(tokens, 0)
  <2>1. DepthIn(<<>>, 0) = 0
    BY CountOfNone DEF DepthIn
  <2> QED BY <2>1 DEF Init, Pairs
<1>4. Len(indentation) - 1 = 0 /\ Ascends
  BY DEF Init, Ascends
<1> QED BY <1>2, <1>3, <1>4 DEF IInv, Blocks, Init

LEMMA StepInv == IInv /\ [Next]_vars => IInv'
<1> SUFFICES ASSUME IInv, [Next]_vars PROVE IInv'
  OBVIOUS
<1>1. CASE UNCHANGED vars
  BY <1>1 DEF vars, IInv, TypeOK, Blocks, Ascends, Pairs, DepthIn, CountIn
<1>2. CASE Next
  BY <1>2, SkimStep, ReadStep, ScanIndentationStep, FinishStep DEF Next
<1> QED BY <1>1, <1>2

LEMMA SpecInv == Spec => []IInv
BY InitInv, StepInv, PTL DEF Spec

\* Every variable has its type: no scan of the lexer runs past the end of the
\* text (peek(), peek_next() and match(), lexer.cpp:110-131), whatever the text is.
THEOREM LexerTypes == Spec => []TypeOK
<1>1. IInv => TypeOK
  BY DEF IInv
<1> QED BY SpecInv, <1>1, PTL

\* In every text the indents and dedents pair up: none closes a block that is
\* not open, the open ones are those on indentation_, each wider than the one
\* around it, and at the end all are closed (lexer.cpp:99-111, 133-153).
THEOREM BlocksArePaired == Spec => []BlocksPair
<1>1. IInv => BlocksPair
  <2> SUFFICES ASSUME IInv PROVE BlocksPair
    OBVIOUS
  <2>1. \A k : Depth(k) = DepthIn(tokens, k)
    BY DEF Depth, Count, DepthIn, CountIn
  <2>2. \A i \in 2..Len(indentation) : indentation[i - 1] < indentation[i]
    <3> SUFFICES ASSUME NEW i \in 2..Len(indentation) PROVE indentation[i - 1] < indentation[i]
      OBVIOUS
    <3>1. i - 1 \in 1..Len(indentation) /\ i \in 1..Len(indentation) /\ i - 1 < i
      BY Lengths
    <3> QED BY <3>1 DEF IInv, Blocks, Ascends
  <2>3. Pairs(tokens, Len(indentation) - 1) /\ Ascends /\ (status = "done" => Len(indentation) = 1)
    BY DEF IInv, Blocks
  <2> QED BY <2>1, <2>2, <2>3 DEF BlocksPair, Pairs, Ascends
<1> QED BY SpecInv, <1>1, PTL

-----------------------------------------------------------------------------
(* What the parser relies on. *)

\* Which types of tokens stand next to each other.
Follows(a, b) ==
  /\ b = "Indent" => a = "Newline"
  /\ b = "Dedent" => a \in {"Newline", "Dedent"}
Ordered(s) == \A i \in 1..(Len(s) - 1) : Follows(s[i].type, s[i + 1].type)
Unended(s) == \A i \in 1..Len(s) : s[i].type # "EndOfFile"
LineEnds(s) == Len(s) # 0 => s[Len(s)].type = "Newline"

\* After the last line only its blocks are closed.
Complete(s) ==
  \E m \in 0..(Len(s) - 1) :
    /\ m # 0 => s[m].type = "Newline"
    /\ \A i \in (m + 1)..(Len(s) - 1) : s[i].type = "Dedent"
    /\ \A i \in 1..(Len(s) - 1) : s[i].type # "EndOfFile"
    /\ s[Len(s)].type = "EndOfFile"

\* A line begins after a Newline, and no string goes on into the next line.
Lines ==
  /\ Ordered(tokens)
  /\ status # "done" => Unended(tokens)
  /\ status = "done" => Complete(tokens)
  /\ status = "scanning" /\ at_line_start => LineEnds(tokens)
  /\ quote # NoQuote => ~at_line_start

\* The places of a concatenation.
LEMMA Concat ==
  ASSUME NEW T, NEW s \in Seq(T), NEW t \in Seq(T)
  PROVE  /\ s \o t \in Seq(T) /\ Len(s) \in Nat /\ Len(t) \in Nat
         /\ Len(s \o t) = Len(s) + Len(t)
         /\ \A i \in 1..Len(s) : (s \o t)[i] = s[i]
         /\ \A i \in 1..Len(t) : (s \o t)[Len(s) + i] = t[i]
BY ConcatProperties

LEMMA OrderedConcat ==
  ASSUME NEW T, NEW s \in Seq(T), NEW t \in Seq(T), NEW run,
         \A i \in 1..Len(t) : t[i].type = run,
         Ordered(s), Len(t) > 1 => Follows(run, run),
         Len(s) # 0 => Follows(s[Len(s)].type, run)
  PROVE  /\ Ordered(s \o t)
         /\ run # "EndOfFile" /\ Unended(s) => Unended(s \o t)
<1> DEFINE m == Len(s)
           n == Len(t)
           u == s \o t
<1>1. /\ m \in Nat /\ n \in Nat /\ Len(u) = m + n
      /\ \A i \in 1..m : u[i] = s[i]
      /\ \A i \in 1..n : u[m + i] = t[i]
  BY ConcatProperties
<1>2. \A i \in 1..n : t[i].type = run
  OBVIOUS
<1>3. \A i \in 1..(m - 1) : Follows(s[i].type, s[i + 1].type)
  BY DEF Ordered
<1>4. (m # 0 => Follows(s[m].type, run)) /\ (n > 1 => Follows(run, run))
  OBVIOUS
<1> HIDE DEF m, n, u
<1>5. \A i \in (m + 1)..(m + n) : u[i].type = run
  <2> SUFFICES ASSUME NEW i \in (m + 1)..(m + n) PROVE u[i].type = run
    OBVIOUS
  <2>1. i - m \in 1..n /\ m + (i - m) = i
    BY <1>1
  <2>2. u[i] = t[i - m]
    BY <1>1, <2>1
  <2> QED BY <1>2, <2>1, <2>2
<1>6. ASSUME NEW i \in 1..(m + n - 1) PROVE Follows(u[i].type, u[i + 1].type)
  <2>1. CASE i < m
    <3>1. i \in 1..m /\ i + 1 \in 1..m /\ i \in 1..(m - 1)
      BY <1>1, <2>1
    <3> QED BY <1>1, <1>3, <3>1
  <2>2. CASE i = m
    <3>1. m \in 1..m /\ m # 0 /\ i + 1 \in (m + 1)..(m + n)
      BY <1>1, <2>2
    <3>2. u[i] = s[m] /\ u[i + 1].type = run
      BY <1>1, <1>5, <2>2, <3>1
    <3> QED BY <1>4, <3>1, <3>2
  <2>3. CASE i > m
    <3>1. i \in (m + 1)..(m + n) /\ i + 1 \in (m + 1)..(m + n)
      BY <1>1, <2>3
    <3>2. n > 1
      BY <1>1, <2>3
    <3> QED BY <1>4, <1>5, <3>1, <3>2
  <2> QED BY <1>1, <2>1, <2>2, <2>3
<1>7. Ordered(u)
  BY <1>1, <1>6 DEF Ordered
<1>8. ASSUME run # "EndOfFile", Unended(s) PROVE Unended(u)
  <2>1. \A i \in 1..m : s[i].type # "EndOfFile"
    BY <1>8 DEF Unended, m
  <2> SUFFICES ASSUME NEW i \in 1..(m + n) PROVE u[i].type # "EndOfFile"
    BY <1>1 DEF Unended
  <2>2. i \in 1..m \/ i \in (m + 1)..(m + n)
    BY <1>1
  <2> QED BY <1>1, <1>5, <1>8, <2>1, <2>2
<1> QED BY <1>7, <1>8 DEF u

\* A single token.
LEMMA OrderedAppend ==
  ASSUME NEW T, NEW s \in Seq(T), NEW t \in T, Ordered(s), Unended(s),
         Len(s) # 0 => Follows(s[Len(s)].type, t.type), t.type # "EndOfFile"
  PROVE  /\ Ordered(Append(s, t)) /\ Unended(Append(s, t))
         /\ Append(s, t)[Len(Append(s, t))] = t
<1> DEFINE added == <<t>>
<1>1. added \in Seq(T) /\ Len(added) = 1 /\ \A i \in 1..Len(added) : added[i].type = t.type
  OBVIOUS
<1>2. Append(s, t) = s \o added
  BY AppendIsConcat
<1> HIDE DEF added
<1>3. Ordered(s \o added) /\ Unended(s \o added)
  BY <1>1, OrderedConcat
<1>4. Append(s, t)[Len(Append(s, t))] = t
  <2>1. Len(s) \in Nat /\ Len(Append(s, t)) = Len(s) + 1 /\ Append(s, t)[Len(s) + 1] = t
    BY AppendProperties
  <2> QED BY <2>1
<1> QED BY <1>2, <1>3, <1>4

\* Characters are passed, and no token or line is begun or ended.
LEMMA SkimLines ==
  ASSUME Lines, UNCHANGED <<tokens, at_line_start>>, status # "done", status' # "done",
         status' = "scanning" => status = "scanning",
         quote' # NoQuote => ~at_line_start
  PROVE  Lines'
BY DEF Lines

\* A token is read, or the end of a line.
LEMMA ReadLines ==
  ASSUME IInv, Lines, status = "scanning", status' = "scanning", NEW t \in Token,
         t.type \notin {"Indent", "Dedent", "EndOfFile"}, tokens' = Append(tokens, t),
         at_line_start' => t.type = "Newline", quote' = NoQuote
  PROVE  Lines'
<1>1. tokens \in Seq(Token)
  BY Lengths
<1>2. Ordered(tokens) /\ Unended(tokens)
  BY DEF Lines
<1>3. \A a : Follows(a, t.type)
  BY DEF Follows
<1>4. /\ Ordered(Append(tokens, t)) /\ Unended(Append(tokens, t))
      /\ Append(tokens, t)[Len(Append(tokens, t))] = t
  BY <1>1, <1>2, <1>3, OrderedAppend
<1>5. at_line_start' => LineEnds(Append(tokens, t))
  BY <1>4 DEF LineEnds
<1> QED BY <1>4, <1>5 DEF Lines

LEMMA SkimKeepsLines ==
  ASSUME Lines,
         TabError \/ EmptyLine \/ Skip \/ BeginsNothing \/ BeginString \/ StringCharacter
           \/ StringEscape \/ Unterminated \/ UnsupportedEscape
  PROVE  Lines'
<1>1. CASE TabError
  BY <1>1, SkimLines DEF TabError, Fail, LineStarts, Lines
<1>2. CASE EmptyLine
  BY <1>2, SkimLines DEF EmptyLine, LineStarts, Lines
<1>3. CASE Skip
  BY <1>3, SkimLines DEF Skip, InLine, Lines
<1>4. CASE BeginsNothing
  BY <1>4, SkimLines DEF BeginsNothing, InLine, Fail, Lines
<1>5. CASE BeginString
  BY <1>5, SkimLines DEF BeginString, InLine, Lines
<1>6. CASE StringCharacter
  BY <1>6, SkimLines DEF StringCharacter, InString, InStringUnchanged, Lines
<1>7. CASE StringEscape
  BY <1>7, SkimLines DEF StringEscape, InString, InStringUnchanged, Lines
<1>8. CASE Unterminated
  BY <1>8, SkimLines DEF Unterminated, InString, Fail, Lines
<1>9. CASE UnsupportedEscape
  BY <1>9, SkimLines DEF UnsupportedEscape, InString, Fail, Lines
<1> QED BY <1>1, <1>2, <1>3, <1>4, <1>5, <1>6, <1>7, <1>8, <1>9

LEMMA ReadKeepsLines ==
  ASSUME IInv, IInv', Lines, EndLine \/ ScanIdentifier \/ ScanNumber \/ ScanSymbol \/ StringEnd
  PROVE  Lines'
<1>1. source' = source
  BY DEF EndLine, ScanIdentifier, ScanNumber, ScanSymbol, StringEnd, ReadToken
<1>2. ASSUME NEW t, tokens' = Append(tokens, t) PROVE t \in Token
  BY <1>1, <1>2, AppendedIsToken
<1>4. CASE EndLine
  <2> DEFINE t == [type |-> "Newline", from |-> current, to |-> current + 1,
                   line |-> line, column |-> column]
  <2>1. tokens' = Append(tokens, t) /\ t.type = "Newline"
    BY <1>4 DEF EndLine, Read
  <2>2. t \in Token
    BY <1>2, <2>1
  <2>3. status = "scanning" /\ status' = "scanning" /\ quote' = NoQuote
    BY <1>4 DEF EndLine, InLine
  <2> HIDE DEF t
  <2> QED BY <2>1, <2>2, <2>3, ReadLines
<1>5. ASSUME InLine, NEW type \in {"Word", "Number", "Symbol"}, NEW p, ReadToken(type, p)
      PROVE  Lines'
  <2> DEFINE t == [type |-> type, from |-> current, to |-> p,
                   line |-> line, column |-> column]
  <2>1. tokens' = Append(tokens, t) /\ t.type \notin {"Indent", "Dedent", "EndOfFile"}
    BY <1>5 DEF ReadToken, Read
  <2>2. t \in Token
    BY <1>2, <2>1
  <2>3. /\ status = "scanning" /\ status' = "scanning" /\ quote' = NoQuote
        /\ ~at_line_start'
    BY <1>5 DEF ReadToken, InLine
  <2> HIDE DEF t
  <2> QED BY <2>1, <2>2, <2>3, ReadLines
<1>6. CASE ScanIdentifier
  BY <1>5, <1>6 DEF ScanIdentifier
<1>7. CASE ScanNumber
  BY <1>5, <1>7 DEF ScanNumber
<1>8. CASE ScanSymbol
  BY <1>5, <1>8 DEF ScanSymbol
<1>9. CASE StringEnd
  <2> DEFINE t == [type |-> "String", from |-> start, to |-> current + 1,
                   line |-> token_line, column |-> token_column]
  <2>1. tokens' = Append(tokens, t) /\ t.type \notin {"Indent", "Dedent", "EndOfFile"}
    BY <1>9 DEF StringEnd
  <2>2. t \in Token
    BY <1>2, <2>1
  <2>3. /\ status = "scanning" /\ status' = "scanning" /\ quote' = NoQuote
        /\ ~at_line_start'
    BY <1>9 DEF StringEnd, InString, Lines
  <2> HIDE DEF t
  <2> QED BY <2>1, <2>2, <2>3, ReadLines
<1> QED BY <1>4, <1>6, <1>7, <1>8, <1>9

LEMMA ScanIndentationKeepsLines ==
  ASSUME IInv, Lines, ScanIndentation
  PROVE  Lines'
<1> DEFINE closed == Len(indentation) - Cardinality(Enclosing(Width))
<1>1. /\ status = "scanning" /\ at_line_start /\ quote' = quote
      /\ status' = "scanning" => ~at_line_start'
      /\ status' # "done"
  BY DEF ScanIndentation, BeginsContent, LineStarts
<1>2. Ordered(tokens) /\ Unended(tokens) /\ LineEnds(tokens) /\ quote = NoQuote
  BY <1>1 DEF Lines
<1>3. tokens \in Seq(Token)
  BY Lengths
<1>4. ASSUME NEW type \in {"Indent", "Dedent"}
      PROVE  Len(tokens) # 0 => Follows(tokens[Len(tokens)].type, type)
  BY <1>2 DEF LineEnds, Follows
<1>5. Ordered(tokens') /\ Unended(tokens')
  <2>1. CASE Width > indentation[Len(indentation)]
    <3> DEFINE indent == Mark("Indent", 1)
    <3>1. indent \in Token /\ indent.type = "Indent"
      BY MarkType DEF TokenType
    <3>2. tokens' = Append(tokens, indent)
      BY <2>1 DEF ScanIndentation
    <3> HIDE DEF indent
    <3>3. Len(tokens) # 0 => Follows(tokens[Len(tokens)].type, indent.type)
      BY <1>4, <3>1
    <3> QED BY <1>2, <1>3, <3>1, <3>2, <3>3, OrderedAppend
  <2>2. CASE ~(Width > indentation[Len(indentation)])
    <3>1. tokens' = tokens \o Dedents(closed)
      BY <2>2 DEF ScanIndentation, Dedents
    <3>2. closed \in Nat
      <4>1. Width \in Nat
        <5>1. Len(source) \in Nat /\ current \in 0..Len(source)
          BY CurrentTypes
        <5>2. Content \in current..Len(source)
          BY <5>1, RunEnds DEF Content
        <5> QED BY <5>1, <5>2 DEF Width
      <4>2. Cardinality(Enclosing(Width)) \in 1..Len(indentation) /\ Len(indentation) \in Nat
        BY <4>1, Lengths, EnclosingIsPrefix DEF IInv, Blocks
      <4> QED BY <4>2
    <3> HIDE DEF closed
    <3> DEFINE dedents == Dedents(closed)
    <3>3. dedents \in Seq(Token) /\ \A i \in 1..Len(dedents) : dedents[i].type = "Dedent"
      BY <3>2, DedentsType
    <3> HIDE DEF dedents
    <3>4. Follows("Dedent", "Dedent") /\ "Dedent" # "EndOfFile"
      BY DEF Follows
    <3>5. Ordered(tokens \o dedents) /\ Unended(tokens \o dedents)
      BY <1>2, <1>3, <1>4, <3>3, <3>4, OrderedConcat
    <3> QED BY <3>1, <3>5 DEF dedents
  <2> QED BY <2>1, <2>2
<1> QED BY <1>1, <1>2, <1>5 DEF Lines

\* At the end of the text the last line and all blocks end.
LEMMA FinishKeepsLines ==
  ASSUME IInv, Lines, Finish
  PROVE  Lines'
<1> DEFINE newline == IF tokens # <<>> /\ tokens[Len(tokens)].type # "Newline"
                      THEN <<Mark("Newline", column)>> ELSE <<>>
           open == Len(indentation) - 1
           dedents == Dedents(open)
           end == <<Mark("EndOfFile", column)>>
           first == tokens \o newline
           second == first \o dedents
<1>1. tokens \in Seq(Token) /\ open \in Nat /\ column \in Nat \ {0}
  BY Lengths, CurrentTypes
<1>2. tokens' = second \o end
  BY DEF Finish, Dedents
<1>3. newline \in Seq(Token) /\ \A i \in 1..Len(newline) : newline[i].type = "Newline"
  <2>1. Mark("Newline", column) \in Token /\ Mark("Newline", column).type = "Newline"
    BY <1>1, MarkType DEF TokenType
  <2> QED BY <2>1
<1>4. /\ dedents \in Seq(Token) /\ Len(dedents) = open
      /\ \A i \in 1..Len(dedents) : dedents[i].type = "Dedent"
  BY <1>1, DedentsType
<1>5. /\ end \in Seq(Token) /\ Len(end) = 1 /\ \A i \in 1..Len(end) : end[i].type = "EndOfFile"
  <2>1. Mark("EndOfFile", column) \in Token /\ Mark("EndOfFile", column).type = "EndOfFile"
    BY <1>1, MarkType DEF TokenType
  <2> QED BY <2>1
<1>6. Ordered(tokens) /\ Unended(tokens)
  BY DEF Finish, Lines
<1>7. first \in Seq(Token) /\ LineEnds(first)
  <2>1. CASE tokens # <<>> /\ tokens[Len(tokens)].type # "Newline"
    <3> DEFINE last == Mark("Newline", column)
    <3>1. last \in Token /\ last.type = "Newline" /\ first = tokens \o <<last>>
      BY <1>1, <2>1, MarkType DEF TokenType
    <3> HIDE DEF first, last
    <3>2. first = Append(tokens, last)
      BY <1>1, <3>1, AppendIsConcat
    <3> QED BY <1>1, <3>1, <3>2, AppendProperties DEF LineEnds
  <2>2. CASE ~(tokens # <<>> /\ tokens[Len(tokens)].type # "Newline")
    <3>1. newline = <<>>
      BY <2>2
    <3>2. first = tokens
      BY <1>1, <3>1, ConcatEmptySeq
    <3>3. LineEnds(tokens)
      BY <1>1, <2>2 DEF LineEnds
    <3> HIDE DEF first
    <3> QED BY <1>1, <3>2, <3>3
  <2> QED BY <2>1, <2>2
<1>8. Ordered(first) /\ Unended(first)
  <2> DEFINE run == "Newline"
  <2>1. \A a : Follows(a, run)
    BY DEF Follows
  <2>2. run # "EndOfFile" /\ \A i \in 1..Len(newline) : newline[i].type = run
    BY <1>3
  <2> HIDE DEF newline, run
  <2> QED BY <1>1, <1>3, <1>6, <2>1, <2>2, OrderedConcat
<1> HIDE DEF newline, open, dedents, end, first
<1>9. second \in Seq(Token) /\ Ordered(second) /\ Unended(second)
  <2> DEFINE run == "Dedent"
  <2>1. Follows(run, run) /\ (Len(first) # 0 => Follows(first[Len(first)].type, run))
    BY <1>7 DEF Follows, LineEnds
  <2>2. run # "EndOfFile" /\ \A i \in 1..Len(dedents) : dedents[i].type = run
    BY <1>4
  <2> HIDE DEF run
  <2>3. Ordered(first \o dedents) /\ Unended(first \o dedents)
    BY <1>4, <1>7, <1>8, <2>1, <2>2, OrderedConcat
  <2> QED BY <1>4, <1>7, <2>3, ConcatProperties
<1>10. Ordered(second \o end)
  <2> DEFINE run == "EndOfFile"
  <2>1. \A a : Follows(a, run)
    BY DEF Follows
  <2>2. \A i \in 1..Len(end) : end[i].type = run
    BY <1>5
  <2> HIDE DEF run, second
  <2> QED BY <1>5, <1>9, <2>1, <2>2, OrderedConcat
<1>11. Complete(second \o end)
  <2> DEFINE m == Len(first)
             n == Len(dedents)
             all == second \o end
  <2>1. /\ m \in Nat /\ n \in Nat /\ Len(second) = m + n
        /\ \A i \in 1..m : second[i] = first[i]
        /\ \A i \in 1..n : second[m + i] = dedents[i]
    BY <1>4, <1>7, Concat
  <2> HIDE DEF second
  <2>2. /\ Len(all) = (m + n) + 1 /\ all[(m + n) + 1] = end[1]
        /\ \A i \in 1..(m + n) : all[i] = second[i]
    <3>0. second \in Seq(Token) /\ end \in Seq(Token)
      BY <1>5, <1>9
    <3>1. /\ Len(all) = Len(second) + Len(end)
          /\ \A i \in 1..Len(second) : all[i] = second[i]
          /\ \A i \in 1..Len(end) : all[Len(second) + i] = end[i]
      BY <3>0, Concat
    <3>2. Len(end) = 1 /\ 1 \in 1..Len(end)
      BY <1>5
    <3> HIDE DEF all, m, n
    <3> QED BY <2>1, <3>1, <3>2
  <2>3. end[1].type = "EndOfFile" /\ \A i \in 1..n : dedents[i].type = "Dedent"
    BY <1>4, <1>5
  <2>4. m # 0 => first[m].type = "Newline"
    BY <1>7 DEF LineEnds
  <2>5. \A i \in 1..(m + n) : second[i].type # "EndOfFile"
    BY <1>9, <2>1 DEF Unended
  <2> HIDE DEF m, n, all
  <2>6. m # 0 => all[m].type = "Newline"
    <3> SUFFICES ASSUME m # 0 PROVE all[m].type = "Newline"
      OBVIOUS
    <3>1. m \in 1..m /\ m \in 1..(m + n)
      BY <2>1
    <3> QED BY <2>1, <2>2, <2>4, <3>1
  <2>7. ASSUME NEW i \in (m + 1)..(m + n) PROVE all[i].type = "Dedent"
    <3>1. i - m \in 1..n /\ m + (i - m) = i /\ i \in 1..(m + n)
      BY <2>1
    <3>2. all[i] = dedents[i - m]
      BY <2>1, <2>2, <3>1
    <3> QED BY <2>3, <3>1, <3>2
  <2>8. m \in 0..(Len(all) - 1) /\ Len(all) - 1 = m + n
    BY <2>1, <2>2
  <2>9. Complete(all)
    BY <2>2, <2>3, <2>5, <2>6, <2>7, <2>8 DEF Complete
  <2> QED BY <2>9 DEF all
<1>12. status' = "done" /\ quote' = NoQuote
  BY DEF Finish
<1> HIDE DEF second
<1> QED BY <1>2, <1>10, <1>11, <1>12 DEF Lines

LEMMA InitLines == Init => Lines
BY DEF Init, Lines, Ordered, Unended, LineEnds

LEMMA StepLines == IInv /\ Lines /\ [Next]_vars => Lines'
<1> SUFFICES ASSUME IInv, Lines, [Next]_vars PROVE Lines'
  OBVIOUS
<1>1. CASE UNCHANGED vars
  BY <1>1 DEF vars, Lines
<1>2. CASE Next
  <2>1. IInv'
    BY <1>2, StepInv
  <2> QED BY <1>2, <2>1, SkimKeepsLines, ReadKeepsLines, ScanIndentationKeepsLines,
             FinishKeepsLines DEF Next
<1> QED BY <1>1, <1>2

\* The tokens of a text form lines.
LEMMA LinesForm ==
  ASSUME IInv, Lines, status = "done"
  PROVE  FormsLines([k \in DOMAIN tokens |-> tokens[k].type])
<1> DEFINE types == [k \in DOMAIN tokens |-> tokens[k].type]
           n == Len(tokens)
<1>1. /\ tokens \in Seq(Token) /\ n \in Nat /\ DOMAIN tokens = 1..n
      /\ \A i \in 1..n : tokens[i] \in Token
  BY Lengths, LenProperties, ElementOfSeq
<1>2. Len(types) = n /\ \A i \in 1..n : types[i] = tokens[i].type
  <2>1. types \in Seq(TokenType) /\ Len(types) = n
    BY <1>1 DEF Token
  <2> QED BY <1>1, <2>1
<1>3. /\ Ordered(tokens) /\ Complete(tokens) /\ Pairs(tokens, 0)
  <2>1. Len(indentation) - 1 = 0 /\ Pairs(tokens, Len(indentation) - 1)
    BY DEF IInv, Blocks
  <2> QED BY <2>1 DEF Lines
<1> HIDE DEF types
<1>4. ASSUME NEW k \in 0..n PROVE OpenBlocks(types, k) = DepthIn(tokens, k)
  <2>1. \A i \in 1..k : types[i] = tokens[i].type
    BY <1>1, <1>2
  <2>2. \A type : {i \in 1..k : types[i] = type} = {i \in 1..k : tokens[i].type = type}
    BY <2>1
  <2> QED BY <2>2 DEF OpenBlocks, DepthIn, CountIn
<1>5. (\A i \in 1..n : OpenBlocks(types, i) >= 0) /\ OpenBlocks(types, n) = 0
  <2>1. (\A i \in 1..n : DepthIn(tokens, i) >= 0) /\ DepthIn(tokens, n) = 0
    BY <1>1, <1>3 DEF Pairs
  <2>2. n \in 0..n /\ \A i \in 1..n : i \in 0..n
    BY <1>1
  <2> HIDE DEF n
  <2> QED BY <1>4, <2>1, <2>2
<1> HIDE DEF n
<1>6. PICK m \in 0..(n - 1) :
        /\ m # 0 => tokens[m].type = "Newline"
        /\ \A i \in (m + 1)..(n - 1) : tokens[i].type = "Dedent"
        /\ \A i \in 1..(n - 1) : tokens[i].type # "EndOfFile"
        /\ tokens[n].type = "EndOfFile"
  BY <1>3 DEF Complete, n
<1>7. n > 0
  BY <1>1, <1>6
<1>8. \A i \in 1..n : types[i] = "EndOfFile" <=> i = n
  <2> SUFFICES ASSUME NEW i \in 1..n PROVE (types[i] = "EndOfFile") <=> (i = n)
    OBVIOUS
  <2>1. i = n \/ i \in 1..(n - 1)
    BY <1>1
  <2> QED BY <1>1, <1>2, <1>6, <2>1
<1>9. ASSUME NEW i \in 1..(n - 1)
      PROVE  /\ Follows(types[i], types[i + 1])
             /\ i # 1 => Follows(types[i - 1], types[i])
  <2>1. i \in 1..n /\ i + 1 \in 1..n
    BY <1>1
  <2>2. Follows(types[i], types[i + 1])
    BY <1>2, <1>3, <2>1 DEF Ordered, n
  <2>3. ASSUME i # 1 PROVE Follows(types[i - 1], types[i])
    <3>1. i - 1 \in 1..(n - 1) /\ i - 1 \in 1..n /\ (i - 1) + 1 = i
      BY <1>1, <2>3
    <3>2. Follows(tokens[i - 1].type, tokens[(i - 1) + 1].type)
      BY <1>3, <3>1 DEF Ordered, n
    <3> QED BY <1>2, <2>1, <3>1, <3>2
  <2> QED BY <2>2, <2>3
<1>10. ASSUME NEW i \in 1..(n - 1), OnlyCloses(types, i + 1)
       PROVE  types[i] \in {"Newline", "Dedent"}
  <2>1. \A k \in (i + 1)..(n - 1) : types[k] = "Dedent"
    BY <1>2, <1>10 DEF OnlyCloses
  <2>2. i \in 1..n
    BY <1>1
  <2>3. CASE i > m
    <3>1. i \in (m + 1)..(n - 1)
      BY <1>1, <2>3
    <3> QED BY <1>2, <1>6, <2>2, <3>1
  <2>4. CASE i = m
    BY <1>2, <1>6, <2>2, <2>4
  <2>5. CASE i < m
    <3>1. m \in (i + 1)..(n - 1) /\ m \in 1..n /\ m # 0
      BY <1>1, <2>5
    <3>2. types[m] = "Dedent" /\ types[m] = "Newline"
      BY <1>2, <1>6, <2>1, <3>1
    <3> QED BY <3>2
  <2> QED BY <2>3, <2>4, <2>5, <1>1
<1> DEFINE StartsLine(i) == i = 1 \/ types[i - 1] = "Newline"
<1>11. ASSUME NEW i \in 1..(n - 1)
       PROVE  /\ types[i] = "Indent" => StartsLine(i) /\ types[i + 1] \notin {"Indent", "Dedent"}
              /\ types[i] = "Dedent" => /\ StartsLine(i) \/ types[i - 1] = "Dedent"
                                        /\ types[i + 1] # "Indent"
              /\ OnlyCloses(types, i + 1) => types[i] \in {"Newline", "Dedent"}
  <2>1. ASSUME types[i] = "Indent"
        PROVE  StartsLine(i) /\ types[i + 1] \notin {"Indent", "Dedent"}
    BY <1>9, <2>1 DEF Follows
  <2>2. ASSUME types[i] = "Dedent"
        PROVE  (StartsLine(i) \/ types[i - 1] = "Dedent") /\ types[i + 1] # "Indent"
    BY <1>9, <2>2 DEF Follows
  <2> QED BY <1>10, <2>1, <2>2
<1>12. FormsLines(types)
  BY <1>2, <1>5, <1>7, <1>8, <1>11 DEF FormsLines
<1> QED BY <1>12 DEF types

\* In every text every line of tokens ends with a Newline, blocks begin and end
\* between lines, and one EndOfFile ends it (lexer.cpp:99-111, 133-153), which is
\* all that the parser is assumed to be given.
THEOREM ParserMayRely == Spec => []ParserCanRely
<1>1. IInv /\ Lines => ParserCanRely
  BY LinesForm DEF ParserCanRely
<1>2. IInv /\ Lines /\ [Next]_vars => (IInv /\ Lines)'
  BY StepInv, StepLines
<1>3. Init => IInv /\ Lines
  BY InitInv, InitLines
<1> QED BY <1>1, <1>2, <1>3, PTL DEF Spec

-----------------------------------------------------------------------------
(* The places of the tokens. *)

Newlines(text, p) == {i \in 1..p : text[i] = "newline"}
LineBegin(text, p) == Max({0} \cup Newlines(text, p))
LineOf(text, p) == 1 + Cardinality(Newlines(text, p))
ColumnOf(text, p) == 1 + p - LineBegin(text, p)

\* No line ends between p and q.
OneLine(text, p, q) == \A i \in (p + 1)..q : text[i] # "newline"

\* The mirror image of LeastElement.
LEMMA GreatestElement ==
  ASSUME NEW n \in Nat, NEW T \in SUBSET (0..n), T # {}
  PROVE  \E greatest \in T : \A j \in T : greatest >= j
<1> DEFINE U == {i \in 0..n : n - i \in T}
<1>1. ASSUME NEW j \in T PROVE j \in 0..n /\ n - j \in U
  BY <1>1
<1>2. U \in SUBSET (0..n) /\ U # {}
  BY <1>1
<1>3. PICK least \in U : \A j \in U : least <= j
  <2> HIDE DEF U
  <2> QED BY <1>2, LeastElement
<1>4. least \in 0..n /\ n - least \in T
  OBVIOUS
<1>5. ASSUME NEW j \in T PROVE n - least >= j
  <2>1. least <= n - j /\ j \in 0..n
    BY <1>1, <1>3
  <2> QED BY <1>4, <2>1
<1> QED BY <1>4, <1>5

\* A line begins at the beginning of the text or after the last newline.
LEMMA LineBegins ==
  ASSUME NEW text, NEW p \in Nat
  PROVE  /\ LineBegin(text, p) \in 0..p
         /\ LineBegin(text, p) \in {0} \cup Newlines(text, p)
         /\ \A i \in Newlines(text, p) : i <= LineBegin(text, p)
<1> DEFINE T == {0} \cup Newlines(text, p)
<1>1. T \in SUBSET (0..p) /\ T # {}
  BY DEF Newlines
<1>2. \E greatest \in T : \A j \in T : greatest >= j
  <2> HIDE DEF T
  <2> QED BY <1>1, GreatestElement
<1>3. Max(T) \in T /\ \A j \in T : Max(T) >= j
  <2> HIDE DEF T
  <2> QED BY <1>2 DEF Max
<1>4. LineBegin(text, p) = Max(T)
  BY DEF LineBegin
<1>5. \A i \in Newlines(text, p) : i \in T /\ i \in 0..p
  BY <1>1
<1>6. LineBegin(text, p) \in {0} \cup Newlines(text, p)
  BY <1>3, <1>4
<1> HIDE DEF T
<1> QED BY <1>1, <1>3, <1>4, <1>5, <1>6

\* Within a line only the column grows.
LEMMA SameLine ==
  ASSUME NEW text, NEW p \in Nat, NEW q \in Nat, p <= q, OneLine(text, p, q)
  PROVE  /\ LineBegin(text, q) = LineBegin(text, p)
         /\ LineOf(text, q) = LineOf(text, p)
         /\ ColumnOf(text, q) = ColumnOf(text, p) + (q - p)
<1>1. Newlines(text, q) = Newlines(text, p)
  BY DEF Newlines, OneLine
<1>2. LineBegin(text, q) = LineBegin(text, p) /\ LineOf(text, q) = LineOf(text, p)
  BY <1>1 DEF LineBegin, LineOf
<1>3. LineBegin(text, p) \in 0..p
  BY LineBegins
<1> QED BY <1>2, <1>3 DEF ColumnOf

\* Behind a newline a line begins.
LEMMA NextLine ==
  ASSUME NEW text, NEW p \in Nat, text[p + 1] = "newline"
  PROVE  /\ LineBegin(text, p + 1) = p + 1
         /\ LineOf(text, p + 1) = LineOf(text, p) + 1
         /\ ColumnOf(text, p + 1) = 1
<1>1. Newlines(text, p + 1) = Newlines(text, p) \cup {p + 1} /\ p + 1 \notin Newlines(text, p)
  BY DEF Newlines
<1>2. IsFiniteSet(Newlines(text, p))
  <2>1. IsFiniteSet(1..p) /\ Newlines(text, p) \subseteq 1..p
    BY FS_Interval DEF Newlines
  <2> QED BY <2>1, FS_Subset
<1>3. Cardinality(Newlines(text, p + 1)) = Cardinality(Newlines(text, p)) + 1
  BY <1>1, <1>2, FS_AddElement
<1>4. Cardinality(Newlines(text, p)) \in Nat
  BY <1>2, FS_CardinalityType
<1>5. LineBegin(text, p + 1) \in 0..(p + 1) /\ p + 1 <= LineBegin(text, p + 1)
  <2>1. p + 1 \in Newlines(text, p + 1)
    BY <1>1
  <2> QED BY <2>1, LineBegins
<1>6. LineBegin(text, p + 1) = p + 1
  BY <1>5
<1>7. LineOf(text, p + 1) = LineOf(text, p) + 1
  BY <1>3, <1>4 DEF LineOf
<1> QED BY <1>6, <1>7 DEF ColumnOf

\* The beginning of a text.
LEMMA NoLine ==
  ASSUME NEW text
  PROVE  LineBegin(text, 0) = 0 /\ LineOf(text, 0) = 1 /\ ColumnOf(text, 0) = 1
<1>1. LineBegin(text, 0) \in 0..0
  BY LineBegins
<1>2. Newlines(text, 0) = {}
  BY DEF Newlines
<1>3. Cardinality(Newlines(text, 0)) = 0
  BY <1>2, FS_EmptySet
<1> QED BY <1>1, <1>3 DEF LineOf, ColumnOf

\* What a run consists of.
LEMMA RunHolds ==
  ASSUME Len(source) \in Nat, NEW classes, NEW p \in 0..Len(source),
         NEW i \in (p + 1)..EndOfRun(classes, p)
  PROVE  source[i] \in classes
<1> DEFINE ends == {j \in p..Len(source) : j = Len(source) \/ source[j + 1] \notin classes}
<1>1. ends \in SUBSET (0..Len(source)) /\ Len(source) \in ends
  OBVIOUS
<1>2. \E least \in ends : \A j \in ends : least <= j
  <2> HIDE DEF ends
  <2> QED BY <1>1, LeastElement
<1>3. \A j \in ends : Min(ends) <= j
  <2> HIDE DEF ends
  <2> QED BY <1>2 DEF Min
<1>4. EndOfRun(classes, p) = Min(ends) /\ EndOfRun(classes, p) \in p..Len(source)
  BY RunEnds DEF EndOfRun
<1>5. i - 1 \in p..Len(source) /\ (i - 1) + 1 = i /\ i - 1 # Len(source)
  BY <1>4
<1>6. i - 1 \notin ends
  <2> HIDE DEF ends
  <2> QED BY <1>3, <1>4, <1>5
<1> QED BY <1>5, <1>6

\* Characters of one line are passed, perhaps with its end.
Passes ==
  \/ UNCHANGED place
  \/ \E p \in current..Len(source) : OneLine(source, current, p) /\ AdvanceTo(p)
  \/ \E p \in current..Len(source) :
       /\ OneLine(source, current, p) /\ source[p + 1] = "newline"
       /\ current' = p + 1 /\ line' = line + 1 /\ column' = 1

\* A run without newlines is in one line.
LEMMA RunPasses ==
  ASSUME IInv, NEW p \in current..Len(source), OneLine(source, current, p),
         NEW classes, "newline" \notin classes
  PROVE  /\ EndOfRun(classes, p) \in current..Len(source)
         /\ EndOfRun(classes, p) \in p..Len(source)
         /\ OneLine(source, current, EndOfRun(classes, p))
<1> DEFINE e == EndOfRun(classes, p)
<1>1. Len(source) \in Nat /\ current \in 0..Len(source) /\ p \in 0..Len(source)
  BY CurrentTypes
<1>2. e \in p..Len(source)
  BY <1>1, RunEnds
<1>3. \A i \in (p + 1)..e : source[i] \in classes
  BY <1>1, RunHolds
<1> HIDE DEF e
<1>4. \A i \in (current + 1)..e : i \in (current + 1)..p \/ i \in (p + 1)..e
  BY <1>1, <1>2
<1>5. OneLine(source, current, e) /\ e \in current..Len(source)
  BY <1>1, <1>2, <1>3, <1>4 DEF OneLine
<1> QED BY <1>2, <1>5 DEF e

\* So is no character at all.
LEMMA NoCharacters ==
  ASSUME IInv
  PROVE  current \in current..Len(source) /\ OneLine(source, current, current)
BY CurrentTypes DEF OneLine

\* One character, or two.
LEMMA CharacterPasses ==
  ASSUME IInv, NEW p \in current..Len(source), OneLine(source, current, p),
         p < Len(source), source[p + 1] # "newline"
  PROVE  p + 1 \in current..Len(source) /\ OneLine(source, current, p + 1)
<1>1. Len(source) \in Nat /\ current \in 0..Len(source)
  BY CurrentTypes
<1>2. \A i \in (current + 1)..(p + 1) : i \in (current + 1)..p \/ i = p + 1
  BY <1>1
<1> QED BY <1>1, <1>2 DEF OneLine

\* So is a character that is looked at, and the next one if it is no newline.
LEMMA NextCharacterPasses ==
  ASSUME IInv, NEW classes, PeekIs(classes), "newline" \notin classes
  PROVE  /\ current + 1 \in current..Len(source) /\ OneLine(source, current, current + 1)
         /\ current + 1 < Len(source) /\ source[current + 2] # "newline" =>
              current + 2 \in current..Len(source) /\ OneLine(source, current, current + 2)
<1>1. Len(source) \in Nat /\ current \in 0..Len(source)
  BY CurrentTypes
<1>2. current < Len(source) /\ source[current + 1] # "newline"
  BY <1>1 DEF PeekIs, AtEnd, Peek
<1>3. current + 1 \in current..Len(source) /\ OneLine(source, current, current + 1)
  BY <1>2, NoCharacters, CharacterPasses
<1>4. (current + 1) + 1 = current + 2
  BY <1>1
<1> QED BY <1>3, <1>4, CharacterPasses

\* The steps that read no token.
LEMMA SkimPasses ==
  ASSUME IInv,
         TabError \/ EmptyLine \/ ScanIndentation \/ Skip \/ BeginsNothing \/ BeginString
           \/ StringCharacter \/ StringEscape \/ Unterminated \/ UnsupportedEscape
  PROVE  Passes
<1>1. Len(source) \in Nat /\ current \in 0..Len(source)
  BY CurrentTypes
<1>2. Content \in current..Len(source) /\ OneLine(source, current, Content)
  BY NoCharacters, RunPasses DEF Content
<1>3. ASSUME AdvanceTo(Content) PROVE Passes
  BY <1>2, <1>3 DEF Passes
<1>4. ASSUME NEW p \in current..Len(source), OneLine(source, current, p),
             AdvanceTo(EndOfRun(CharacterClass \ {"newline"}, p))
      PROVE  Passes
  BY <1>4, RunPasses DEF Passes
<1>5. ASSUME NEW classes, PeekIs(classes), "newline" \notin classes, AdvanceTo(current + 1)
      PROVE  Passes
  BY <1>5, NextCharacterPasses DEF Passes
<1>6. ASSUME PeekIs({"backslash"}), current + 1 < Len(source), source[current + 2] # "newline",
             AdvanceTo(current + 2)
      PROVE  Passes
  BY <1>6, NextCharacterPasses DEF Passes
<1>7. CASE TabError
  BY <1>3, <1>7 DEF TabError
<1>8. CASE EmptyLine
  <2>1. ASSUME ContentIs({"newline"}), current' = Content + 1, line' = line + 1, column' = 1
        PROVE  Passes
    BY <1>2, <2>1 DEF ContentIs, Passes
  <2> QED BY <1>2, <1>3, <1>4, <1>8, <2>1 DEF EmptyLine
<1>9. CASE ScanIndentation
  BY <1>3, <1>9 DEF ScanIndentation
<1>10. CASE Skip
  <2>1. ASSUME AdvanceTo(EndOfRun({"space", "tab", "return"}, current)) PROVE Passes
    BY <2>1, NoCharacters, RunPasses DEF Passes
  <2> QED BY <1>4, <1>10, <2>1, NoCharacters DEF Skip
<1>11. CASE BeginsNothing
  <2>1. AdvanceTo(current + 1) /\ (PeekIs({"other", "dot", "backslash"}) \/ PeekIs({"bang"}))
    BY <1>11 DEF BeginsNothing
  <2> QED BY <1>5, <2>1
<1>12. CASE BeginString
  <2>1. AdvanceTo(current + 1) /\ PeekIs({"quote", "apostrophe"})
    BY <1>12 DEF BeginString
  <2> QED BY <1>5, <2>1
<1>13. CASE StringCharacter
  <2>1. AdvanceTo(current + 1) /\ PeekIs(CharacterClass \ {quote, "newline", "backslash"})
    BY <1>13 DEF StringCharacter
  <2> QED BY <1>5, <2>1
<1>14. CASE StringEscape
  BY <1>6, <1>14 DEF StringEscape
<1>15. CASE Unterminated
  <2>1. UNCHANGED place \/ (PeekIs({"backslash"}) /\ AdvanceTo(current + 1))
    BY <1>15 DEF Unterminated
  <2>2. CASE UNCHANGED place
    BY <2>2 DEF Passes
  <2>3. CASE PeekIs({"backslash"}) /\ AdvanceTo(current + 1)
    BY <1>5, <2>3
  <2> QED BY <2>1, <2>2, <2>3
<1>16. CASE UnsupportedEscape
  <2>1. PeekIs({"backslash"}) /\ current + 1 < Len(source)
    BY <1>16 DEF UnsupportedEscape
  <2>2. CASE source[current + 2] = "newline"
    <3>1. current' = current + 2 /\ line' = line + 1 /\ column' = 1
      BY <1>16, <2>2 DEF UnsupportedEscape
    <3>2. current + 1 \in current..Len(source) /\ OneLine(source, current, current + 1)
      BY <2>1, NextCharacterPasses
    <3>3. (current + 1) + 1 = current + 2
      BY <1>1
    <3> QED BY <2>2, <3>1, <3>2, <3>3 DEF Passes
  <2>3. CASE source[current + 2] # "newline"
    <3>1. AdvanceTo(current + 2)
      BY <1>16, <2>3 DEF UnsupportedEscape
    <3> QED BY <1>6, <2>1, <2>3, <3>1
  <2> QED BY <2>2, <2>3
<1> QED BY <1>7, <1>8, <1>9, <1>10, <1>11, <1>12, <1>13, <1>14, <1>15, <1>16

\* The steps that read one.
LEMMA ReadPasses ==
  ASSUME IInv, EndLine \/ ScanIdentifier \/ ScanNumber \/ ScanSymbol \/ StringEnd
  PROVE  Passes
<1>1. Len(source) \in Nat /\ current \in 0..Len(source)
  BY CurrentTypes
<1>2. ASSUME NEW classes, PeekIs(classes), "newline" \notin classes, AdvanceTo(current + 1)
      PROVE  Passes
  BY <1>2, NextCharacterPasses DEF Passes
<1>3. ASSUME NEW classes, PeekIs(classes), "newline" \notin classes,
             current + 1 < Len(source), source[current + 2] = "equals", AdvanceTo(current + 2)
      PROVE  Passes
  <2>1. current + 2 \in current..Len(source) /\ OneLine(source, current, current + 2)
    BY <1>3, NextCharacterPasses
  <2> QED BY <1>3, <2>1 DEF Passes
<1>4. CASE EndLine
  <2>1. source[current + 1] = "newline"
    BY <1>4 DEF EndLine, PeekIs, Peek
  <2> QED BY <1>4, <2>1, NoCharacters DEF EndLine, AdvanceLine, Passes
<1>5. CASE ScanIdentifier
  <2>1. AdvanceTo(EndOfRun({"letter", "digit"}, current))
    BY <1>5 DEF ScanIdentifier, ReadToken
  <2> QED BY <2>1, NoCharacters, RunPasses DEF Passes
<1>6. CASE ScanNumber
  <2> DEFINE dot == EndOfRun({"digit"}, current)
             fraction == EndOfRun({"digit"}, dot + 1)
             isFloat == dot + 1 < Len(source) /\ source[dot + 1] = "dot" /\ source[dot + 2] = "digit"
  <2>1. dot \in current..Len(source) /\ OneLine(source, current, dot)
    BY NoCharacters, RunPasses
  <2>2. AdvanceTo(IF isFloat THEN fraction ELSE dot)
    BY <1>6 DEF ScanNumber, ReadToken
  <2>3. CASE isFloat
    <3>1. AdvanceTo(fraction)
      BY <2>2, <2>3
    <3>2. dot < Len(source) /\ source[dot + 1] # "newline"
      BY <1>1, <2>1, <2>3
    <3> HIDE DEF dot
    <3>3. dot + 1 \in current..Len(source) /\ OneLine(source, current, dot + 1)
      BY <2>1, <3>2, CharacterPasses
    <3>4. fraction \in current..Len(source) /\ OneLine(source, current, fraction)
      BY <3>3, RunPasses
    <3> HIDE DEF fraction
    <3> QED BY <3>1, <3>4 DEF Passes
  <2>4. CASE ~isFloat
    <3>1. AdvanceTo(dot)
      BY <2>2, <2>4
    <3> HIDE DEF dot
    <3> QED BY <2>1, <3>1 DEF Passes
  <2> QED BY <2>3, <2>4
<1>7. CASE ScanSymbol
  <2> DEFINE doubled == current + 1 < Len(source) /\ source[current + 2] = "equals"
  <2>1. \/ PeekIs({"symbol"}) /\ AdvanceTo(current + 1)
        \/ PeekIs({"equals", "angle"}) /\ AdvanceTo(IF doubled THEN current + 2 ELSE current + 1)
        \/ PeekIs({"bang"}) /\ doubled /\ AdvanceTo(current + 2)
    BY <1>7 DEF ScanSymbol, ReadToken
  <2>2. CASE PeekIs({"symbol"}) /\ AdvanceTo(current + 1)
    BY <1>2, <2>2
  <2>3. CASE PeekIs({"equals", "angle"}) /\ doubled /\ AdvanceTo(current + 2)
    BY <1>3, <2>3
  <2>4. CASE PeekIs({"equals", "angle"}) /\ AdvanceTo(current + 1)
    BY <1>2, <2>4
  <2>5. CASE PeekIs({"bang"}) /\ doubled /\ AdvanceTo(current + 2)
    BY <1>3, <2>5
  <2>6. doubled \/ ~doubled
    OBVIOUS
  <2> HIDE DEF doubled
  <2> QED BY <2>1, <2>2, <2>3, <2>4, <2>5, <2>6
<1>8. CASE StringEnd
  <2>1. AdvanceTo(current + 1) /\ PeekIs({quote}) /\ quote # "newline"
    BY <1>8, CurrentTypes DEF StringEnd, NoQuote
  <2> QED BY <1>2, <2>1
<1> QED BY <1>4, <1>5, <1>6, <1>7, <1>8

\* The next character has the place that is counted for it.
PlaceIsRight == line = LineOf(source, current) /\ column = ColumnOf(source, current)

\* line_ and column_ follow current_.
LEMMA PassesKeepsPlace ==
  ASSUME IInv, PlaceIsRight, Passes, UNCHANGED source
  PROVE  PlaceIsRight'
<1>1. Len(source) \in Nat /\ current \in 0..Len(source)
  BY CurrentTypes
<1>2. CASE UNCHANGED place
  BY <1>2 DEF PlaceIsRight, place
<1>3. ASSUME NEW p \in current..Len(source), OneLine(source, current, p)
      PROVE  /\ p \in Nat /\ LineOf(source, p) = line
             /\ ColumnOf(source, p) = column + (p - current)
  <2>1. p \in Nat /\ current \in Nat /\ current <= p
    BY <1>1
  <2> QED BY <1>3, <2>1, SameLine DEF PlaceIsRight
<1>4. ASSUME NEW p \in current..Len(source), OneLine(source, current, p), AdvanceTo(p)
      PROVE  PlaceIsRight'
  BY <1>3, <1>4 DEF AdvanceTo, PlaceIsRight
<1>5. ASSUME NEW p \in current..Len(source), OneLine(source, current, p),
             source[p + 1] = "newline", current' = p + 1, line' = line + 1, column' = 1
      PROVE  PlaceIsRight'
  <2>1. p \in Nat /\ LineOf(source, p) = line
    BY <1>3, <1>5
  <2>2. LineOf(source, p + 1) = line + 1 /\ ColumnOf(source, p + 1) = 1
    BY <1>5, <2>1, NextLine
  <2> QED BY <1>5, <2>2 DEF PlaceIsRight
<1> QED BY <1>2, <1>4, <1>5 DEF Passes

\* The place of a token is that of its first character.
RightPlace(t) ==
  t.type \notin {"Indent", "Dedent"} =>
    t.line = LineOf(source, t.from) /\ t.column = ColumnOf(source, t.from)
RightPlaces(s) == \A i \in 1..Len(s) : RightPlace(s[i])

Placed ==
  /\ start <= current /\ PlaceIsRight
  /\ token_line = LineOf(source, start) /\ token_column = ColumnOf(source, start)
  /\ RightPlaces(tokens)

\* What holds of the tokens of two sequences holds of their concatenation.
LEMMA EachConcat ==
  ASSUME NEW T, NEW s \in Seq(T), NEW t \in Seq(T), NEW S,
         \A i \in 1..Len(s) : s[i] \in S, \A i \in 1..Len(t) : t[i] \in S
  PROVE  \A i \in 1..Len(s \o t) : (s \o t)[i] \in S
<1> DEFINE m == Len(s)
           n == Len(t)
           u == s \o t
<1>1. /\ m \in Nat /\ n \in Nat /\ Len(u) = m + n
      /\ \A i \in 1..m : u[i] = s[i]
      /\ \A i \in 1..n : u[m + i] = t[i]
  BY Concat
<1>2. (\A i \in 1..m : s[i] \in S) /\ (\A i \in 1..n : t[i] \in S)
  OBVIOUS
<1> HIDE DEF m, n, u
<1>3. ASSUME NEW i \in 1..(m + n) PROVE u[i] \in S
  <2>1. CASE i \in 1..m
    <3>1. u[i] = s[i]
      BY <1>1, <2>1
    <3> QED BY <1>2, <2>1, <3>1
  <2>2. CASE i \notin 1..m
    <3>1. i - m \in 1..n /\ m + (i - m) = i
      BY <1>1, <2>2
    <3>2. u[i] = t[i - m]
      BY <1>1, <3>1
    <3> QED BY <1>2, <3>1, <3>2
  <2> QED BY <2>1, <2>2
<1>4. \A i \in 1..Len(u) : u[i] \in S
  BY <1>1, <1>3
<1> QED BY <1>4 DEF u

\* So do their places.
LEMMA RightPlacesConcat ==
  ASSUME NEW T, NEW s \in Seq(T), NEW t \in Seq(T), RightPlaces(s), RightPlaces(t)
  PROVE  RightPlaces(s \o t)
<1> DEFINE S == {e \in T : RightPlace(e)}
<1>1. (\A i \in 1..Len(s) : s[i] \in S) /\ (\A i \in 1..Len(t) : t[i] \in S)
  BY ElementOfSeq DEF RightPlaces
<1>2. \A e \in S : RightPlace(e)
  OBVIOUS
<1> HIDE DEF S
<1>3. \A i \in 1..Len(s \o t) : (s \o t)[i] \in S
  BY <1>1, EachConcat
<1> QED BY <1>2, <1>3 DEF RightPlaces

\* What the steps do to the place of the token, and to the tokens.
LEMMA TokenBegins ==
  ASSUME Next
  PROVE  UNCHANGED source /\ (UNCHANGED token \/ Begin)
<1>1. CASE TabError
  BY <1>1 DEF TabError, Fail
<1>2. CASE EmptyLine
  BY <1>2 DEF EmptyLine
<1>3. CASE ScanIndentation
  BY <1>3 DEF ScanIndentation
<1>4. CASE Skip
  BY <1>4 DEF Skip
<1>5. CASE EndLine
  BY <1>5 DEF EndLine
<1>6. CASE ScanIdentifier \/ ScanNumber \/ ScanSymbol
  BY <1>6 DEF ScanIdentifier, ScanNumber, ScanSymbol, ReadToken
<1>7. CASE BeginsNothing
  BY <1>7 DEF BeginsNothing, Fail
<1>8. CASE BeginString
  BY <1>8 DEF BeginString
<1>9. CASE StringCharacter \/ StringEscape
  BY <1>9 DEF StringCharacter, StringEscape, InStringUnchanged
<1>10. CASE StringEnd
  BY <1>10 DEF StringEnd
<1>11. CASE Unterminated
  BY <1>11 DEF Unterminated, Fail
<1>12. CASE UnsupportedEscape
  BY <1>12 DEF UnsupportedEscape, Fail
<1>13. CASE Finish
  BY <1>13 DEF Finish
<1> QED BY <1>1, <1>2, <1>3, <1>4, <1>5, <1>6, <1>7, <1>8, <1>9, <1>10, <1>11, <1>12, <1>13 DEF Next

\* The characters that are in tokens, or will never be: a string being read is not
\* yet in one.
Taken == IF quote = NoQuote THEN current ELSE start

\* The tokens that a step adds: blocks, one that begins here, or one that began
\* where a string did.
Added(t) ==
  /\ t \in Token
  /\ t.from >= Taken /\ t.to >= Taken
  /\ t.to = current \/ (t.to = current' /\ ~at_line_start)
  /\ \/ t.type \in {"Indent", "Dedent"}
     \/ t.from = current /\ t.line = line /\ t.column = column
     \/ t.from = start /\ t.line = token_line /\ t.column = token_column
Adds == \E new \in Seq(Token) :
          tokens' = tokens \o new /\ \A i \in 1..Len(new) : Added(new[i])

\* A step may add nothing.
LEMMA AddsNone ==
  ASSUME IInv, UNCHANGED tokens
  PROVE  Adds
<1> DEFINE new == <<>>
<1>1. tokens \in Seq(Token) /\ new \in Seq(Token) /\ Len(new) = 0
  BY Lengths
<1>2. tokens \o new = tokens
  BY <1>1, ConcatEmptySeq
<1> HIDE DEF new
<1>3. tokens' = tokens \o new
  BY <1>2
<1>4. \A i \in 1..Len(new) : Added(new[i])
  BY <1>1
<1> QED BY <1>1, <1>3, <1>4 DEF Adds

\* A step may add one token.
LEMMA AddsOne ==
  ASSUME IInv, NEW t, Added(t), tokens' = Append(tokens, t)
  PROVE  Adds
<1> DEFINE new == <<t>>
<1>1. tokens \in Seq(Token) /\ t \in Token
  BY Lengths DEF Added
<1>2. new \in Seq(Token) /\ Len(new) = 1 /\ new[1] = t
  BY <1>1
<1>3. tokens' = tokens \o new
  BY <1>1, AppendIsConcat
<1> HIDE DEF new
<1>4. \A i \in 1..Len(new) : i = 1
  BY <1>2
<1> QED BY <1>2, <1>3, <1>4 DEF Adds

\* The ends of lines, blocks and texts are added where the lexer is.
LEMMA MarkAdded ==
  ASSUME IInv, quote = NoQuote, NEW type \in TokenType, NEW c \in Nat \ {0},
         type \in {"Indent", "Dedent"} \/ c = column
  PROVE  Added(Mark(type, c))
<1>1. /\ Mark(type, c) \in Token /\ Mark(type, c).type = type
      /\ Mark(type, c).from = current /\ Mark(type, c).to = current
      /\ Mark(type, c).line = line /\ Mark(type, c).column = c
  BY MarkType DEF Mark
<1>2. current \in 0..Len(source) /\ Len(source) \in Nat
  BY CurrentTypes
<1> QED BY <1>1, <1>2 DEF Added, Taken

\* A line may close many blocks.
LEMMA DedentsAdded ==
  ASSUME IInv, quote = NoQuote, NEW n \in Nat
  PROVE  Dedents(n) \in Seq(Token) /\ \A i \in 1..Len(Dedents(n)) : Added(Dedents(n)[i])
<1>1. Dedents(n) \in Seq(Token) /\ Len(Dedents(n)) = n
  BY DedentsType
<1>2. Added(Mark("Dedent", 1))
  BY MarkAdded DEF TokenType
<1>3. \A i \in 1..n : Dedents(n)[i] = Mark("Dedent", 1)
  BY DEF Dedents
<1> QED BY <1>1, <1>2, <1>3

\* Several additions are one.
LEMMA AddedConcat ==
  ASSUME NEW T, NEW s \in Seq(T), NEW t \in Seq(T),
         \A i \in 1..Len(s) : Added(s[i]), \A i \in 1..Len(t) : Added(t[i])
  PROVE  \A i \in 1..Len(s \o t) : Added((s \o t)[i])
<1> DEFINE S == {e \in T : Added(e)}
<1>1. (\A i \in 1..Len(s) : s[i] \in S) /\ (\A i \in 1..Len(t) : t[i] \in S)
  BY ElementOfSeq
<1>2. \A e \in S : Added(e)
  OBVIOUS
<1> HIDE DEF S
<1>3. \A i \in 1..Len(s \o t) : (s \o t)[i] \in S
  BY <1>1, EachConcat
<1> QED BY <1>2, <1>3

\* No step moves back.
LEMMA PassesForward ==
  ASSUME IInv, Passes
  PROVE  current' \in Nat /\ current <= current'
<1>1. Len(source) \in Nat /\ current \in 0..Len(source)
  BY CurrentTypes
<1>2. CASE UNCHANGED place
  BY <1>1, <1>2 DEF place
<1>3. ASSUME NEW p \in current..Len(source), current' = p \/ current' = p + 1
      PROVE  current' \in Nat /\ current <= current'
  BY <1>1, <1>3
<1> QED BY <1>2, <1>3 DEF Passes, AdvanceTo

\* Every step only adds to tokens_.
LEMMA TokensAdded ==
  ASSUME IInv, IInv', Lines, start <= current, Next, Passes
  PROVE  Adds
<1>1. source' = source
  BY TokenBegins
<1>2. ASSUME NEW t, tokens' = Append(tokens, t) PROVE t \in Token
  BY <1>1, <1>2, AppendedIsToken
<1>3. /\ Len(source) \in Nat /\ current \in 0..Len(source) /\ start \in 0..Len(source)
      /\ current' \in Nat /\ current <= current' /\ column \in Nat \ {0}
  BY CurrentTypes, PassesForward
<1>4. CASE TabError \/ EmptyLine \/ Skip \/ BeginsNothing \/ BeginString \/ StringCharacter
             \/ StringEscape \/ Unterminated \/ UnsupportedEscape
  <2>1. UNCHANGED tokens
    BY <1>4 DEF TabError, EmptyLine, Skip, BeginsNothing, BeginString, StringCharacter,
             StringEscape, Unterminated, UnsupportedEscape, Fail, InStringUnchanged
  <2> QED BY <2>1, AddsNone
<1>5. ASSUME NEW type, quote = NoQuote, ~at_line_start, Read(type, current')
      PROVE  Adds
  <2> DEFINE t == [type |-> type, from |-> current, to |-> current', line |-> line, column |-> column]
  <2>1. tokens' = Append(tokens, t)
    BY <1>5 DEF Read
  <2>2. t \in Token
    BY <1>2, <2>1
  <2>3. t.from = current /\ t.to = current' /\ t.line = line /\ t.column = column
    OBVIOUS
  <2> HIDE DEF t
  <2>4. Added(t)
    BY <1>3, <1>5, <2>2, <2>3 DEF Added, Taken
  <2> QED BY <2>1, <2>4, AddsOne
<1>6. CASE EndLine
  <2>1. quote = NoQuote /\ ~at_line_start /\ Read("Newline", current')
    BY <1>6 DEF EndLine, InLine, AdvanceLine
  <2> QED BY <1>5, <2>1
<1>7. ASSUME InLine, NEW type, NEW p, ReadToken(type, p)
      PROVE  Adds
  <2>1. quote = NoQuote /\ ~at_line_start /\ Read(type, current')
    BY <1>7 DEF ReadToken, InLine, AdvanceTo
  <2> QED BY <1>5, <2>1
<1>8. CASE ScanIdentifier
  BY <1>7, <1>8 DEF ScanIdentifier
<1>9. CASE ScanNumber
  BY <1>7, <1>9 DEF ScanNumber
<1>10. CASE ScanSymbol
  BY <1>7, <1>10 DEF ScanSymbol
<1>11. CASE StringEnd
  <2> DEFINE t == [type |-> "String", from |-> start, to |-> current + 1,
                   line |-> token_line, column |-> token_column]
  <2>1. tokens' = Append(tokens, t) /\ quote # NoQuote /\ current' = current + 1 /\ ~at_line_start
    BY <1>11 DEF StringEnd, InString, AdvanceTo, Lines
  <2>2. t \in Token
    BY <1>2, <2>1
  <2>3. t.from = start /\ t.to = current + 1 /\ t.line = token_line /\ t.column = token_column
    OBVIOUS
  <2> HIDE DEF t
  <2>4. Added(t)
    BY <1>3, <2>1, <2>2, <2>3 DEF Added, Taken
  <2> QED BY <2>1, <2>4, AddsOne
<1>12. CASE ScanIndentation
  <2>1. quote = NoQuote
    BY <1>12 DEF Lines, ScanIndentation, BeginsContent, LineStarts
  <2>2. CASE Width > indentation[Len(indentation)]
    <3>1. tokens' = Append(tokens, Mark("Indent", 1))
      BY <1>12, <2>2 DEF ScanIndentation
    <3>2. Added(Mark("Indent", 1))
      BY <2>1, MarkAdded DEF TokenType
    <3> QED BY <3>1, <3>2, AddsOne
  <2>3. CASE ~(Width > indentation[Len(indentation)])
    <3> DEFINE closed == Len(indentation) - Cardinality(Enclosing(Width))
    <3>1. tokens' = tokens \o Dedents(closed)
      BY <1>12, <2>3 DEF ScanIndentation, Dedents
    <3>2. closed \in Nat
      <4>1. Content \in current..Len(source)
        BY <1>3, RunEnds DEF Content
      <4>2. Width \in Nat
        BY <1>3, <4>1 DEF Width
      <4>3. Cardinality(Enclosing(Width)) \in 1..Len(indentation) /\ Len(indentation) \in Nat
        BY <4>2, Lengths, EnclosingIsPrefix DEF IInv, Blocks
      <4> QED BY <4>3
    <3> HIDE DEF closed
    <3> QED BY <2>1, <3>1, <3>2, DedentsAdded DEF Adds
  <2> QED BY <2>2, <2>3
<1>13. CASE Finish
  <2> DEFINE newline == IF tokens # <<>> /\ tokens[Len(tokens)].type # "Newline"
                        THEN <<Mark("Newline", column)>> ELSE <<>>
             open == Len(indentation) - 1
             dedents == Dedents(open)
             end == <<Mark("EndOfFile", column)>>
             first == newline \o dedents
             new == first \o end
  <2>1. quote = NoQuote /\ open \in Nat /\ tokens \in Seq(Token)
    BY <1>13, Lengths DEF Finish
  <2>2. tokens' = ((tokens \o newline) \o dedents) \o end
    BY <1>13 DEF Finish, Dedents
  <2>3. newline \in Seq(Token) /\ \A i \in 1..Len(newline) : Added(newline[i])
    <3>1. Mark("Newline", column) \in Token /\ Added(Mark("Newline", column))
      BY <1>3, <2>1, MarkAdded, MarkType DEF TokenType
    <3> QED BY <3>1
  <2>4. dedents \in Seq(Token) /\ \A i \in 1..Len(dedents) : Added(dedents[i])
    <3> HIDE DEF open
    <3> QED BY <2>1, DedentsAdded
  <2>5. end \in Seq(Token) /\ \A i \in 1..Len(end) : Added(end[i])
    <3>1. Mark("EndOfFile", column) \in Token /\ Added(Mark("EndOfFile", column))
      BY <1>3, <2>1, MarkAdded, MarkType DEF TokenType
    <3> QED BY <3>1
  <2> HIDE DEF newline, open, dedents, end
  <2>6. first \in Seq(Token) /\ \A i \in 1..Len(first) : Added(first[i])
    BY <2>3, <2>4, AddedConcat, ConcatProperties
  <2>7. new \in Seq(Token) /\ \A i \in 1..Len(new) : Added(new[i])
    <3> HIDE DEF first
    <3> QED BY <2>5, <2>6, AddedConcat, ConcatProperties
  <2>8. tokens' = tokens \o new
    <3>1. (tokens \o newline) \o dedents = tokens \o first
      BY <2>1, <2>3, <2>4, ConcatAssociative
    <3> HIDE DEF first
    <3>2. (tokens \o first) \o end = tokens \o new
      BY <2>1, <2>5, <2>6, ConcatAssociative
    <3> QED BY <2>2, <3>1, <3>2
  <2> HIDE DEF new
  <2> QED BY <2>7, <2>8 DEF Adds
<1> QED BY <1>4, <1>6, <1>8, <1>9, <1>10, <1>11, <1>12, <1>13 DEF Next

\* No step leaves out a character.
LEMMA NextPasses ==
  ASSUME IInv, Next
  PROVE  Passes
<1>1. ASSUME Finish PROVE Passes
  BY <1>1 DEF Finish, Passes
<1> QED BY <1>1, SkimPasses, ReadPasses DEF Next

\* The places stay right.
LEMMA PlacedStep ==
  ASSUME IInv, IInv', Lines, Placed, Next
  PROVE  Placed'
<1>1. Passes /\ UNCHANGED source /\ (UNCHANGED token \/ Begin)
  BY NextPasses, TokenBegins
<1>2. PlaceIsRight'
  BY <1>1, PassesKeepsPlace DEF Placed
<1>3. start' <= current'
  <2>1. current' \in Nat /\ current <= current' /\ start \in Nat /\ current \in Nat
    BY <1>1, PassesForward, CurrentTypes
  <2> QED BY <1>1, <2>1 DEF Placed, Begin, token
<1>4. token_line' = LineOf(source, start') /\ token_column' = ColumnOf(source, start')
  BY <1>1 DEF Placed, PlaceIsRight, Begin, token
<1>5. PICK new \in Seq(Token) : tokens' = tokens \o new /\ \A i \in 1..Len(new) : Added(new[i])
  BY <1>1, TokensAdded DEF Placed, Adds
<1>6. RightPlaces(new)
  BY <1>5 DEF RightPlaces, RightPlace, Added, Placed, PlaceIsRight
<1>7. RightPlaces(tokens \o new)
  BY <1>6, Lengths, RightPlacesConcat DEF Placed
<1> QED BY <1>1, <1>2, <1>3, <1>4, <1>5, <1>7 DEF Placed, RightPlaces, RightPlace

\* At the beginning no token has a place.
LEMMA PlacedInit == Init => Placed
BY NoLine DEF Init, Placed, PlaceIsRight, RightPlaces

LEMMA PlacedStays == IInv /\ Lines /\ Placed /\ [Next]_vars => Placed'
<1> SUFFICES ASSUME IInv, Lines, Placed, [Next]_vars PROVE Placed'
  OBVIOUS
<1>1. CASE Next
  <2>1. IInv'
    BY <1>1, StepInv
  <2> QED BY <1>1, <2>1, PlacedStep
<1>2. CASE UNCHANGED vars
  BY <1>2 DEF vars, Placed, PlaceIsRight, RightPlaces, RightPlace
<1> QED BY <1>1, <1>2

\* The line and the column of every token, and of an error in a line, are those that
\* are counted in the text (lexer.cpp:58-60, 116-125), however many lines, comments
\* and strings were passed before it.
THEOREM PlacesCounted == Spec => []PlacesAreRight
<1>1. IInv /\ Placed => PlacesAreRight
  <2> SUFFICES ASSUME IInv, Placed PROVE PlacesAreRight
    OBVIOUS
  <2>1. DOMAIN tokens = 1..Len(tokens)
    BY Lengths, LenProperties
  <2> QED BY <2>1 DEF PlacesAreRight, Placed, RightPlaces, RightPlace, LineOf, ColumnOf,
                      LineBegin, Newlines, LineStart
<1>2. IInv /\ Lines /\ Placed /\ [Next]_vars => (IInv /\ Lines /\ Placed)'
  BY StepInv, StepLines, PlacedStays
<1>3. Init => IInv /\ Lines /\ Placed
  BY InitInv, InitLines, PlacedInit
<1> QED BY <1>1, <1>2, <1>3, PTL DEF Spec

-----------------------------------------------------------------------------
(* No character is lost. *)

In(s, i) == {k \in 1..Len(s) : s[k].from < i /\ i <= s[k].to}
CodeBefore(text, s, i) ==
  \E k \in 1..Len(s) : IsText(s[k]) /\ LineBegin(text, i - 1) < s[k].to /\ s[k].to < i
InComment(text, s, i) ==
  \E h \in (LineBegin(text, i) + 1)..i : text[h] = "hash" /\ In(s, h) = {}
Between(text, s, i) ==
  /\ In(s, i) = {}
  /\ \/ text[i] \in {"space", "tab", "return"}
     \/ text[i] = "newline" /\ ~CodeBefore(text, s, i)
     \/ text[i] # "newline" /\ InComment(text, s, i)
Accounted(text, s, i) == Cardinality(In(s, i)) = 1 \/ Between(text, s, i)

EndsBy(s, p) == \A k \in 1..Len(s) : s[k].to <= p

Lossless ==
  /\ status \in {"scanning", "done"} =>
       /\ EndsBy(tokens, Taken)
       /\ \A i \in 1..Taken : Accounted(source, tokens, i)
  /\ status = "scanning" /\ at_line_start =>
       \A k \in 1..Len(tokens) : IsText(tokens[k]) => tokens[k].to <= LineBegin(source, current)
  /\ status = "done" => current = Len(source) /\ quote = NoQuote

\* The bounds of a token are positions in the text.
LEMMA TokenFields ==
  ASSUME IInv, NEW s \in Seq(Token)
  PROVE  /\ Len(s) \in Nat
         /\ \A k \in 1..Len(s) : s[k] \in Token /\ s[k].from \in Nat /\ s[k].to \in Nat
<1>1. \A t \in Token : t.from \in Nat /\ t.to \in Nat
  BY CurrentTypes DEF Token
<1> QED BY <1>1, LenProperties, ElementOfSeq

\* Later tokens take no character that is already taken.
LEMMA InKept ==
  ASSUME IInv, NEW s \in Seq(Token), NEW new \in Seq(Token), NEW r \in Nat,
         \A j \in 1..Len(new) : new[j].from >= r /\ new[j].to >= r, NEW i \in 1..r
  PROVE  In(s \o new, i) = In(s, i)
<1> DEFINE m == Len(s)
           n == Len(new)
           u == s \o new
<1>1. /\ m \in Nat /\ n \in Nat /\ Len(u) = m + n
      /\ \A k \in 1..m : u[k] = s[k]
      /\ \A k \in 1..n : u[m + k] = new[k]
  BY Concat
<1>2. \A k \in 1..n : new[k].from >= r /\ new[k].from \in Nat
  BY TokenFields
<1> HIDE DEF m, n, u
<1>3. ASSUME NEW k \in 1..(m + n), u[k].from < i PROVE k \in 1..m
  <2> SUFFICES ASSUME k \notin 1..m PROVE FALSE
    OBVIOUS
  <2>1. k - m \in 1..n /\ m + (k - m) = k
    BY <1>1
  <2>2. u[k] = new[k - m]
    BY <1>1, <2>1
  <2>3. new[k - m].from >= r /\ new[k - m].from \in Nat
    BY <1>2, <2>1
  <2> QED BY <1>3, <2>2, <2>3
<1>4. {k \in 1..(m + n) : u[k].from < i /\ i <= u[k].to}
        = {k \in 1..m : s[k].from < i /\ i <= s[k].to}
  <2>1. \A k \in 1..m : k \in 1..(m + n)
    BY <1>1
  <2> QED BY <1>1, <1>3, <2>1
<1>5. In(u, i) = In(s, i)
  BY <1>1, <1>4 DEF In, m
<1> QED BY <1>5 DEF u

\* Later tokens are not before a character that is already taken.
LEMMA CodeBeforeKept ==
  ASSUME IInv, NEW s \in Seq(Token), NEW new \in Seq(Token), NEW r \in Nat,
         \A j \in 1..Len(new) : new[j].from >= r /\ new[j].to >= r, NEW i \in 1..r,
         NEW text, CodeBefore(text, s \o new, i)
  PROVE  CodeBefore(text, s, i)
<1> DEFINE m == Len(s)
           n == Len(new)
           u == s \o new
<1>1. /\ m \in Nat /\ n \in Nat /\ Len(u) = m + n
      /\ \A k \in 1..m : u[k] = s[k]
      /\ \A k \in 1..n : u[m + k] = new[k]
  BY Concat
<1>2. \A k \in 1..n : new[k].to >= r /\ new[k].to \in Nat
  BY TokenFields
<1>3. PICK k \in 1..Len(u) : IsText(u[k]) /\ LineBegin(text, i - 1) < u[k].to /\ u[k].to < i
  BY DEF CodeBefore
<1> HIDE DEF m, n, u
<1>4. k \in 1..m
  <2> SUFFICES ASSUME k \notin 1..m PROVE FALSE
    OBVIOUS
  <2>1. k - m \in 1..n /\ m + (k - m) = k
    BY <1>1
  <2>2. u[k] = new[k - m]
    BY <1>1, <2>1
  <2>3. new[k - m].to >= r /\ new[k - m].to \in Nat
    BY <1>2, <2>1
  <2> QED BY <1>3, <2>2, <2>3
<1>5. u[k] = s[k]
  BY <1>1, <1>4
<1> QED BY <1>3, <1>4, <1>5 DEF CodeBefore, m

\* What has become of a character stays so.
LEMMA AccountedKept ==
  ASSUME IInv, NEW s \in Seq(Token), NEW new \in Seq(Token), NEW r \in Nat,
         \A j \in 1..Len(new) : new[j].from >= r /\ new[j].to >= r, NEW i \in 1..r,
         NEW text, Accounted(text, s, i)
  PROVE  Accounted(text, s \o new, i)
<1> DEFINE u == s \o new
<1>1. In(u, i) = In(s, i)
  BY InKept
<1>2. CodeBefore(text, u, i) => CodeBefore(text, s, i)
  BY CodeBeforeKept
<1>3. InComment(text, s, i) => InComment(text, u, i)
  <2> SUFFICES ASSUME NEW h \in (LineBegin(text, i) + 1)..i, text[h] = "hash", In(s, h) = {}
               PROVE  InComment(text, u, i)
    BY DEF InComment
  <2>1. h \in 1..r
    <3>1. LineBegin(text, i) \in 0..i
      BY LineBegins
    <3> QED BY <3>1
  <2>2. In(u, h) = {}
    BY <2>1, InKept
  <2> HIDE DEF u
  <2> QED BY <2>2 DEF InComment
<1> HIDE DEF u
<1>4. Accounted(text, u, i)
  BY <1>1, <1>2, <1>3 DEF Accounted, Between
<1> QED BY <1>4 DEF u

\* Behind the last token there is none.
LEMMA NoneBehind ==
  ASSUME IInv, NEW s \in Seq(Token), NEW r \in Nat, EndsBy(s, r), NEW i \in Nat, r < i
  PROVE  In(s, i) = {}
<1>1. \A k \in 1..Len(s) : s[k].to \in Nat /\ s[k].to <= r
  BY TokenFields DEF EndsBy
<1> QED BY <1>1 DEF In

\* The characters of a new token are in it, and in no other.
LEMMA OneTakes ==
  ASSUME IInv, NEW s \in Seq(Token), NEW r \in Nat, EndsBy(s, r), NEW t \in Token,
         t.from = r, NEW i \in (r + 1)..t.to, NEW text
  PROVE  Accounted(text, Append(s, t), i)
<1>1. /\ Len(s) \in Nat /\ Len(Append(s, t)) = Len(s) + 1
      /\ \A k \in 1..Len(s) : Append(s, t)[k] = s[k]
      /\ Append(s, t)[Len(s) + 1] = t
  BY AppendProperties
<1>2. \A k \in 1..Len(s) : s[k].to \in Nat /\ s[k].to <= r
  BY TokenFields DEF EndsBy
<1>3. t.to \in Nat /\ t.from < i /\ i <= t.to /\ i \in Nat
  BY CurrentTypes DEF Token
<1>4. In(Append(s, t), i) = {Len(s) + 1}
  <2>1. \A k \in 1..(Len(s) + 1) : k \in 1..Len(s) \/ k = Len(s) + 1
    BY <1>1
  <2>2. \A k \in 1..Len(s) : ~(i <= Append(s, t)[k].to)
    BY <1>1, <1>2, <1>3
  <2> QED BY <1>1, <1>3, <2>1, <2>2 DEF In
<1> QED BY <1>4, FS_Singleton DEF Accounted

\* A comment goes on to the end of its line.
LEMMA CommentIsBetween ==
  ASSUME IInv, NEW s \in Seq(Token), NEW r \in Nat, EndsBy(s, r),
         NEW p \in r..Len(source), source[p + 1] = "hash",
         NEW i \in (p + 1)..EndOfRun(CharacterClass \ {"newline"}, p)
  PROVE  Accounted(source, s, i)
<1> DEFINE e == EndOfRun(CharacterClass \ {"newline"}, p)
<1>1. Len(source) \in Nat /\ p \in 0..Len(source)
  BY CurrentTypes
<1>2. e \in p..Len(source) /\ \A j \in (p + 1)..e : source[j] \in CharacterClass \ {"newline"}
  BY <1>1, RunEnds, RunHolds
<1> HIDE DEF e
<1>3. i \in (p + 1)..e
  BY DEF e
<1>4. In(s, i) = {} /\ In(s, p + 1) = {}
  <2>1. p + 1 \in Nat /\ i \in Nat /\ r < p + 1 /\ r < i
    BY <1>1, <1>2, <1>3
  <2> QED BY <2>1, NoneBehind
<1>5. LineBegin(source, i) \in 0..p
  <2>1. OneLine(source, p, i) /\ p <= i /\ i \in Nat /\ p \in Nat
    BY <1>1, <1>2, <1>3 DEF OneLine
  <2> QED BY <2>1, SameLine, LineBegins
<1>6. p + 1 \in (LineBegin(source, i) + 1)..i
  BY <1>1, <1>2, <1>3, <1>5
<1> QED BY <1>2, <1>3, <1>4, <1>6 DEF Accounted, Between, InComment

\* What the steps do to a string.
LEMMA QuoteChanges ==
  ASSUME Lines, Next
  PROVE  /\ status = "scanning"
         /\ \/ quote = NoQuote /\ quote' = NoQuote
            \/ quote = NoQuote /\ quote' # NoQuote /\ start' = current /\ UNCHANGED tokens
            \/ quote # NoQuote /\ quote' # NoQuote /\ UNCHANGED <<start, tokens>>
            \/ quote # NoQuote /\ quote' = NoQuote
<1>1. LineStarts => quote = NoQuote
  BY DEF Lines, LineStarts
<1>2. CASE TabError
  BY <1>1, <1>2 DEF TabError, Fail, LineStarts
<1>3. CASE EmptyLine
  BY <1>1, <1>3 DEF EmptyLine, LineStarts
<1>4. CASE ScanIndentation
  BY <1>1, <1>4 DEF ScanIndentation, BeginsContent, LineStarts
<1>5. CASE Skip
  BY <1>5 DEF Skip, InLine
<1>6. CASE EndLine
  BY <1>6 DEF EndLine, InLine
<1>7. CASE ScanIdentifier \/ ScanNumber \/ ScanSymbol
  BY <1>7 DEF ScanIdentifier, ScanNumber, ScanSymbol, ReadToken, InLine
<1>8. CASE BeginsNothing
  BY <1>8 DEF BeginsNothing, InLine, Fail
<1>9. CASE BeginString
  BY <1>9 DEF BeginString, InLine, Begin, PeekIs, NoQuote
<1>10. CASE StringCharacter \/ StringEscape
  BY <1>10 DEF StringCharacter, StringEscape, InString, InStringUnchanged, token
<1>11. CASE StringEnd
  BY <1>11 DEF StringEnd, InString
<1>12. CASE Unterminated \/ UnsupportedEscape
  BY <1>12 DEF Unterminated, UnsupportedEscape, InString, Fail, token
<1>13. CASE Finish
  BY <1>13 DEF Finish
<1> QED BY <1>2, <1>3, <1>4, <1>5, <1>6, <1>7, <1>8, <1>9, <1>10, <1>11, <1>12, <1>13 DEF Next

\* What is taken is not given back, and nothing becomes of the text of a string
\* before its end.
LEMMA TakenGrows ==
  ASSUME IInv, Lines, start <= current, Next
  PROVE  /\ Taken \in Nat /\ Taken' \in Nat /\ Taken <= Taken' /\ Taken <= current
         /\ current \in Nat /\ current' \in Nat /\ current <= current'
         /\ quote' = NoQuote => Taken' = current'
         /\ quote' # NoQuote => Taken' = Taken /\ UNCHANGED tokens
<1>1. current \in Nat /\ start \in Nat /\ current' \in Nat /\ current <= current'
  BY CurrentTypes, NextPasses, PassesForward
<1>2. /\ quote = NoQuote => Taken = current
      /\ quote # NoQuote => Taken = start
      /\ quote' = NoQuote => Taken' = current'
      /\ quote' # NoQuote => Taken' = start'
  BY DEF Taken
<1>3. Taken \in Nat /\ Taken <= current
  BY <1>1, <1>2
<1>4. CASE quote' = NoQuote
  BY <1>1, <1>2, <1>3, <1>4
<1>5. CASE quote' # NoQuote
  <2>1. Taken' = Taken /\ UNCHANGED tokens
    BY <1>2, <1>5, QuoteChanges
  <2> QED BY <1>1, <1>3, <1>5, <2>1
<1> QED BY <1>4, <1>5

\* The ends of several tokens.
LEMMA EndsByConcat ==
  ASSUME NEW T, NEW s \in Seq(T), NEW t \in Seq(T), NEW p, EndsBy(s, p), EndsBy(t, p)
  PROVE  s \o t \in Seq(T) /\ EndsBy(s \o t, p)
<1> DEFINE S == {e \in T : e.to <= p}
<1>1. (\A i \in 1..Len(s) : s[i] \in S) /\ (\A i \in 1..Len(t) : t[i] \in S)
  BY ElementOfSeq DEF EndsBy
<1>2. \A e \in S : e.to <= p
  OBVIOUS
<1> HIDE DEF S
<1>3. \A i \in 1..Len(s \o t) : (s \o t)[i] \in S
  BY <1>1, EachConcat
<1> QED BY <1>2, <1>3, ConcatProperties DEF EndsBy

\* Every character that a step takes is in the token it reads, or will never be in one.
LEMMA NewAccounted ==
  ASSUME IInv, IInv', Lines, Lossless, start <= current, Next,
         status' \in {"scanning", "done"}, NEW i \in (Taken + 1)..Taken'
  PROVE  Accounted(source, tokens', i)
<1>1. /\ Taken \in Nat /\ Taken' \in Nat /\ Taken <= Taken' /\ Taken <= current
      /\ current \in Nat /\ current' \in Nat /\ current <= current' /\ quote' = NoQuote
      /\ Taken' = current'
  <2>1. quote' = NoQuote
    <3> SUFFICES ASSUME quote' # NoQuote PROVE FALSE
      OBVIOUS
    <3> QED BY TakenGrows
  <2> QED BY <2>1, TakenGrows
<1>2. EndsBy(tokens, Taken) /\ tokens \in Seq(Token) /\ status = "scanning"
  BY QuoteChanges, Lengths DEF Lossless
<1>3. Len(source) \in Nat /\ current \in 0..Len(source) /\ i \in Nat /\ Taken < i /\ i <= current'
  BY <1>1, CurrentTypes
<1>4. ASSUME NEW t, tokens' = Append(tokens, t) PROVE t \in Token
  BY <1>4, TokenBegins, AppendedIsToken
\* The token that is read takes it.
<1>5. ASSUME NEW t, tokens' = Append(tokens, t), t.from = Taken, t.to = current'
      PROVE  Accounted(source, tokens', i)
  <2>1. t \in Token /\ i \in (Taken + 1)..t.to
    BY <1>1, <1>3, <1>4, <1>5
  <2>2. Accounted(source, Append(tokens, t), i)
    BY <1>1, <1>2, <1>5, <2>1, OneTakes
  <2> QED BY <1>5, <2>2
<1>6. ASSUME InLine, NEW type, Read(type, current')
      PROVE  Accounted(source, tokens', i)
  <2> DEFINE t == [type |-> type, from |-> current, to |-> current', line |-> line, column |-> column]
  <2>1. tokens' = Append(tokens, t) /\ Taken = current
    BY <1>6 DEF Read, InLine, Taken
  <2>2. t.from = Taken /\ t.to = current'
    BY <2>1
  <2> HIDE DEF t
  <2> QED BY <1>5, <2>1, <2>2
\* White space and comments are passed.
<1>7. ASSUME EndsBy(tokens', current), tokens' \in Seq(Token), Taken = current,
             NEW p \in current..Len(source), i \in (current + 1)..p,
             source[i] \in {"space", "tab", "return"}
      PROVE  Accounted(source, tokens', i)
  <2>1. In(tokens', i) = {}
    BY <1>1, <1>3, <1>7, NoneBehind
  <2> QED BY <1>7, <2>1 DEF Accounted, Between
<1>8. Content \in current..Len(source) /\ \A j \in (current + 1)..Content : source[j] = "space"
  BY <1>3, RunEnds, RunHolds DEF Content
<1>9. ASSUME LineStarts, EndsBy(tokens', current), tokens' \in Seq(Token), i <= Content
      PROVE  Accounted(source, tokens', i)
  <2>1. Taken = current
    BY <1>9 DEF LineStarts, Lines, Taken
  <2>2. i \in (current + 1)..Content
    BY <1>1, <1>3, <1>8, <1>9, <2>1
  <2> HIDE DEF Content
  <2>3. source[i] = "space"
    BY <1>8, <2>2
  <2> QED BY <1>7, <1>8, <1>9, <2>1, <2>2, <2>3
<1>10. ASSUME UNCHANGED tokens, Taken = current, NEW p \in current..Len(source),
              source[p + 1] = "hash", i \in (p + 1)..EndOfRun(CharacterClass \ {"newline"}, p)
       PROVE  Accounted(source, tokens', i)
  BY <1>1, <1>2, <1>10, CommentIsBetween
<1>11. CASE TabError \/ BeginsNothing \/ Unterminated \/ UnsupportedEscape
  <2>1. status' \in Errors
    BY <1>11 DEF TabError, BeginsNothing, Unterminated, UnsupportedEscape, Fail, Errors
  <2> QED BY <2>1 DEF Errors
<1>12. CASE EmptyLine
  <2>1. LineStarts /\ UNCHANGED tokens /\ Taken = current
    BY <1>12 DEF EmptyLine, LineStarts, Lines, Taken
  <2>2. EndsBy(tokens', current) /\ tokens' \in Seq(Token)
    BY <1>2, <2>1
  <2>3. CASE i <= Content
    BY <1>9, <2>1, <2>2, <2>3
  <2>4. CASE ~(i <= Content) /\ ContentIs({"newline"}) /\ current' = Content + 1
    <3>1. i = Content + 1 /\ source[i] = "newline" /\ i - 1 = Content
      BY <1>3, <1>8, <2>4 DEF ContentIs
    <3>2. In(tokens, i) = {}
      BY <1>1, <1>2, <1>3, NoneBehind
    <3>3. LineBegin(source, Content) = LineBegin(source, current)
      <4>1. OneLine(source, current, Content) /\ Content \in Nat /\ current <= Content
        BY <1>1, <1>3, <1>8 DEF OneLine
      <4> QED BY <1>1, <4>1, SameLine
    <3>4. \A k \in 1..Len(tokens) : IsText(tokens[k]) => tokens[k].to <= LineBegin(source, current)
      BY <1>2, <2>1 DEF Lossless, LineStarts
    <3>5. LineBegin(source, current) \in Nat /\ \A k \in 1..Len(tokens) : tokens[k].to \in Nat
      BY <1>1, <1>2, LineBegins, TokenFields
    <3>6. ~CodeBefore(source, tokens, i)
      <4> SUFFICES ASSUME NEW k \in 1..Len(tokens), IsText(tokens[k]),
                          LineBegin(source, i - 1) < tokens[k].to
                   PROVE  FALSE
        BY DEF CodeBefore
      <4>1. LineBegin(source, current) < tokens[k].to
        BY <3>1, <3>3
      <4> QED BY <3>4, <3>5, <4>1
    <3> QED BY <2>1, <3>1, <3>2, <3>6 DEF Accounted, Between
  <2>5. CASE ~(i <= Content) /\ ContentIs({"hash"})
             /\ AdvanceTo(EndOfRun(CharacterClass \ {"newline"}, Content))
    <3>1. source[Content + 1] = "hash"
      BY <2>5 DEF ContentIs
    <3>2. i \in (Content + 1)..EndOfRun(CharacterClass \ {"newline"}, Content)
      <4>1. EndOfRun(CharacterClass \ {"newline"}, Content) \in Content..Len(source)
        BY <1>3, <1>8, RunEnds
      <4> QED BY <1>3, <1>8, <2>5, <4>1 DEF AdvanceTo
    <3> QED BY <1>8, <1>10, <2>1, <3>1, <3>2
  <2>6. CASE ~(i <= Content) /\ AdvanceTo(Content)
    BY <1>3, <1>8, <2>6 DEF AdvanceTo
  <2> QED BY <1>12, <2>3, <2>4, <2>5, <2>6 DEF EmptyLine
<1>13. CASE ScanIndentation
  <2>1. LineStarts /\ at_line_start /\ AdvanceTo(Content)
    BY <1>13 DEF ScanIndentation, BeginsContent, LineStarts
  <2>2. Taken = current
    BY <2>1 DEF LineStarts, Lines, Taken
  <2>3. PICK new \in Seq(Token) : tokens' = tokens \o new /\ \A k \in 1..Len(new) : Added(new[k])
    BY NextPasses, TokensAdded DEF Adds
  <2>4. \A k \in 1..Len(new) : new[k].to = current
    BY <2>1, <2>3 DEF Added
  <2>5. tokens' \in Seq(Token) /\ EndsBy(tokens', current)
    <3>1. EndsBy(new, current)
      BY <1>1, <2>4 DEF EndsBy
    <3> QED BY <1>2, <2>2, <2>3, <3>1, EndsByConcat
  <2>6. i <= Content
    BY <1>3, <2>1 DEF AdvanceTo
  <2> QED BY <1>9, <2>1, <2>5, <2>6
<1>14. CASE Skip
  <2>1. UNCHANGED tokens /\ Taken = current
    BY <1>14 DEF Skip, InLine, Taken
  <2>2. CASE AdvanceTo(EndOfRun({"space", "tab", "return"}, current))
    <3> DEFINE p == EndOfRun({"space", "tab", "return"}, current)
    <3>1. p \in current..Len(source) /\ \A j \in (current + 1)..p : source[j] \in {"space", "tab", "return"}
      BY <1>3, RunEnds, RunHolds
    <3>2. i \in (current + 1)..p
      BY <1>1, <1>3, <2>1, <2>2, <3>1 DEF AdvanceTo
    <3> HIDE DEF p
    <3>3. EndsBy(tokens', current) /\ tokens' \in Seq(Token)
      BY <1>2, <2>1
    <3>4. source[i] \in {"space", "tab", "return"}
      BY <3>1, <3>2
    <3> QED BY <1>7, <2>1, <3>1, <3>2, <3>3, <3>4
  <2>3. CASE PeekIs({"hash"}) /\ AdvanceTo(EndOfRun(CharacterClass \ {"newline"}, current))
    <3>1. source[current + 1] = "hash" /\ current \in current..Len(source)
      BY <1>3, <2>3 DEF PeekIs, Peek
    <3>2. i \in (current + 1)..EndOfRun(CharacterClass \ {"newline"}, current)
      <4>1. EndOfRun(CharacterClass \ {"newline"}, current) \in current..Len(source)
        BY <1>3, RunEnds
      <4> QED BY <1>1, <1>3, <2>1, <2>3, <4>1 DEF AdvanceTo
    <3> QED BY <1>10, <2>1, <3>1, <3>2
  <2> QED BY <1>14, <2>2, <2>3 DEF Skip
<1>15. CASE EndLine
  <2>1. InLine /\ Read("Newline", current')
    BY <1>15 DEF EndLine, AdvanceLine
  <2> QED BY <1>6, <2>1
<1>16. ASSUME InLine, NEW type, NEW p, ReadToken(type, p)
       PROVE  Accounted(source, tokens', i)
  <2>1. Read(type, current')
    BY <1>16 DEF ReadToken, AdvanceTo
  <2> QED BY <1>6, <1>16, <2>1
<1>17. CASE ScanIdentifier
  BY <1>16, <1>17 DEF ScanIdentifier
<1>18. CASE ScanNumber
  BY <1>16, <1>18 DEF ScanNumber
<1>19. CASE ScanSymbol
  BY <1>16, <1>19 DEF ScanSymbol
<1>20. CASE BeginString \/ StringCharacter \/ StringEscape
  <2>1. quote' # NoQuote
    BY <1>20 DEF BeginString, StringCharacter, StringEscape, InString, InStringUnchanged,
                 PeekIs, NoQuote
  <2> QED BY <1>1, <2>1
<1>21. CASE StringEnd
  <2> DEFINE t == [type |-> "String", from |-> start, to |-> current + 1,
                   line |-> token_line, column |-> token_column]
  <2>1. tokens' = Append(tokens, t) /\ Taken = start /\ current' = current + 1
    BY <1>21 DEF StringEnd, InString, Taken, AdvanceTo
  <2>2. t.from = Taken /\ t.to = current'
    BY <2>1
  <2> HIDE DEF t
  <2> QED BY <1>5, <2>1, <2>2
<1>22. CASE Finish
  <2>1. Taken' = Taken
    BY <1>22 DEF Finish, Taken, place, token
  <2> QED BY <1>1, <1>3, <2>1
<1> QED BY <1>11, <1>12, <1>13, <1>14, <1>15, <1>17, <1>18, <1>19, <1>20, <1>21, <1>22 DEF Next

\* No token is past the beginning of a line.
LEMMA LineStartKept ==
  ASSUME IInv, Lines, Lossless, start <= current, Next, Passes,
         status' = "scanning", at_line_start', NEW k \in 1..Len(tokens'), IsText(tokens'[k])
  PROVE  tokens'[k].to <= LineBegin(source, current')
<1>1. Len(source) \in Nat /\ current \in 0..Len(source) /\ tokens \in Seq(Token)
  BY CurrentTypes, Lengths
<1>2. status = "scanning"
  BY QuoteChanges
<1>3. CASE LineStarts /\ UNCHANGED tokens
  <2>1. tokens[k].to <= LineBegin(source, current) /\ tokens[k].to \in Nat
    BY <1>1, <1>3, TokenFields DEF Lossless, LineStarts
  <2>2. LineBegin(source, current) <= LineBegin(source, current')
    <3>1. current \in Nat /\ current' \in Nat /\ current <= current'
      BY <1>1, PassesForward
    <3>2. LineBegin(source, current) \in {0} \cup Newlines(source, current')
      BY <3>1, LineBegins DEF Newlines
    <3> QED BY <3>1, <3>2, LineBegins
  <2>3. LineBegin(source, current) \in Nat /\ LineBegin(source, current') \in Nat
    BY <1>1, PassesForward, LineBegins
  <2> QED BY <1>3, <2>1, <2>2, <2>3
<1>4. CASE EmptyLine
  BY <1>3, <1>4 DEF EmptyLine
<1>5. CASE EndLine
  <2> DEFINE t == [type |-> "Newline", from |-> current, to |-> current + 1,
                   line |-> line, column |-> column]
  <2>1. tokens' = Append(tokens, t) /\ t.type = "Newline" /\ current' = current + 1 /\ quote = NoQuote
    BY <1>5 DEF EndLine, Read, AdvanceLine, InLine
  <2> HIDE DEF t
  <2>2. k \in 1..Len(tokens) /\ tokens'[k] = tokens[k]
    <3>1. /\ Len(tokens) \in Nat /\ Len(tokens') = Len(tokens) + 1
          /\ \A j \in 1..Len(tokens) : tokens'[j] = tokens[j]
          /\ tokens'[Len(tokens) + 1] = t
      BY <1>1, <2>1, AppendProperties
    <3>2. k # Len(tokens) + 1
      BY <2>1, <3>1 DEF IsText
    <3> QED BY <3>1, <3>2
  <2>3. tokens[k].to <= current /\ tokens[k].to \in Nat
    BY <1>1, <1>2, <2>1, <2>2, TokenFields DEF Lossless, EndsBy, Taken
  <2>4. LineBegin(source, current + 1) = current + 1
    <3>1. source[current + 1] = "newline"
      BY <1>5 DEF EndLine, PeekIs, Peek
    <3>2. current \in Nat
      BY <1>1
    <3> QED BY <3>1, <3>2, NextLine
  <2> QED BY <1>1, <2>1, <2>2, <2>3, <2>4
<1>6. ASSUME ~EmptyLine, ~EndLine PROVE FALSE
  <2>1. ASSUME ~at_line_start, UNCHANGED at_line_start PROVE FALSE
    BY <2>1
  <2>2. CASE TabError \/ BeginsNothing \/ Unterminated \/ UnsupportedEscape
    BY <2>2 DEF TabError, BeginsNothing, Unterminated, UnsupportedEscape, Fail
  <2>3. CASE Skip \/ ScanIdentifier \/ ScanNumber \/ ScanSymbol \/ BeginString
    BY <2>1, <2>3 DEF Skip, ScanIdentifier, ScanNumber, ScanSymbol, BeginString, ReadToken, InLine
  <2>4. CASE StringCharacter \/ StringEscape \/ StringEnd
    BY <2>1, <2>4 DEF StringCharacter, StringEscape, StringEnd, InString, InStringUnchanged, Lines
  <2>5. CASE ScanIndentation
    BY <2>5 DEF ScanIndentation
  <2>6. CASE Finish
    BY <2>6 DEF Finish
  <2> QED BY <1>6, <2>2, <2>3, <2>4, <2>5, <2>6 DEF Next
<1> QED BY <1>4, <1>5, <1>6

\* No step loses a character.
LEMMA LosslessStep ==
  ASSUME IInv, IInv', Lines, Lossless, start <= current, Next
  PROVE  Lossless'
<1>1. Passes /\ UNCHANGED source /\ status = "scanning"
  BY NextPasses, TokenBegins, QuoteChanges
<1>2. /\ Taken \in Nat /\ Taken' \in Nat /\ Taken <= Taken' /\ Taken <= current
      /\ current \in Nat /\ current' \in Nat /\ current <= current'
      /\ quote' = NoQuote => Taken' = current'
      /\ quote' # NoQuote => Taken' = Taken /\ UNCHANGED tokens
  BY TakenGrows
<1>3. EndsBy(tokens, Taken) /\ \A i \in 1..Taken : Accounted(source, tokens, i)
  BY <1>1 DEF Lossless
<1>4. tokens \in Seq(Token)
  BY Lengths
<1>5. PICK new \in Seq(Token) : tokens' = tokens \o new /\ \A i \in 1..Len(new) : Added(new[i])
  BY <1>1, TokensAdded DEF Adds
<1>6. EndsBy(tokens', Taken')
  <2>1. CASE quote' # NoQuote
    BY <1>2, <1>3, <2>1
  <2>2. CASE quote' = NoQuote
    <3>1. EndsBy(new, current')
      BY <1>2, <1>5 DEF EndsBy, Added
    <3>2. EndsBy(tokens, current')
      <4>1. \A k \in 1..Len(tokens) : tokens[k].to \in Nat
        BY <1>4, TokenFields
      <4> QED BY <1>2, <1>3, <2>2, <4>1 DEF EndsBy
    <3> QED BY <1>2, <1>4, <1>5, <2>2, <3>1, <3>2, EndsByConcat
  <2> QED BY <2>1, <2>2
<1>7. ASSUME status' \in {"scanning", "done"}, NEW i \in 1..Taken'
      PROVE  Accounted(source, tokens', i)
  <2>1. CASE i \in 1..Taken
    <3>1. \A j \in 1..Len(new) : new[j].from >= Taken /\ new[j].to >= Taken
      BY <1>5 DEF Added
    <3> QED BY <1>2, <1>3, <1>4, <1>5, <2>1, <3>1, AccountedKept
  <2>2. CASE i \notin 1..Taken
    <3>1. i \in (Taken + 1)..Taken'
      BY <1>2, <2>2
    <3> QED BY <1>7, <3>1, NewAccounted
  <2> QED BY <2>1, <2>2
<1>8. status' = "scanning" /\ at_line_start' =>
        \A k \in 1..Len(tokens') : IsText(tokens'[k]) => tokens'[k].to <= LineBegin(source, current')
  BY <1>1, LineStartKept
<1>9. status' = "done" => current' = Len(source) /\ quote' = NoQuote
  <2> SUFFICES ASSUME status' = "done" PROVE current' = Len(source) /\ quote' = NoQuote
    OBVIOUS
  <2>1. ASSUME Finish PROVE current' = Len(source) /\ quote' = NoQuote
    BY <2>1, CurrentTypes DEF Finish, AtEnd, place
  <2>2. ASSUME ~Finish PROVE status' # "done"
    BY <1>1, <2>2 DEF Next, TabError, EmptyLine, ScanIndentation, Skip, EndLine, ScanIdentifier,
       ScanNumber, ScanSymbol, BeginsNothing, BeginString, StringCharacter, StringEscape,
       StringEnd, Unterminated, UnsupportedEscape, Fail, ReadToken, InStringUnchanged
  <2> QED BY <2>1, <2>2
<1>10. Lossless'
  <2>1. source' = source
    BY <1>1
  <2> QED BY <1>6, <1>7, <1>8, <1>9, <2>1 DEF Lossless
<1> QED BY <1>10

\* At the beginning no character is taken.
LEMMA LosslessInit == Init => Lossless
<1> SUFFICES ASSUME Init PROVE Lossless
  OBVIOUS
<1>1. Len(tokens) = 0 /\ Taken = 0 /\ status # "done"
  BY DEF Init, Taken
<1> QED BY <1>1 DEF Lossless, EndsBy

LEMMA LosslessStays == IInv /\ Lines /\ Placed /\ Lossless /\ [Next]_vars => Lossless'
<1> SUFFICES ASSUME IInv, Lines, Placed, Lossless, [Next]_vars PROVE Lossless'
  OBVIOUS
<1>1. CASE Next
  <2>1. IInv'
    BY <1>1, StepInv
  <2> QED BY <1>1, <2>1, LosslessStep DEF Placed
<1>2. CASE UNCHANGED vars
  <2>1. Taken' = Taken
    BY <1>2 DEF vars, Taken
  <2> QED BY <1>2, <2>1 DEF vars, Lossless
<1> QED BY <1>1, <1>2

\* In every text every character is in exactly one token, or it is white space, in a
\* comment, or the end of a line without code (lexer.cpp:36-97).
THEOREM EveryCharacterCounts == Spec => []NothingLost
<1>1. IInv /\ Lossless => NothingLost
  <2> SUFFICES ASSUME IInv, Lossless, status = "done", NEW i \in 1..Len(source)
               PROVE  Accounted(source, tokens, i)
    <3>1. DOMAIN tokens = 1..Len(tokens)
      BY Lengths, LenProperties
    <3> QED BY <3>1 DEF NothingLost, Accounted, Between, InComment, CodeBefore, In, LineStart,
                        LineBegin, Newlines, Texts
  <2>1. Taken = Len(source)
    BY DEF Lossless, Taken
  <2> QED BY <2>1 DEF Lossless
<1>2. IInv /\ Lines /\ Placed /\ Lossless /\ [Next]_vars => (IInv /\ Lines /\ Placed /\ Lossless)'
  BY StepInv, StepLines, PlacedStays, LosslessStays
<1>3. Init => IInv /\ Lines /\ Placed /\ Lossless
  BY InitInv, InitLines, PlacedInit, LosslessInit
<1> QED BY <1>1, <1>2, <1>3, PTL DEF Spec

-----------------------------------------------------------------------------
(* The blocks are those of the lines with code. *)

Leading(text, p) ==
  Cardinality({i \in (LineBegin(text, p) + 1)..p :
                 \A j \in (LineBegin(text, p) + 1)..i : text[j] = "space"})

\* The content of a line begins behind position c, after spaces of some width.
BeginsAt(text, c, width) ==
  /\ LineBegin(text, c) + width = c
  /\ \A i \in (LineBegin(text, c) + 1)..c : text[i] = "space"
  /\ text[c + 1] \notin {"space", "tab", "newline", "hash"}

White(text, p, q) == \A i \in (p + 1)..q : text[i] \in {"space", "tab", "return"}

AfterText == Len(tokens) # 0 /\ IsText(tokens[Len(tokens)])
Innermost == indentation[Len(indentation)]

\* In a line the innermost block is as wide as the line, and before the first token
\* there is nothing but white space.
InnermostFits ==
  \E c \in 0..Taken :
    /\ c < Len(source) /\ BeginsAt(source, c, Innermost) /\ OneLine(source, c, Taken)
    /\ ~AfterText => White(source, c, Taken)

LineState ==
  status = "scanning" =>
    /\ at_line_start =>
         \/ current = LineBegin(source, current)
         \/ current = Len(source)
         \/ source[current + 1] = "newline"
    /\ ~at_line_start => InnermostFits
    /\ quote # NoQuote => OneLine(source, Taken, current)

TextsIn(s) == {k \in 1..Len(s) : IsText(s[k])}
WidthIn(text, s, k) == Leading(text, s[k].from)
StaysOpen(s, a) == \A k \in a..Len(s) : DepthIn(s, k) >= DepthIn(s, a)
NarrowerIn(text, s, a) ==
  \E c \in TextsIn(s) : a <= c /\ WidthIn(text, s, c) < WidthIn(text, s, a)

\* As long as the block of a stays open, the lines that follow are at least as wide.
NoneNarrower(text, s, a) ==
  \A c \in TextsIn(s) : a <= c =>
    /\ WidthIn(text, s, c) >= WidthIn(text, s, a)
    /\ DepthIn(s, c) = DepthIn(s, a) <=> WidthIn(text, s, c) = WidthIn(text, s, a)

\* A line that is narrower has begun, but has no token yet.
Closing(a) ==
  \/ status # "scanning"
  \/ ~at_line_start /\ ~AfterText /\ Innermost < WidthIn(source, tokens, a)

Nested ==
  \A a \in TextsIn(tokens) :
    IF StaysOpen(tokens, a)
    THEN /\ indentation[DepthIn(tokens, a) + 1] = WidthIn(source, tokens, a)
         /\ NoneNarrower(source, tokens, a)
    ELSE NarrowerIn(source, tokens, a) \/ Closing(a)

Follow(text, s, a, b) ==
  LET narrower == {c \in TextsIn(s) \cap (a..b) : WidthIn(text, s, c) < WidthIn(text, s, a)}
  IN /\ narrower = {} =>
          /\ \A k \in a..b : DepthIn(s, k) >= DepthIn(s, a)
          /\ DepthIn(s, b) = DepthIn(s, a) <=> WidthIn(text, s, b) = WidthIn(text, s, a)
     /\ narrower # {} => \E k \in a..b : DepthIn(s, k) < DepthIn(s, a)

Followed == \A a, b \in TextsIn(tokens) : a < b => Follow(source, tokens, a, b)

Fits == ~HasBlankReturn => LineState /\ Nested /\ Followed

-----------------------------------------------------------------------------
(* The width of a line, and lines without code. *)

\* What ends a run.
LEMMA RunStops ==
  ASSUME Len(source) \in Nat, NEW classes, NEW p \in 0..Len(source)
  PROVE  EndOfRun(classes, p) = Len(source) \/ source[EndOfRun(classes, p) + 1] \notin classes
<1> DEFINE ends == {i \in p..Len(source) : i = Len(source) \/ source[i + 1] \notin classes}
<1>1. ends \in SUBSET (0..Len(source)) /\ Len(source) \in ends
  OBVIOUS
<1>2. \E least \in ends : \A j \in ends : least <= j
  <2> HIDE DEF ends
  <2> QED BY <1>1, LeastElement
<1>3. Min(ends) \in ends
  <2> HIDE DEF ends
  <2> QED BY <1>2 DEF Min
<1>4. EndOfRun(classes, p) = Min(ends)
  BY DEF EndOfRun
<1> QED BY <1>3, <1>4

\* The spaces before any later place in the line are those before its content.
LEMMA LeadingAt ==
  ASSUME NEW text, NEW c \in Nat, NEW width \in Nat, BeginsAt(text, c, width),
         NEW p \in Nat, c <= p, OneLine(text, c, p)
  PROVE  Leading(text, p) = width
<1> DEFINE first == LineBegin(text, c) + 1
           spaces == {i \in first..p : \A j \in first..i : text[j] = "space"}
<1>1. LineBegin(text, c) \in 0..c /\ LineBegin(text, p) = LineBegin(text, c)
  BY LineBegins, SameLine
<1>2. /\ first \in Nat /\ first + width = c + 1
      /\ \A i \in first..c : text[i] = "space"
      /\ text[c + 1] # "space"
  BY <1>1 DEF BeginsAt
<1>3. Leading(text, p) = Cardinality(spaces)
  BY <1>1 DEF Leading
<1> HIDE DEF first
<1>4. spaces = first..c
  <2>1. ASSUME NEW i \in first..c PROVE i \in spaces
    <3>1. i \in first..p /\ \A j \in first..i : j \in first..c
      BY <1>2
    <3> QED BY <1>2, <3>1
  <2>2. ASSUME NEW i \in spaces PROVE i \in first..c
    <3>1. i \in first..p /\ \A j \in first..i : text[j] = "space"
      OBVIOUS
    <3>2. c + 1 \notin first..i
      BY <1>2, <3>1
    <3> QED BY <1>2, <3>1, <3>2
  <2> QED BY <2>1, <2>2
<1>5. Cardinality(first..c) = IF first > c THEN 0 ELSE c - first + 1
  <2>1. first \in Int /\ c \in Int
    BY <1>2
  <2> QED BY <2>1, FS_Interval
<1> HIDE DEF spaces
<1>6. Cardinality(first..c) = width
  BY <1>2, <1>5
<1> QED BY <1>3, <1>4, <1>6

\* Nothing but white space before a comment or the end of the line: then a carriage
\* return is the first of it.
LEMMA BlankReturn ==
  ASSUME Len(source) \in Nat, NEW p \in Nat, NEW c \in 0..p, p <= Len(source), c < Len(source),
         NEW width, BeginsAt(source, c, width), White(source, c, p),
         source[p + 1] \in {"newline", "hash"}
  PROVE  HasBlankReturn
<1>1. c # p /\ c \in Nat
  BY DEF BeginsAt
<1> DEFINE r == c + 1
<1>2. r \in 1..Len(source) /\ p \in 1..Len(source) /\ r <= p /\ r - 1 = c /\ r \in (c + 1)..p
  BY <1>1
<1>3. source[r] = "return"
  BY <1>2 DEF White, BeginsAt
<1>4. LineBegin(source, r) = LineBegin(source, c)
  <2>1. OneLine(source, c, r)
    BY <1>3 DEF OneLine
  <2> QED BY <1>1, <1>2, <2>1, SameLine
<1>5. LineStart(r) = LineBegin(source, c)
  BY <1>4 DEF LineStart, LineBegin, Newlines
<1>6. \A i \in (LineStart(r) + 1)..(r - 1) : source[i] = "space"
  BY <1>2, <1>5 DEF BeginsAt
<1>7. \A i \in r..p : source[i] \in {"space", "tab", "return"}
  BY DEF White
<1> HIDE DEF r
<1> QED BY <1>2, <1>3, <1>6, <1>7 DEF HasBlankReturn

-----------------------------------------------------------------------------
(* What the blocks were stays true as tokens are added. *)

\* The tokens of s, and more behind them.
Extends(s, u) ==
  /\ Len(s) \in Nat /\ Len(u) \in Nat /\ Len(s) <= Len(u)
  /\ \A k \in 1..Len(s) : u[k] = s[k]

LEMMA ExtendsConcat ==
  ASSUME NEW T, NEW s \in Seq(T), NEW t \in Seq(T)
  PROVE  /\ Extends(s, s \o t) /\ Len(s \o t) = Len(s) + Len(t)
         /\ \A k \in 1..Len(t) : (s \o t)[Len(s) + k] = t[k]
<1>1. /\ Len(s) \in Nat /\ Len(t) \in Nat /\ Len(s \o t) = Len(s) + Len(t)
      /\ \A k \in 1..Len(s) : (s \o t)[k] = s[k]
      /\ \A k \in 1..Len(t) : (s \o t)[Len(s) + k] = t[k]
  BY Concat
<1> QED BY <1>1 DEF Extends

\* Depths and widths are integers.
LEMMA DepthType ==
  ASSUME NEW s, NEW k \in Nat
  PROVE  DepthIn(s, k) \in Int
<1>1. CountIn(s, "Indent", k) \in Nat /\ CountIn(s, "Dedent", k) \in Nat
  BY CountType
<1> QED BY <1>1 DEF DepthIn

LEMMA LeadingType ==
  ASSUME NEW text, NEW p \in Nat
  PROVE  Leading(text, p) \in Nat
<1> DEFINE L == LineBegin(text, p)
           spaces == {i \in (L + 1)..p : \A j \in (L + 1)..i : text[j] = "space"}
<1>1. L \in Int
  BY LineBegins
<1> HIDE DEF L
<1>2. IsFiniteSet((L + 1)..p) /\ spaces \subseteq (L + 1)..p
  BY <1>1, FS_Interval
<1>3. IsFiniteSet(spaces)
  BY <1>2, FS_Subset
<1>4. Cardinality(spaces) \in Nat
  <2> HIDE DEF spaces
  <2> QED BY <1>3, FS_CardinalityType
<1> QED BY <1>4 DEF Leading, L

\* What is known of a token does not change when others come.
LEMMA ExtendsKeeps ==
  ASSUME NEW s, NEW u, Extends(s, u), NEW text, NEW k \in 1..Len(s)
  PROVE  /\ k \in 1..Len(u) /\ k \in Nat /\ DepthIn(u, k) = DepthIn(s, k)
         /\ WidthIn(text, u, k) = WidthIn(text, s, k)
         /\ k \in TextsIn(u) <=> k \in TextsIn(s)
<1>1. k \in 1..Len(u) /\ k \in Nat /\ \A i \in 1..k : u[i] = s[i]
  BY DEF Extends
<1>2. CountIn(u, "Indent", k) = CountIn(s, "Indent", k) /\ CountIn(u, "Dedent", k) = CountIn(s, "Dedent", k)
  BY <1>1, CountAgrees
<1>3. u[k] = s[k]
  BY DEF Extends
<1> QED BY <1>1, <1>2, <1>3 DEF DepthIn, WidthIn, TextsIn

\* A block that is closed is not opened again.
LEMMA OpenBefore ==
  ASSUME NEW s, NEW u, Extends(s, u), NEW a \in 1..Len(s), StaysOpen(u, a)
  PROVE  StaysOpen(s, a)
<1> SUFFICES ASSUME NEW k \in a..Len(s) PROVE DepthIn(s, k) >= DepthIn(s, a)
  BY DEF StaysOpen
<1>1. k \in 1..Len(s) /\ k \in a..Len(u)
  BY DEF Extends
<1> QED BY <1>1, ExtendsKeeps DEF StaysOpen

LEMMA NarrowerKept ==
  ASSUME NEW s, NEW u, Extends(s, u), NEW text, NEW a \in 1..Len(s), NarrowerIn(text, s, a)
  PROVE  NarrowerIn(text, u, a)
<1>1. PICK c \in TextsIn(s) : a <= c /\ WidthIn(text, s, c) < WidthIn(text, s, a)
  BY DEF NarrowerIn
<1>2. c \in 1..Len(s)
  BY DEF TextsIn
<1> QED BY <1>1, <1>2, ExtendsKeeps DEF NarrowerIn

LEMMA NoneNarrowerKept ==
  ASSUME NEW s, NEW u, Extends(s, u), TextsIn(u) = TextsIn(s), NEW text, NEW a \in 1..Len(s),
         NoneNarrower(text, s, a)
  PROVE  NoneNarrower(text, u, a)
<1> SUFFICES ASSUME NEW c \in TextsIn(s), a <= c
    PROVE  /\ WidthIn(text, u, c) >= WidthIn(text, u, a)
           /\ DepthIn(u, c) = DepthIn(u, a) <=> WidthIn(text, u, c) = WidthIn(text, u, a)
  BY DEF NoneNarrower
<1>1. c \in 1..Len(s)
  BY DEF TextsIn
<1>2. /\ WidthIn(text, u, c) = WidthIn(text, s, c) /\ WidthIn(text, u, a) = WidthIn(text, s, a)
      /\ DepthIn(u, c) = DepthIn(s, c) /\ DepthIn(u, a) = DepthIn(s, a)
  BY <1>1, ExtendsKeeps
<1>3. /\ WidthIn(text, s, c) >= WidthIn(text, s, a)
      /\ DepthIn(s, c) = DepthIn(s, a) <=> WidthIn(text, s, c) = WidthIn(text, s, a)
  BY DEF NoneNarrower
<1> QED BY <1>2, <1>3

LEMMA FollowKept ==
  ASSUME NEW s, NEW u, Extends(s, u), NEW text, NEW a \in TextsIn(s), NEW b \in TextsIn(s), a < b,
         Follow(text, s, a, b)
  PROVE  Follow(text, u, a, b)
<1> DEFINE narrower(t) == {c \in TextsIn(t) \cap (a..b) : WidthIn(text, t, c) < WidthIn(text, t, a)}
<1>1. Len(s) \in Nat /\ a \in 1..Len(s) /\ b \in 1..Len(s)
  BY DEF TextsIn, Extends
<1>2. \A k \in a..b : k \in 1..Len(s)
  BY <1>1
<1>3. \A k \in a..b : /\ DepthIn(u, k) = DepthIn(s, k)
                      /\ WidthIn(text, u, k) = WidthIn(text, s, k)
                      /\ k \in TextsIn(u) <=> k \in TextsIn(s)
  BY <1>2, ExtendsKeeps
<1>4. a \in a..b /\ b \in a..b
  BY <1>1
<1>5. narrower(u) = narrower(s)
  BY <1>3, <1>4
<1>6. /\ narrower(s) = {} =>
            /\ \A k \in a..b : DepthIn(s, k) >= DepthIn(s, a)
            /\ DepthIn(s, b) = DepthIn(s, a) <=> WidthIn(text, s, b) = WidthIn(text, s, a)
      /\ narrower(s) # {} => \E k \in a..b : DepthIn(s, k) < DepthIn(s, a)
  BY DEF Follow
<1> HIDE DEF narrower
<1>7. /\ narrower(u) = {} =>
            /\ \A k \in a..b : DepthIn(u, k) >= DepthIn(u, a)
            /\ DepthIn(u, b) = DepthIn(u, a) <=> WidthIn(text, u, b) = WidthIn(text, u, a)
      /\ narrower(u) # {} => \E k \in a..b : DepthIn(u, k) < DepthIn(u, a)
  BY <1>3, <1>4, <1>5, <1>6
<1> QED BY <1>7 DEF Follow, narrower

-----------------------------------------------------------------------------
(* The blocks at each kind of step. *)

\* An open block is one of those on indentation_.
LEMMA OpenDepth ==
  ASSUME NEW T, NEW s \in Seq(T), NEW open \in Nat, Pairs(s, open), NEW a \in 1..Len(s),
         StaysOpen(s, a)
  PROVE  DepthIn(s, a) + 1 \in 1..(open + 1)
<1>1. Len(s) \in Nat /\ a \in DOMAIN s /\ Len(s) \in a..Len(s) /\ a \in Nat
  OBVIOUS
<1>2. DepthIn(s, a) >= 0 /\ open >= DepthIn(s, a)
  BY <1>1 DEF Pairs, StaysOpen
<1>3. DepthIn(s, a) \in Int
  BY <1>1, DepthType
<1> QED BY <1>2, <1>3

\* More tokens, but none with a text.
OnlyLayout(s, u) == Extends(s, u) /\ \A k \in 1..Len(u) : IsText(u[k]) => k \in 1..Len(s)

LEMMA LayoutConcat ==
  ASSUME NEW T, NEW s \in Seq(T), NEW t \in Seq(T),
         \A i \in 1..Len(t) : t[i].type \in {"Newline", "Indent", "Dedent", "EndOfFile"}
  PROVE  s \o t \in Seq(T) /\ OnlyLayout(s, s \o t)
<1> DEFINE u == s \o t
<1>1. /\ u \in Seq(T) /\ Len(s) \in Nat /\ Len(t) \in Nat /\ Len(u) = Len(s) + Len(t)
      /\ \A k \in 1..Len(t) : u[Len(s) + k] = t[k]
      /\ Extends(s, u)
  BY Concat, ExtendsConcat
<1> HIDE DEF u
<1>2. ASSUME NEW k \in 1..Len(u), IsText(u[k]), k \notin 1..Len(s) PROVE FALSE
  <2>1. k - Len(s) \in 1..Len(t) /\ Len(s) + (k - Len(s)) = k
    BY <1>1, <1>2
  <2>2. u[k] = t[k - Len(s)]
    BY <1>1, <2>1
  <2> QED BY <1>2, <2>1, <2>2 DEF IsText
<1> QED BY <1>1, <1>2 DEF OnlyLayout, u

LEMMA LayoutConcats ==
  ASSUME NEW s, NEW t, NEW u, OnlyLayout(s, t), OnlyLayout(t, u)
  PROVE  OnlyLayout(s, u)
<1>1. Extends(s, u)
  BY DEF OnlyLayout, Extends
<1>2. \A k \in 1..Len(u) : IsText(u[k]) => k \in 1..Len(s)
  BY DEF OnlyLayout, Extends
<1> QED BY <1>1, <1>2 DEF OnlyLayout

\* A step that adds no text: blocks are opened, or closed by a line that is narrower.
LEMMA NestedNoText ==
  ASSUME IInv, IInv', UNCHANGED source, Nested, OnlyLayout(tokens, tokens'),
         \A i \in 1..Len(indentation) : i \in 1..Len(indentation') => indentation'[i] = indentation[i],
         \A a \in TextsIn(tokens) : Closing(a) => Closing(a)',
         \A a \in TextsIn(tokens) : StaysOpen(tokens, a) /\ ~StaysOpen(tokens', a) => Closing(a)'
  PROVE  Nested' /\ (Followed => Followed')
<1>1. tokens \in Seq(Token) /\ tokens' \in Seq(Token) /\ Extends(tokens, tokens')
  <2>1. tokens' \in Seq(Token)
    BY DEF IInv, TypeOK, Token
  <2> QED BY <2>1, Lengths DEF OnlyLayout
<1>2. TextsIn(tokens') = TextsIn(tokens)
  <2>1. ASSUME NEW k \in TextsIn(tokens') PROVE k \in TextsIn(tokens)
    <3>1. k \in 1..Len(tokens)
      BY DEF TextsIn, OnlyLayout
    <3> QED BY <1>1, <3>1, ExtendsKeeps
  <2>2. ASSUME NEW k \in TextsIn(tokens) PROVE k \in TextsIn(tokens')
    <3>1. k \in 1..Len(tokens)
      BY DEF TextsIn
    <3> QED BY <1>1, <3>1, ExtendsKeeps
  <2> QED BY <2>1, <2>2
<1>3. ASSUME NEW a \in TextsIn(tokens)
      PROVE  /\ StaysOpen(tokens', a) =>
                  /\ indentation'[DepthIn(tokens', a) + 1] = WidthIn(source, tokens', a)
                  /\ NoneNarrower(source, tokens', a)
             /\ ~StaysOpen(tokens', a) => NarrowerIn(source, tokens', a) \/ Closing(a)'
  <2>1. a \in 1..Len(tokens) /\ a \in 1..Len(tokens')
    BY <1>2 DEF TextsIn
  <2>2. DepthIn(tokens', a) = DepthIn(tokens, a)
        /\ WidthIn(source, tokens', a) = WidthIn(source, tokens, a)
    BY <1>1, <2>1, ExtendsKeeps
  <2>3. ASSUME StaysOpen(tokens', a)
        PROVE  /\ indentation'[DepthIn(tokens', a) + 1] = WidthIn(source, tokens', a)
               /\ NoneNarrower(source, tokens', a)
    <3>1. StaysOpen(tokens, a)
      BY <1>1, <2>1, <2>3, OpenBefore
    <3>2. /\ indentation[DepthIn(tokens, a) + 1] = WidthIn(source, tokens, a)
          /\ NoneNarrower(source, tokens, a)
      BY <3>1 DEF Nested
    <3>3. DepthIn(tokens, a) + 1 \in 1..Len(indentation)
      <4>1. Pairs(tokens, Len(indentation) - 1) /\ Len(indentation) - 1 \in Nat
        BY Lengths DEF IInv, Blocks
      <4>2. DepthIn(tokens, a) + 1 \in 1..((Len(indentation) - 1) + 1)
        BY <1>1, <2>1, <3>1, <4>1, OpenDepth
      <4> QED BY <4>1, <4>2, Lengths
    <3>4. DepthIn(tokens, a) + 1 \in 1..Len(indentation')
      <4>1. Pairs(tokens', Len(indentation') - 1)
        BY DEF IInv, Blocks
      <4>2. Len(indentation') \in Nat /\ Len(indentation') - 1 \in Nat
        <5>1. indentation' \in Seq(Nat) /\ indentation' # <<>>
          BY DEF IInv, TypeOK, Blocks, Ascends
        <5> QED BY <5>1, EmptySeq, LenProperties
      <4>3. DepthIn(tokens', a) + 1 \in 1..((Len(indentation') - 1) + 1)
        BY <1>1, <2>1, <2>3, <4>1, <4>2, OpenDepth
      <4> QED BY <2>2, <4>2, <4>3
    <3>5. NoneNarrower(source, tokens', a)
      BY <1>1, <1>2, <2>1, <3>2, NoneNarrowerKept
    <3> QED BY <2>2, <3>2, <3>3, <3>4, <3>5
  <2>4. ASSUME ~StaysOpen(tokens', a) PROVE NarrowerIn(source, tokens', a) \/ Closing(a)'
    <3>1. CASE StaysOpen(tokens, a)
      BY <2>4, <3>1
    <3>2. CASE ~StaysOpen(tokens, a)
      BY <1>1, <2>1, <3>2, NarrowerKept DEF Nested
    <3> QED BY <3>1, <3>2
  <2> QED BY <2>3, <2>4
<1>4. Nested'
  BY <1>2, <1>3 DEF Nested
<1>5. ASSUME Followed PROVE Followed'
  <2> SUFFICES ASSUME NEW a \in TextsIn(tokens), NEW b \in TextsIn(tokens), a < b
      PROVE Follow(source, tokens', a, b)
    BY <1>2 DEF Followed
  <2>1. Follow(source, tokens, a, b)
    BY <1>5 DEF Followed
  <2> QED BY <1>1, <2>1, FollowKept
<1> QED BY <1>4, <1>5

\* A text is added: it is in the innermost block.
LEMMA NestedText ==
  ASSUME IInv, IInv', UNCHANGED <<source, indentation>>, Nested, Followed, status = "scanning",
         NEW t \in Token, tokens' = Append(tokens, t), IsText(t), Leading(source, t.from) = Innermost
  PROVE  Nested' /\ Followed'
<1> DEFINE n == Len(tokens)
           m == Len(indentation)
           b == n + 1
           D(k) == DepthIn(tokens', k)
           W(k) == WidthIn(source, tokens', k)
<1>1. /\ tokens \in Seq(Token) /\ tokens' \in Seq(Token) /\ n \in Nat /\ Len(tokens') = b
      /\ \A k \in 1..n : tokens'[k] = tokens[k]
      /\ tokens'[b] = t
  BY Lengths, AppendProperties
<1>2. Extends(tokens, tokens')
  BY <1>1 DEF Extends
<1>3. /\ m \in Nat \ {0} /\ \A i \in 1..m : indentation[i] \in Nat
      /\ \A i, j \in 1..m : i < j => indentation[i] < indentation[j]
  BY Lengths DEF IInv, Blocks, Ascends
<1>4. \A k \in 1..b : k \in Nat /\ D(k) \in Int
  <2>1. \A k \in 1..b : k \in Nat
    OBVIOUS
  <2> QED BY <2>1, DepthType
<1>5. \A k \in 1..b : W(k) \in Nat
  <2> SUFFICES ASSUME NEW k \in 1..b PROVE W(k) \in Nat
    OBVIOUS
  <2>1. tokens'[k].from \in Nat
    <3>1. tokens'[k] \in Token
      BY <1>1, ElementOfSeq
    <3> QED BY <3>1, CurrentTypes DEF Token
  <2> QED BY <2>1, LeadingType DEF WidthIn
<1>6. D(b) + 1 = m
  <2>1. D(b) = m - 1
    BY <1>1 DEF IInv, Blocks, Pairs
  <2> QED BY <1>3, <2>1
<1>7. W(b) = indentation[m]
  BY <1>1 DEF WidthIn, Innermost
<1>8. b \in TextsIn(tokens') /\ b \in 1..b
  BY <1>1 DEF TextsIn
<1>9. \A k \in TextsIn(tokens') : k = b \/ (k \in 1..n /\ k \in TextsIn(tokens))
  <2>1. \A k \in TextsIn(tokens') : k \in 1..b
    BY <1>1 DEF TextsIn
  <2>2. \A k \in 1..b : k = b \/ k \in 1..n
    BY <1>1
  <2> QED BY <1>2, <2>1, <2>2, ExtendsKeeps
<1>10. \A k \in 1..n : /\ D(k) = DepthIn(tokens, k) /\ W(k) = WidthIn(source, tokens, k)
                       /\ k \in TextsIn(tokens') <=> k \in TextsIn(tokens)
  BY <1>2, ExtendsKeeps
<1>11. ASSUME NEW a \in 1..n, a \in TextsIn(tokens), StaysOpen(tokens, a)
       PROVE  /\ StaysOpen(tokens', a) /\ indentation[D(a) + 1] = W(a)
              /\ NoneNarrower(source, tokens', a)
  <2>1. indentation[D(a) + 1] = W(a) /\ NoneNarrower(source, tokens, a)
    BY <1>10, <1>11 DEF Nested
  <2>2. D(a) + 1 \in 1..m
    <3>1. Pairs(tokens, m - 1) /\ m - 1 \in Nat
      BY <1>3 DEF IInv, Blocks
    <3>2. DepthIn(tokens, a) + 1 \in 1..((m - 1) + 1)
      BY <1>1, <1>11, <3>1, OpenDepth
    <3> QED BY <1>3, <1>10, <3>2
  <2>3. a \in 1..b /\ D(a) \in Int /\ D(b) \in Int
    BY <1>1, <1>4, <1>8
  <2>4. StaysOpen(tokens', a)
    <3> SUFFICES ASSUME NEW k \in a..b PROVE D(k) >= D(a)
      BY <1>1 DEF StaysOpen
    <3>1. CASE k = b
      BY <1>3, <1>6, <2>2, <2>3, <3>1
    <3>2. CASE k # b
      <4>1. k \in a..n /\ k \in 1..n
        BY <1>1, <3>2
      <4>2. DepthIn(tokens, k) >= DepthIn(tokens, a)
        BY <1>11, <4>1 DEF StaysOpen
      <4> QED BY <1>10, <4>1, <4>2
    <3> QED BY <3>1, <3>2
  <2>5. W(b) >= W(a) /\ (D(b) = D(a) <=> W(b) = W(a))
    <3>1. CASE D(a) + 1 = m
      BY <1>3, <1>6, <1>7, <2>1, <2>2, <2>3, <3>1
    <3>2. CASE D(a) + 1 # m
      <4>1. D(a) + 1 < m /\ m \in 1..m
        BY <1>3, <2>2, <3>2
      <4>2. indentation[D(a) + 1] < indentation[m]
        BY <1>3, <2>2, <4>1
      <4>3. indentation[D(a) + 1] \in Nat /\ indentation[m] \in Nat
        BY <1>3, <2>2, <4>1
      <4> HIDE DEF D, W
      <4> QED BY <1>6, <1>7, <2>1, <2>3, <3>2, <4>2, <4>3
    <3> QED BY <3>1, <3>2
  <2>6. NoneNarrower(source, tokens', a)
    <3> SUFFICES ASSUME NEW c \in TextsIn(tokens'), a <= c
        PROVE  W(c) >= W(a) /\ (D(c) = D(a) <=> W(c) = W(a))
      BY DEF NoneNarrower
    <3>1. CASE c = b
      BY <2>5, <3>1
    <3>2. CASE c # b
      <4>1. c \in 1..n /\ c \in TextsIn(tokens)
        BY <1>9, <3>2
      <4>2. /\ WidthIn(source, tokens, c) >= WidthIn(source, tokens, a)
            /\ DepthIn(tokens, c) = DepthIn(tokens, a) <=>
                 WidthIn(source, tokens, c) = WidthIn(source, tokens, a)
        BY <2>1, <4>1 DEF NoneNarrower
      <4> QED BY <1>10, <4>1, <4>2
    <3> QED BY <3>1, <3>2
  <2> QED BY <2>1, <2>4, <2>6
<1>12. ASSUME NEW a \in 1..n, a \in TextsIn(tokens), ~StaysOpen(tokens, a)
       PROVE  ~StaysOpen(tokens', a) /\ NarrowerIn(source, tokens', a)
  <2>1. ~StaysOpen(tokens', a)
    BY <1>2, <1>12, OpenBefore
  <2>2. CASE NarrowerIn(source, tokens, a)
    BY <1>2, <2>1, <2>2, NarrowerKept
  <2>3. CASE Closing(a)
    <3>1. W(b) < W(a)
      BY <1>7, <1>10, <2>3 DEF Closing, Innermost
    <3>2. a <= b
      BY <1>1
    <3> QED BY <1>8, <2>1, <3>1, <3>2 DEF NarrowerIn
  <2> QED BY <1>12, <2>2, <2>3 DEF Nested
<1>13. StaysOpen(tokens', b) /\ indentation[D(b) + 1] = W(b) /\ NoneNarrower(source, tokens', b)
  <2>1. \A k \in b..b : k = b
    BY <1>1
  <2>2. StaysOpen(tokens', b)
    BY <1>1, <1>4, <1>8, <2>1 DEF StaysOpen
  <2>3. \A c \in TextsIn(tokens') : b <= c => c = b
    BY <1>1, <1>9
  <2>4. NoneNarrower(source, tokens', b)
    BY <1>5, <1>8, <2>3 DEF NoneNarrower
  <2> QED BY <1>6, <1>7, <2>2, <2>4
<1>14. Nested'
  <2> SUFFICES ASSUME NEW a \in TextsIn(tokens')
      PROVE  IF StaysOpen(tokens', a)
             THEN indentation[D(a) + 1] = W(a) /\ NoneNarrower(source, tokens', a)
             ELSE NarrowerIn(source, tokens', a) \/ Closing(a)'
    BY DEF Nested
  <2>1. CASE a = b
    BY <1>13, <2>1
  <2>2. CASE a # b
    BY <1>9, <1>11, <1>12, <2>2
  <2> QED BY <2>1, <2>2
<1>15. ASSUME NEW a \in 1..n, a \in TextsIn(tokens) PROVE Follow(source, tokens', a, b)
  <2> DEFINE narrower == {c \in TextsIn(tokens') \cap (a..b) : W(c) < W(a)}
  <2>1. a \in a..b /\ b \in a..b /\ a \in 1..b /\ \A k \in a..b : k \in 1..b
    BY <1>1
  <2>2. CASE StaysOpen(tokens, a)
    <3>1. StaysOpen(tokens', a) /\ NoneNarrower(source, tokens', a)
      BY <1>11, <1>15, <2>2
    <3>2. narrower = {}
      <4> SUFFICES ASSUME NEW c \in narrower PROVE FALSE
        OBVIOUS
      <4>1. c \in TextsIn(tokens') /\ c \in a..b /\ W(c) < W(a) /\ a <= c
        BY <2>1
      <4>2. W(c) >= W(a) /\ W(c) \in Nat /\ W(a) \in Nat
        BY <1>5, <2>1, <3>1, <4>1 DEF NoneNarrower
      <4> HIDE DEF W
      <4> QED BY <4>1, <4>2
    <3>3. \A k \in a..b : D(k) >= D(a)
      BY <1>1, <3>1 DEF StaysOpen
    <3>4. D(b) = D(a) <=> W(b) = W(a)
      <4>1. a <= b
        BY <1>1
      <4> QED BY <1>8, <3>1, <4>1 DEF NoneNarrower
    <3> QED BY <3>2, <3>3, <3>4 DEF Follow
  <2>3. CASE ~StaysOpen(tokens, a)
    <3>1. ~StaysOpen(tokens', a) /\ NarrowerIn(source, tokens', a)
      BY <1>12, <1>15, <2>3
    <3>2. narrower # {}
      <4>1. PICK c \in TextsIn(tokens') : a <= c /\ W(c) < W(a)
        BY <3>1 DEF NarrowerIn
      <4>2. c \in a..b
        BY <1>1, <4>1 DEF TextsIn
      <4> QED BY <4>1, <4>2
    <3>3. PICK k \in a..b : ~(D(k) >= D(a))
      BY <1>1, <3>1 DEF StaysOpen
    <3>4. D(k) < D(a)
      <4>1. D(k) \in Int /\ D(a) \in Int
        BY <1>4, <2>1
      <4> HIDE DEF D
      <4> QED BY <3>3, <4>1
    <3> QED BY <3>2, <3>4 DEF Follow
  <2> QED BY <2>2, <2>3
<1>16. Followed'
  <2> SUFFICES ASSUME NEW a \in TextsIn(tokens'), NEW c \in TextsIn(tokens'), a < c
      PROVE  Follow(source, tokens', a, c)
    BY DEF Followed
  <2>1. a # b
    <3>1. c <= b /\ c \in Nat
      BY <1>1 DEF TextsIn
    <3> QED BY <1>1, <3>1
  <2>2. a \in 1..n /\ a \in TextsIn(tokens)
    BY <1>9, <2>1
  <2>3. CASE c = b
    BY <1>15, <2>2, <2>3
  <2>4. CASE c # b
    <3>1. c \in TextsIn(tokens)
      BY <1>9, <2>4
    <3>2. Follow(source, tokens, a, c)
      BY <2>2, <3>1 DEF Followed
    <3> QED BY <1>2, <2>2, <3>1, <3>2, FollowKept
  <2> QED BY <2>3, <2>4
<1> QED BY <1>14, <1>16

\* A block that is open stays so when the depth does not fall below it.
LEMMA StaysOpenStill ==
  ASSUME NEW s, NEW u, Extends(s, u), NEW a \in 1..Len(s), StaysOpen(s, a),
         \A k \in (Len(s) + 1)..Len(u) : DepthIn(u, k) >= DepthIn(s, a)
  PROVE  StaysOpen(u, a)
<1> SUFFICES ASSUME NEW k \in a..Len(u) PROVE DepthIn(u, k) >= DepthIn(u, a)
  BY DEF StaysOpen
<1>1. DepthIn(u, a) = DepthIn(s, a)
  BY ExtendsKeeps
<1>2. CASE k \in 1..Len(s)
  <2>1. k \in a..Len(s)
    BY <1>2
  <2> QED BY <1>1, <1>2, <2>1, ExtendsKeeps DEF StaysOpen
<1>3. CASE k \notin 1..Len(s)
  <2>1. k \in (Len(s) + 1)..Len(u)
    BY <1>3 DEF Extends
  <2> QED BY <1>1, <2>1
<1> QED BY <1>2, <1>3

\* Nothing is added, and no line begins or ends.
LEMMA NestedSkim ==
  ASSUME IInv, IInv', Nested, UNCHANGED <<source, tokens, indentation, at_line_start>>,
         status = "scanning"
  PROVE  Nested' /\ (Followed => Followed')
<1>1. OnlyLayout(tokens, tokens')
  <2>1. Len(tokens) \in Nat
    BY Lengths
  <2> QED BY <2>1 DEF OnlyLayout, Extends
<1>2. AfterText' = AfterText /\ Innermost' = Innermost
  BY DEF AfterText, Innermost
<1>3. \A a \in TextsIn(tokens) : Closing(a) => Closing(a)'
  BY <1>2 DEF Closing
<1>4. \A a \in TextsIn(tokens) : StaysOpen(tokens, a) /\ ~StaysOpen(tokens', a) => Closing(a)'
  OBVIOUS
<1>5. \A i \in 1..Len(indentation) : i \in 1..Len(indentation') => indentation'[i] = indentation[i]
  OBVIOUS
<1> QED BY <1>1, <1>3, <1>4, <1>5, NestedNoText

\* A line that ends has a text, so that its blocks are known.
LEMMA NestedEndLine ==
  ASSUME IInv, IInv', LineState, ~HasBlankReturn, Nested, EndLine
  PROVE  Nested' /\ (Followed => Followed')
<1> DEFINE n == Len(tokens)
           t == [type |-> "Newline", from |-> current, to |-> current + 1,
                 line |-> line, column |-> column]
<1>1. /\ status = "scanning" /\ ~at_line_start /\ quote = NoQuote /\ current < Len(source)
      /\ source[current + 1] = "newline" /\ UNCHANGED <<source, indentation>>
      /\ tokens' = Append(tokens, t) /\ t.type = "Newline"
  BY CurrentTypes DEF EndLine, InLine, PeekIs, AtEnd, Peek, Read
<1> HIDE DEF t
<1>2. AfterText
  <2> SUFFICES ASSUME ~AfterText PROVE HasBlankReturn
    OBVIOUS
  <2>1. PICK c \in 0..current : /\ c < Len(source) /\ BeginsAt(source, c, Innermost)
                                /\ White(source, c, current)
    BY <1>1 DEF LineState, InnermostFits, Taken
  <2>2. Len(source) \in Nat /\ current \in Nat /\ current <= Len(source)
    BY CurrentTypes
  <2> QED BY <1>1, <2>1, <2>2, BlankReturn
<1>3. /\ tokens \in Seq(Token) /\ n \in Nat /\ Len(tokens') = n + 1
      /\ \A k \in 1..n : tokens'[k] = tokens[k]
      /\ tokens'[n + 1] = t
  BY <1>1, Lengths, AppendProperties
<1>4. Extends(tokens, tokens')
  BY <1>3 DEF Extends
<1>5. OnlyLayout(tokens, tokens')
  <2>1. \A k \in 1..(n + 1) : k = n + 1 \/ k \in 1..n
    BY <1>3
  <2>2. ~IsText(tokens'[n + 1])
    BY <1>1, <1>3 DEF IsText
  <2> QED BY <1>3, <1>4, <2>1, <2>2 DEF OnlyLayout
<1>6. DepthIn(tokens', n + 1) = DepthIn(tokens, n) /\ DepthIn(tokens, n) \in Int
  <2>1. DepthIn(tokens', n + 1) = Len(indentation) - 1 /\ DepthIn(tokens, n) = Len(indentation) - 1
    BY <1>1, <1>3 DEF IInv, Blocks, Pairs
  <2> QED BY <1>3, <2>1, DepthType
<1>7. \A a \in TextsIn(tokens) : StaysOpen(tokens, a) /\ ~StaysOpen(tokens', a) => Closing(a)'
  <2> SUFFICES ASSUME NEW a \in TextsIn(tokens), StaysOpen(tokens, a) PROVE StaysOpen(tokens', a)
    OBVIOUS
  <2>1. a \in 1..n /\ n \in a..n
    BY <1>3 DEF TextsIn
  <2>2. DepthIn(tokens, n) >= DepthIn(tokens, a)
    BY <2>1 DEF StaysOpen
  <2>3. \A k \in (n + 1)..Len(tokens') : k = n + 1
    BY <1>3
  <2>4. \A k \in (n + 1)..Len(tokens') : DepthIn(tokens', k) >= DepthIn(tokens, a)
    BY <1>6, <2>2, <2>3
  <2> QED BY <1>4, <2>1, <2>4, StaysOpenStill
<1>8. \A a \in TextsIn(tokens) : Closing(a) => Closing(a)'
  BY <1>1, <1>2 DEF Closing
<1>9. \A i \in 1..Len(indentation) : i \in 1..Len(indentation') => indentation'[i] = indentation[i]
  BY <1>1
<1> QED BY <1>1, <1>5, <1>7, <1>8, <1>9, NestedNoText

\* At the end of the text it does not matter who is closed.
LEMMA NestedFinish ==
  ASSUME IInv, IInv', Nested, Finish
  PROVE  Nested' /\ (Followed => Followed')
<1> DEFINE newline == IF tokens # <<>> /\ tokens[Len(tokens)].type # "Newline"
                      THEN <<Mark("Newline", column)>> ELSE <<>>
           open == Len(indentation) - 1
           dedents == Dedents(open)
           end == <<Mark("EndOfFile", column)>>
           first == tokens \o newline
           second == first \o dedents
<1>1. tokens \in Seq(Token) /\ open \in Nat /\ column \in Nat \ {0}
  BY Lengths, CurrentTypes
<1>2. tokens' = second \o end
  BY DEF Finish, Dedents
<1>3. newline \in Seq(Token) /\ \A i \in 1..Len(newline) : newline[i].type = "Newline"
  <2>1. Mark("Newline", column) \in Token /\ Mark("Newline", column).type = "Newline"
    BY <1>1, MarkType DEF TokenType
  <2> QED BY <2>1
<1>4. dedents \in Seq(Token) /\ \A i \in 1..Len(dedents) : dedents[i].type = "Dedent"
  BY <1>1, DedentsType
<1>5. end \in Seq(Token) /\ \A i \in 1..Len(end) : end[i].type = "EndOfFile"
  <2>1. Mark("EndOfFile", column) \in Token /\ Mark("EndOfFile", column).type = "EndOfFile"
    BY <1>1, MarkType DEF TokenType
  <2> QED BY <2>1
<1> HIDE DEF newline, open, dedents, end
<1>6. first \in Seq(Token) /\ OnlyLayout(tokens, first)
  BY <1>1, <1>3, LayoutConcat
<1> HIDE DEF first
<1>7. second \in Seq(Token) /\ OnlyLayout(first, second)
  BY <1>4, <1>6, LayoutConcat
<1> HIDE DEF second
<1>8. OnlyLayout(second, tokens')
  BY <1>2, <1>5, <1>7, LayoutConcat
<1>9. OnlyLayout(tokens, tokens')
  BY <1>6, <1>7, <1>8, LayoutConcats
<1>10. UNCHANGED source /\ indentation' = <<0>> /\ status' = "done"
  BY DEF Finish
<1>11. \A i \in 1..Len(indentation) : i \in 1..Len(indentation') => indentation'[i] = indentation[i]
  <2>1. \A i \in 1..Len(indentation') : i = 1
    BY <1>10
  <2> QED BY <1>10, <2>1 DEF IInv, Blocks, Ascends
<1>12. \A a \in TextsIn(tokens) : Closing(a)'
  BY <1>10 DEF Closing
<1> QED BY <1>9, <1>10, <1>11, <1>12, NestedNoText

\* The blocks behind those that a line belongs to are wider than the line.
LEMMA OthersAreWider ==
  ASSUME indentation \in Seq(Nat), Ascends, NEW width \in Nat, NEW i \in 1..Len(indentation),
         Cardinality(Enclosing(width)) < i
  PROVE  width < indentation[i]
<1> SUFFICES ASSUME ~(width < indentation[i]) PROVE FALSE
  OBVIOUS
<1>1. Len(indentation) \in Nat /\ \A j \in 1..Len(indentation) : indentation[j] \in Nat
  BY LenProperties, ElementOfSeq
<1>2. indentation[i] <= width /\ i \in Nat
  BY <1>1
<1>3. \A j \in 1..i : j \in Enclosing(width)
  <2> SUFFICES ASSUME NEW j \in 1..i PROVE j \in Enclosing(width)
    OBVIOUS
  <2>1. j \in 1..Len(indentation)
    BY <1>1
  <2>2. indentation[j] <= indentation[i]
    <3>1. CASE j = i
      BY <1>1, <3>1
    <3>2. CASE j # i
      <4>1. j < i
        BY <3>2
      <4>2. indentation[j] < indentation[i]
        BY <2>1, <4>1 DEF Ascends
      <4> QED BY <1>1, <2>1, <4>2
    <3> QED BY <3>1, <3>2
  <2> QED BY <1>1, <1>2, <2>1, <2>2 DEF Enclosing
<1>4. IsFiniteSet(Enclosing(width))
  <2>1. IsFiniteSet(1..Len(indentation)) /\ Enclosing(width) \subseteq 1..Len(indentation)
    BY <1>1, FS_Interval DEF Enclosing
  <2> QED BY <2>1, FS_Subset
<1>5. (1..i) \in SUBSET Enclosing(width)
  BY <1>3
<1>6. Cardinality(1..i) <= Cardinality(Enclosing(width))
  BY <1>4, <1>5, FS_Subset
<1>7. Cardinality(1..i) = i
  <2>1. 1 \in Int /\ i \in Int
    BY <1>2
  <2>2. Cardinality(1..i) = IF 1 > i THEN 0 ELSE i - 1 + 1
    BY <2>1, FS_Interval
  <2> QED BY <1>2, <2>2
<1>8. Cardinality(Enclosing(width)) \in Nat
  BY <1>4, FS_CardinalityType
<1> QED BY <1>2, <1>6, <1>7, <1>8

\* The width of a line, and where its content begins.
LEMMA ContentPlace ==
  ASSUME IInv
  PROVE  /\ Content \in current..Len(source) /\ Width \in Nat /\ Len(source) \in Nat
         /\ current \in Nat /\ Content \in Nat
         /\ Cardinality(Enclosing(Width)) \in 1..Len(indentation)
<1>1. Len(source) \in Nat /\ current \in 0..Len(source)
  BY CurrentTypes
<1>2. Content \in current..Len(source)
  BY <1>1, RunEnds DEF Content
<1>3. Width \in Nat
  BY <1>1, <1>2 DEF Width
<1>4. Cardinality(Enclosing(Width)) \in 1..Len(indentation)
  BY <1>3, Lengths, EnclosingIsPrefix DEF IInv, Blocks
<1> QED BY <1>1, <1>2, <1>3, <1>4

\* A wider line opens a block.
LEMMA NestedIndent ==
  ASSUME IInv, IInv', Nested, ScanIndentation, Width > indentation[Len(indentation)]
  PROVE  Nested' /\ (Followed => Followed')
<1> DEFINE n == Len(tokens)
           m == Len(indentation)
           t == Mark("Indent", 1)
<1>1. /\ tokens' = Append(tokens, t) /\ t.type = "Indent" /\ indentation' = Append(indentation, Width)
      /\ UNCHANGED source /\ status = "scanning" /\ at_line_start
  BY DEF ScanIndentation, BeginsContent, LineStarts, Mark
<1> HIDE DEF t
<1>2. /\ tokens \in Seq(Token) /\ n \in Nat /\ Len(tokens') = n + 1
      /\ \A k \in 1..n : tokens'[k] = tokens[k]
      /\ tokens'[n + 1] = t
  <2>1. tokens \in Seq(Token) /\ t \in Token
    BY <1>1, Lengths, MarkType DEF TokenType, t
  <2> QED BY <1>1, <2>1, AppendProperties
<1>3. Extends(tokens, tokens')
  BY <1>2 DEF Extends
<1>4. OnlyLayout(tokens, tokens')
  <2>1. \A k \in 1..(n + 1) : k = n + 1 \/ k \in 1..n
    BY <1>2
  <2>2. ~IsText(tokens'[n + 1])
    BY <1>1, <1>2 DEF IsText
  <2> QED BY <1>2, <1>3, <2>1, <2>2 DEF OnlyLayout
<1>5. /\ indentation \in Seq(Nat) /\ m \in Nat /\ Len(indentation') = m + 1
      /\ \A i \in 1..m : indentation'[i] = indentation[i]
  BY <1>1, Lengths, ContentPlace, AppendProperties
<1>6. DepthIn(tokens', n + 1) = m /\ DepthIn(tokens, n) = m - 1
  <2>1. DepthIn(tokens', n + 1) = (m + 1) - 1 /\ DepthIn(tokens, n) = m - 1
    BY <1>2, <1>5 DEF IInv, Blocks, Pairs
  <2> QED BY <1>5, <2>1
<1>7. \A a \in TextsIn(tokens) : StaysOpen(tokens, a) /\ ~StaysOpen(tokens', a) => Closing(a)'
  <2> SUFFICES ASSUME NEW a \in TextsIn(tokens), StaysOpen(tokens, a) PROVE StaysOpen(tokens', a)
    OBVIOUS
  <2>1. a \in 1..n /\ n \in a..n /\ a \in Nat
    BY <1>2 DEF TextsIn
  <2>2. m - 1 >= DepthIn(tokens, a) /\ DepthIn(tokens, a) \in Int
    BY <1>6, <2>1, DepthType DEF StaysOpen
  <2>3. \A k \in (n + 1)..Len(tokens') : k = n + 1
    BY <1>2
  <2>4. \A k \in (n + 1)..Len(tokens') : DepthIn(tokens', k) >= DepthIn(tokens, a)
    BY <1>5, <1>6, <2>2, <2>3
  <2> QED BY <1>3, <2>1, <2>4, StaysOpenStill
<1>8. \A a \in TextsIn(tokens) : ~Closing(a)
  BY <1>1 DEF Closing
<1> QED BY <1>1, <1>4, <1>5, <1>7, <1>8, NestedNoText

\* A narrower line closes the blocks that are wider.
LEMMA NestedDedents ==
  ASSUME IInv, IInv', Nested, ScanIndentation, ~(Width > indentation[Len(indentation)])
  PROVE  Nested' /\ (Followed => Followed')
<1> DEFINE n == Len(tokens)
           m == Len(indentation)
           depth == Cardinality(Enclosing(Width))
           dedents == Dedents(m - depth)
<1>1. /\ tokens' = tokens \o dedents /\ indentation' = SubSeq(indentation, 1, depth)
      /\ UNCHANGED source /\ status = "scanning" /\ at_line_start
      /\ status' = "scanning" => indentation[depth] = Width /\ ~at_line_start'
  BY DEF ScanIndentation, BeginsContent, LineStarts, Dedents
<1>2. depth \in 1..m /\ m \in Nat /\ Width \in Nat /\ indentation \in Seq(Nat)
  BY ContentPlace, Lengths
<1>3. /\ dedents \in Seq(Token) /\ Len(dedents) = m - depth /\ m - depth \in Nat
      /\ \A i \in 1..Len(dedents) : dedents[i].type = "Dedent"
  <2>1. m - depth \in Nat
    BY <1>2
  <2> HIDE DEF depth, m
  <2> QED BY <2>1, DedentsType
<1> HIDE DEF dedents
<1>4. /\ tokens \in Seq(Token) /\ n \in Nat /\ Len(tokens') = n + (m - depth)
      /\ \A k \in 1..Len(dedents) : tokens'[n + k] = dedents[k]
      /\ Extends(tokens, tokens') /\ OnlyLayout(tokens, tokens')
  <2>1. tokens \in Seq(Token)
    BY Lengths
  <2>2. n \in Nat
    BY <2>1
  <2>3. \A i \in 1..Len(dedents) : dedents[i].type \in {"Newline", "Indent", "Dedent", "EndOfFile"}
    BY <1>3
  <2> HIDE DEF depth, m
  <2>4. OnlyLayout(tokens, tokens \o dedents)
    BY <1>3, <2>1, <2>3, LayoutConcat
  <2>5. /\ Len(tokens \o dedents) = n + (m - depth)
        /\ \A k \in 1..Len(dedents) : (tokens \o dedents)[n + k] = dedents[k]
        /\ Extends(tokens, tokens \o dedents)
    BY <1>3, <2>1, ExtendsConcat
  <2> QED BY <1>1, <2>1, <2>2, <2>4, <2>5
<1>5. Len(indentation') = depth /\ \A i \in 1..depth : indentation'[i] = indentation[i]
  <2> HIDE DEF depth
  <2> QED BY <1>1, <1>2
<1>6. DepthIn(tokens, n) = m - 1 /\ DepthIn(tokens', n) = m - 1
  <2>1. DepthIn(tokens, n) = m - 1
    BY DEF IInv, Blocks, Pairs
  <2>2. \A k \in 1..n : tokens'[k] = tokens[k]
    BY <1>4 DEF Extends
  <2> QED BY <2>1, <2>2, CountAgrees DEF DepthIn
<1>7. \A k \in (n + 1)..Len(tokens') : tokens'[k].type = "Dedent"
  <2> SUFFICES ASSUME NEW k \in (n + 1)..Len(tokens') PROVE tokens'[k].type = "Dedent"
    OBVIOUS
  <2>1. k - n \in 1..Len(dedents) /\ n + (k - n) = k
    BY <1>2, <1>3, <1>4
  <2>2. tokens'[k] = dedents[k - n]
    BY <1>4, <2>1
  <2> QED BY <1>3, <2>1, <2>2
<1>8. \A k \in (n + 1)..Len(tokens') : DepthIn(tokens', k) >= depth - 1
  <2> SUFFICES ASSUME NEW k \in (n + 1)..Len(tokens') PROVE DepthIn(tokens', k) >= depth - 1
    OBVIOUS
  <2>1. k \in Nat /\ n <= k /\ k - n <= m - depth
    BY <1>2, <1>4
  <2>2. RunOf(tokens', n, k, "Dedent")
    <3>1. \A i \in (n + 1)..k : i \in (n + 1)..Len(tokens')
      BY <2>1
    <3> QED BY <1>7, <3>1 DEF RunOf
  <2>3. DepthIn(tokens', k) = DepthIn(tokens', n) - (k - n)
    BY <1>4, <2>1, <2>2, DepthRun
  <2> HIDE DEF depth
  <2> QED BY <1>2, <1>4, <1>6, <2>1, <2>3
<1>9. ASSUME NEW a \in TextsIn(tokens), StaysOpen(tokens, a), ~StaysOpen(tokens', a)
      PROVE  Closing(a)'
  <2> DEFINE i == DepthIn(tokens, a) + 1
  <2>1. a \in 1..n /\ a \in Nat
    BY DEF TextsIn
  <2>2. i \in 1..m
    <3>1. Pairs(tokens, m - 1) /\ m - 1 \in Nat
      BY <1>2 DEF IInv, Blocks
    <3>2. i \in 1..((m - 1) + 1)
      BY <1>4, <1>9, <2>1, <3>1, OpenDepth
    <3> QED BY <1>2, <3>2
  <2>3. depth < i
    <3> SUFFICES ASSUME ~(depth < i) PROVE FALSE
      OBVIOUS
    <3>1. \A k \in (n + 1)..Len(tokens') : DepthIn(tokens', k) >= DepthIn(tokens, a)
      <4> SUFFICES ASSUME NEW k \in (n + 1)..Len(tokens') PROVE DepthIn(tokens', k) >= DepthIn(tokens, a)
        OBVIOUS
      <4>1. DepthIn(tokens', k) >= depth - 1
        BY <1>8
      <4>2. DepthIn(tokens, a) \in Int /\ DepthIn(tokens', k) \in Int
        <5>1. k \in Nat
          BY <1>4
        <5> QED BY <2>1, <5>1, DepthType
      <4> HIDE DEF depth
      <4> QED BY <1>2, <2>2, <4>1, <4>2
    <3> QED BY <1>4, <1>9, <2>1, <3>1, StaysOpenStill
  <2>4. Width < indentation[i]
    <3> HIDE DEF i
    <3> QED BY <1>2, <2>2, <2>3, OthersAreWider DEF IInv, Blocks
  <2>5. WidthIn(source, tokens', a) = indentation[i]
    <3>1. WidthIn(source, tokens', a) = WidthIn(source, tokens, a)
      BY <1>4, <2>1, ExtendsKeeps
    <3> QED BY <1>9, <3>1 DEF Nested
  <2>6. ~AfterText'
    <3> DEFINE last == Len(tokens')
    <3>1. last \in (n + 1)..last
      <4> HIDE DEF depth, i
      <4> QED BY <1>2, <1>4, <2>2, <2>3
    <3>2. tokens'[last].type = "Dedent"
      BY <1>7, <3>1
    <3> QED BY <3>2 DEF AfterText, IsText
  <2>7. CASE status' # "scanning"
    BY <2>7 DEF Closing
  <2>8. CASE status' = "scanning"
    <3>1. Innermost' = Width
      <4> HIDE DEF depth
      <4> QED BY <1>1, <1>2, <1>5, <2>8 DEF Innermost
    <3>2. ~at_line_start'
      BY <1>1, <2>8
    <3> HIDE DEF i
    <3> QED BY <1>1, <2>4, <2>5, <2>6, <3>1, <3>2 DEF Closing
  <2> QED BY <2>7, <2>8
<1>10. \A a \in TextsIn(tokens) : ~Closing(a)
  BY <1>1 DEF Closing
<1> HIDE DEF depth
<1> QED BY <1>1, <1>4, <1>5, <1>9, <1>10, NestedNoText

-----------------------------------------------------------------------------
(* Where the lexer is in its line. *)

\* A step within a line.
LEMMA PassesInLine ==
  ASSUME IInv, Passes, line' = line
  PROVE  OneLine(source, current, current')
<1>1. line \in Nat /\ current \in Nat
  BY CurrentTypes
<1>2. CASE UNCHANGED place
  BY <1>1, <1>2, NoCharacters DEF place, OneLine
<1>3. CASE \E p \in current..Len(source) : OneLine(source, current, p) /\ AdvanceTo(p)
  BY <1>3 DEF AdvanceTo
<1>4. line' # line + 1
  BY <1>1
<1> QED BY <1>2, <1>3, <1>4 DEF Passes

\* Two stretches of a line are one.
LEMMA OneLines ==
  ASSUME NEW text, NEW p \in Nat, NEW q \in Nat, NEW r \in Nat, p <= q, q <= r,
         OneLine(text, p, q), OneLine(text, q, r)
  PROVE  OneLine(text, p, r)
<1>1. \A i \in (p + 1)..r : i \in (p + 1)..q \/ i \in (q + 1)..r
  OBVIOUS
<1> QED BY <1>1 DEF OneLine

\* So are two of white space.
LEMMA Whites ==
  ASSUME NEW text, NEW p \in Nat, NEW q \in Nat, NEW r \in Nat, p <= q, q <= r,
         White(text, p, q), White(text, q, r)
  PROVE  White(text, p, r)
<1>1. \A i \in (p + 1)..r : i \in (p + 1)..q \/ i \in (q + 1)..r
  OBVIOUS
<1> QED BY <1>1 DEF White

\* A step in a line, to another place in it.
LEMMA InLineState ==
  ASSUME IInv, Lines, start <= current, Next, LineState, ~at_line_start,
         status' = "scanning", ~at_line_start', line' = line, UNCHANGED <<source, indentation>>,
         ~AfterText' => ~AfterText /\ White(source, Taken, Taken')
  PROVE  LineState'
<1>1. status = "scanning" /\ Passes
  BY QuoteChanges, NextPasses
<1>2. /\ Taken \in Nat /\ Taken' \in Nat /\ Taken <= Taken' /\ Taken <= current
      /\ current \in Nat /\ current' \in Nat /\ current <= current'
      /\ quote' = NoQuote => Taken' = current'
      /\ quote' # NoQuote => Taken' = Taken
  BY TakenGrows
<1>3. OneLine(source, current, current')
  BY <1>1, PassesInLine
<1>4. OneLine(source, Taken, current)
  <2>1. CASE quote = NoQuote
    BY <2>1, NoCharacters DEF Taken
  <2>2. CASE quote # NoQuote
    BY <1>1, <2>2 DEF LineState
  <2> QED BY <2>1, <2>2
<1>5. OneLine(source, Taken, current')
  BY <1>2, <1>3, <1>4, OneLines
<1>6. OneLine(source, Taken, Taken')
  <2>1. CASE quote' = NoQuote
    BY <1>2, <1>5, <2>1
  <2>2. CASE quote' # NoQuote
    BY <1>2, <2>2 DEF OneLine
  <2> QED BY <2>1, <2>2
<1>7. quote' # NoQuote => OneLine(source, Taken', current')
  BY <1>2, <1>5
<1>8. PICK c \in 0..Taken : /\ c < Len(source) /\ BeginsAt(source, c, Innermost)
                            /\ OneLine(source, c, Taken)
                            /\ ~AfterText => White(source, c, Taken)
  BY <1>1 DEF LineState, InnermostFits
<1>9. c \in 0..Taken' /\ c \in Nat /\ c <= Taken
  BY <1>2
<1>10. OneLine(source, c, Taken')
  BY <1>2, <1>6, <1>8, <1>9, OneLines
<1>11. ~AfterText' => White(source, c, Taken')
  BY <1>2, <1>8, <1>9, Whites
<1>12. Innermost' = Innermost
  BY DEF Innermost
<1>13. InnermostFits'
  BY <1>8, <1>9, <1>10, <1>11, <1>12 DEF InnermostFits
<1> QED BY <1>7, <1>13 DEF LineState

\* Between two lines.
LEMMA LineBoundary ==
  ASSUME IInv, LineState, EmptyLine \/ EndLine
  PROVE  /\ \/ current' = LineBegin(source, current')
            \/ current' = Len(source)
            \/ source[current' + 1] = "newline"
         /\ UNCHANGED <<source, indentation, quote, status>> /\ at_line_start'
<1>1. /\ Content \in current..Len(source) /\ Len(source) \in Nat /\ current \in Nat /\ Content \in Nat
      /\ Content \in 0..Len(source)
  BY ContentPlace
<1>2. ASSUME NEW p \in Nat, source[p + 1] = "newline", current' = p + 1
      PROVE  current' = LineBegin(source, current')
  BY <1>2, NextLine
<1>3. CASE EndLine
  BY <1>1, <1>2, <1>3 DEF EndLine, PeekIs, Peek, AdvanceLine
<1>4. CASE EmptyLine
  <2> DEFINE e == EndOfRun(CharacterClass \ {"newline"}, Content)
  <2>1. e = Len(source) \/ source[e + 1] = "newline"
    <3>1. e = Len(source) \/ source[e + 1] \notin CharacterClass \ {"newline"}
      BY <1>1, RunStops
    <3>2. e \in 0..Len(source)
      BY <1>1, RunEnds
    <3>3. source \in Seq(CharacterClass)
      BY LexerAssumption DEF IInv, TypeOK
    <3> HIDE DEF e
    <3>4. e # Len(source) => e + 1 \in 1..Len(source)
      BY <1>1, <3>2
    <3>5. \A i \in 1..Len(source) : source[i] \in CharacterClass
      BY <3>3, ElementOfSeq
    <3> QED BY <3>1, <3>4, <3>5
  <2> HIDE DEF e
  <2>2. UNCHANGED <<source, indentation, quote, status>> /\ at_line_start'
    BY <1>4 DEF EmptyLine, LineStarts
  <2>3. \/ source[Content + 1] = "newline" /\ current' = Content + 1
        \/ current' = e
        \/ current' = Len(source)
    BY <1>4 DEF EmptyLine, ContentIs, AdvanceTo, e
  <2> QED BY <1>1, <1>2, <2>1, <2>2, <2>3
<1> QED BY <1>3, <1>4

\* The content of a line begins where its indentation ends.
LEMMA ContentBegins ==
  ASSUME IInv, Lines, LineState, ScanIndentation, status' = "scanning"
  PROVE  LineState'
<1>1. /\ Content \in current..Len(source) /\ Len(source) \in Nat /\ current \in Nat /\ Content \in Nat
      /\ Cardinality(Enclosing(Width)) \in 1..Len(indentation) /\ Width \in Nat
      /\ current \in 0..Len(source)
  BY ContentPlace
<1>2. /\ status = "scanning" /\ at_line_start /\ quote = NoQuote /\ quote' = NoQuote
      /\ Content < Len(source) /\ source[Content + 1] \notin {"tab", "newline", "hash"}
      /\ UNCHANGED source /\ current' = Content /\ ~at_line_start'
  BY DEF ScanIndentation, BeginsContent, LineStarts, ContentIs, AdvanceTo, Lines
<1>3. source[Content + 1] # "space" /\ \A i \in (current + 1)..Content : source[i] = "space"
  <2>1. Content = Len(source) \/ source[Content + 1] \notin {"space"}
    BY <1>1, RunStops DEF Content
  <2>2. \A i \in (current + 1)..Content : source[i] \in {"space"}
    BY <1>1, RunHolds DEF Content
  <2> QED BY <1>1, <1>2, <2>1, <2>2
<1>4. current = LineBegin(source, current)
  <2>1. current # Len(source)
    BY <1>1, <1>2
  <2>2. ASSUME source[current + 1] = "newline" PROVE FALSE
    <3>1. Content # current
      BY <1>2, <2>2
    <3>2. current + 1 \in (current + 1)..Content
      BY <1>1, <3>1
    <3> QED BY <1>3, <2>2, <3>2
  <2> QED BY <1>2, <2>1, <2>2 DEF LineState
<1>5. LineBegin(source, Content) = current
  <2>1. OneLine(source, current, Content)
    BY <1>3 DEF OneLine
  <2>2. current <= Content
    BY <1>1
  <2> QED BY <1>1, <1>4, <2>1, <2>2, SameLine
<1>6. Innermost' = Width
  <2>1. CASE Width > indentation[Len(indentation)]
    <3>1. indentation' = Append(indentation, Width) /\ indentation \in Seq(Nat)
      BY <2>1, Lengths DEF ScanIndentation
    <3>2. Len(indentation') = Len(indentation) + 1 /\ indentation'[Len(indentation) + 1] = Width
      BY <1>1, <3>1, AppendProperties
    <3> QED BY <3>2 DEF Innermost
  <2>2. CASE ~(Width > indentation[Len(indentation)])
    <3> DEFINE depth == Cardinality(Enclosing(Width))
    <3>1. indentation' = SubSeq(indentation, 1, depth) /\ indentation[depth] = Width
          /\ indentation \in Seq(Nat) /\ depth \in 1..Len(indentation)
      BY <1>1, <2>2, Lengths DEF ScanIndentation
    <3> HIDE DEF depth
    <3>2. Len(indentation') = depth /\ indentation'[depth] = Width
      BY <3>1
    <3> QED BY <3>2 DEF Innermost
  <2> QED BY <2>1, <2>2
<1>7. BeginsAt(source, Content, Width)
  <2>1. LineBegin(source, Content) + Width = Content
    BY <1>1, <1>5 DEF Width
  <2> QED BY <1>2, <1>3, <1>5, <2>1 DEF BeginsAt
<1>8. Taken' = Content /\ Content \in 0..Content
  BY <1>1, <1>2 DEF Taken
<1>9. OneLine(source, Content, Content) /\ White(source, Content, Content)
  BY <1>1 DEF OneLine, White
<1>10. InnermostFits'
  BY <1>2, <1>6, <1>7, <1>8, <1>9 DEF InnermostFits
<1> QED BY <1>2, <1>10 DEF LineState

-----------------------------------------------------------------------------
(* Every step keeps the blocks. *)

\* A text is read, in its line and as deep as that.
LEMMA FitsText ==
  ASSUME IInv, IInv', Lines, start <= current, Next, LineState, Nested, Followed,
         ~at_line_start, ~at_line_start', status' = "scanning", line' = line,
         UNCHANGED <<source, indentation>>,
         NEW t, tokens' = Append(tokens, t), IsText(t), t.from = Taken
  PROVE  LineState' /\ Nested' /\ Followed'
<1>1. t \in Token /\ tokens \in Seq(Token) /\ status = "scanning"
  BY AppendedIsToken, Lengths, QuoteChanges
<1>2. AfterText'
  <2>1. Len(tokens) \in Nat /\ Len(tokens') = Len(tokens) + 1 /\ tokens'[Len(tokens) + 1] = t
    BY <1>1, AppendProperties
  <2> QED BY <2>1 DEF AfterText
<1>3. LineState'
  BY <1>2, InLineState
<1>4. PICK c \in 0..Taken : BeginsAt(source, c, Innermost) /\ OneLine(source, c, Taken)
  BY <1>1 DEF LineState, InnermostFits
<1>5. Taken \in Nat /\ c \in Nat /\ c <= Taken /\ Innermost \in Nat
  <2>1. Taken \in Nat
    BY TakenGrows
  <2>2. Innermost \in Nat
    <3>1. Len(indentation) \in 1..Len(indentation)
      BY Lengths
    <3> QED BY <3>1, Lengths DEF Innermost
  <2> QED BY <2>1, <2>2
<1>6. Leading(source, t.from) = Innermost
  BY <1>4, <1>5, LeadingAt
<1> QED BY <1>1, <1>3, <1>6, NestedText

\* Characters of a line are passed that are in no token, or not yet.
Passable == ~AfterText => White(source, Taken, Taken')

\* Such a step changes no block.
LEMMA FitsSkim ==
  ASSUME IInv, IInv', Lines, start <= current, Next, LineState, Nested, Followed,
         ~at_line_start, UNCHANGED <<source, indentation, tokens, at_line_start>>,
         status' = "scanning" => line' = line /\ Passable
  PROVE  LineState' /\ Nested' /\ Followed'
<1>1. Nested' /\ Followed'
  BY NestedSkim, QuoteChanges
<1>2. AfterText' = AfterText
  BY DEF AfterText
<1>3. CASE status' = "scanning"
  BY <1>1, <1>2, <1>3, InLineState DEF Passable
<1>4. CASE status' # "scanning"
  BY <1>1, <1>4 DEF LineState
<1> QED BY <1>3, <1>4

\* White space is passed, or a comment, which no blank line with a carriage return has.
LEMMA SkipPassable ==
  ASSUME IInv, Lines, start <= current, LineState, ~HasBlankReturn, Skip
  PROVE  Passable
<1> SUFFICES ASSUME ~AfterText PROVE White(source, Taken, Taken')
  BY DEF Passable
<1>1. /\ status = "scanning" /\ ~at_line_start /\ quote = NoQuote /\ quote' = NoQuote
      /\ Taken = current /\ Taken' = current'
  BY DEF Skip, InLine, Taken
<1>2. Len(source) \in Nat /\ current \in 0..Len(source) /\ current \in Nat /\ current <= Len(source)
  BY CurrentTypes
<1>3. CASE PeekIs({"space", "tab", "return"})
           /\ AdvanceTo(EndOfRun({"space", "tab", "return"}, current))
  <2>1. \A i \in (current + 1)..EndOfRun({"space", "tab", "return"}, current) :
          source[i] \in {"space", "tab", "return"}
    BY <1>2, RunHolds
  <2> QED BY <1>1, <1>3, <2>1 DEF White, AdvanceTo
<1>4. CASE PeekIs({"hash"})
  <2>1. source[current + 1] = "hash"
    BY <1>4 DEF PeekIs, Peek
  <2>2. PICK c \in 0..current : /\ c < Len(source) /\ BeginsAt(source, c, Innermost)
                                /\ White(source, c, current)
    BY <1>1 DEF LineState, InnermostFits
  <2>3. HasBlankReturn
    BY <1>2, <2>1, <2>2, BlankReturn
  <2> QED BY <2>3
<1> QED BY <1>3, <1>4 DEF Skip

\* In a string no character is taken before its end.
LEMMA StringPassable ==
  ASSUME IInv, Lines, start <= current, Next, quote' # NoQuote
  PROVE  Passable
<1>1. Taken' = Taken /\ Taken \in Nat
  BY TakenGrows
<1> QED BY <1>1 DEF Passable, White

\* The steps that read no token.
LEMMA SkimFits ==
  ASSUME IInv, IInv', Lines, start <= current, Next, LineState, Nested, Followed, ~HasBlankReturn,
         Skip \/ BeginsNothing \/ BeginString \/ StringCharacter \/ StringEscape
           \/ Unterminated \/ UnsupportedEscape
  PROVE  LineState' /\ Nested' /\ Followed'
<1>1. UNCHANGED <<source, indentation, tokens, at_line_start>>
  BY DEF Skip, BeginsNothing, BeginString, StringCharacter, StringEscape, Unterminated,
         UnsupportedEscape, Fail, InStringUnchanged
<1>2. ~at_line_start
  BY DEF Lines, Skip, BeginsNothing, BeginString, StringCharacter, StringEscape, Unterminated,
         UnsupportedEscape, InLine, InString
<1>3. CASE BeginsNothing \/ Unterminated \/ UnsupportedEscape
  <2>1. status' # "scanning"
    BY <1>3 DEF BeginsNothing, Unterminated, UnsupportedEscape, Fail
  <2> QED BY <1>1, <1>2, <2>1, FitsSkim
<1>4. CASE Skip
  <2>1. line' = line
    BY <1>4 DEF Skip, AdvanceTo
  <2> QED BY <1>1, <1>2, <1>4, <2>1, SkipPassable, FitsSkim
<1>5. CASE BeginString \/ StringCharacter \/ StringEscape
  <2>1. line' = line
    BY <1>5 DEF BeginString, StringCharacter, StringEscape, AdvanceTo
  <2>2. quote' # NoQuote
    BY <1>5 DEF BeginString, StringCharacter, StringEscape, InString, InStringUnchanged,
                PeekIs, NoQuote
  <2> QED BY <1>1, <1>2, <2>1, <2>2, StringPassable, FitsSkim
<1> QED BY <1>3, <1>4, <1>5

\* The steps that read one.
LEMMA ReadFits ==
  ASSUME IInv, IInv', Lines, start <= current, Placed, Next, LineState, Nested, Followed,
         ScanIdentifier \/ ScanNumber \/ ScanSymbol \/ StringEnd
  PROVE  LineState' /\ Nested' /\ Followed'
<1>1. ASSUME InLine, NEW type \in {"Word", "Number", "Symbol"}, NEW p, ReadToken(type, p)
      PROVE  LineState' /\ Nested' /\ Followed'
  <2> DEFINE t == [type |-> type, from |-> current, to |-> p, line |-> line, column |-> column]
  <2>1. IsText(t) /\ t.from = Taken
    BY <1>1 DEF IsText, InLine, Taken
  <2>2. tokens' = Append(tokens, t)
    BY <1>1 DEF ReadToken, Read
  <2> HIDE DEF t
  <2>3. /\ ~at_line_start /\ ~at_line_start' /\ status' = "scanning" /\ line' = line
        /\ UNCHANGED <<source, indentation>>
    BY <1>1 DEF InLine, ReadToken, AdvanceTo
  <2> QED BY <2>1, <2>2, <2>3, FitsText
<1>2. CASE ScanIdentifier
  BY <1>1, <1>2 DEF ScanIdentifier
<1>3. CASE ScanNumber
  <2>1. InLine /\ \E p : ReadToken("Number", p)
    BY <1>3 DEF ScanNumber
  <2> QED BY <1>1, <2>1
<1>4. CASE ScanSymbol
  <2>1. InLine /\ \E p : ReadToken("Symbol", p)
    BY <1>4 DEF ScanSymbol
  <2> QED BY <1>1, <2>1
<1>5. CASE StringEnd
  <2> DEFINE t == [type |-> "String", from |-> start, to |-> current + 1,
                   line |-> token_line, column |-> token_column]
  <2>1. IsText(t) /\ t.from = Taken
    BY <1>5 DEF IsText, StringEnd, InString, Taken
  <2>2. tokens' = Append(tokens, t)
    BY <1>5 DEF StringEnd
  <2> HIDE DEF t
  <2>3. /\ ~at_line_start /\ ~at_line_start' /\ status' = "scanning" /\ line' = line
        /\ UNCHANGED <<source, indentation>>
    BY <1>5 DEF StringEnd, InString, AdvanceTo, Lines
  <2> QED BY <2>1, <2>2, <2>3, FitsText
<1> QED BY <1>2, <1>3, <1>4, <1>5

\* The steps at the ends of lines.
LEMMA LineFits ==
  ASSUME IInv, IInv', Lines, LineState, Nested, Followed, ~HasBlankReturn,
         TabError \/ EmptyLine \/ ScanIndentation \/ EndLine \/ Finish
  PROVE  LineState' /\ Nested' /\ Followed'
<1>1. CASE TabError
  <2>1. UNCHANGED <<source, tokens, indentation, at_line_start>> /\ status = "scanning"
        /\ status' # "scanning"
    BY <1>1 DEF TabError, LineStarts, Fail
  <2> QED BY <2>1, NestedSkim DEF LineState
<1>2. CASE EmptyLine
  <2>1. UNCHANGED <<source, tokens, indentation, at_line_start>> /\ status = "scanning"
        /\ at_line_start /\ quote = NoQuote
    BY <1>2 DEF EmptyLine, LineStarts, Lines
  <2>2. LineState'
    BY <1>2, <2>1, LineBoundary DEF LineState
  <2> QED BY <2>1, <2>2, NestedSkim
<1>3. CASE EndLine
  <2>1. quote = NoQuote
    BY <1>3 DEF EndLine, InLine
  <2>2. LineState'
    BY <1>3, <2>1, LineBoundary DEF LineState
  <2> QED BY <1>3, <2>2, NestedEndLine
<1>4. CASE ScanIndentation
  <2>1. LineState'
    <3>1. CASE status' = "scanning"
      BY <1>4, <3>1, ContentBegins
    <3>2. CASE status' # "scanning"
      BY <3>2 DEF LineState
    <3> QED BY <3>1, <3>2
  <2> QED BY <1>4, <2>1, NestedIndent, NestedDedents
<1>5. CASE Finish
  <2>1. LineState'
    BY <1>5 DEF LineState, Finish
  <2> QED BY <1>5, <2>1, NestedFinish
<1> QED BY <1>1, <1>2, <1>3, <1>4, <1>5

\* At the beginning there is no text, and the lexer is where a line begins.
LEMMA FitsInit == Init => Fits
<1> SUFFICES ASSUME Init PROVE LineState /\ Nested /\ Followed
  BY DEF Fits
<1>1. LineState
  BY NoLine DEF Init, LineState
<1>2. TextsIn(tokens) = {}
  BY DEF Init, TextsIn
<1> QED BY <1>1, <1>2 DEF Nested, Followed

\* Texts with other lines are left out, and the text does not change.
LEMMA FitsStays == IInv /\ Lines /\ Placed /\ Fits /\ [Next]_vars => Fits'
<1> SUFFICES ASSUME IInv, Lines, Placed, Fits, [Next]_vars PROVE Fits'
  OBVIOUS
<1>1. CASE Next
  <2>1. IInv' /\ UNCHANGED source /\ start <= current
    BY <1>1, StepInv, TokenBegins DEF Placed
  <2>2. HasBlankReturn' = HasBlankReturn
    BY <2>1 DEF HasBlankReturn, LineStart
  <2>3. CASE ~HasBlankReturn
    <3>1. LineState /\ Nested /\ Followed
      BY <2>3 DEF Fits
    <3>2. LineState' /\ Nested' /\ Followed'
      BY <1>1, <2>1, <2>3, <3>1, SkimFits, ReadFits, LineFits DEF Next
    <3> QED BY <3>2 DEF Fits
  <2>4. CASE HasBlankReturn
    BY <2>2, <2>4 DEF Fits
  <2> QED BY <2>3, <2>4
<1>2. CASE UNCHANGED vars
  <2>1. HasBlankReturn' = HasBlankReturn
    BY <1>2 DEF HasBlankReturn, LineStart, vars
  <2>2. LineState' = LineState
    BY <1>2 DEF vars, LineState, InnermostFits, Taken, AfterText, Innermost
  <2>3. Nested' = Nested
    BY <1>2 DEF vars, Nested, Closing, AfterText, Innermost
  <2>4. Followed' = Followed
    BY <1>2 DEF vars, Followed
  <2> QED BY <2>1, <2>2, <2>3, <2>4 DEF Fits
<1> QED BY <1>1, <1>2

\* In every text without a blank line that a carriage return begins, the blocks are
\* those of the lines with code: whatever blank lines and comments stand between, a
\* block is open as long as no narrower line comes, and a narrower line closes it
\* (lexer.cpp:133-153).
THEOREM BlocksAreThoseOfLines == Spec => []BlocksFollowLines
<1>1. IInv /\ Fits => BlocksFollowLines
  <2> SUFFICES ASSUME IInv, LineState, Nested, Followed PROVE BlocksFollowCode
    BY DEF BlocksFollowLines, Fits
  <2>1. DOMAIN tokens = 1..Len(tokens)
    BY Lengths, LenProperties
  <2>2. Texts = TextsIn(tokens)
    BY <2>1 DEF Texts, TextsIn
  <2>3. \A k : Depth(k) = DepthIn(tokens, k)
    BY DEF Depth, DepthIn, Count, CountIn
  <2>4. \A k : WidthOf(k) = WidthIn(source, tokens, k)
    BY DEF WidthOf, WidthIn, SpacesBefore, Leading, LineStart, LineBegin, Newlines
  <2> SUFFICES ASSUME NEW a \in TextsIn(tokens), NEW b \in TextsIn(tokens), a < b
               PROVE  LET narrower == {c \in Texts \cap (a..b) : WidthOf(c) < WidthOf(a)}
                      IN /\ narrower = {} =>
                              /\ \A k \in a..b : Depth(k) >= Depth(a)
                              /\ Depth(b) = Depth(a) <=> WidthOf(b) = WidthOf(a)
                         /\ narrower # {} => \E k \in a..b : Depth(k) < Depth(a)
    BY <2>2 DEF BlocksFollowCode
  <2>5. {c \in Texts \cap (a..b) : WidthOf(c) < WidthOf(a)}
          = {c \in TextsIn(tokens) \cap (a..b) : WidthIn(source, tokens, c) < WidthIn(source, tokens, a)}
    BY <2>2, <2>4
  <2>6. Follow(source, tokens, a, b)
    BY DEF Followed
  <2> QED BY <2>3, <2>4, <2>5, <2>6 DEF Follow
<1>2. IInv /\ Lines /\ Placed /\ Fits /\ [Next]_vars => (IInv /\ Lines /\ Placed /\ Fits)'
  BY StepInv, StepLines, PlacedStays, FitsStays
<1>3. Init => IInv /\ Lines /\ Placed /\ Fits
  BY InitInv, InitLines, PlacedInit, FitsInit
<1> QED BY <1>1, <1>2, <1>3, PTL DEF Spec
=============================================================================
