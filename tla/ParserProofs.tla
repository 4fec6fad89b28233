---------------------------- MODULE ParserProofs ----------------------------
(***************************************************************************)
(* The parser stays inside the tokens and builds nothing but syntax trees, *)
(* for every text.                                                         *)
(*                                                                         *)
(* In the middle of a text the trees that are there are of no use yet: an  *)
(* operator waits for its right side, a name for its parameters.  What     *)
(* holds is that the agenda turns them, step by step, into one sequence of *)
(* statements.  The shape of a stack of trees is the sort of its last tree *)
(* and the shape of those below it.                                        *)
(***************************************************************************)
EXTENDS Parser, SequenceTheorems, TLAPS

CONSTANTS
  Exprs, Stmts   \* any sets of trees that have all the nodes over them

Sort == {"Expr", "Exprs", "Stmt", "Stmts", "Name", "Names", "Operator", "Sign"}
Many(sort) ==
  CASE sort = "Expr" -> "Exprs"
    [] sort = "Stmt" -> "Stmts"
    [] sort = "Name" -> "Names"

OperatorType == UNION {Levels[i] : i \in 1..4}

Tree(sort) ==
  CASE sort = "Expr" -> Exprs
    [] sort = "Exprs" -> Seq(Exprs)
    [] sort = "Stmt" -> Stmts
    [] sort = "Stmts" -> Seq(Stmts)
    [] sort = "Name" -> STRING
    [] sort = "Names" -> Seq(STRING)
    [] sort = "Operator" -> OperatorType
    [] sort = "Sign" -> Signs

\* Every node over trees of the sets is in them.
Closed ==
  /\ \A lexeme \in STRING : {LiteralExpr(lexeme), VariableExpr(lexeme)} \subseteq Exprs
  /\ \A es \in Seq(Exprs) : ListExpr(es) \in Exprs
  /\ \A e \in Exprs, op \in Signs : UnaryExpr(op, e) \in Exprs
  /\ \A l \in Exprs, r \in Exprs, op \in OperatorType : BinaryExpr(l, op, r) \in Exprs
  /\ \A e \in Exprs, es \in Seq(Exprs) : CallExpr(e, es) \in Exprs
  /\ \A e \in Exprs : {ExpressionStmt(e), PrintStmt(e), ReturnStmt(<<e>>)} \subseteq Stmts
  /\ ReturnStmt(<<>>) \in Stmts
  /\ \A name \in STRING, e \in Exprs : AssignmentStmt(name, e) \in Stmts
  /\ \A e \in Exprs, b \in Seq(Stmts) : {WhileStmt(e, b), IfStmt(e, b, <<>>)} \subseteq Stmts
  /\ \A e \in Exprs, b \in Seq(Stmts), c \in Seq(Stmts) : IfStmt(e, b, <<c>>) \in Stmts
  /\ \A name \in STRING, ps \in Seq(STRING), b \in Seq(Stmts) : FunctionStmt(name, ps, b) \in Stmts

Fits(tree, sort) == Closed => tree \in Tree(sort)

-----------------------------------------------------------------------------
(* Shapes. *)

Row(trees_) == \E T : trees_ \in Seq(T)

\* The shape of the first k trees.
StackedTo(row, k, shape) ==
  /\ k \in 0..Len(row)
  /\ \E rows : /\ rows[0] = <<>> /\ rows[k] = shape
               /\ \A i \in 1..k : \E sort \in Sort :
                    rows[i] = <<sort, rows[i - 1]>> /\ Fits(row[i], sort)
Stacked(row, shape) == Row(row) /\ StackedTo(row, Len(row), shape)

LEMMA RowAppend ==
  ASSUME NEW row, Row(row), NEW tree
  PROVE  /\ Row(Append(row, tree)) /\ Len(row) \in Nat /\ Len(Append(row, tree)) = Len(row) + 1
         /\ \A i \in 1..Len(row) : Append(row, tree)[i] = row[i]
         /\ Append(row, tree)[Len(row) + 1] = tree
<1>1. PICK T : row \in Seq(T)
  BY DEF Row
<1> DEFINE U == T \cup {tree}
<1>2. row \in Seq(U) /\ tree \in U
  BY <1>1, SeqMonotonic
<1> HIDE DEF U
<1>3. /\ Append(row, tree) \in Seq(U) /\ Len(row) \in Nat
      /\ Len(Append(row, tree)) = Len(row) + 1
      /\ \A i \in 1..Len(row) : Append(row, tree)[i] = row[i]
      /\ Append(row, tree)[Len(row) + 1] = tree
  BY <1>2, AppendProperties, LenProperties
<1> QED BY <1>3 DEF Row

LEMMA RowPart ==
  ASSUME NEW row, Row(row), NEW k \in 0..Len(row)
  PROVE  /\ Row(SubSeq(row, 1, k)) /\ Len(SubSeq(row, 1, k)) = k
         /\ \A i \in 1..k : SubSeq(row, 1, k)[i] = row[i]
         /\ \A i \in 1..(Len(row) - k) : SubSeq(row, k + 1, Len(row))[i] = row[k + i]
<1>1. PICK T : row \in Seq(T)
  BY DEF Row
<1>2. Len(row) \in Nat /\ k \in Nat /\ k <= Len(row) /\ \A i \in 1..Len(row) : row[i] \in T
  BY <1>1, LenProperties, ElementOfSeq
<1>3. /\ SubSeq(row, 1, k) \in Seq(T)
      /\ Len(SubSeq(row, 1, k)) = IF 1 <= k THEN k - 1 + 1 ELSE 0
      /\ \A i \in 1..(k - 1 + 1) : SubSeq(row, 1, k)[i] = row[1 + i - 1]
  <2>1. 1 \in Int /\ k \in Int /\ \A i \in 1..k : row[i] \in T
    BY <1>2
  <2> QED BY <2>1, SubSeqProperties
<1>4. /\ Len(SubSeq(row, 1, k)) = k
      /\ \A i \in 1..k : SubSeq(row, 1, k)[i] = row[i]
  <2>1. k - 1 + 1 = k /\ \A i \in 1..k : 1 + i - 1 = i
    BY <1>2
  <2> QED BY <1>2, <1>3, <2>1
<1>5. \A i \in 1..(Len(row) - k) : SubSeq(row, k + 1, Len(row))[i] = row[k + i]
  <2> DEFINE n == Len(row)
             m == k + 1
  <2>1. m \in Int /\ n \in Int /\ \A i \in m..n : row[i] \in T
    BY <1>2
  <2> HIDE DEF n, m
  <2>2. \A i \in 1..(n - m + 1) : SubSeq(row, m, n)[i] = row[m + i - 1]
    BY <2>1, SubSeqProperties
  <2>3. n - m + 1 = n - k /\ \A i \in Int : m + i - 1 = k + i
    BY <1>2, <2>1 DEF m
  <2>4. ASSUME NEW i \in 1..(n - k) PROVE SubSeq(row, m, n)[i] = row[k + i]
    <3>1. i \in 1..(n - m + 1) /\ m + i - 1 = k + i
      BY <1>2, <2>1, <2>3
    <3> QED BY <2>2, <3>1
  <2> QED BY <2>4 DEF n, m
<1> QED BY <1>3, <1>4, <1>5 DEF Row

LEMMA StackedPop ==
  ASSUME NEW row, NEW k, NEW sort, NEW below, StackedTo(row, k, <<sort, below>>)
  PROVE  k \in Nat /\ k > 0 /\ k \in 1..Len(row) /\ Fits(row[k], sort) /\ StackedTo(row, k - 1, below)
<1>1. k \in 0..Len(row)
  BY DEF StackedTo
<1>2. PICK rows : /\ rows[0] = <<>> /\ rows[k] = <<sort, below>>
                  /\ \A i \in 1..k : \E x \in Sort :
                       rows[i] = <<x, rows[i - 1]>> /\ Fits(row[i], x)
  BY DEF StackedTo
<1>3. k # 0
  <2>1. <<sort, below>> # <<>>
    OBVIOUS
  <2> QED BY <1>2, <2>1
<1>4. k \in 1..k /\ k - 1 \in 0..Len(row) /\ 1..(k - 1) \subseteq 1..k
  BY <1>1, <1>3
<1>5. PICK x \in Sort : rows[k] = <<x, rows[k - 1]>> /\ Fits(row[k], x)
  BY <1>2, <1>4
<1>6. x = sort /\ rows[k - 1] = below
  BY <1>2, <1>5
<1>7. StackedTo(row, k - 1, below)
  BY <1>2, <1>4, <1>6 DEF StackedTo
<1> QED BY <1>1, <1>3, <1>5, <1>6, <1>7

\* The first k trees stay, and one joins them.
LEMMA StackedOn ==
  ASSUME NEW row, Row(row), NEW k, NEW below, StackedTo(row, k, below),
         NEW sort \in Sort, NEW tree, Fits(tree, sort)
  PROVE  Stacked(Append(SubSeq(row, 1, k), tree), <<sort, below>>)
<1> DEFINE part == SubSeq(row, 1, k)
           longer == Append(part, tree)
<1>1. k \in 0..Len(row) /\ Len(row) \in Nat
  BY RowAppend DEF StackedTo
<1>2. Row(part) /\ Len(part) = k /\ \A i \in 1..k : part[i] = row[i]
  BY <1>1, RowPart
<1> HIDE DEF part
<1>3. /\ Row(longer) /\ Len(longer) = k + 1 /\ longer[k + 1] = tree
      /\ \A i \in 1..k : longer[i] = row[i]
  BY <1>2, RowAppend
<1> HIDE DEF longer
<1>4. PICK rows : /\ rows[0] = <<>> /\ rows[k] = below
                  /\ \A i \in 1..k : \E x \in Sort :
                       rows[i] = <<x, rows[i - 1]>> /\ Fits(row[i], x)
  BY DEF StackedTo
<1> DEFINE more == [i \in 0..(k + 1) |-> IF i = k + 1 THEN <<sort, below>> ELSE rows[i]]
<1>5. more[0] = <<>> /\ more[k + 1] = <<sort, below>> /\ more[k] = below
      /\ \A i \in 0..k : more[i] = rows[i]
  BY <1>1, <1>4
<1> HIDE DEF more
<1>6. ASSUME NEW i \in 1..(k + 1)
      PROVE  \E x \in Sort : more[i] = <<x, more[i - 1]>> /\ Fits(longer[i], x)
  <2>1. CASE i = k + 1
    <3>1. i - 1 = k
      BY <1>1, <2>1
    <3> QED BY <1>3, <1>5, <2>1, <3>1
  <2>2. CASE i # k + 1
    <3>1. i \in 1..k /\ i \in 0..k /\ i - 1 \in 0..k
      BY <1>1, <2>2
    <3> QED BY <1>3, <1>4, <1>5, <3>1
  <2> QED BY <2>1, <2>2
<1>7. k + 1 \in 0..Len(longer)
  BY <1>1, <1>3
<1>8. StackedTo(longer, k + 1, <<sort, below>>)
  BY <1>5, <1>6, <1>7 DEF StackedTo
<1> QED BY <1>3, <1>8 DEF Stacked, longer, part

LEMMA StackedPush ==
  ASSUME NEW row, NEW below, Stacked(row, below), NEW sort \in Sort, NEW tree, Fits(tree, sort)
  PROVE  Stacked(Append(row, tree), <<sort, below>>)
<1>1. SubSeq(row, 1, Len(row)) = row
  BY SubSeqFull DEF Stacked, Row
<1>2. Row(row) /\ StackedTo(row, Len(row), below)
  BY DEF Stacked
<1>3. Stacked(Append(SubSeq(row, 1, Len(row)), tree), <<sort, below>>)
  BY <1>2, StackedOn
<1> QED BY <1>1, <1>3

\* One tree is what it is.
LEMMA StackedOne ==
  ASSUME NEW row, NEW sort, Stacked(row, <<sort, <<>>>>)
  PROVE  Len(row) = 1 /\ Fits(row[1], sort)
<1> DEFINE n == Len(row)
           none == <<>>
<1>1. n \in Nat /\ n > 0 /\ Fits(row[n], sort) /\ StackedTo(row, n - 1, none)
  BY StackedPop DEF Stacked
<1> HIDE DEF n
<1>2. PICK rows : /\ rows[n - 1] = <<>>
                  /\ \A i \in 1..(n - 1) : \E x \in Sort : rows[i] = <<x, rows[i - 1]>>
  BY <1>1 DEF StackedTo
<1>3. n - 1 = 0
  <2> SUFFICES ASSUME n - 1 # 0 PROVE FALSE
    OBVIOUS
  <2>1. n - 1 \in 1..(n - 1)
    BY <1>1
  <2>2. PICK x \in Sort : rows[n - 1] = <<x, rows[(n - 1) - 1]>>
    BY <1>2, <2>1
  <2> DEFINE pair == <<x, rows[(n - 1) - 1]>>
  <2>3. pair # <<>>
    OBVIOUS
  <2>4. rows[n - 1] = pair
    BY <2>2
  <2> HIDE DEF pair
  <2> QED BY <1>2, <2>3, <2>4
<1>4. n = 1
  BY <1>1, <1>3
<1> QED BY <1>1, <1>4 DEF n

-----------------------------------------------------------------------------
(* What a step does to the shape, when all that it calls is done. *)

Makes(node, from, to) ==
  \E b :
    \/ node = "ReturnNothing" /\ from = b /\ to = <<"Stmt", b>>
    \/ node \in {"Expression", "Print", "Return"} /\ from = <<"Expr", b>> /\ to = <<"Stmt", b>>
    \/ node = "Assignment" /\ from = <<"Expr", <<"Name", b>>>> /\ to = <<"Stmt", b>>
    \/ node \in {"If", "While"} /\ from = <<"Stmts", <<"Expr", b>>>> /\ to = <<"Stmt", b>>
    \/ node = "IfElse" /\ from = <<"Stmts", <<"Stmts", <<"Expr", b>>>>>> /\ to = <<"Stmt", b>>
    \/ node = "Function" /\ from = <<"Stmts", <<"Names", <<"Name", b>>>>>> /\ to = <<"Stmt", b>>
    \/ node = "Binary" /\ from = <<"Expr", <<"Operator", <<"Expr", b>>>>>> /\ to = <<"Expr", b>>
    \/ node = "Unary" /\ from = <<"Expr", <<"Sign", b>>>> /\ to = <<"Expr", b>>
    \/ node = "Call" /\ from = <<"Exprs", <<"Expr", b>>>> /\ to = <<"Expr", b>>
    \/ node = "List" /\ from = <<"Exprs", b>> /\ to = <<"Expr", b>>

Single == {"Expr", "Stmt", "Name"}
ItemOf(item, sort) ==
  \/ item[1] = "Binary" /\ item[2] = 1 /\ sort = "Expr"
  \/ item[1] = "Consume" /\ item[2] = "Identifier" /\ sort = "Name"

Moves(step, from, to) ==
  \/ step[1] = "Statements" /\ to = from /\ \E b : from = <<"Stmts", b>>
  \/ step[1] \in {"Statement", "Return"} /\ to = <<"Stmt", from>>
  \/ /\ step[1] = "Collect"
     /\ \E x, b : x \in Single /\ from = <<x, <<Many(x), b>>>> /\ to = <<Many(x), b>>
  \/ step[1] = "Make" /\ Makes(step[2], from, to)
  \/ step[1] = "Binary" /\ step[2] \in 1..4 /\ to = <<"Expr", from>>
  \/ step[1] \in {"Unary", "Primary"} /\ to = <<"Expr", from>>
  \/ step[1] = "Operators" /\ step[2] \in 1..4 /\ to = from /\ \E b : from = <<"Expr", b>>
  \/ step[1] = "Calls" /\ to = from /\ \E b : from = <<"Expr", b>>
  \/ step[1] = "Items" /\ \E x \in Single : ItemOf(step[2], x) /\ to = <<Many(x), from>>
  \/ /\ step[1] = "MoreItems" /\ to = from
     /\ \E x, b : x \in Single /\ ItemOf(step[2], x) /\ from = <<Many(x), b>>
  \/ step[1] = "Consume" /\ step[2] = "Identifier" /\ to = <<"Name", from>>
  \/ step[1] = "Consume" /\ step[2] # "Identifier" /\ to = from
  \/ step[1] = "LineEnd" /\ to = from
  \/ step[1] = "Suite" /\ to = <<"Stmts", from>>
  \/ /\ step[1] = "Else"
     /\ \E b : from = <<"Stmts", <<"Expr", b>>>> /\ to = <<"Stmt", b>>

Carries(steps, from, to) ==
  /\ Row(steps)
  /\ \E shapes : /\ shapes[1] = from /\ shapes[Len(steps) + 1] = to
                 /\ \A i \in 1..Len(steps) : Moves(steps[i], shapes[i], shapes[i + 1])

LEMMA CarriesNone ==
  ASSUME NEW from, NEW to, Carries(<<>>, from, to)
  PROVE  from = to
<1>1. Len(<<>>) + 1 = 1
  OBVIOUS
<1> QED BY <1>1 DEF Carries

LEMMA NoneCarries ==
  ASSUME NEW from
  PROVE  Carries(<<>>, from, from)
<1> DEFINE shapes == [i \in 1..1 |-> from]
           none == <<>>
<1>1. none \in Seq({}) /\ Len(none) = 0
  OBVIOUS
<1>2. shapes[1] = from
  OBVIOUS
<1> HIDE DEF shapes, none
<1>3. Row(none)
  BY <1>1 DEF Row
<1>4. Len(none) + 1 = 1 /\ 1..Len(none) = {}
  BY <1>1
<1>5. Carries(none, from, from)
  BY <1>2, <1>3, <1>4 DEF Carries
<1> QED BY <1>5 DEF none

LEMMA OneCarries ==
  ASSUME NEW x, NEW from, NEW to, Moves(x, from, to)
  PROVE  Carries(<<x>>, from, to)
<1> DEFINE shapes == [i \in 1..2 |-> IF i = 1 THEN from ELSE to]
           steps == <<x>>
<1>1. steps \in Seq({x}) /\ Len(steps) = 1 /\ steps[1] = x
  OBVIOUS
<1>2. shapes[1] = from /\ shapes[2] = to
  OBVIOUS
<1> HIDE DEF shapes, steps
<1>3. Row(steps)
  BY <1>1 DEF Row
<1>4. ASSUME NEW i \in 1..Len(steps) PROVE Moves(steps[i], shapes[i], shapes[i + 1])
  <2>1. i = 1 /\ i + 1 = 2
    BY <1>1
  <2> QED BY <1>1, <1>2, <2>1
<1>5. Len(steps) + 1 = 2
  BY <1>1
<1>6. Carries(steps, from, to)
  BY <1>2, <1>3, <1>4, <1>5 DEF Carries
<1> QED BY <1>6 DEF steps

LEMMA RowThen ==
  ASSUME NEW first, NEW second, Row(first), Row(second)
  PROVE  /\ Row(first \o second) /\ Len(first) \in Nat /\ Len(second) \in Nat
         /\ Len(first \o second) = Len(first) + Len(second)
         /\ \A i \in 1..Len(first) : (first \o second)[i] = first[i]
         /\ \A i \in 1..Len(second) : (first \o second)[Len(first) + i] = second[i]
<1>1. PICK S : first \in Seq(S)
  BY DEF Row
<1>2. PICK T : second \in Seq(T)
  BY DEF Row
<1> DEFINE U == S \cup T
<1>3. first \in Seq(U) /\ second \in Seq(U)
  BY <1>1, <1>2, SeqMonotonic
<1> HIDE DEF U
<1>4. /\ first \o second \in Seq(U)
      /\ Len(first \o second) = Len(first) + Len(second)
      /\ \A i \in 1..(Len(first) + Len(second)) :
           (first \o second)[i] = IF i <= Len(first) THEN first[i] ELSE second[i - Len(first)]
  BY <1>3, ConcatProperties
<1>5. Len(first) \in Nat /\ Len(second) \in Nat
  BY <1>3, LenProperties
<1>6. ASSUME NEW i \in 1..Len(first) PROVE (first \o second)[i] = first[i]
  <2>1. i \in 1..(Len(first) + Len(second)) /\ i <= Len(first)
    BY <1>5
  <2> QED BY <1>4, <2>1
<1>7. ASSUME NEW i \in 1..Len(second) PROVE (first \o second)[Len(first) + i] = second[i]
  <2> DEFINE k == Len(first) + i
  <2>1. k \in 1..(Len(first) + Len(second)) /\ ~(k <= Len(first)) /\ k - Len(first) = i
    BY <1>5
  <2> HIDE DEF k
  <2>2. (first \o second)[k] = second[i]
    BY <1>4, <2>1
  <2> QED BY <2>2 DEF k
<1> QED BY <1>4, <1>5, <1>6, <1>7 DEF Row

\* One after the other.
LEMMA CarriesThen ==
  ASSUME NEW first, NEW second, NEW from, NEW mid, NEW to,
         Carries(first, from, mid), Carries(second, mid, to)
  PROVE  Carries(first \o second, from, to)
<1> DEFINE both == first \o second
           m == Len(first)
           n == Len(second)
<1>1. /\ Row(both) /\ m \in Nat /\ n \in Nat /\ Len(both) = m + n
      /\ \A i \in 1..m : both[i] = first[i]
      /\ \A i \in 1..n : both[m + i] = second[i]
  BY RowThen DEF Carries
<1>2. PICK s : /\ s[1] = from /\ s[m + 1] = mid
               /\ \A i \in 1..m : Moves(first[i], s[i], s[i + 1])
  BY DEF Carries
<1>3. PICK t : /\ t[1] = mid /\ t[n + 1] = to
               /\ \A i \in 1..n : Moves(second[i], t[i], t[i + 1])
  BY DEF Carries
<1> HIDE DEF both, m, n
<1> DEFINE shapes == [i \in 1..(m + n + 1) |-> IF i <= m THEN s[i] ELSE t[i - m]]
<1>4. /\ \A i \in 1..m : shapes[i] = s[i]
      /\ \A i \in 1..(n + 1) : shapes[m + i] = t[i]
  <2>1. ASSUME NEW i \in 1..m PROVE shapes[i] = s[i]
    BY <1>1
  <2>2. ASSUME NEW i \in 1..(n + 1) PROVE shapes[m + i] = t[i]
    <3>1. m + i \in 1..(m + n + 1) /\ ~(m + i <= m) /\ (m + i) - m = i
      BY <1>1
    <3> QED BY <3>1
  <2> QED BY <2>1, <2>2
<1>5. shapes[m + 1] = mid /\ shapes[m + n + 1] = to
  <2>1. 1 \in 1..(n + 1) /\ n + 1 \in 1..(n + 1) /\ m + (n + 1) = m + n + 1
    BY <1>1
  <2> QED BY <1>3, <1>4, <2>1
<1> HIDE DEF shapes
<1>6. shapes[1] = from
  <2>1. CASE m = 0
    BY <1>1, <1>2, <1>5, <2>1
  <2>2. CASE m # 0
    <3>1. 1 \in 1..m
      BY <1>1, <2>2
    <3> QED BY <1>2, <1>4, <3>1
  <2> QED BY <2>1, <2>2
<1>7. ASSUME NEW i \in 1..(m + n) PROVE Moves(both[i], shapes[i], shapes[i + 1])
  <2>1. CASE i < m
    <3>1. i \in 1..m /\ i + 1 \in 1..m
      BY <1>1, <2>1
    <3> QED BY <1>1, <1>2, <1>4, <3>1
  <2>2. CASE i = m
    <3>1. i \in 1..m /\ i + 1 = m + 1
      BY <1>1, <2>2
    <3>2. shapes[i + 1] = s[i + 1]
      BY <1>2, <1>5, <3>1
    <3> QED BY <1>1, <1>2, <1>4, <3>1, <3>2
  <2>3. CASE i > m
    <3> DEFINE k == i - m
    <3>1. k \in 1..n /\ k \in 1..(n + 1) /\ k + 1 \in 1..(n + 1) /\ m + k = i /\ m + (k + 1) = i + 1
      BY <1>1, <2>3
    <3> HIDE DEF k
    <3>2. both[i] = second[k] /\ shapes[i] = t[k] /\ shapes[i + 1] = t[k + 1]
      BY <1>1, <1>4, <3>1
    <3> QED BY <1>3, <3>1, <3>2
  <2> QED BY <1>1, <2>1, <2>2, <2>3
<1>8. Carries(both, from, to)
  BY <1>1, <1>5, <1>6, <1>7 DEF Carries
<1> QED BY <1>8 DEF both

LEMMA TwoCarry ==
  ASSUME NEW x, NEW y, NEW a, NEW b, NEW c,
         Moves(x, a, b), Moves(y, b, c)
  PROVE  Carries(<<x, y>>, a, c)
<1> DEFINE shapes == <<a, b, c>>
           steps == <<x, y>>
<1>1. /\ steps \in Seq({x, y}) /\ Len(steps) = 2
      /\ steps[1] = x /\ steps[2] = y
  OBVIOUS
<1>2. shapes[1] = a /\ shapes[2] = b /\ shapes[3] = c
  OBVIOUS
<1> HIDE DEF shapes, steps
<1>3. Row(steps)
  BY <1>1 DEF Row
<1>4. ASSUME NEW i \in 1..Len(steps) PROVE Moves(steps[i], shapes[i], shapes[i + 1])
  <2>1. CASE i = 1
    BY <1>1, <1>2, <2>1
  <2>2. CASE i = 2
    BY <1>1, <1>2, <2>2
  <2>3. i = 1 \/ i = 2
    BY <1>1
  <2> QED BY <2>1, <2>2, <2>3
<1>5. Len(steps) + 1 = 3
  BY <1>1
<1>6. Carries(steps, a, c)
  BY <1>2, <1>3, <1>4, <1>5 DEF Carries
<1> QED BY <1>6 DEF steps

LEMMA ThreeCarry ==
  ASSUME NEW x, NEW y, NEW z, NEW a, NEW b, NEW c, NEW d,
         Moves(x, a, b), Moves(y, b, c), Moves(z, c, d)
  PROVE  Carries(<<x, y, z>>, a, d)
<1> DEFINE shapes == <<a, b, c, d>>
           steps == <<x, y, z>>
<1>1. /\ steps \in Seq({x, y, z}) /\ Len(steps) = 3
      /\ steps[1] = x /\ steps[2] = y /\ steps[3] = z
  OBVIOUS
<1>2. shapes[1] = a /\ shapes[2] = b /\ shapes[3] = c /\ shapes[4] = d
  OBVIOUS
<1> HIDE DEF shapes, steps
<1>3. Row(steps)
  BY <1>1 DEF Row
<1>4. ASSUME NEW i \in 1..Len(steps) PROVE Moves(steps[i], shapes[i], shapes[i + 1])
  <2>1. CASE i = 1
    BY <1>1, <1>2, <2>1
  <2>2. CASE i = 2
    BY <1>1, <1>2, <2>2
  <2>3. CASE i = 3
    BY <1>1, <1>2, <2>3
  <2>4. i = 1 \/ i = 2 \/ i = 3
    BY <1>1
  <2> QED BY <2>1, <2>2, <2>3, <2>4
<1>5. Len(steps) + 1 = 4
  BY <1>1
<1>6. Carries(steps, a, d)
  BY <1>2, <1>3, <1>4, <1>5 DEF Carries
<1> QED BY <1>6 DEF steps

LEMMA FourCarry ==
  ASSUME NEW x, NEW y, NEW z, NEW u, NEW a, NEW b, NEW c, NEW d, NEW e,
         Moves(x, a, b), Moves(y, b, c), Moves(z, c, d),
         Moves(u, d, e)
  PROVE  Carries(<<x, y, z, u>>, a, e)
<1> DEFINE shapes == <<a, b, c, d, e>>
           steps == <<x, y, z, u>>
<1>1. /\ steps \in Seq({x, y, z, u}) /\ Len(steps) = 4
      /\ steps[1] = x /\ steps[2] = y /\ steps[3] = z /\ steps[4] = u
  OBVIOUS
<1>2. shapes[1] = a /\ shapes[2] = b /\ shapes[3] = c /\ shapes[4] = d /\ shapes[5] = e
  OBVIOUS
<1> HIDE DEF shapes, steps
<1>3. Row(steps)
  BY <1>1 DEF Row
<1>4. ASSUME NEW i \in 1..Len(steps) PROVE Moves(steps[i], shapes[i], shapes[i + 1])
  <2>1. CASE i = 1
    BY <1>1, <1>2, <2>1
  <2>2. CASE i = 2
    BY <1>1, <1>2, <2>2
  <2>3. CASE i = 3
    BY <1>1, <1>2, <2>3
  <2>4. CASE i = 4
    BY <1>1, <1>2, <2>4
  <2>5. i = 1 \/ i = 2 \/ i = 3 \/ i = 4
    BY <1>1
  <2> QED BY <2>1, <2>2, <2>3, <2>4, <2>5
<1>5. Len(steps) + 1 = 5
  BY <1>1
<1>6. Carries(steps, a, e)
  BY <1>2, <1>3, <1>4, <1>5 DEF Carries
<1> QED BY <1>6 DEF steps

LEMMA FiveCarry ==
  ASSUME NEW x, NEW y, NEW z, NEW u, NEW v, NEW a, NEW b, NEW c, NEW d, NEW e, NEW f,
         Moves(x, a, b), Moves(y, b, c), Moves(z, c, d),
         Moves(u, d, e), Moves(v, e, f)
  PROVE  Carries(<<x, y, z, u, v>>, a, f)
<1> DEFINE shapes == <<a, b, c, d, e, f>>
           steps == <<x, y, z, u, v>>
<1>1. /\ steps \in Seq({x, y, z, u, v}) /\ Len(steps) = 5
      /\ steps[1] = x /\ steps[2] = y /\ steps[3] = z /\ steps[4] = u /\ steps[5] = v
  OBVIOUS
<1>2. shapes[1] = a /\ shapes[2] = b /\ shapes[3] = c /\ shapes[4] = d /\ shapes[5] = e /\ shapes[6] = f
  OBVIOUS
<1> HIDE DEF shapes, steps
<1>3. Row(steps)
  BY <1>1 DEF Row
<1>4. ASSUME NEW i \in 1..Len(steps) PROVE Moves(steps[i], shapes[i], shapes[i + 1])
  <2>1. CASE i = 1
    BY <1>1, <1>2, <2>1
  <2>2. CASE i = 2
    BY <1>1, <1>2, <2>2
  <2>3. CASE i = 3
    BY <1>1, <1>2, <2>3
  <2>4. CASE i = 4
    BY <1>1, <1>2, <2>4
  <2>5. CASE i = 5
    BY <1>1, <1>2, <2>5
  <2>6. i = 1 \/ i = 2 \/ i = 3 \/ i = 4 \/ i = 5
    BY <1>1
  <2> QED BY <2>1, <2>2, <2>3, <2>4, <2>5, <2>6
<1>5. Len(steps) + 1 = 6
  BY <1>1
<1>6. Carries(steps, a, f)
  BY <1>2, <1>3, <1>4, <1>5 DEF Carries
<1> QED BY <1>6 DEF steps

LEMMA RowTail ==
  ASSUME NEW row, Row(row), row # <<>>
  PROVE  /\ Len(row) \in Nat /\ Len(row) > 0 /\ Head(row) = row[1]
         /\ Row(Tail(row)) /\ Len(Tail(row)) = Len(row) - 1
         /\ \A i \in 1..(Len(row) - 1) : Tail(row)[i] = row[i + 1]
<1>1. PICK T : row \in Seq(T)
  BY DEF Row
<1>2. /\ Tail(row) \in Seq(T) /\ Len(Tail(row)) = Len(row) - 1
      /\ \A i \in 1..Len(Tail(row)) : Tail(row)[i] = row[i + 1]
  BY <1>1, HeadTailProperties
<1>3. Len(row) \in Nat /\ Len(row) # 0
  BY <1>1, EmptySeq, LenProperties
<1>4. Head(row) = row[1]
  BY <1>1, HeadTailProperties
<1>5. Len(row) > 0
  BY <1>3
<1>6. \A i \in 1..(Len(row) - 1) : Tail(row)[i] = row[i + 1]
  BY <1>2
<1> QED BY <1>2, <1>3, <1>4, <1>5, <1>6 DEF Row

\* The first step, and the others.
LEMMA CarriesHead ==
  ASSUME NEW steps, NEW from, NEW to, Carries(steps, from, to), steps # <<>>
  PROVE  \E mid : Moves(Head(steps), from, mid) /\ Carries(Tail(steps), mid, to)
<1> DEFINE n == Len(steps)
           rest == Tail(steps)
<1>1. /\ n \in Nat /\ n > 0 /\ Head(steps) = steps[1]
      /\ Row(rest) /\ Len(rest) = n - 1 /\ \A i \in 1..(n - 1) : rest[i] = steps[i + 1]
  BY RowTail DEF Carries
<1>2. PICK s : /\ s[1] = from /\ s[n + 1] = to
               /\ \A i \in 1..n : Moves(steps[i], s[i], s[i + 1])
  BY DEF Carries
<1> HIDE DEF n, rest
<1> DEFINE t == [i \in 1..n |-> s[i + 1]]
<1>3. \A i \in 1..n : t[i] = s[i + 1]
  OBVIOUS
<1> HIDE DEF t
<1>4. t[1] = s[2] /\ t[(n - 1) + 1] = to /\ Moves(Head(steps), from, s[2])
  <2>1. 1 \in 1..n /\ n \in 1..n /\ (n - 1) + 1 = n /\ 1 + 1 = 2
    BY <1>1
  <2>2. t[1] = s[2] /\ t[n] = to
    BY <1>2, <1>3, <2>1
  <2>3. Moves(steps[1], s[1], s[2])
    BY <1>2, <2>1
  <2> QED BY <1>1, <1>2, <2>1, <2>2, <2>3
<1>5. ASSUME NEW i \in 1..(n - 1) PROVE Moves(rest[i], t[i], t[i + 1])
  <2>1. i \in 1..n /\ i + 1 \in 1..n
    BY <1>1
  <2>2. Moves(steps[i + 1], s[i + 1], s[(i + 1) + 1])
    BY <1>2, <2>1
  <2>3. t[i] = s[i + 1] /\ t[i + 1] = s[(i + 1) + 1]
    BY <1>3, <2>1
  <2> QED BY <1>1, <2>2, <2>3
<1>6. Carries(rest, s[2], to)
  BY <1>1, <1>4, <1>5 DEF Carries
<1> QED BY <1>4, <1>6 DEF rest

-----------------------------------------------------------------------------
(* What the parts of a construct do to the shape. *)

LEMMA PlainMoves ==
  ASSUME NEW b
  PROVE  /\ Moves(<<"Statement">>, b, <<"Stmt", b>>)
         /\ Moves(<<"Return">>, b, <<"Stmt", b>>)
         /\ Moves(<<"Unary">>, b, <<"Expr", b>>)
         /\ Moves(<<"Primary">>, b, <<"Expr", b>>)
         /\ Moves(<<"Suite">>, b, <<"Stmts", b>>)
         /\ Moves(LineEnd, b, b)
         /\ Moves(<<"Calls">>, <<"Expr", b>>, <<"Expr", b>>)
         /\ Moves(<<"Else">>, <<"Stmts", <<"Expr", b>>>>, <<"Stmt", b>>)
         /\ \A types : Moves(<<"Statements", types>>, <<"Stmts", b>>, <<"Stmts", b>>)
BY DEF Moves, LineEnd

LEMMA CollectMoves ==
  ASSUME NEW x \in Single, NEW b
  PROVE  Moves(<<"Collect">>, <<x, <<Many(x), b>>>>, <<Many(x), b>>)
BY DEF Moves

LEMMA ConsumeMoves ==
  ASSUME NEW b
  PROVE  /\ Moves(Consume("Identifier"), b, <<"Name", b>>)
         /\ \A type : type # "Identifier" => Moves(Consume(type), b, b)
BY DEF Moves, Consume

LEMMA LevelMoves ==
  ASSUME NEW i \in 1..5, NEW b
  PROVE  Moves(Level(i), b, <<"Expr", b>>)
<1>1. Len(Levels) = 4
  BY DEF Levels
<1>2. CASE i <= 4
  <2>1. Level(i) = <<"Binary", i>> /\ i \in 1..4
    BY <1>1, <1>2 DEF Level
  <2> QED BY <2>1 DEF Moves
<1>3. CASE ~(i <= 4)
  <2>1. Level(i) = <<"Unary">>
    BY <1>1, <1>3 DEF Level
  <2> QED BY <2>1, PlainMoves
<1> QED BY <1>2, <1>3

LEMMA ExpressionMoves ==
  ASSUME NEW b
  PROVE  Moves(Expression, b, <<"Expr", b>>)
BY LevelMoves DEF Expression

LEMMA ItemMoves ==
  ASSUME NEW item, NEW x, ItemOf(item, x), NEW b
  PROVE  Moves(item, b, <<x, b>>)
BY DEF ItemOf, Moves

LEMMA SomeItems ==
  /\ ItemOf(Expression, "Expr")
  /\ ItemOf(Consume("Identifier"), "Name")
<1>1. Expression = <<"Binary", 1>>
  <2>1. Len(Levels) = 4
    BY DEF Levels
  <2> QED BY <2>1 DEF Expression, Level
<1> QED BY <1>1 DEF ItemOf, Consume

LEMMA MakeMoves ==
  ASSUME NEW node, NEW from, NEW to, Makes(node, from, to)
  PROVE  Moves(Make(node), from, to)
BY DEF Moves, Make

LEMMA NodesMake ==
  ASSUME NEW b
  PROVE  /\ Makes("ReturnNothing", b, <<"Stmt", b>>)
         /\ \A node \in {"Expression", "Print", "Return"} : Makes(node, <<"Expr", b>>, <<"Stmt", b>>)
         /\ Makes("Assignment", <<"Expr", <<"Name", b>>>>, <<"Stmt", b>>)
         /\ \A node \in {"If", "While"} : Makes(node, <<"Stmts", <<"Expr", b>>>>, <<"Stmt", b>>)
         /\ Makes("IfElse", <<"Stmts", <<"Stmts", <<"Expr", b>>>>>>, <<"Stmt", b>>)
         /\ Makes("Function", <<"Stmts", <<"Names", <<"Name", b>>>>>>, <<"Stmt", b>>)
         /\ Makes("Binary", <<"Expr", <<"Operator", <<"Expr", b>>>>>>, <<"Expr", b>>)
         /\ Makes("Unary", <<"Expr", <<"Sign", b>>>>, <<"Expr", b>>)
         /\ Makes("Call", <<"Exprs", <<"Expr", b>>>>, <<"Expr", b>>)
         /\ Makes("List", <<"Exprs", b>>, <<"Expr", b>>)
BY DEF Makes

LEMMA ItemsCarry ==
  ASSUME NEW item, NEW x \in Single, ItemOf(item, x), NEW b,
         NEW close, close # "Identifier"
  PROVE  Carries(Items(item, close), b, <<Many(x), b>>)
<1> DEFINE items == <<"Items", item, close>>
<1>1. items[1] = "Items" /\ items[2] = item
  OBVIOUS
<1> HIDE DEF items
<1>2. Moves(items, b, <<Many(x), b>>)
  BY <1>1 DEF Moves
<1>3. Moves(Consume(close), <<Many(x), b>>, <<Many(x), b>>)
  BY ConsumeMoves
<1>4. Carries(<<items, Consume(close)>>, b, <<Many(x), b>>)
  BY <1>2, <1>3, TwoCarry
<1> QED BY <1>4 DEF Items, items

LEMMA BlockCarries ==
  ASSUME NEW b
  PROVE  Carries(Block, b, <<"Stmts", b>>)
<1>1. Moves(Consume("Colon"), b, b) /\ Moves(<<"Suite">>, b, <<"Stmts", b>>)
  BY ConsumeMoves, PlainMoves
<1> QED BY <1>1, TwoCarry DEF Block

LEMMA IfCarries ==
  ASSUME NEW b
  PROVE  Carries(IfStatement, b, <<"Stmt", b>>)
<1>1. Carries(<<Expression>>, b, <<"Expr", b>>)
  BY ExpressionMoves, OneCarries
<1>2. Carries(Block, <<"Expr", b>>, <<"Stmts", <<"Expr", b>>>>)
  BY BlockCarries
<1>3. Carries(<<<<"Else">>>>, <<"Stmts", <<"Expr", b>>>>, <<"Stmt", b>>)
  BY PlainMoves, OneCarries
<1>4. Carries(<<Expression>> \o Block, b, <<"Stmts", <<"Expr", b>>>>)
  BY <1>1, <1>2, CarriesThen
<1>5. Carries((<<Expression>> \o Block) \o <<<<"Else">>>>, b, <<"Stmt", b>>)
  BY <1>3, <1>4, CarriesThen
<1> QED BY <1>5 DEF IfStatement

LEMMA WhileCarries ==
  ASSUME NEW b
  PROVE  Carries(WhileStatement, b, <<"Stmt", b>>)
<1>1. Carries(<<Expression>>, b, <<"Expr", b>>)
  BY ExpressionMoves, OneCarries
<1>2. Carries(Block, <<"Expr", b>>, <<"Stmts", <<"Expr", b>>>>)
  BY BlockCarries
<1>3. Carries(<<Make("While")>>, <<"Stmts", <<"Expr", b>>>>, <<"Stmt", b>>)
  <2>1. Makes("While", <<"Stmts", <<"Expr", b>>>>, <<"Stmt", b>>)
    BY NodesMake
  <2> QED BY <2>1, MakeMoves, OneCarries
<1>4. Carries(<<Expression>> \o Block, b, <<"Stmts", <<"Expr", b>>>>)
  BY <1>1, <1>2, CarriesThen
<1>5. Carries((<<Expression>> \o Block) \o <<Make("While")>>, b, <<"Stmt", b>>)
  BY <1>3, <1>4, CarriesThen
<1> QED BY <1>5 DEF WhileStatement

LEMMA FunctionCarries ==
  ASSUME NEW b
  PROVE  Carries(FunctionStatement, b, <<"Stmt", b>>)
<1> DEFINE c == <<"Name", b>>
           d == <<"Names", c>>
           names == Items(Consume("Identifier"), "RightParen")
           start == <<Consume("Identifier"), Consume("LeftParen")>>
<1>1. "LeftParen" # "Identifier" /\ "RightParen" # "Identifier"
  OBVIOUS
<1>2. Carries(start, b, c)
  <2>1. Moves(Consume("Identifier"), b, c) /\ Moves(Consume("LeftParen"), c, c)
    BY <1>1, ConsumeMoves
  <2> QED BY <2>1, TwoCarry
<1>3. Carries(names, c, d)
  <2>1. "Name" \in Single /\ Many("Name") = "Names"
    BY DEF Single, Many
  <2>2. Carries(names, c, <<Many("Name"), c>>)
    BY <1>1, <2>1, SomeItems, ItemsCarry
  <2> QED BY <2>1, <2>2
<1>4. Carries(Block, d, <<"Stmts", d>>)
  BY BlockCarries
<1>5. Carries(<<Make("Function")>>, <<"Stmts", d>>, <<"Stmt", b>>)
  <2>1. Makes("Function", <<"Stmts", d>>, <<"Stmt", b>>)
    BY NodesMake
  <2> QED BY <2>1, MakeMoves, OneCarries
<1> HIDE DEF start, names, c, d
<1>6. Carries(start \o names, b, d)
  BY <1>2, <1>3, CarriesThen
<1>7. Carries((start \o names) \o Block, b, <<"Stmts", d>>)
  BY <1>4, <1>6, CarriesThen
<1>8. Carries(((start \o names) \o Block) \o <<Make("Function")>>, b, <<"Stmt", b>>)
  BY <1>5, <1>7, CarriesThen
<1> QED BY <1>8 DEF FunctionStatement, start, names

LEMMA PrintCarries ==
  ASSUME NEW b
  PROVE  Carries(PrintStatement, b, <<"Stmt", b>>)
<1> DEFINE c == <<"Expr", b>>
           d == <<"Stmt", b>>
<1>1. "LeftParen" # "Identifier" /\ "RightParen" # "Identifier"
  OBVIOUS
<1>2. /\ Moves(Consume("LeftParen"), b, b) /\ Moves(Expression, b, c)
      /\ Moves(Consume("RightParen"), c, c) /\ Moves(LineEnd, c, c)
  BY <1>1, ConsumeMoves, PlainMoves, ExpressionMoves
<1>3. Moves(Make("Print"), c, d)
  <2>1. Makes("Print", c, d)
    BY NodesMake
  <2> QED BY <2>1, MakeMoves
<1> HIDE DEF c, d
<1>4. Carries(PrintStatement, b, d)
  BY <1>2, <1>3, FiveCarry DEF PrintStatement
<1> QED BY <1>4 DEF d

LEMMA StatementCarries ==
  ASSUME NEW keyword \in Keywords, NEW b
  PROVE  Carries(StatementOf(keyword), b, <<"Stmt", b>>)
<1>1. CASE keyword = "If"
  BY <1>1, IfCarries DEF StatementOf
<1>2. CASE keyword = "While"
  BY <1>2, WhileCarries DEF StatementOf
<1>3. CASE keyword = "Def"
  BY <1>3, FunctionCarries DEF StatementOf
<1>4. CASE keyword = "Return"
  <2>1. Carries(<<<<"Return">>>>, b, <<"Stmt", b>>)
    BY PlainMoves, OneCarries
  <2>2. StatementOf(keyword) = <<<<"Return">>>>
    BY <1>4 DEF StatementOf
  <2> QED BY <2>1, <2>2
<1>5. CASE keyword = "Print"
  BY <1>5, PrintCarries DEF StatementOf
<1> QED BY <1>1, <1>2, <1>3, <1>4, <1>5 DEF Keywords

-----------------------------------------------------------------------------
(* The inductive invariant. *)

Root == <<"Statements", {"EndOfFile"}>>
Program == <<"Stmts", <<>>>>

\* All that is left to do makes one sequence of statements of the trees.
BuildsProgram ==
  \E shape : Stacked(trees, shape) /\ Carries(agenda, shape, Program)

\* parse() itself waits for everything else, and leaves at the end only.
Waits(steps) == steps # <<>> => steps[Len(steps)] = Root
Within == current \in 1..Len(tokens)

IInv ==
  /\ tokens \in Sources
  /\ Within
  /\ status \in {"parsing", "done", "error"}
  /\ BuildsProgram
  /\ Waits(agenda)
  /\ agenda = <<>> => Check({"EndOfFile"})
  /\ status = "done" => agenda = <<>>

LEMMA SourceTokens ==
  ASSUME NEW source \in Sources
  PROVE  /\ source \in Seq(Token) /\ Len(source) \in Nat /\ Len(source) > 0
         /\ \A i \in 1..Len(source) : source[i] \in Token
         /\ \A i \in 1..Len(source) : source[i].type = "EndOfFile" <=> i = Len(source)
<1> DEFINE types == [i \in DOMAIN source |-> source[i].type]
<1>1. source \in Seq(Token) /\ FormsLines(types)
  BY ParserAssumption
<1>2. /\ Len(source) \in Nat /\ DOMAIN source = 1..Len(source)
      /\ \A i \in 1..Len(source) : source[i] \in Token
  BY <1>1, LenProperties, ElementOfSeq
<1>3. types \in Seq(TokenType) /\ Len(types) = Len(source)
  BY <1>2 DEF Token
<1>4. \A i \in 1..Len(source) : types[i] = source[i].type
  BY <1>2
<1> HIDE DEF types
<1>5. Len(types) > 0 /\ \A i \in 1..Len(types) : types[i] = "EndOfFile" <=> i = Len(types)
  BY <1>1 DEF FormsLines
<1> QED BY <1>1, <1>2, <1>3, <1>4, <1>5

\* Where the parser is there is a token, and behind any but the last one.
LEMMA Reading ==
  ASSUME IInv
  PROVE  /\ current \in Nat /\ current \in 1..Len(tokens) /\ Len(tokens) \in Nat
         /\ tokens[current] \in Token /\ Type \in TokenType
         /\ tokens[current].lexeme \in STRING
         /\ Type # "EndOfFile" => /\ current + 1 \in 1..Len(tokens)
                                  /\ tokens[current + 1].type # "EndOfFile" =>
                                       current + 2 \in 1..Len(tokens)
<1>1. tokens \in Sources /\ current \in 1..Len(tokens)
  BY DEF IInv, Within
<1>2. /\ Len(tokens) \in Nat
      /\ \A i \in 1..Len(tokens) : tokens[i] \in Token
      /\ \A i \in 1..Len(tokens) : tokens[i].type = "EndOfFile" <=> i = Len(tokens)
  BY <1>1, SourceTokens
<1>3. tokens[current] \in Token
  BY <1>1, <1>2
<1>4. Type \in TokenType /\ tokens[current].lexeme \in STRING
  BY <1>3 DEF Token, Type
<1>5. Type # "EndOfFile" => current + 1 \in 1..Len(tokens)
  BY <1>1, <1>2 DEF Type
<1>6. ASSUME Type # "EndOfFile", tokens[current + 1].type # "EndOfFile"
      PROVE  current + 2 \in 1..Len(tokens)
  <2>1. current + 1 # Len(tokens)
    BY <1>2, <1>5, <1>6
  <2> QED BY <1>1, <1>2, <1>5, <1>6, <2>1
<1> QED BY <1>1, <1>2, <1>3, <1>4, <1>5, <1>6

LEMMA AdvanceWithin ==
  ASSUME IInv, Advance, tokens' = tokens
  PROVE  Within'
BY Reading DEF Advance, Check, Within

LEMMA StayWithin ==
  ASSUME IInv, current' = current, tokens' = tokens
  PROVE  Within'
BY DEF IInv, Within

\* What the first of the active functions does to the shape.
LEMMA HeadMoves ==
  ASSUME IInv, agenda # <<>>
  PROVE  \E from, to : /\ Stacked(trees, from) /\ Moves(Head(agenda), from, to)
                       /\ Carries(Tail(agenda), to, Program)
<1>1. PICK from : Stacked(trees, from) /\ Carries(agenda, from, Program)
  BY DEF IInv, BuildsProgram
<1>2. PICK to : Moves(Head(agenda), from, to) /\ Carries(Tail(agenda), to, Program)
  BY <1>1, CarriesHead
<1> QED BY <1>1, <1>2

LEMMA RootStays ==
  ASSUME NEW steps, NEW more, Row(steps), steps # <<>>, Waits(steps), Row(more),
         Head(steps) # Root
  PROVE  Waits(more \o Tail(steps)) /\ more \o Tail(steps) # <<>>
<1> DEFINE rest == Tail(steps)
           both == more \o rest
           n == Len(steps)
<1>1. /\ n \in Nat /\ n > 0 /\ Head(steps) = steps[1] /\ Row(rest) /\ Len(rest) = n - 1
      /\ \A i \in 1..(n - 1) : rest[i] = steps[i + 1]
      /\ steps[n] = Root
  BY RowTail DEF Waits
<1> HIDE DEF n, rest
<1>2. n > 1
  BY <1>1
<1>3. /\ Len(more) \in Nat /\ Len(both) = Len(more) + (n - 1)
      /\ \A i \in 1..Len(rest) : both[Len(more) + i] = rest[i]
  BY <1>1, RowThen
<1>4. n - 1 \in 1..Len(rest) /\ n - 1 \in 1..(n - 1) /\ (n - 1) + 1 = n
  BY <1>1, <1>2
<1>5. both[Len(more) + (n - 1)] = Root
  BY <1>1, <1>3, <1>4
<1>6. both # <<>>
  <2>1. Len(both) # 0
    BY <1>1, <1>2, <1>3
  <2>2. Len(<<>>) = 0
    OBVIOUS
  <2> HIDE DEF both
  <2> QED BY <2>1, <2>2
<1> HIDE DEF both
<1>7. Waits(both)
  BY <1>3, <1>5 DEF Waits
<1> QED BY <1>6, <1>7 DEF both, rest

\* A function calls others, or returns.
LEMMA GoesOn ==
  ASSUME IInv, status = "parsing", agenda # <<>>, Head(agenda)[1] # "Statements",
         NEW steps, Then(steps), Within',
         NEW from, NEW to, Stacked(trees', from), Carries(steps, from, to),
         Carries(Tail(agenda), to, Program)
  PROVE  IInv'
<1>1. agenda' = steps \o Tail(agenda) /\ tokens' = tokens /\ status' = "parsing"
  BY DEF Then
<1>2. Carries(steps \o Tail(agenda), from, Program)
  BY CarriesThen
<1>3. BuildsProgram'
  BY <1>1, <1>2 DEF BuildsProgram
<1>4. Row(agenda) /\ Waits(agenda)
  BY DEF IInv, BuildsProgram, Carries
<1>5. Row(steps)
  BY DEF Carries
<1>6. Head(agenda) # Root
  BY DEF Root
<1>7. Waits(agenda') /\ agenda' # <<>>
  BY <1>1, <1>4, <1>5, <1>6, RootStays
<1>8. Waits(agenda)'
  BY <1>7 DEF Waits
<1> QED BY <1>1, <1>3, <1>7, <1>8 DEF IInv

\* It fails: nothing is built any more.
LEMMA GivesUp ==
  ASSUME IInv, status = "parsing", agenda # <<>>, Error
  PROVE  IInv'
BY DEF IInv, Error, Within, BuildsProgram, Waits, Check, Type

LEMMA WaitsThen ==
  ASSUME NEW first, NEW second, Row(first), Row(second), Waits(first), Waits(second)
  PROVE  Waits(first \o second)
<1> DEFINE both == first \o second
           m == Len(first)
           n == Len(second)
<1>1. /\ m \in Nat /\ n \in Nat /\ Len(both) = m + n
      /\ \A i \in 1..m : both[i] = first[i]
      /\ \A i \in 1..n : both[m + i] = second[i]
  BY RowThen
<1>2. m # 0 => first[m] = Root
  <2>1. m # 0 => first # <<>>
    OBVIOUS
  <2> QED BY <2>1 DEF Waits
<1>3. n # 0 => second[n] = Root
  <2>1. n # 0 => second # <<>>
    OBVIOUS
  <2> QED BY <2>1 DEF Waits
<1> HIDE DEF m, n
<1>4. both # <<>> => m + n # 0
  <2>1. CASE m + n = 0
    <3>1. PICK T : both \in Seq(T)
      BY RowThen DEF Row
    <3>2. Len(both) = 0
      BY <1>1, <2>1
    <3> HIDE DEF both
    <3>3. both = <<>>
      BY <3>1, <3>2, EmptySeq
    <3> QED BY <3>3
  <2> QED BY <2>1
<1> HIDE DEF both
<1>5. CASE n # 0
  <2>1. n \in 1..n /\ m + n = Len(both)
    BY <1>1, <1>5
  <2>2. both[Len(both)] = Root
    BY <1>1, <1>3, <1>5, <2>1
  <2>3. Waits(both)
    BY <2>2 DEF Waits
  <2> QED BY <2>3 DEF both
<1>6. CASE n = 0 /\ m # 0
  <2>1. m \in 1..m /\ m = Len(both)
    BY <1>1, <1>6
  <2>2. both[Len(both)] = Root
    BY <1>1, <1>2, <1>6, <2>1
  <2>3. Waits(both)
    BY <2>2 DEF Waits
  <2> QED BY <2>3 DEF both
<1>7. CASE n = 0 /\ m = 0
  <2>1. both = <<>>
    BY <1>4, <1>7
  <2>2. Waits(both)
    BY <2>1 DEF Waits
  <2> QED BY <2>2 DEF both
<1> QED BY <1>5, <1>6, <1>7

LEMMA WaitsTail ==
  ASSUME NEW steps, Row(steps), steps # <<>>, Waits(steps)
  PROVE  Waits(Tail(steps)) /\ Row(Tail(steps))
<1> DEFINE n == Len(steps)
           rest == Tail(steps)
<1>1. /\ n \in Nat /\ n > 0 /\ Row(rest) /\ Len(rest) = n - 1
      /\ \A i \in 1..(n - 1) : rest[i] = steps[i + 1]
      /\ steps[n] = Root
  BY RowTail DEF Waits
<1> HIDE DEF n
<1>2. rest # <<>> => Len(rest) # 0
  <2>1. PICK T : rest \in Seq(T)
    BY <1>1 DEF Row
  <2> HIDE DEF rest
  <2> QED BY <2>1, EmptySeq
<1>3. ASSUME rest # <<>> PROVE rest[Len(rest)] = Root
  <2>1. n - 1 \in 1..(n - 1) /\ (n - 1) + 1 = n
    BY <1>1, <1>2, <1>3
  <2> QED BY <1>1, <2>1
<1> QED BY <1>1, <1>3 DEF Waits

-----------------------------------------------------------------------------
(* Every action keeps it. *)

LEMMA InitIInv == Init => IInv
<1> SUFFICES ASSUME Init PROVE IInv
  OBVIOUS
<1> DEFINE none == <<>>
<1>1. tokens \in Sources /\ current = 1 /\ agenda = <<Root>> /\ trees = <<none>>
      /\ status = "parsing"
  BY DEF Init, Root
<1>2. Within
  BY <1>1, SourceTokens DEF Within
<1>3. Stacked(trees, Program)
  <2>1. Row(none) /\ Len(none) = 0
    <3>1. none \in Seq({}) /\ Len(none) = 0
      OBVIOUS
    <3> QED BY <3>1 DEF Row
  <2>2. StackedTo(none, 0, none)
    <3> DEFINE rows == [i \in {0} |-> none]
    <3>1. rows[0] = none /\ 1..0 = {} /\ 0 \in 0..0
      OBVIOUS
    <3> HIDE DEF rows
    <3> QED BY <2>1, <3>1 DEF StackedTo
  <2>3. Fits(none, "Stmts") /\ "Stmts" \in Sort
    <3>1. none \in Seq(Stmts)
      OBVIOUS
    <3> QED BY <3>1 DEF Fits, Tree, Sort
  <2>4. Stacked(none, none)
    BY <2>1, <2>2 DEF Stacked
  <2>5. trees = Append(none, none)
    BY <1>1
  <2> HIDE DEF none
  <2>6. Stacked(Append(none, none), <<"Stmts", none>>)
    BY <2>3, <2>4, StackedPush
  <2> QED BY <2>5, <2>6 DEF Program, none
<1>4. Carries(agenda, Program, Program)
  <2>1. Moves(Root, Program, Program)
    BY PlainMoves DEF Root, Program
  <2> QED BY <1>1, <2>1, OneCarries
<1>5. Waits(agenda) /\ agenda # <<>>
  BY <1>1 DEF Waits
<1> QED BY <1>1, <1>2, <1>3, <1>4, <1>5 DEF IInv, BuildsProgram

LEMMA SkipNewlineStep == ASSUME IInv, SkipNewline PROVE IInv'
<1>1. /\ status = "parsing" /\ agenda # <<>> /\ Advance
      /\ UNCHANGED <<tokens, agenda, trees, status>>
  BY DEF SkipNewline, Doing
<1>2. Within'
  BY <1>1, AdvanceWithin
<1>3. /\ BuildsProgram' /\ Waits(agenda)' /\ agenda' # <<>>
  BY <1>1 DEF IInv, BuildsProgram, Waits
<1> QED BY <1>1, <1>2, <1>3 DEF IInv

LEMMA StatementsStep == ASSUME IInv, Statements PROVE IInv'
<1> DEFINE head == Head(agenda)
           rest == Tail(agenda)
           more == IF Check(Argument) THEN <<>> ELSE <<<<"Statement">>, <<"Collect">>, head>>
<1>1. /\ status = "parsing" /\ agenda # <<>> /\ head[1] = "Statements"
      /\ agenda' = more \o rest /\ UNCHANGED <<tokens, status, current, trees>>
  BY DEF Statements, Doing, Then
<1>2. PICK from, to : /\ Stacked(trees, from) /\ Moves(head, from, to)
                      /\ Carries(rest, to, Program)
  BY <1>1, HeadMoves
<1>3. PICK b : to = from /\ from = <<"Stmts", b>>
  BY <1>1, <1>2 DEF Moves
<1>4. Within'
  BY <1>1, StayWithin
<1>5. Carries(more, from, from)
  <2>1. CASE Check(Argument)
    BY <2>1, NoneCarries
  <2>2. CASE ~Check(Argument)
    <3> DEFINE next == <<"Stmt", from>>
    <3>1. Moves(<<"Statement">>, from, next)
      BY PlainMoves
    <3>2. Moves(<<"Collect">>, next, from)
      <4>1. "Stmt" \in Single /\ Many("Stmt") = "Stmts"
        BY DEF Single, Many
      <4>2. Moves(<<"Collect">>, <<"Stmt", <<Many("Stmt"), b>>>>, <<Many("Stmt"), b>>)
        BY <4>1, CollectMoves
      <4> QED BY <1>3, <4>1, <4>2
    <3>3. Moves(head, from, from)
      BY <1>2, <1>3
    <3> HIDE DEF next, head
    <3>4. Carries(<<<<"Statement">>, <<"Collect">>, head>>, from, from)
      BY <3>1, <3>2, <3>3, ThreeCarry
    <3> QED BY <2>2, <3>4
  <2> QED BY <2>1, <2>2
<1>6. Row(agenda) /\ Waits(agenda) /\ Row(more) /\ Row(rest) /\ Waits(rest)
  <2>1. Row(agenda) /\ Waits(agenda)
    BY DEF IInv, BuildsProgram, Carries
  <2>2. Row(more)
    BY <1>5 DEF Carries
  <2> QED BY <1>1, <2>1, <2>2, WaitsTail
<1>7. Carries(more \o rest, from, Program)
  BY <1>2, <1>3, <1>5, CarriesThen
<1>8. BuildsProgram'
  BY <1>1, <1>2, <1>7 DEF BuildsProgram
<1>9. CASE head = Root
  <2>1. Waits(more)
    <3>1. CASE Check(Argument)
      BY <3>1 DEF Waits
    <3>2. CASE ~Check(Argument)
      <4>1. more = <<<<"Statement">>, <<"Collect">>, Root>>
        BY <1>9, <3>2
      <4> HIDE DEF more
      <4> QED BY <4>1 DEF Waits
    <3> QED BY <3>1, <3>2
  <2> HIDE DEF more
  <2>2. Waits(more \o rest)
    BY <1>6, <2>1, WaitsThen
  <2>3. Waits(agenda)'
    BY <1>1, <2>2 DEF Waits
  <2>4. ASSUME agenda' = <<>> PROVE Check({"EndOfFile"})'
    <3>1. CASE Check(Argument)
      <4>1. Argument = {"EndOfFile"}
        BY <1>9 DEF Argument, Root
      <4> QED BY <1>1, <3>1, <4>1 DEF Check, Type
    <3>2. CASE ~Check(Argument)
      <4>1. Len(more \o rest) > 0
        <5>1. Len(more) = 3
          BY <3>2 DEF more
        <5>2. Len(more \o rest) = Len(more) + Len(rest) /\ Len(rest) \in Nat
          BY <1>6, RowThen
        <5> QED BY <5>1, <5>2
      <4> HIDE DEF more, rest
      <4>2. Len(agenda') > 0
        BY <1>1, <4>1
      <4>3. Len(agenda') = 0
        BY <2>4
      <4> QED BY <4>2, <4>3
    <3> QED BY <3>1, <3>2
  <2> QED BY <1>1, <1>4, <1>8, <2>3, <2>4 DEF IInv
<1>10. CASE head # Root
  <2> HIDE DEF more
  <2>1. Waits(more \o rest) /\ more \o rest # <<>>
    BY <1>1, <1>6, <1>10, RootStays
  <2>2. Waits(agenda)' /\ agenda' # <<>>
    BY <1>1, <2>1 DEF Waits
  <2> QED BY <1>1, <1>4, <1>8, <2>2 DEF IInv
<1> QED BY <1>9, <1>10

LEMMA KeywordStatementStep == ASSUME IInv, KeywordStatement PROVE IInv'
<1>1. /\ status = "parsing" /\ agenda # <<>> /\ Head(agenda)[1] = "Statement"
      /\ Type \in Keywords /\ Advance /\ Then(StatementOf(Type)) /\ trees' = trees
      /\ tokens' = tokens
  BY DEF KeywordStatement, Doing, Check, Then
<1>2. PICK from, to : /\ Stacked(trees, from) /\ Moves(Head(agenda), from, to)
                      /\ Carries(Tail(agenda), to, Program)
  BY <1>1, HeadMoves
<1>3. to = <<"Stmt", from>>
  BY <1>1, <1>2 DEF Moves
<1>4. Carries(StatementOf(Type), from, to)
  BY <1>1, <1>3, StatementCarries
<1>5. Within'
  BY <1>1, AdvanceWithin
<1>6. Head(agenda)[1] # "Statements" /\ Stacked(trees', from)
  BY <1>1, <1>2
<1> QED BY <1>1, <1>2, <1>4, <1>5, <1>6, GoesOn

LEMMA AssignmentStatementStep == ASSUME IInv, AssignmentStatement PROVE IInv'
<1> DEFINE steps == <<Expression, LineEnd, Make("Assignment")>>
           name == tokens[current].lexeme
<1>1. /\ status = "parsing" /\ agenda # <<>> /\ Head(agenda)[1] = "Statement"
      /\ Type = "Identifier" /\ tokens[current + 1].type = "Assign" /\ current' = current + 2
      /\ trees' = Append(trees, name) /\ Then(steps) /\ tokens' = tokens
  BY DEF AssignmentStatement, IsAssignment, Doing, Check, Push, Then
<1>2. PICK from, to : /\ Stacked(trees, from) /\ Moves(Head(agenda), from, to)
                      /\ Carries(Tail(agenda), to, Program)
  BY <1>1, HeadMoves
<1> DEFINE b == <<"Name", from>>
           c == <<"Expr", b>>
<1>3. to = <<"Stmt", from>>
  BY <1>1, <1>2 DEF Moves
<1>4. Carries(steps, b, to)
  <2>1. Moves(Expression, b, c) /\ Moves(LineEnd, c, c)
    BY ExpressionMoves, PlainMoves
  <2>2. Moves(Make("Assignment"), c, to)
    <3>1. Makes("Assignment", c, to)
      BY <1>3, NodesMake
    <3> QED BY <3>1, MakeMoves
  <2> HIDE DEF b, c
  <2> QED BY <2>1, <2>2, ThreeCarry
<1>5. Within'
  <2>1. current + 2 \in 1..Len(tokens)
    BY <1>1, Reading
  <2> QED BY <1>1, <2>1 DEF Within
<1>6. Stacked(trees', b)
  <2>1. name \in STRING
    BY Reading
  <2>2. Fits(name, "Name") /\ "Name" \in Sort
    BY <2>1 DEF Fits, Tree, Sort
  <2> HIDE DEF name
  <2> QED BY <1>1, <1>2, <2>2, StackedPush
<1>7. Head(agenda)[1] # "Statements"
  BY <1>1
<1> HIDE DEF b, steps
<1> QED BY <1>1, <1>2, <1>4, <1>5, <1>6, <1>7, GoesOn

LEMMA ExpressionStatementStep == ASSUME IInv, ExpressionStatement PROVE IInv'
<1> DEFINE steps == <<Expression, LineEnd, Make("Expression")>>
<1>1. /\ status = "parsing" /\ agenda # <<>> /\ Head(agenda)[1] = "Statement"
      /\ Then(steps) /\ UNCHANGED <<tokens, current, trees>>
  BY DEF ExpressionStatement, Doing, Then
<1>2. PICK from, to : /\ Stacked(trees, from) /\ Moves(Head(agenda), from, to)
                      /\ Carries(Tail(agenda), to, Program)
  BY <1>1, HeadMoves
<1> DEFINE b == <<"Expr", from>>
<1>3. to = <<"Stmt", from>>
  BY <1>1, <1>2 DEF Moves
<1>4. Carries(steps, from, to)
  <2>1. Moves(Expression, from, b) /\ Moves(LineEnd, b, b)
    BY ExpressionMoves, PlainMoves
  <2>2. Moves(Make("Expression"), b, to)
    <3>1. Makes("Expression", b, to)
      BY <1>3, NodesMake
    <3> QED BY <3>1, MakeMoves
  <2> HIDE DEF b
  <2> QED BY <2>1, <2>2, ThreeCarry
<1>5. Within'
  BY <1>1, StayWithin
<1>6. Head(agenda)[1] # "Statements" /\ Stacked(trees', from)
  BY <1>1, <1>2
<1> HIDE DEF steps
<1> QED BY <1>1, <1>2, <1>4, <1>5, <1>6, GoesOn

LEMMA ElseStep == ASSUME IInv, Else PROVE IInv'
<1>1. /\ status = "parsing" /\ agenda # <<>> /\ Head(agenda)[1] = "Else"
      /\ tokens' = tokens /\ trees' = trees
  BY DEF Else, Doing, Then
<1>2. PICK from, to : /\ Stacked(trees, from) /\ Moves(Head(agenda), from, to)
                      /\ Carries(Tail(agenda), to, Program)
  BY <1>1, HeadMoves
<1>3. PICK b : from = <<"Stmts", <<"Expr", b>>>> /\ to = <<"Stmt", b>>
  BY <1>1, <1>2 DEF Moves
<1>4. Head(agenda)[1] # "Statements" /\ Stacked(trees', from)
  BY <1>1, <1>2
<1>5. CASE Check({"Else"})
  <2> DEFINE steps == Block \o <<Make("IfElse")>>
  <2>1. Advance /\ Then(steps)
    BY <1>5 DEF Else
  <2>2. Within'
    BY <1>1, <2>1, AdvanceWithin
  <2>3. Carries(Block, from, <<"Stmts", from>>)
    BY BlockCarries
  <2>4. Carries(<<Make("IfElse")>>, <<"Stmts", from>>, to)
    <3>1. Makes("IfElse", <<"Stmts", from>>, to)
      BY <1>3, NodesMake
    <3> QED BY <3>1, MakeMoves, OneCarries
  <2>5. Carries(steps, from, to)
    BY <2>3, <2>4, CarriesThen
  <2> HIDE DEF steps
  <2> QED BY <1>1, <1>2, <1>4, <2>1, <2>2, <2>5, GoesOn
<1>6. CASE ~Check({"Else"})
  <2> DEFINE steps == <<Make("If")>>
  <2>1. current' = current /\ Then(steps)
    BY <1>6 DEF Else
  <2>2. Within'
    BY <1>1, <2>1, StayWithin
  <2>3. Carries(steps, from, to)
    <3>1. Makes("If", from, to)
      BY <1>3, NodesMake
    <3> QED BY <3>1, MakeMoves, OneCarries
  <2> HIDE DEF steps
  <2> QED BY <1>1, <1>2, <1>4, <2>1, <2>2, <2>3, GoesOn
<1> QED BY <1>5, <1>6

LEMMA ReturnStatementStep == ASSUME IInv, ReturnStatement PROVE IInv'
<1> DEFINE nothing == <<LineEnd, Make("ReturnNothing")>>
           value == <<Expression, LineEnd, Make("Return")>>
           steps == IF Check(Ends \cup {"Newline"}) THEN nothing ELSE value
<1>1. /\ status = "parsing" /\ agenda # <<>> /\ Head(agenda)[1] = "Return"
      /\ tokens' = tokens /\ trees' = trees /\ current' = current /\ Then(steps)
  BY DEF ReturnStatement, Doing, Then
<1>2. PICK from, to : /\ Stacked(trees, from) /\ Moves(Head(agenda), from, to)
                      /\ Carries(Tail(agenda), to, Program)
  BY <1>1, HeadMoves
<1>3. to = <<"Stmt", from>>
  BY <1>1, <1>2 DEF Moves
<1>4. Head(agenda)[1] # "Statements" /\ Stacked(trees', from)
  BY <1>1, <1>2
<1>5. Within'
  BY <1>1, StayWithin
<1>6. Carries(nothing, from, to)
  <2>1. Moves(LineEnd, from, from)
    BY PlainMoves
  <2>2. Makes("ReturnNothing", from, to)
    BY <1>3, NodesMake
  <2>3. Moves(Make("ReturnNothing"), from, to)
    BY <2>2, MakeMoves
  <2> QED BY <2>1, <2>3, TwoCarry
<1>7. Carries(value, from, to)
  <2> DEFINE b == <<"Expr", from>>
  <2>1. Moves(Expression, from, b) /\ Moves(LineEnd, b, b)
    BY ExpressionMoves, PlainMoves
  <2>2. Makes("Return", b, to)
    BY <1>3, NodesMake
  <2>3. Moves(Make("Return"), b, to)
    BY <2>2, MakeMoves
  <2> HIDE DEF b
  <2> QED BY <2>1, <2>3, ThreeCarry
<1> HIDE DEF nothing, value
<1>8. Carries(steps, from, to)
  BY <1>6, <1>7
<1> HIDE DEF steps
<1> QED BY <1>1, <1>2, <1>4, <1>5, <1>8, GoesOn

LEMMA EmptyFits ==
  ASSUME NEW x \in Single
  PROVE  Many(x) \in Sort /\ Fits(<<>>, Many(x))
<1> DEFINE none == <<>>
<1>1. none \in Seq(Exprs) /\ none \in Seq(Stmts) /\ none \in Seq(STRING)
  OBVIOUS
<1> HIDE DEF none
<1>2. CASE x = "Expr"
  BY <1>1, <1>2 DEF Many, Sort, Fits, Tree, none
<1>3. CASE x = "Stmt"
  BY <1>1, <1>3 DEF Many, Sort, Fits, Tree, none
<1>4. CASE x = "Name"
  BY <1>1, <1>4 DEF Many, Sort, Fits, Tree, none
<1> QED BY <1>2, <1>3, <1>4 DEF Single

LEMMA SuiteStep == ASSUME IInv, Suite PROVE IInv'
<1> DEFINE statements == <<"Statements", Ends>>
           steps == <<Consume("Newline"), Consume("Indent"), statements, Consume("Dedent")>>
           none == <<>>
<1>1. /\ status = "parsing" /\ agenda # <<>> /\ Head(agenda)[1] = "Suite"
      /\ tokens' = tokens /\ trees' = Append(trees, none) /\ current' = current /\ Then(steps)
  BY DEF Suite, Doing, Then, Push
<1>2. PICK from, to : /\ Stacked(trees, from) /\ Moves(Head(agenda), from, to)
                      /\ Carries(Tail(agenda), to, Program)
  BY <1>1, HeadMoves
<1> HIDE DEF statements
<1>3. to = <<"Stmts", from>>
  BY <1>1, <1>2 DEF Moves
<1>4. Stacked(trees', to)
  <2>1. "Stmts" \in Sort /\ Fits(none, "Stmts")
    <3>1. "Stmt" \in Single /\ Many("Stmt") = "Stmts"
      BY DEF Single, Many
    <3>2. Many("Stmt") \in Sort /\ Fits(none, Many("Stmt"))
      BY <3>1, EmptyFits
    <3> QED BY <3>1, <3>2
  <2> HIDE DEF none
  <2> QED BY <1>1, <1>2, <1>3, <2>1, StackedPush
<1>5. Within'
  BY <1>1, StayWithin
<1>6. Carries(steps, to, to)
  <2>1. /\ Moves(Consume("Newline"), to, to) /\ Moves(Consume("Indent"), to, to)
        /\ Moves(Consume("Dedent"), to, to)
    BY ConsumeMoves
  <2>2. Moves(statements, to, to)
    BY <1>3, PlainMoves DEF statements
  <2> QED BY <2>1, <2>2, FourCarry
<1>7. Head(agenda)[1] # "Statements"
  BY <1>1
<1> HIDE DEF steps
<1> QED BY <1>1, <1>2, <1>4, <1>5, <1>6, <1>7, GoesOn

LEMMA ConsumeLineEndStep == ASSUME IInv, ConsumeLineEnd PROVE IInv'
<1> DEFINE none == <<>>
<1>1. status = "parsing" /\ agenda # <<>> /\ Head(agenda)[1] = "LineEnd"
  BY DEF ConsumeLineEnd, Doing
<1>2. PICK from, to : /\ Stacked(trees, from) /\ Moves(Head(agenda), from, to)
                      /\ Carries(Tail(agenda), to, Program)
  BY <1>1, HeadMoves
<1>3. to = from
  BY <1>1, <1>2 DEF Moves
<1>4. Carries(none, from, to)
  BY <1>3, NoneCarries
<1>5. CASE Error
  BY <1>1, <1>5, GivesUp
<1>6. CASE /\ (Advance \/ current' = current)
           /\ Then(none) /\ trees' = trees
  <2>1. tokens' = tokens
    BY <1>6 DEF Then
  <2>2. Within'
    BY <1>6, <2>1, AdvanceWithin, StayWithin
  <2>3. Head(agenda)[1] # "Statements" /\ Stacked(trees', from) /\ Then(none)
    BY <1>1, <1>2, <1>6
  <2> HIDE DEF none
  <2> QED BY <1>1, <1>2, <1>4, <2>2, <2>3, GoesOn
<1> QED BY <1>5, <1>6 DEF ConsumeLineEnd

LEMMA BinaryStep == ASSUME IInv, Binary PROVE IInv'
<1> DEFINE head == Head(agenda)
           i == head[2]
           operators == <<"Operators", i>>
           steps == <<Level(i + 1), operators>>
<1>1. /\ status = "parsing" /\ agenda # <<>> /\ head[1] = "Binary"
      /\ tokens' = tokens /\ trees' = trees /\ current' = current /\ Then(steps)
  BY DEF Binary, Doing, Then, Argument
<1>2. PICK from, to : /\ Stacked(trees, from) /\ Moves(head, from, to)
                      /\ Carries(Tail(agenda), to, Program)
  BY <1>1, HeadMoves
<1> HIDE DEF head
<1>3. i \in 1..4 /\ to = <<"Expr", from>>
  BY <1>1, <1>2 DEF Moves
<1> HIDE DEF i
<1>4. head[1] # "Statements" /\ Stacked(trees', from)
  BY <1>1, <1>2
<1>5. Within'
  BY <1>1, StayWithin
<1>6. Carries(steps, from, to)
  <2>1. i + 1 \in 1..5
    BY <1>3
  <2>2. Moves(Level(i + 1), from, to)
    BY <1>3, <2>1, LevelMoves
  <2>3. Moves(operators, to, to)
    BY <1>3 DEF Moves
  <2> HIDE DEF operators
  <2> QED BY <2>2, <2>3, TwoCarry
<1> HIDE DEF steps
<1> QED BY <1>1, <1>2, <1>4, <1>5, <1>6, GoesOn DEF head

LEMMA OperatorsStep == ASSUME IInv, Operators PROVE IInv'
<1> DEFINE head == Head(agenda)
           i == head[2]
<1>1. /\ status = "parsing" /\ agenda # <<>> /\ head[1] = "Operators"
  BY DEF Operators, Doing
<1>2. PICK from, to : /\ Stacked(trees, from) /\ Moves(head, from, to)
                      /\ Carries(Tail(agenda), to, Program)
  BY <1>1, HeadMoves
<1>3. i \in 1..4 /\ to = from /\ \E b : from = <<"Expr", b>>
  BY <1>1, <1>2 DEF Moves
<1>4. PICK b : from = <<"Expr", b>>
  BY <1>3
<1>5. CASE Check(Levels[Argument])
  <2> DEFINE steps == <<Level(i + 1), Make("Binary"), head>>
             c == <<"Operator", from>>
             d == <<"Expr", c>>
  <2>1. Advance /\ Then(steps) /\ trees' = Append(trees, Type) /\ tokens' = tokens
    BY <1>5 DEF Operators, Argument, Then, Push
  <2>2. Type \in OperatorType
    <3>1. Type \in Levels[i]
      BY <1>5 DEF Check, Argument
    <3> QED BY <1>3, <3>1 DEF OperatorType
  <2>3. Stacked(trees', c)
    <3>1. "Operator" \in Sort /\ Fits(Type, "Operator")
      BY <2>2 DEF Sort, Fits, Tree
    <3> QED BY <1>2, <2>1, <3>1, StackedPush
  <2>4. Carries(steps, c, to)
    <3>1. i + 1 \in 1..5
      BY <1>3
    <3> HIDE DEF i
    <3>2. Moves(Level(i + 1), c, d)
      BY <3>1, LevelMoves
    <3>3. Makes("Binary", d, from)
      BY <1>4, NodesMake
    <3>4. Moves(Make("Binary"), d, from)
      BY <3>3, MakeMoves
    <3>5. Moves(head, from, to)
      BY <1>2
    <3> HIDE DEF c, d, head
    <3> QED BY <3>2, <3>4, <3>5, ThreeCarry
  <2>5. Within'
    BY <2>1, AdvanceWithin
  <2>6. head[1] # "Statements"
    BY <1>1
  <2> HIDE DEF steps, c
  <2> QED BY <1>1, <1>2, <2>1, <2>3, <2>4, <2>5, <2>6, GoesOn
<1>6. CASE ~Check(Levels[Argument])
  <2> DEFINE none == <<>>
  <2>1. Then(none) /\ current' = current /\ trees' = trees /\ tokens' = tokens
    BY <1>6 DEF Operators, Then
  <2>2. Carries(none, from, to)
    BY <1>3, NoneCarries
  <2>3. Within'
    BY <2>1, StayWithin
  <2>4. head[1] # "Statements" /\ Stacked(trees', from)
    BY <1>1, <1>2, <2>1
  <2> HIDE DEF none
  <2> QED BY <1>1, <1>2, <2>1, <2>2, <2>3, <2>4, GoesOn
<1> QED BY <1>5, <1>6

LEMMA UnaryStep == ASSUME IInv, Unary PROVE IInv'
<1>1. /\ status = "parsing" /\ agenda # <<>> /\ Head(agenda)[1] = "Unary"
  BY DEF Unary, Doing
<1>2. PICK from, to : /\ Stacked(trees, from) /\ Moves(Head(agenda), from, to)
                      /\ Carries(Tail(agenda), to, Program)
  BY <1>1, HeadMoves
<1>3. to = <<"Expr", from>> /\ Head(agenda)[1] # "Statements"
  BY <1>1, <1>2 DEF Moves
<1>4. CASE Check(Signs)
  <2> DEFINE steps == <<<<"Unary">>, Make("Unary")>>
             c == <<"Sign", from>>
             d == <<"Expr", c>>
  <2>1. Advance /\ Then(steps) /\ trees' = Append(trees, Type) /\ tokens' = tokens
    BY <1>4 DEF Unary, Then, Push
  <2>2. Stacked(trees', c)
    <3>1. "Sign" \in Sort /\ Fits(Type, "Sign")
      BY <1>4 DEF Sort, Fits, Tree, Check
    <3> QED BY <1>2, <2>1, <3>1, StackedPush
  <2>3. Carries(steps, c, to)
    <3>1. Moves(<<"Unary">>, c, d)
      BY PlainMoves
    <3>2. Makes("Unary", d, to)
      BY <1>3, NodesMake
    <3>3. Moves(Make("Unary"), d, to)
      BY <3>2, MakeMoves
    <3> HIDE DEF c, d
    <3> QED BY <3>1, <3>3, TwoCarry
  <2>4. Within'
    BY <2>1, AdvanceWithin
  <2> HIDE DEF steps, c
  <2> QED BY <1>1, <1>2, <1>3, <2>1, <2>2, <2>3, <2>4, GoesOn
<1>5. CASE ~Check(Signs)
  <2> DEFINE steps == <<<<"Primary">>, <<"Calls">>>>
  <2>1. Then(steps) /\ current' = current /\ trees' = trees /\ tokens' = tokens
    BY <1>5 DEF Unary, Then
  <2>2. Carries(steps, from, to)
    <3>1. Moves(<<"Primary">>, from, to) /\ Moves(<<"Calls">>, to, to)
      BY <1>3, PlainMoves
    <3> QED BY <3>1, TwoCarry
  <2>3. Within'
    BY <2>1, StayWithin
  <2>4. Stacked(trees', from)
    BY <1>2, <2>1
  <2> HIDE DEF steps
  <2> QED BY <1>1, <1>2, <1>3, <2>1, <2>2, <2>3, <2>4, GoesOn
<1> QED BY <1>4, <1>5

LEMMA CallsStep == ASSUME IInv, Calls PROVE IInv'
<1>1. /\ status = "parsing" /\ agenda # <<>> /\ Head(agenda)[1] = "Calls" /\ trees' = trees
  BY DEF Calls, Doing
<1>2. PICK from, to : /\ Stacked(trees, from) /\ Moves(Head(agenda), from, to)
                      /\ Carries(Tail(agenda), to, Program)
  BY <1>1, HeadMoves
<1>3. PICK b : to = from /\ from = <<"Expr", b>>
  BY <1>1, <1>2 DEF Moves
<1>4. Head(agenda)[1] # "Statements" /\ Stacked(trees', from)
  BY <1>1, <1>2
<1>5. CASE Check({"LeftParen"})
  <2> DEFINE arguments == Items(Expression, "RightParen")
             calls == <<Make("Call"), <<"Calls">>>>
             c == <<"Exprs", from>>
  <2>1. Advance /\ Then(arguments \o calls) /\ tokens' = tokens
    BY <1>5 DEF Calls, Then
  <2>2. Carries(arguments, from, c)
    <3>1. "Expr" \in Single /\ Many("Expr") = "Exprs"
      BY DEF Single, Many
    <3>2. Carries(arguments, from, <<Many("Expr"), from>>)
      BY <3>1, SomeItems, ItemsCarry
    <3> QED BY <3>1, <3>2
  <2>3. Carries(calls, c, to)
    <3>1. Makes("Call", c, to)
      BY <1>3, NodesMake
    <3>2. Moves(Make("Call"), c, to) /\ Moves(<<"Calls">>, to, to)
      BY <1>3, <3>1, MakeMoves, PlainMoves
    <3> HIDE DEF c
    <3> QED BY <3>2, TwoCarry
  <2> HIDE DEF arguments, calls, c
  <2>4. Carries(arguments \o calls, from, to)
    BY <2>2, <2>3, CarriesThen
  <2>5. Within'
    BY <2>1, AdvanceWithin
  <2> QED BY <1>1, <1>2, <1>4, <2>1, <2>4, <2>5, GoesOn
<1>6. CASE ~Check({"LeftParen"})
  <2> DEFINE none == <<>>
  <2>1. Then(none) /\ current' = current /\ tokens' = tokens
    BY <1>6 DEF Calls, Then
  <2>2. Carries(none, from, to)
    BY <1>3, NoneCarries
  <2>3. Within'
    BY <2>1, StayWithin
  <2> HIDE DEF none
  <2> QED BY <1>1, <1>2, <1>4, <2>1, <2>2, <2>3, GoesOn
<1> QED BY <1>5, <1>6

LEMMA LeafStep == ASSUME IInv, Leaf PROVE IInv'
<1> DEFINE none == <<>>
           lexeme == tokens[current].lexeme
           tree == IF Check(Literals) THEN LiteralExpr(lexeme) ELSE VariableExpr(lexeme)
<1>1. /\ status = "parsing" /\ agenda # <<>> /\ Head(agenda)[1] = "Primary"
      /\ Advance /\ trees' = Append(trees, tree) /\ Then(none) /\ tokens' = tokens
  BY DEF Leaf, Doing, Push, Then
<1>2. PICK from, to : /\ Stacked(trees, from) /\ Moves(Head(agenda), from, to)
                      /\ Carries(Tail(agenda), to, Program)
  BY <1>1, HeadMoves
<1>3. to = <<"Expr", from>> /\ Head(agenda)[1] # "Statements"
  BY <1>1, <1>2 DEF Moves
<1>4. Stacked(trees', to)
  <2>1. lexeme \in STRING
    BY Reading
  <2> HIDE DEF lexeme
  <2>2. ASSUME Closed PROVE tree \in Exprs
    BY <2>1, <2>2 DEF Closed
  <2> HIDE DEF tree
  <2>3. "Expr" \in Sort /\ Fits(tree, "Expr")
    BY <2>2 DEF Sort, Fits, Tree
  <2> QED BY <1>1, <1>2, <1>3, <2>3, StackedPush
<1>5. Carries(none, to, to)
  BY NoneCarries
<1>6. Within'
  BY <1>1, AdvanceWithin
<1> HIDE DEF none
<1> QED BY <1>1, <1>2, <1>3, <1>4, <1>5, <1>6, GoesOn

LEMMA BracketedStep == ASSUME IInv, Bracketed PROVE IInv'
<1> DEFINE elements == Items(Expression, "RightBracket")
           group == <<Expression, Consume("RightParen")>>
           list == elements \o <<Make("List")>>
           steps == IF Check({"LeftParen"}) THEN group ELSE list
<1>1. /\ status = "parsing" /\ agenda # <<>> /\ Head(agenda)[1] = "Primary"
      /\ Advance /\ trees' = trees /\ Then(steps) /\ tokens' = tokens
  BY DEF Bracketed, Doing, Then
<1>2. PICK from, to : /\ Stacked(trees, from) /\ Moves(Head(agenda), from, to)
                      /\ Carries(Tail(agenda), to, Program)
  BY <1>1, HeadMoves
<1>3. to = <<"Expr", from>> /\ Head(agenda)[1] # "Statements" /\ Stacked(trees', from)
  BY <1>1, <1>2 DEF Moves
<1>4. Carries(group, from, to)
  <2>1. "RightParen" # "Identifier"
    OBVIOUS
  <2>2. Moves(Expression, from, to) /\ Moves(Consume("RightParen"), to, to)
    BY <1>3, <2>1, ExpressionMoves, ConsumeMoves
  <2> QED BY <2>2, TwoCarry
<1>5. Carries(list, from, to)
  <2> DEFINE c == <<"Exprs", from>>
  <2>1. Carries(elements, from, c)
    <3>1. "Expr" \in Single /\ Many("Expr") = "Exprs"
      BY DEF Single, Many
    <3>2. Carries(elements, from, <<Many("Expr"), from>>)
      BY <3>1, SomeItems, ItemsCarry
    <3> QED BY <3>1, <3>2
  <2>2. Carries(<<Make("List")>>, c, to)
    <3>1. Makes("List", c, to)
      BY <1>3, NodesMake
    <3> QED BY <3>1, MakeMoves, OneCarries
  <2> HIDE DEF elements, c
  <2> QED BY <2>1, <2>2, CarriesThen
<1> HIDE DEF group, list
<1>6. Carries(steps, from, to)
  BY <1>4, <1>5
<1>7. Within'
  BY <1>1, AdvanceWithin
<1> HIDE DEF steps
<1> QED BY <1>1, <1>2, <1>3, <1>6, <1>7, GoesOn

LEMMA NoExpressionStep == ASSUME IInv, NoExpression PROVE IInv'
BY GivesUp DEF NoExpression, Doing

LEMMA BeginItemsStep == ASSUME IInv, BeginItems PROVE IInv'
<1> DEFINE head == Head(agenda)
           item == head[2]
           more == <<"MoreItems", item>>
           some == <<item, <<"Collect">>, more>>
           none == <<>>
           steps == IF Check({head[3]}) THEN none ELSE some
<1>1. /\ status = "parsing" /\ agenda # <<>> /\ head[1] = "Items" /\ Then(steps)
      /\ trees' = Append(trees, none) /\ current' = current /\ tokens' = tokens
  BY DEF BeginItems, Doing, Then, Argument, Push
<1>2. PICK from, to : /\ Stacked(trees, from) /\ Moves(head, from, to)
                      /\ Carries(Tail(agenda), to, Program)
  BY <1>1, HeadMoves
<1> HIDE DEF head
<1>3. PICK x \in Single : ItemOf(item, x) /\ to = <<Many(x), from>>
  BY <1>1, <1>2 DEF Moves
<1> HIDE DEF item
<1>4. Stacked(trees', to)
  <2>1. Many(x) \in Sort /\ Fits(none, Many(x))
    BY EmptyFits
  <2> HIDE DEF none
  <2> QED BY <1>1, <1>2, <1>3, <2>1, StackedPush
<1>5. Carries(some, to, to)
  <2> DEFINE c == <<x, to>>
  <2>1. Moves(item, to, c)
    BY <1>3, ItemMoves
  <2>2. Moves(<<"Collect">>, c, to)
    BY <1>3, CollectMoves
  <2>3. Moves(more, to, to)
    <3>1. more[1] = "MoreItems" /\ more[2] = item
      OBVIOUS
    <3> HIDE DEF more
    <3> QED BY <1>3, <3>1 DEF Moves
  <2> HIDE DEF c, more
  <2> QED BY <2>1, <2>2, <2>3, ThreeCarry
<1>6. Carries(none, to, to)
  BY NoneCarries
<1> HIDE DEF none, some
<1>7. Carries(steps, to, to)
  BY <1>5, <1>6
<1>8. Within' /\ head[1] # "Statements"
  BY <1>1, StayWithin
<1> HIDE DEF steps
<1> QED BY <1>1, <1>2, <1>4, <1>7, <1>8, GoesOn DEF head

LEMMA MoreItemsStep == ASSUME IInv, MoreItems PROVE IInv'
<1> DEFINE head == Head(agenda)
           item == head[2]
<1>1. /\ status = "parsing" /\ agenda # <<>> /\ head[1] = "MoreItems" /\ trees' = trees
  BY DEF MoreItems, Doing
<1>2. PICK from, to : /\ Stacked(trees, from) /\ Moves(head, from, to)
                      /\ Carries(Tail(agenda), to, Program)
  BY <1>1, HeadMoves
<1>3. PICK x, b : x \in Single /\ to = from /\ ItemOf(item, x) /\ from = <<Many(x), b>>
  BY <1>1, <1>2 DEF Moves
<1>4. head[1] # "Statements" /\ Stacked(trees', from)
  BY <1>1, <1>2
<1>5. CASE Check({"Comma"})
  <2> DEFINE steps == <<item, <<"Collect">>, head>>
             c == <<x, from>>
  <2>1. Advance /\ Then(steps) /\ tokens' = tokens
    BY <1>5 DEF MoreItems, Argument, Then
  <2>2. Moves(item, from, c)
    BY <1>3, ItemMoves
  <2>3. Moves(<<"Collect">>, c, from)
    BY <1>3, CollectMoves
  <2>4. Moves(head, from, from)
    BY <1>2, <1>3
  <2>5. Carries(steps, from, to)
    <3> HIDE DEF c, head, item
    <3>1. Carries(steps, from, from)
      BY <2>2, <2>3, <2>4, ThreeCarry
    <3> QED BY <1>3, <3>1
  <2>6. Within'
    BY <2>1, AdvanceWithin
  <2> HIDE DEF steps
  <2> QED BY <1>1, <1>2, <1>4, <2>1, <2>5, <2>6, GoesOn
<1>6. CASE ~Check({"Comma"})
  <2> DEFINE none == <<>>
  <2>1. Then(none) /\ current' = current /\ tokens' = tokens
    BY <1>6 DEF MoreItems, Then
  <2>2. Carries(none, from, to)
    BY <1>3, NoneCarries
  <2>3. Within'
    BY <2>1, StayWithin
  <2> HIDE DEF none
  <2> QED BY <1>1, <1>2, <1>4, <2>1, <2>2, <2>3, GoesOn
<1> QED BY <1>5, <1>6

LEMMA ConsumeTokenStep == ASSUME IInv, ConsumeToken PROVE IInv'
<1> DEFINE head == Head(agenda)
           lexeme == tokens[current].lexeme
           none == <<>>
<1>1. /\ status = "parsing" /\ agenda # <<>> /\ head[1] = "Consume"
  BY DEF ConsumeToken, Doing
<1>2. PICK from, to : /\ Stacked(trees, from) /\ Moves(head, from, to)
                      /\ Carries(Tail(agenda), to, Program)
  BY <1>1, HeadMoves
<1>3. /\ head[2] = "Identifier" => to = <<"Name", from>>
      /\ head[2] # "Identifier" => to = from
      /\ head[1] # "Statements"
  BY <1>1, <1>2 DEF Moves
<1>4. CASE Check({Argument})
  <2>1. Advance /\ Then(none) /\ tokens' = tokens /\ Type = head[2]
    BY <1>4 DEF ConsumeToken, Then, Check, Argument
  <2>2. Within'
    BY <2>1, AdvanceWithin
  <2>3. Stacked(trees', to)
    <3>1. CASE Type = "Identifier"
      <4>1. trees' = Append(trees, lexeme)
        BY <1>4, <3>1 DEF ConsumeToken, Check, Push
      <4>2. lexeme \in STRING
        BY Reading
      <4> HIDE DEF lexeme
      <4>3. "Name" \in Sort /\ Fits(lexeme, "Name")
        BY <4>2 DEF Sort, Fits, Tree
      <4>4. to = <<"Name", from>>
        BY <1>3, <2>1, <3>1
      <4> QED BY <1>2, <4>1, <4>3, <4>4, StackedPush
    <3>2. CASE Type # "Identifier"
      <4>1. trees' = trees
        BY <1>4, <3>2 DEF ConsumeToken, Check
      <4>2. to = from
        BY <1>3, <2>1, <3>2
      <4> QED BY <1>2, <4>1, <4>2
    <3> QED BY <3>1, <3>2
  <2>4. Carries(none, to, to)
    BY NoneCarries
  <2> HIDE DEF none
  <2> QED BY <1>1, <1>2, <1>3, <2>1, <2>2, <2>3, <2>4, GoesOn
<1>5. CASE ~Check({Argument})
  <2>1. Error
    BY <1>5 DEF ConsumeToken
  <2> QED BY <1>1, <2>1, GivesUp
<1> QED BY <1>4, <1>5

\* A tree joins the sequence of its kind.
LEMMA JoinFits ==
  ASSUME NEW x \in Single, NEW all, NEW tree, Fits(all, Many(x)), Fits(tree, x)
  PROVE  Fits(Append(all, tree), Many(x))
<1>1. CASE x = "Expr"
  <2>1. ASSUME Closed PROVE all \in Seq(Exprs) /\ tree \in Exprs
    BY <1>1, <2>1 DEF Many, Fits, Tree
  <2>2. ASSUME Closed PROVE Append(all, tree) \in Seq(Exprs)
    BY <2>1, <2>2, AppendProperties
  <2> QED BY <1>1, <2>2 DEF Many, Fits, Tree
<1>2. CASE x = "Stmt"
  <2>1. ASSUME Closed PROVE all \in Seq(Stmts) /\ tree \in Stmts
    BY <1>2, <2>1 DEF Many, Fits, Tree
  <2>2. ASSUME Closed PROVE Append(all, tree) \in Seq(Stmts)
    BY <2>1, <2>2, AppendProperties
  <2> QED BY <1>2, <2>2 DEF Many, Fits, Tree
<1>3. CASE x = "Name"
  <2>1. ASSUME Closed PROVE all \in Seq(STRING) /\ tree \in STRING
    BY <1>3, <2>1 DEF Many, Fits, Tree
  <2>2. ASSUME Closed PROVE Append(all, tree) \in Seq(STRING)
    BY <2>1, <2>2, AppendProperties
  <2> QED BY <1>3, <2>2 DEF Many, Fits, Tree
<1> QED BY <1>1, <1>2, <1>3 DEF Single

LEMMA CollectStep == ASSUME IInv, Collect PROVE IInv'
<1> DEFINE n == Len(trees)
           none == <<>>
           joined == Append(trees[n - 1], trees[n])
<1>1. /\ status = "parsing" /\ agenda # <<>> /\ Head(agenda)[1] = "Collect" /\ Then(none)
      /\ trees' = Append(SubSeq(trees, 1, n - 2), joined) /\ current' = current
      /\ tokens' = tokens
  BY DEF Collect, Doing, Then
<1>2. PICK from, to : /\ Stacked(trees, from) /\ Moves(Head(agenda), from, to)
                      /\ Carries(Tail(agenda), to, Program)
  BY <1>1, HeadMoves
<1>3. PICK x, b : x \in Single /\ from = <<x, <<Many(x), b>>>> /\ to = <<Many(x), b>>
  BY <1>1, <1>2 DEF Moves
<1>4. Row(trees) /\ StackedTo(trees, n, <<x, to>>)
  BY <1>2, <1>3 DEF Stacked
<1>5. n \in Nat /\ Fits(trees[n], x) /\ StackedTo(trees, n - 1, to)
  BY <1>4, StackedPop
<1>6. Fits(trees[n - 1], Many(x)) /\ StackedTo(trees, (n - 1) - 1, b)
  BY <1>3, <1>5, StackedPop
<1>7. (n - 1) - 1 = n - 2
  BY <1>5
<1>8. Fits(joined, Many(x)) /\ Many(x) \in Sort
  <2> HIDE DEF n
  <2>1. x \in Single
    BY <1>3
  <2>2. Fits(joined, Many(x))
    BY <1>5, <1>6, <2>1, JoinFits
  <2> QED BY <2>1, <2>2, EmptyFits
<1>9. Stacked(trees', to)
  <2> HIDE DEF joined, n
  <2>1. StackedTo(trees, n - 2, b)
    BY <1>6, <1>7
  <2>2. Stacked(Append(SubSeq(trees, 1, n - 2), joined), <<Many(x), b>>)
    BY <1>4, <1>8, <2>1, StackedOn
  <2> QED BY <1>1, <1>3, <2>2
<1>10. Carries(none, to, to)
  BY NoneCarries
<1>11. Within' /\ Head(agenda)[1] # "Statements"
  BY <1>1, StayWithin
<1> HIDE DEF none
<1> QED BY <1>1, <1>2, <1>9, <1>10, <1>11, GoesOn

-----------------------------------------------------------------------------
(* The nodes. *)

LEMMA OnePart ==
  ASSUME NEW row, NEW x, NEW b, Stacked(row, <<x, b>>)
  PROVE  LET n == Len(row) - 1
         IN StackedTo(row, n, b) /\ Fits(SubSeq(row, n + 1, Len(row))[1], x)
<1> DEFINE m == Len(row)
           n == m - 1
           t == SubSeq(row, n + 1, m)
<1>1. m \in Nat /\ m > 0 /\ Fits(row[m], x) /\ StackedTo(row, n, b)
  BY StackedPop DEF Stacked
<1>2. n \in 0..Len(row) /\ 1 \in 1..(Len(row) - n) /\ n + 1 = m
  BY <1>1
<1>3. t[1] = row[n + 1]
  BY <1>2, RowPart DEF Stacked
<1>4. Fits(t[1], x)
  BY <1>1, <1>2, <1>3
<1> QED BY <1>1, <1>4

LEMMA TwoParts ==
  ASSUME NEW row, NEW x, NEW y, NEW b, Stacked(row, <<y, <<x, b>>>>)
  PROVE  LET n == Len(row) - 2
             t == SubSeq(row, n + 1, Len(row))
         IN StackedTo(row, n, b) /\ Fits(t[1], x) /\ Fits(t[2], y)
<1> DEFINE m == Len(row)
           n == m - 2
           t == SubSeq(row, n + 1, m)
           below == <<x, b>>
<1>1. m \in Nat /\ m > 0 /\ Fits(row[m], y) /\ StackedTo(row, m - 1, below)
  BY StackedPop DEF Stacked
<1>2. m - 1 > 0 /\ Fits(row[m - 1], x) /\ StackedTo(row, (m - 1) - 1, b)
  BY <1>1, StackedPop
<1>3. /\ n \in 0..Len(row) /\ 1 \in 1..(Len(row) - n) /\ 2 \in 1..(Len(row) - n)
      /\ n + 1 = m - 1 /\ n + 2 = m /\ (m - 1) - 1 = n
  BY <1>1, <1>2
<1>4. t[1] = row[n + 1] /\ t[2] = row[n + 2]
  BY <1>3, RowPart DEF Stacked
<1> HIDE DEF n, t, m
<1>5. StackedTo(row, n, b) /\ Fits(t[1], x) /\ Fits(t[2], y)
  BY <1>1, <1>2, <1>3, <1>4
<1> QED BY <1>5 DEF n, t, m

LEMMA ThreeParts ==
  ASSUME NEW row, NEW x, NEW y, NEW z, NEW b, Stacked(row, <<z, <<y, <<x, b>>>>>>)
  PROVE  LET n == Len(row) - 3
             t == SubSeq(row, n + 1, Len(row))
         IN StackedTo(row, n, b) /\ Fits(t[1], x) /\ Fits(t[2], y) /\ Fits(t[3], z)
<1> DEFINE m == Len(row)
           n == m - 3
           t == SubSeq(row, n + 1, m)
           below == <<x, b>>
           next == <<y, below>>
<1>1. m \in Nat /\ m > 0 /\ Fits(row[m], z) /\ StackedTo(row, m - 1, next)
  BY StackedPop DEF Stacked
<1>2. m - 1 > 0 /\ Fits(row[m - 1], y) /\ StackedTo(row, (m - 1) - 1, below)
  <2> HIDE DEF below, m
  <2> QED BY <1>1, StackedPop
<1>3. (m - 1) - 1 > 0 /\ Fits(row[(m - 1) - 1], x) /\ StackedTo(row, ((m - 1) - 1) - 1, b)
  <2> HIDE DEF m
  <2> QED BY <1>2, StackedPop
<1>4. /\ n \in 0..Len(row) /\ 1 \in 1..(Len(row) - n) /\ 2 \in 1..(Len(row) - n)
      /\ 3 \in 1..(Len(row) - n)
      /\ n + 1 = (m - 1) - 1 /\ n + 2 = m - 1 /\ n + 3 = m /\ ((m - 1) - 1) - 1 = n
  BY <1>1, <1>3
<1>5. t[1] = row[n + 1] /\ t[2] = row[n + 2] /\ t[3] = row[n + 3]
  BY <1>4, RowPart DEF Stacked
<1> HIDE DEF n, t, m
<1>6. StackedTo(row, n, b) /\ Fits(t[1], x) /\ Fits(t[2], y) /\ Fits(t[3], z)
  BY <1>1, <1>2, <1>3, <1>4, <1>5
<1> QED BY <1>6 DEF n, t, m

\* A node of the right parts is a tree of its sort.
LEMMA NodeFits ==
  ASSUME NEW row, NEW node, NEW from, NEW to, Stacked(row, from), Makes(node, from, to)
  PROVE  LET n == Len(row) - Parts(node)
         IN Stacked(Append(SubSeq(row, 1, n), Node(node, SubSeq(row, n + 1, Len(row)))), to)
<1> DEFINE n == Len(row) - Parts(node)
           t == SubSeq(row, n + 1, Len(row))
           made == Node(node, t)
<1>1. PICK b :
    \/ node = "ReturnNothing" /\ from = b /\ to = <<"Stmt", b>>
    \/ node \in {"Expression", "Print", "Return"} /\ from = <<"Expr", b>> /\ to = <<"Stmt", b>>
    \/ node = "Assignment" /\ from = <<"Expr", <<"Name", b>>>> /\ to = <<"Stmt", b>>
    \/ node \in {"If", "While"} /\ from = <<"Stmts", <<"Expr", b>>>> /\ to = <<"Stmt", b>>
    \/ node = "IfElse" /\ from = <<"Stmts", <<"Stmts", <<"Expr", b>>>>>> /\ to = <<"Stmt", b>>
    \/ node = "Function" /\ from = <<"Stmts", <<"Names", <<"Name", b>>>>>> /\ to = <<"Stmt", b>>
    \/ node = "Binary" /\ from = <<"Expr", <<"Operator", <<"Expr", b>>>>>> /\ to = <<"Expr", b>>
    \/ node = "Unary" /\ from = <<"Expr", <<"Sign", b>>>> /\ to = <<"Expr", b>>
    \/ node = "Call" /\ from = <<"Exprs", <<"Expr", b>>>> /\ to = <<"Expr", b>>
    \/ node = "List" /\ from = <<"Exprs", b>> /\ to = <<"Expr", b>>
  BY DEF Makes
<1>2. Row(row) /\ "Stmt" \in Sort /\ "Expr" \in Sort
  BY DEF Stacked, Sort
<1>3. CASE node = "ReturnNothing"
  <2>1. from = b /\ to = <<"Stmt", b>>
    BY <1>1, <1>3
  <2>2. Parts(node) = 0 /\ Len(row) \in Nat
    BY <1>2, <1>3, RowAppend DEF Parts
  <2>3. n = Len(row)
    BY <2>2
  <2>4. StackedTo(row, n, b)
    BY <2>1, <2>3 DEF Stacked
  <2>5. made = ReturnStmt(<<>>)
    BY <1>3 DEF Node
  <2>6. Closed => made \in Tree("Stmt")
    BY <2>5 DEF Closed, Tree
  <2> HIDE DEF n, t, made
  <2>7. Fits(made, "Stmt")
    BY <2>6 DEF Fits
  <2>8. Stacked(Append(SubSeq(row, 1, n), made), to)
    BY <1>2, <2>1, <2>4, <2>7, StackedOn
  <2> QED BY <2>8 DEF n, t, made
<1>4. CASE node = "Expression"
  <2>1. from = <<"Expr", b>> /\ to = <<"Stmt", b>>
    BY <1>1, <1>4
  <2>2. n = Len(row) - 1
    BY <1>4 DEF Parts
  <2>3. Stacked(row, <<"Expr", b>>)
    BY <2>1
  <2>4. StackedTo(row, n, b) /\ Fits(t[1], "Expr")
    BY <2>2, <2>3, OnePart
  <2>5. made = ExpressionStmt(t[1])
    BY <1>4 DEF Node
  <2> HIDE DEF n, t, made
  <2>6. ASSUME Closed PROVE made \in Tree("Stmt")
    <3>1. t[1] \in Exprs
      BY <2>4, <2>6 DEF Fits, Tree
    <3> QED BY <2>5, <2>6, <3>1 DEF Closed, Tree
  <2>7. Fits(made, "Stmt")
    BY <2>6 DEF Fits
  <2>8. Stacked(Append(SubSeq(row, 1, n), made), to)
    BY <1>2, <2>1, <2>4, <2>7, StackedOn
  <2> QED BY <2>8 DEF n, t, made
<1>5. CASE node = "Print"
  <2>1. from = <<"Expr", b>> /\ to = <<"Stmt", b>>
    BY <1>1, <1>5
  <2>2. n = Len(row) - 1
    BY <1>5 DEF Parts
  <2>3. Stacked(row, <<"Expr", b>>)
    BY <2>1
  <2>4. StackedTo(row, n, b) /\ Fits(t[1], "Expr")
    BY <2>2, <2>3, OnePart
  <2>5. made = PrintStmt(t[1])
    BY <1>5 DEF Node
  <2> HIDE DEF n, t, made
  <2>6. ASSUME Closed PROVE made \in Tree("Stmt")
    <3>1. t[1] \in Exprs
      BY <2>4, <2>6 DEF Fits, Tree
    <3> QED BY <2>5, <2>6, <3>1 DEF Closed, Tree
  <2>7. Fits(made, "Stmt")
    BY <2>6 DEF Fits
  <2>8. Stacked(Append(SubSeq(row, 1, n), made), to)
    BY <1>2, <2>1, <2>4, <2>7, StackedOn
  <2> QED BY <2>8 DEF n, t, made
<1>6. CASE node = "Return"
  <2>1. from = <<"Expr", b>> /\ to = <<"Stmt", b>>
    BY <1>1, <1>6
  <2>2. n = Len(row) - 1
    BY <1>6 DEF Parts
  <2>3. Stacked(row, <<"Expr", b>>)
    BY <2>1
  <2>4. StackedTo(row, n, b) /\ Fits(t[1], "Expr")
    BY <2>2, <2>3, OnePart
  <2>5. made = ReturnStmt(<<t[1]>>)
    BY <1>6 DEF Node
  <2> HIDE DEF n, t, made
  <2>6. ASSUME Closed PROVE made \in Tree("Stmt")
    <3>1. t[1] \in Exprs
      BY <2>4, <2>6 DEF Fits, Tree
    <3> QED BY <2>5, <2>6, <3>1 DEF Closed, Tree
  <2>7. Fits(made, "Stmt")
    BY <2>6 DEF Fits
  <2>8. Stacked(Append(SubSeq(row, 1, n), made), to)
    BY <1>2, <2>1, <2>4, <2>7, StackedOn
  <2> QED BY <2>8 DEF n, t, made
<1>7. CASE node = "List"
  <2>1. from = <<"Exprs", b>> /\ to = <<"Expr", b>>
    BY <1>1, <1>7
  <2>2. n = Len(row) - 1
    BY <1>7 DEF Parts
  <2>3. Stacked(row, <<"Exprs", b>>)
    BY <2>1
  <2>4. StackedTo(row, n, b) /\ Fits(t[1], "Exprs")
    BY <2>2, <2>3, OnePart
  <2>5. made = ListExpr(t[1])
    BY <1>7 DEF Node
  <2> HIDE DEF n, t, made
  <2>6. ASSUME Closed PROVE made \in Tree("Expr")
    <3>1. t[1] \in Seq(Exprs)
      BY <2>4, <2>6 DEF Fits, Tree
    <3> QED BY <2>5, <2>6, <3>1 DEF Closed, Tree
  <2>7. Fits(made, "Expr")
    BY <2>6 DEF Fits
  <2>8. Stacked(Append(SubSeq(row, 1, n), made), to)
    BY <1>2, <2>1, <2>4, <2>7, StackedOn
  <2> QED BY <2>8 DEF n, t, made
<1>8. CASE node = "Assignment"
  <2>1. from = <<"Expr", <<"Name", b>>>> /\ to = <<"Stmt", b>>
    BY <1>1, <1>8
  <2>2. n = Len(row) - 2
    BY <1>8 DEF Parts
  <2>3. Stacked(row, <<"Expr", <<"Name", b>>>>)
    BY <2>1
  <2>4. StackedTo(row, n, b) /\ Fits(t[1], "Name") /\ Fits(t[2], "Expr")
    BY <2>2, <2>3, TwoParts
  <2>5. made = AssignmentStmt(t[1], t[2])
    BY <1>8 DEF Node
  <2> HIDE DEF n, t, made
  <2>6. ASSUME Closed PROVE made \in Tree("Stmt")
    <3>1. t[1] \in STRING /\ t[2] \in Exprs
      BY <2>4, <2>6 DEF Fits, Tree
    <3> QED BY <2>5, <2>6, <3>1 DEF Closed, Tree
  <2>7. Fits(made, "Stmt")
    BY <2>6 DEF Fits
  <2>8. Stacked(Append(SubSeq(row, 1, n), made), to)
    BY <1>2, <2>1, <2>4, <2>7, StackedOn
  <2> QED BY <2>8 DEF n, t, made
<1>9. CASE node = "If"
  <2>1. from = <<"Stmts", <<"Expr", b>>>> /\ to = <<"Stmt", b>>
    BY <1>1, <1>9
  <2>2. n = Len(row) - 2
    BY <1>9 DEF Parts
  <2>3. Stacked(row, <<"Stmts", <<"Expr", b>>>>)
    BY <2>1
  <2>4. StackedTo(row, n, b) /\ Fits(t[1], "Expr") /\ Fits(t[2], "Stmts")
    BY <2>2, <2>3, TwoParts
  <2>5. made = IfStmt(t[1], t[2], <<>>)
    BY <1>9 DEF Node
  <2> HIDE DEF n, t, made
  <2>6. ASSUME Closed PROVE made \in Tree("Stmt")
    <3>1. t[1] \in Exprs /\ t[2] \in Seq(Stmts)
      BY <2>4, <2>6 DEF Fits, Tree
    <3> QED BY <2>5, <2>6, <3>1 DEF Closed, Tree
  <2>7. Fits(made, "Stmt")
    BY <2>6 DEF Fits
  <2>8. Stacked(Append(SubSeq(row, 1, n), made), to)
    BY <1>2, <2>1, <2>4, <2>7, StackedOn
  <2> QED BY <2>8 DEF n, t, made
<1>10. CASE node = "While"
  <2>1. from = <<"Stmts", <<"Expr", b>>>> /\ to = <<"Stmt", b>>
    BY <1>1, <1>10
  <2>2. n = Len(row) - 2
    BY <1>10 DEF Parts
  <2>3. Stacked(row, <<"Stmts", <<"Expr", b>>>>)
    BY <2>1
  <2>4. StackedTo(row, n, b) /\ Fits(t[1], "Expr") /\ Fits(t[2], "Stmts")
    BY <2>2, <2>3, TwoParts
  <2>5. made = WhileStmt(t[1], t[2])
    BY <1>10 DEF Node
  <2> HIDE DEF n, t, made
  <2>6. ASSUME Closed PROVE made \in Tree("Stmt")
    <3>1. t[1] \in Exprs /\ t[2] \in Seq(Stmts)
      BY <2>4, <2>6 DEF Fits, Tree
    <3> QED BY <2>5, <2>6, <3>1 DEF Closed, Tree
  <2>7. Fits(made, "Stmt")
    BY <2>6 DEF Fits
  <2>8. Stacked(Append(SubSeq(row, 1, n), made), to)
    BY <1>2, <2>1, <2>4, <2>7, StackedOn
  <2> QED BY <2>8 DEF n, t, made
<1>11. CASE node = "Unary"
  <2>1. from = <<"Expr", <<"Sign", b>>>> /\ to = <<"Expr", b>>
    BY <1>1, <1>11
  <2>2. n = Len(row) - 2
    BY <1>11 DEF Parts
  <2>3. Stacked(row, <<"Expr", <<"Sign", b>>>>)
    BY <2>1
  <2>4. StackedTo(row, n, b) /\ Fits(t[1], "Sign") /\ Fits(t[2], "Expr")
    BY <2>2, <2>3, TwoParts
  <2>5. made = UnaryExpr(t[1], t[2])
    BY <1>11 DEF Node
  <2> HIDE DEF n, t, made
  <2>6. ASSUME Closed PROVE made \in Tree("Expr")
    <3>1. t[1] \in Signs /\ t[2] \in Exprs
      BY <2>4, <2>6 DEF Fits, Tree
    <3> QED BY <2>5, <2>6, <3>1 DEF Closed, Tree
  <2>7. Fits(made, "Expr")
    BY <2>6 DEF Fits
  <2>8. Stacked(Append(SubSeq(row, 1, n), made), to)
    BY <1>2, <2>1, <2>4, <2>7, StackedOn
  <2> QED BY <2>8 DEF n, t, made
<1>12. CASE node = "Call"
  <2>1. from = <<"Exprs", <<"Expr", b>>>> /\ to = <<"Expr", b>>
    BY <1>1, <1>12
  <2>2. n = Len(row) - 2
    BY <1>12 DEF Parts
  <2>3. Stacked(row, <<"Exprs", <<"Expr", b>>>>)
    BY <2>1
  <2>4. StackedTo(row, n, b) /\ Fits(t[1], "Expr") /\ Fits(t[2], "Exprs")
    BY <2>2, <2>3, TwoParts
  <2>5. made = CallExpr(t[1], t[2])
    BY <1>12 DEF Node
  <2> HIDE DEF n, t, made
  <2>6. ASSUME Closed PROVE made \in Tree("Expr")
    <3>1. t[1] \in Exprs /\ t[2] \in Seq(Exprs)
      BY <2>4, <2>6 DEF Fits, Tree
    <3> QED BY <2>5, <2>6, <3>1 DEF Closed, Tree
  <2>7. Fits(made, "Expr")
    BY <2>6 DEF Fits
  <2>8. Stacked(Append(SubSeq(row, 1, n), made), to)
    BY <1>2, <2>1, <2>4, <2>7, StackedOn
  <2> QED BY <2>8 DEF n, t, made
<1>13. CASE node = "IfElse"
  <2>1. from = <<"Stmts", <<"Stmts", <<"Expr", b>>>>>> /\ to = <<"Stmt", b>>
    BY <1>1, <1>13
  <2>2. n = Len(row) - 3
    BY <1>13 DEF Parts
  <2>3. Stacked(row, <<"Stmts", <<"Stmts", <<"Expr", b>>>>>>)
    BY <2>1
  <2>4. StackedTo(row, n, b) /\ Fits(t[1], "Expr") /\ Fits(t[2], "Stmts") /\ Fits(t[3], "Stmts")
    BY <2>2, <2>3, ThreeParts
  <2>5. made = IfStmt(t[1], t[2], <<t[3]>>)
    BY <1>13 DEF Node
  <2> HIDE DEF n, t, made
  <2>6. ASSUME Closed PROVE made \in Tree("Stmt")
    <3>1. t[1] \in Exprs /\ t[2] \in Seq(Stmts) /\ t[3] \in Seq(Stmts)
      BY <2>4, <2>6 DEF Fits, Tree
    <3> QED BY <2>5, <2>6, <3>1 DEF Closed, Tree
  <2>7. Fits(made, "Stmt")
    BY <2>6 DEF Fits
  <2>8. Stacked(Append(SubSeq(row, 1, n), made), to)
    BY <1>2, <2>1, <2>4, <2>7, StackedOn
  <2> QED BY <2>8 DEF n, t, made
<1>14. CASE node = "Function"
  <2>1. from = <<"Stmts", <<"Names", <<"Name", b>>>>>> /\ to = <<"Stmt", b>>
    BY <1>1, <1>14
  <2>2. n = Len(row) - 3
    BY <1>14 DEF Parts
  <2>3. Stacked(row, <<"Stmts", <<"Names", <<"Name", b>>>>>>)
    BY <2>1
  <2>4. StackedTo(row, n, b) /\ Fits(t[1], "Name") /\ Fits(t[2], "Names") /\ Fits(t[3], "Stmts")
    BY <2>2, <2>3, ThreeParts
  <2>5. made = FunctionStmt(t[1], t[2], t[3])
    BY <1>14 DEF Node
  <2> HIDE DEF n, t, made
  <2>6. ASSUME Closed PROVE made \in Tree("Stmt")
    <3>1. t[1] \in STRING /\ t[2] \in Seq(STRING) /\ t[3] \in Seq(Stmts)
      BY <2>4, <2>6 DEF Fits, Tree
    <3> QED BY <2>5, <2>6, <3>1 DEF Closed, Tree
  <2>7. Fits(made, "Stmt")
    BY <2>6 DEF Fits
  <2>8. Stacked(Append(SubSeq(row, 1, n), made), to)
    BY <1>2, <2>1, <2>4, <2>7, StackedOn
  <2> QED BY <2>8 DEF n, t, made
<1>15. CASE node = "Binary"
  <2>1. from = <<"Expr", <<"Operator", <<"Expr", b>>>>>> /\ to = <<"Expr", b>>
    BY <1>1, <1>15
  <2>2. n = Len(row) - 3
    BY <1>15 DEF Parts
  <2>3. Stacked(row, <<"Expr", <<"Operator", <<"Expr", b>>>>>>)
    BY <2>1
  <2>4. StackedTo(row, n, b) /\ Fits(t[1], "Expr") /\ Fits(t[2], "Operator") /\ Fits(t[3], "Expr")
    BY <2>2, <2>3, ThreeParts
  <2>5. made = BinaryExpr(t[1], t[2], t[3])
    BY <1>15 DEF Node
  <2> HIDE DEF n, t, made
  <2>6. ASSUME Closed PROVE made \in Tree("Expr")
    <3>1. t[1] \in Exprs /\ t[2] \in OperatorType /\ t[3] \in Exprs
      BY <2>4, <2>6 DEF Fits, Tree
    <3> QED BY <2>5, <2>6, <3>1 DEF Closed, Tree
  <2>7. Fits(made, "Expr")
    BY <2>6 DEF Fits
  <2>8. Stacked(Append(SubSeq(row, 1, n), made), to)
    BY <1>2, <2>1, <2>4, <2>7, StackedOn
  <2> QED BY <2>8 DEF n, t, made
<1> QED BY <1>1, <1>3, <1>4, <1>5, <1>6, <1>7, <1>8, <1>9, <1>10, <1>11, <1>12, <1>13, <1>14, <1>15

LEMMA MakeNodeStep == ASSUME IInv, MakeNode PROVE IInv'
<1> DEFINE node == Head(agenda)[2]
           none == <<>>
<1>1. /\ status = "parsing" /\ agenda # <<>> /\ Head(agenda)[1] = "Make" /\ Then(none)
      /\ trees' = LET n == Len(trees) - Parts(node)
                  IN Append(SubSeq(trees, 1, n), Node(node, SubSeq(trees, n + 1, Len(trees))))
      /\ current' = current /\ tokens' = tokens
  BY DEF MakeNode, Doing, Then, Argument
<1>2. PICK from, to : /\ Stacked(trees, from) /\ Moves(Head(agenda), from, to)
                      /\ Carries(Tail(agenda), to, Program)
  BY <1>1, HeadMoves
<1>3. Makes(node, from, to)
  BY <1>1, <1>2 DEF Moves
<1> HIDE DEF node
<1>4. Stacked(trees', to)
  BY <1>1, <1>2, <1>3, NodeFits
<1>5. Carries(none, to, to)
  BY NoneCarries
<1>6. Within' /\ Head(agenda)[1] # "Statements"
  BY <1>1, StayWithin
<1> HIDE DEF none
<1> QED BY <1>1, <1>2, <1>4, <1>5, <1>6, GoesOn

LEMMA FinishStep == ASSUME IInv, Finish PROVE IInv'
BY DEF IInv, Finish, Within, BuildsProgram, Waits, Check, Type

LEMMA NextIInv == IInv /\ [Next]_vars => IInv'
<1> SUFFICES ASSUME IInv, [Next]_vars PROVE IInv'
  OBVIOUS
<1>1. CASE UNCHANGED vars
  BY <1>1 DEF vars, IInv, Within, BuildsProgram, Waits, Check, Type
<1>2. CASE SkipNewline
  BY <1>2, SkipNewlineStep
<1>3. CASE Statements
  BY <1>3, StatementsStep
<1>4. CASE KeywordStatement
  BY <1>4, KeywordStatementStep
<1>5. CASE AssignmentStatement
  BY <1>5, AssignmentStatementStep
<1>6. CASE ExpressionStatement
  BY <1>6, ExpressionStatementStep
<1>7. CASE Else
  BY <1>7, ElseStep
<1>8. CASE ReturnStatement
  BY <1>8, ReturnStatementStep
<1>9. CASE Suite
  BY <1>9, SuiteStep
<1>10. CASE ConsumeLineEnd
  BY <1>10, ConsumeLineEndStep
<1>11. CASE Binary
  BY <1>11, BinaryStep
<1>12. CASE Operators
  BY <1>12, OperatorsStep
<1>13. CASE Unary
  BY <1>13, UnaryStep
<1>14. CASE Calls
  BY <1>14, CallsStep
<1>15. CASE Leaf
  BY <1>15, LeafStep
<1>16. CASE Bracketed
  BY <1>16, BracketedStep
<1>17. CASE NoExpression
  BY <1>17, NoExpressionStep
<1>18. CASE BeginItems
  BY <1>18, BeginItemsStep
<1>19. CASE MoreItems
  BY <1>19, MoreItemsStep
<1>20. CASE ConsumeToken
  BY <1>20, ConsumeTokenStep
<1>21. CASE Collect
  BY <1>21, CollectStep
<1>22. CASE MakeNode
  BY <1>22, MakeNodeStep
<1>23. CASE Finish
  BY <1>23, FinishStep
<1> QED
  BY <1>1, <1>2, <1>3, <1>4, <1>5, <1>6, <1>7, <1>8, <1>9, <1>10, <1>11, <1>12,
     <1>13, <1>14, <1>15, <1>16, <1>17, <1>18, <1>19, <1>20, <1>21, <1>22, <1>23 DEF Next

LEMMA IInvTypeOK == IInv => TypeOK
<1> SUFFICES ASSUME IInv PROVE TypeOK
  OBVIOUS
<1>1. tokens \in Sources /\ current \in 1..Len(tokens)
  BY DEF IInv, Within
<1>2. tokens \in Seq(Token) /\ DOMAIN tokens = 1..Len(tokens)
  BY <1>1, SourceTokens, LenProperties
<1>3. ASSUME status = "done" PROVE agenda = <<>> /\ Len(trees) = 1 /\ Check({"EndOfFile"})
  <2>1. agenda = <<>> /\ Check({"EndOfFile"})
    BY <1>3 DEF IInv
  <2>2. PICK shape : Stacked(trees, shape) /\ Carries(agenda, shape, Program)
    BY DEF IInv, BuildsProgram
  <2>3. shape = Program
    BY <2>1, <2>2, CarriesNone
  <2>4. Len(trees) = 1
    BY <2>2, <2>3, StackedOne DEF Program
  <2> QED BY <2>1, <2>4
<1> QED BY <1>1, <1>2, <1>3 DEF IInv, TypeOK

\* The parser never looks behind the end of a text (parser.cpp:176-188); what it
\* has read when it is done is the whole text, and what it has built is one tree.
THEOREM ParserStaysInText == Spec => []TypeOK
<1>1. IInv /\ [Next]_vars => IInv'
  BY NextIInv
<1> QED BY <1>1, InitIInv, IInvTypeOK, PTL DEF Spec

\* The result of a text that is parsed.
BuildsStatements == status = "done" => trees[1] \in Seq(Stmts)

LEMMA IInvBuilds == ASSUME Closed, IInv PROVE BuildsStatements
<1> SUFFICES ASSUME status = "done" PROVE trees[1] \in Seq(Stmts)
  BY DEF BuildsStatements
<1>1. agenda = <<>>
  BY DEF IInv
<1>2. PICK shape : Stacked(trees, shape) /\ Carries(agenda, shape, Program)
  BY DEF IInv, BuildsProgram
<1>3. shape = Program
  BY <1>1, <1>2, CarriesNone
<1>4. Fits(trees[1], "Stmts")
  BY <1>2, <1>3, StackedOne DEF Program
<1> QED BY <1>4 DEF Fits, Tree

\* Every node gets the operands its constructor takes, in their order
\* (parser.cpp:24-171): in whatever sets of trees all the nodes are, the result of
\* parse() is a sequence of statements of them.
THEOREM ParserBuildsPrograms == ASSUME Closed PROVE Spec => []BuildsStatements
<1>1. IInv => BuildsStatements
  BY IInvBuilds
<1>2. IInv /\ [Next]_vars => IInv'
  BY NextIInv
<1> QED BY <1>1, <1>2, InitIInv, PTL DEF Spec
=============================================================================
