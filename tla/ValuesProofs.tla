---------------------------- MODULE ValuesProofs ----------------------------
(***************************************************************************)
(* What the operators of module Values return, for every width of the      *)
(* integers.                                                               *)
(***************************************************************************)
EXTENDS Values, FiniteSetTheorems, TLAPS

\* Arithmetic on integers stays within their width (the two's complement
\* behaviour of the operators in virtual_machine.cpp:119-143).
LEMMA WrapInRange ==
  ASSUME NEW n \in Int
  PROVE  Wrap(n) \in IntegerMin..IntegerMax
<1>1. 2 * IntegerMax + 2 \in Nat \ {0}
  BY ValuesAssumption
<1>2. n - IntegerMin \in Int
  BY ValuesAssumption DEF IntegerMin
<1>3. \A a \in Int, m \in Nat \ {0} : a % m \in 0..(m - 1)
  OBVIOUS
<1>4. (n - IntegerMin) % (2 * IntegerMax + 2) \in 0..((2 * IntegerMax + 2) - 1)
  BY <1>1, <1>2, <1>3
<1> QED
  BY <1>4, ValuesAssumption DEF Wrap, IntegerMin

\* Wrapping changes nothing of a number that fits.
LEMMA WrapOfInteger ==
  ASSUME NEW n \in IntegerMin..IntegerMax
  PROVE  Wrap(n) = n
<1>1. \A m \in Nat \ {0} : \A a \in 0..(m - 1) : a % m = a
  OBVIOUS
<1>2. n - IntegerMin \in 0..(2 * IntegerMax + 1)
  BY ValuesAssumption DEF IntegerMin
<1> QED
  BY <1>1, <1>2, ValuesAssumption DEF Wrap, IntegerMin

\* Values made before more lists are made remain values.
LEMMA ValueMonotone ==
  ASSUME NEW m \in Nat, NEW n \in Nat, m <= n
  PROVE  Value(m) \subseteq Value(n)
BY DEF Value, PlainValue

\* The constructors.
LEMMA ConstructorTypes ==
  ASSUME NEW lists \in Nat
  PROVE  /\ NoneValue \in Value(lists)
         /\ \A i \in IntegerMin..IntegerMax : Integer(i) \in Value(lists)
         /\ \A a \in Int, d \in Nat \ {0} : Float(a, d) \in Value(lists)
         /\ \A s \in Seq(Character) : String(s) \in Value(lists)
         /\ \A b \in BOOLEAN : Boolean(b) \in Value(lists)
         /\ \A h \in Handle : Function(h) \in Value(lists)
         /\ \A r \in 1..lists : List(r) \in Value(lists)
BY DEF Value, PlainValue, NoneValue, Integer, Float, String, Boolean, Function, List,
       IntegerValue, FloatValue, StringValue, FunctionValue

\* What a number, and what any other value, is made of.
LEMMA NumberParts ==
  ASSUME NEW lists \in Nat, NEW v \in Value(lists), IsNumber(v)
  PROVE  /\ Numerator(v) \in Int
         /\ Denominator(v) \in Nat \ {0}
         /\ v.tag = "Integer" => v.integer \in IntegerMin..IntegerMax
         /\ v.tag = "Float" => v.numerator \in Int /\ v.denominator \in Nat \ {0}
BY ValuesAssumption
   DEF Value, PlainValue, IsNumber, Numerator, Denominator, IntegerValue, FloatValue,
       StringValue, FunctionValue, IntegerMin

\* The product of two denominators is one.
LEMMA PositiveProduct ==
  ASSUME NEW a \in Nat \ {0}, NEW b \in Nat \ {0}
  PROVE  a * b \in Nat \ {0}
OBVIOUS

\* The product of two numbers that are not zero is not zero.
LEMMA NonzeroProduct ==
  ASSUME NEW a \in Nat \ {0}, NEW b \in Int, b # 0
  PROVE  a * b \in Int /\ a * b # 0
OBVIOUS

\* Arithmetic on numbers gives numbers: integers of the right width, fractions
\* with a positive denominator.
LEMMA ArithmeticTypes ==
  ASSUME NEW lists \in Nat,
         NEW l \in Value(lists), IsNumber(l), NEW r \in Value(lists), IsNumber(r)
  PROVE  /\ Sum(l, r) \in Value(lists)
         /\ Difference(l, r) \in Value(lists)
         /\ Product(l, r) \in Value(lists)
         /\ Negation(l) \in Value(lists)
<1>1. CASE AreIntegers(l, r)
  <2>1. l.integer \in Int /\ r.integer \in Int
    BY <1>1, NumberParts, ValuesAssumption DEF AreIntegers, IntegerMin
  <2>2. /\ Wrap(l.integer + r.integer) \in IntegerMin..IntegerMax
        /\ Wrap(l.integer - r.integer) \in IntegerMin..IntegerMax
        /\ Wrap(l.integer * r.integer) \in IntegerMin..IntegerMax
        /\ Wrap(-l.integer) \in IntegerMin..IntegerMax
    BY <2>1, WrapInRange
  <2> QED
    BY <1>1, <2>2, ConstructorTypes
       DEF Sum, Difference, Product, Negation, AreIntegers
<1>2. CASE ~AreIntegers(l, r)
  <2> DEFINE d == Denominator(l) * Denominator(r)
  <2>1. d \in Nat \ {0}
    BY NumberParts, PositiveProduct
  <2>2. /\ Numerator(l) \in Int /\ Denominator(l) \in Int
        /\ Numerator(r) \in Int /\ Denominator(r) \in Int
    BY NumberParts
  <2>3. /\ Numerator(l) * Denominator(r) + Numerator(r) * Denominator(l) \in Int
        /\ Numerator(l) * Denominator(r) - Numerator(r) * Denominator(l) \in Int
        /\ Numerator(l) * Numerator(r) \in Int
    BY <2>2
  <2>4. Negation(l) \in Value(lists)
    <3>1. CASE l.tag = "Integer"
      <4>1. l.integer \in Int
        BY <3>1, NumberParts, ValuesAssumption DEF IntegerMin
      <4>2. Wrap(-l.integer) \in IntegerMin..IntegerMax
        BY <4>1, WrapInRange
      <4> QED
        BY <3>1, <4>2, ConstructorTypes DEF Negation
    <3>2. CASE l.tag # "Integer"
      BY <3>2, NumberParts, ConstructorTypes DEF Negation, IsNumber
    <3> QED
      BY <3>1, <3>2
  <2> QED
    BY <1>2, <2>1, <2>3, <2>4, ConstructorTypes DEF Sum, Difference, Product
<1> QED
  BY <1>1, <1>2

\* A quotient has a positive denominator whatever the signs of its operands.
LEMMA QuotientType ==
  ASSUME NEW lists \in Nat,
         NEW l \in Value(lists), IsNumber(l), NEW r \in Value(lists), IsNumber(r),
         Numerator(r) # 0
  PROVE  Quotient(l, r) \in Value(lists)
<1> DEFINE a == Numerator(l) * Denominator(r)
           d == Denominator(l) * Numerator(r)
<1>1. /\ Numerator(l) \in Int /\ Denominator(l) \in Nat \ {0}
      /\ Numerator(r) \in Int /\ Denominator(r) \in Nat \ {0}
  BY NumberParts
<1>2. d \in Int /\ d # 0
  BY <1>1, NonzeroProduct
<1>3. a \in Int
  BY <1>1
<1>4. Quotient(l, r) = IF d > 0 THEN Float(a, d) ELSE Float(-a, -d)
  BY DEF Quotient
<1> HIDE DEF a, d
<1>5. CASE d > 0
  BY <1>2, <1>3, <1>4, <1>5, ConstructorTypes
<1>6. CASE ~(d > 0)
  <2>1. -d \in Nat \ {0} /\ -a \in Int
    BY <1>2, <1>3, <1>6
  <2> QED
    BY <1>4, <1>6, <2>1, ConstructorTypes
<1> QED
  BY <1>5, <1>6

\* The remainder of two integers that fit fits, with a divisor other than zero.
LEMMA RemainderType ==
  ASSUME NEW lists \in Nat,
         NEW l \in Value(lists), NEW r \in Value(lists), AreIntegers(l, r),
         r.integer # 0
  PROVE  Remainder(l, r) \in Value(lists)
<1> DEFINE m == Magnitude(l.integer) % Magnitude(r.integer)
<1>1. l.integer \in IntegerMin..IntegerMax /\ r.integer \in IntegerMin..IntegerMax
  BY NumberParts DEF AreIntegers, IsNumber
<1>2. Magnitude(l.integer) \in Nat /\ Magnitude(r.integer) \in 1..(IntegerMax + 1)
  BY <1>1, ValuesAssumption DEF Magnitude, IntegerMin
<1>3. \A a \in Int, b \in Nat \ {0} : a % b \in 0..(b - 1)
  OBVIOUS
<1> DEFINE a == Magnitude(l.integer)
           b == Magnitude(r.integer)
<1>4. m \in 0..(Magnitude(r.integer) - 1)
  <2>1. a \in Int /\ b \in Nat \ {0}
    BY <1>2, ValuesAssumption
  <2> HIDE DEF a, b
  <2>2. a % b \in 0..(b - 1)
    BY <1>3, <2>1
  <2> QED
    BY <2>2 DEF a, b
<1>5. m \in 0..IntegerMax
  BY <1>2, <1>4, ValuesAssumption
<1>6. (IF l.integer < 0 THEN -m ELSE m) \in IntegerMin..IntegerMax
  BY <1>5, ValuesAssumption DEF IntegerMin
<1> QED
  BY <1>6, ConstructorTypes DEF Remainder

-----------------------------------------------------------------------------
\* A set of natural numbers with an upper bound has a least element.
LEMMA LeastElement ==
  ASSUME NEW n \in Nat, NEW T \in SUBSET (0..n), T # {}
  PROVE  \E i \in T : \A j \in T : i <= j
<1> DEFINE Initial == {0..i : i \in T}
           R == StrictSubsetOrdering(0..n)
<1>1. IsWellFoundedOn(R, FiniteSubsetsOf(0..n))
  BY FS_StrictSubsetOrderingWellFounded
<1>2. Initial \subseteq FiniteSubsetsOf(0..n)
  <2> SUFFICES ASSUME NEW i \in T PROVE 0..i \in FiniteSubsetsOf(0..n)
    OBVIOUS
  <2>1. IsFiniteSet(0..i)
    BY FS_Interval
  <2> QED BY <2>1 DEF FiniteSubsetsOf
<1>3. Initial # {}
  OBVIOUS
<1>4. PICK S \in Initial : \A U \in Initial : ~(<<U, S>> \in R)
  <2> HIDE DEF Initial, R
  <2> QED BY <1>1, <1>2, <1>3, WFMin
<1>5. PICK i \in T : S = 0..i
  BY <1>4
<1>6. ASSUME NEW j \in T, ~(i <= j) PROVE FALSE
  <2>1. 0..j \subseteq 0..i /\ 0..j # 0..i
    BY <1>6
  <2>2. <<0..j, S>> \in R
    BY <2>1, <1>5 DEF StrictSubsetOrdering
  <2> QED BY <2>2, <1>4
<1> QED BY <1>6

\* range() builds a list of integers (builtins.cpp:33-52).
LEMMA RangeIntegers ==
  ASSUME NEW arguments, Len(arguments) \in 1..3,
         \A i \in 1..Len(arguments) : arguments[i].integer \in IntegerMin..IntegerMax,
         ~RangeExhausts(arguments)
  PROVE  RangeElements(arguments) \in Seq(IntegerValue)
<1> DEFINE start == RangeStart(arguments)
           step == RangeStep(arguments)
           ends == RangeEnds(start, RangeStop(arguments), step)
           length == CHOOSE i \in ends : \A j \in ends : i <= j
<1>1. start \in Int /\ step \in Int
  BY ValuesAssumption DEF RangeStart, RangeStep, IntegerMin
<1>2. ends \in SUBSET (0..ListCapacity) /\ ends # {}
  BY DEF RangeEnds, RangeExhausts
<1>3. length \in 0..ListCapacity
  <2> HIDE DEF ends
  <2>1. \E i \in ends : \A j \in ends : i <= j
    BY <1>2, LeastElement, ValuesAssumption
  <2> QED BY <2>1, <1>2
<1>4. RangeElements(arguments) = [i \in 1..length |-> Integer(RangeValue(start, step, i - 1))]
  BY DEF RangeElements
<1> HIDE DEF length, start, step
<1>5. ASSUME NEW i \in 1..length
      PROVE  Integer(RangeValue(start, step, i - 1)) \in IntegerValue
  <2>1. start + (i - 1) * step \in Int
    BY <1>1, <1>3, <1>5
  <2> QED
    BY <2>1, WrapInRange DEF RangeValue, Integer, IntegerValue
<1> QED
  BY <1>3, <1>4, <1>5, ValuesAssumption

LEMMA RangeType ==
  ASSUME NEW lists \in Nat, NEW arguments \in Seq(Value(lists)),
         ~BuiltinRejects("range", arguments), ~RangeExhausts(arguments)
  PROVE  RangeElements(arguments) \in Seq(Value(lists))
<1>1. Len(arguments) \in 1..3 /\ \A i \in 1..Len(arguments) : arguments[i].tag = "Integer"
  BY DEF BuiltinRejects
<1>2. \A i \in 1..Len(arguments) : arguments[i].integer \in IntegerMin..IntegerMax
  BY <1>1, NumberParts DEF IsNumber
<1>3. RangeElements(arguments) \in Seq(IntegerValue)
  BY <1>1, <1>2, RangeIntegers
<1>4. IntegerValue \subseteq Value(lists)
  BY DEF Value, PlainValue
<1> QED BY <1>3, <1>4

\* len() counts the elements of what it accepts, type() names every value
\* (builtins.cpp:16-32).
LEMMA LengthType ==
  ASSUME NEW heap, heap \in Seq(Seq(Value(Len(heap)))),
         NEW v \in Value(Len(heap)), v.tag \in {"String", "List"}
  PROVE  LengthOf(v, heap) \in Nat
<1>1. CASE v.tag = "String"
  <2>1. v.text \in Seq(Character)
    BY <1>1 DEF Value, PlainValue, IntegerValue, FloatValue, StringValue, FunctionValue
  <2> QED BY <1>1, <2>1 DEF LengthOf
<1>2. CASE v.tag = "List"
  <2>1. v.list \in 1..Len(heap)
    BY <1>2 DEF Value, PlainValue, IntegerValue, FloatValue, StringValue, FunctionValue
  <2>2. heap[v.list] \in Seq(Value(Len(heap)))
    BY <2>1
  <2> QED BY <1>2, <2>2 DEF LengthOf
<1> QED BY <1>1, <1>2

\* type() names every value with characters there are (builtins.cpp:21-32).
LEMMA TypeNameType ==
  ASSUME NEW lists \in Nat, NEW v \in Value(lists)
  PROVE  TypeName[v.tag] \in Seq(Character)
<1>1. v.tag \in {"None", "Integer", "Float", "String", "Boolean", "Function", "List"}
  BY DEF Value, PlainValue, IntegerValue, FloatValue, StringValue, FunctionValue
<1> QED
  BY <1>1, CharacterAssumption DEF TypeName
=============================================================================
