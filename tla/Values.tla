------------------------------- MODULE Values -------------------------------
(***************************************************************************)
(* SKript's dynamic values (src/src/runtime/value.hpp, value.cpp) and its  *)
(* built-in functions (builtins.cpp).  A value is a tagged record; the     *)
(* payload field has a name of its own for each tag.                       *)
(*                                                                         *)
(* Integers keep their width: IntegerMin..IntegerMax is int64_t scaled     *)
(* down, and arithmetic wraps, which is what the compiled code does with   *)
(* the overflow that C++ leaves undefined.  Floats are exact rationals     *)
(* with a positive denominator: rounding, infinities and NaN are left out. *)
(* A string is a sequence of opaque characters.  A function is the handle  *)
(* of its Function object, a list the position of its List object in a     *)
(* heap: both compare by identity.                                         *)
(***************************************************************************)
EXTENDS Integers, Sequences, FiniteSets

CONSTANTS
  IntegerMax,     \* the largest integer value (INT64_MAX in the code)
  ListCapacity,   \* how many elements a list can have before memory runs out
  Handle,         \* identities of the Function objects
  Character       \* the characters of strings and names

ASSUME ValuesAssumption == IntegerMax \in Nat \ {0} /\ ListCapacity \in Nat

IntegerMin == -IntegerMax - 1
Wrap(n) == ((n - IntegerMin) % (2 * IntegerMax + 2)) + IntegerMin

-----------------------------------------------------------------------------
NoneValue == [tag |-> "None"]
Integer(n) == [tag |-> "Integer", integer |-> n]
Float(n, d) == [tag |-> "Float", numerator |-> n, denominator |-> d]
String(s) == [tag |-> "String", text |-> s]
Boolean(b) == [tag |-> "Boolean", boolean |-> b]
Function(h) == [tag |-> "Function", function |-> h]
List(r) == [tag |-> "List", list |-> r]

IntegerValue == [tag : {"Integer"}, integer : IntegerMin..IntegerMax]
FloatValue == [tag : {"Float"}, numerator : Int, denominator : Nat \ {0}]
StringValue == [tag : {"String"}, text : Seq(Character)]
FunctionValue == [tag : {"Function"}, function : Handle]

\* The values there can be once a number of List objects have been made.
PlainValue(lists) ==
  [tag : {"None"}] \cup [tag : {"Boolean"}, boolean : BOOLEAN]
    \cup IntegerValue \cup FloatValue \cup StringValue
    \cup [tag : {"List"}, list : 1..lists]
Value(lists) == PlainValue(lists) \cup FunctionValue

IsNumber(v) == v.tag \in {"Integer", "Float"}
AreIntegers(l, r) == l.tag = "Integer" /\ r.tag = "Integer"

\* as_number(): the fraction a number stands for.
Numerator(v) == IF v.tag = "Integer" THEN v.integer ELSE v.numerator
Denominator(v) == IF v.tag = "Integer" THEN 1 ELSE v.denominator

NumberEqual(l, r) ==
  Numerator(l) * Denominator(r) = Numerator(r) * Denominator(l)
NumberLess(l, r) ==
  Numerator(l) * Denominator(r) < Numerator(r) * Denominator(l)

\* is_truthy(); a list is truthy when its object in the heap has elements.
Truthy(v, heap) ==
  CASE v.tag = "None" -> FALSE
    [] v.tag = "Boolean" -> v.boolean
    [] v.tag = "String" -> v.text # <<>>
    [] v.tag = "Function" -> TRUE
    [] v.tag = "List" -> heap[v.list] # <<>>
    [] OTHER -> Numerator(v) # 0

-----------------------------------------------------------------------------
(* Arithmetic.  A quotient of two numbers is a float; so is any operation   *)
(* with a float operand.                                                    *)

Sum(l, r) ==
  IF AreIntegers(l, r) THEN Integer(Wrap(l.integer + r.integer))
  ELSE Float(Numerator(l) * Denominator(r) + Numerator(r) * Denominator(l),
             Denominator(l) * Denominator(r))

\* Mutant: the negated integer is kept in a wider type.
NegationUnwrapped(v) ==
  IF v.tag = "Integer" THEN Integer(-v.integer) ELSE Float(-v.numerator, v.denominator)

Negation(v) ==
  IF v.tag = "Integer" THEN Integer(Wrap(-v.integer))
  ELSE Float(-v.numerator, v.denominator)

Difference(l, r) ==
  IF AreIntegers(l, r) THEN Integer(Wrap(l.integer - r.integer))
  ELSE Float(Numerator(l) * Denominator(r) - Numerator(r) * Denominator(l),
             Denominator(l) * Denominator(r))

Product(l, r) ==
  IF AreIntegers(l, r) THEN Integer(Wrap(l.integer * r.integer))
  ELSE Float(Numerator(l) * Numerator(r), Denominator(l) * Denominator(r))

Quotient(l, r) ==
  LET n == Numerator(l) * Denominator(r)
      d == Denominator(l) * Numerator(r)
  IN IF d > 0 THEN Float(n, d) ELSE Float(-n, -d)

\* C++ integer division truncates: the remainder has the sign of the left
\* operand.
Magnitude(n) == IF n < 0 THEN -n ELSE n
Remainder(l, r) ==
  LET m == Magnitude(l.integer) % Magnitude(r.integer)
  IN Integer(IF l.integer < 0 THEN -m ELSE m)

\* INT64_MIN % -1 is undefined; on x86 the division traps (SIGFPE).
RemainderTraps(l, r) == l.integer = IntegerMin /\ r.integer = -1

-----------------------------------------------------------------------------
(* Built-in functions. *)

Builtin == {"len", "type", "range"}

\* find_builtin(): the identifiers that name a built-in.
BuiltinName == [len |-> <<"l", "e", "n">>, type |-> <<"t", "y", "p", "e">>,
                range |-> <<"r", "a", "n", "g", "e">>]

TypeName ==
  [None     |-> <<"N", "o", "n", "e", "T", "y", "p", "e">>,
   Integer  |-> <<"i", "n", "t">>,
   Float    |-> <<"f", "l", "o", "a", "t">>,
   String   |-> <<"s", "t", "r">>,
   Boolean  |-> <<"b", "o", "o", "l">>,
   Function |-> <<"f", "u", "n", "c", "t", "i", "o", "n">>,
   List     |-> <<"l", "i", "s", "t">>]

ASSUME CharacterAssumption == \A tag \in DOMAIN TypeName : TypeName[tag] \in Seq(Character)

\* Which calls of a built-in throw std::runtime_error.
BuiltinRejects(builtin, arguments) ==
  CASE builtin = "len" -> \/ Len(arguments) # 1
                          \/ arguments[1].tag \notin {"String", "List"}
    [] builtin = "type" -> Len(arguments) # 1
    [] builtin = "range" -> \/ Len(arguments) \notin 1..3
                            \/ \E i \in 1..Len(arguments) :
                                 arguments[i].tag # "Integer"
                            \/ Len(arguments) = 3 /\ arguments[3].integer = 0

LengthOf(v, heap) == IF v.tag = "String" THEN Len(v.text) ELSE Len(heap[v.list])

\* The loop of range(): `value` after i rounds of `value += step`, and the
\* first round whose condition fails.  A loop still going at ListCapacity has
\* exhausted memory.
RangeValue(start, step, i) == Wrap(start + i * step)
RangeContinues(stop, step, value) ==
  IF step > 0 THEN value < stop ELSE value > stop
RangeEnds(start, stop, step) ==
  {i \in 0..ListCapacity :
     ~RangeContinues(stop, step, RangeValue(start, step, i))}
RangeStart(arguments) ==
  IF Len(arguments) = 1 THEN 0 ELSE arguments[1].integer
RangeStop(arguments) ==
  IF Len(arguments) = 1 THEN arguments[1].integer ELSE arguments[2].integer
RangeStep(arguments) ==
  IF Len(arguments) = 3 THEN arguments[3].integer ELSE 1

RangeExhausts(arguments) ==
  RangeEnds(RangeStart(arguments), RangeStop(arguments), RangeStep(arguments)) = {}

RangeElements(arguments) ==
  LET start == RangeStart(arguments)
      step == RangeStep(arguments)
      ends == RangeEnds(start, RangeStop(arguments), step)
      length == CHOOSE i \in ends : \A j \in ends : i <= j
  IN [i \in 1..length |-> Integer(RangeValue(start, step, i - 1))]
=============================================================================
