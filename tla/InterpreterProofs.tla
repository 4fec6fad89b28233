-------------------------- MODULE InterpreterProofs --------------------------
(***************************************************************************)
(* What holds of the interpreter whatever the programs: what is referred   *)
(* to exists, scopes are lexical, no call changes a variable of its        *)
(* callers, and every program ends in the global environment.              *)
(*                                                                         *)
(* The inductive invariant Inv adds to these what they rest on: the        *)
(* current environment is younger than those the callers wait in, which    *)
(* are younger one after the other from the globals on (Chain); a step     *)
(* that waits for an operand has one left, and a callee that has been      *)
(* evaluated is a function (Ready); nothing is left to do in a function    *)
(* once something has been thrown.                                         *)
(***************************************************************************)
EXTENDS Interpreter, ValuesProofs, SequenceTheorems

\* An environment binds names to values that exist.
Scopes(s) ==
  [values : UNION {[bound -> Known(s)] : bound \in SUBSET Names},
   enclosing : 0..Len(s.environments)]

Typed(s) ==
  /\ s \in [environments : Seq(Scopes(s)), environment : 1..Len(s.environments),
            functions : Seq(Callable(s)), heap : Seq(Seq(Known(s))), output : Seq(Known(s)),
            result : Known(s), signal : Thrown \cup {"none"}, agenda : Seq(AgendaStep(s)),
            calls : Seq(ActiveCall(s))]
  /\ \A i \in 1..Len(s.environments) : s.environments[i].enclosing < i

\* What a step that waits for a value relies on: there is an operand left, and the
\* value of a callee has been looked at.
Ready(step) ==
  /\ step[1] = "Finish" => step[2].kind # "Function"
  /\ step[1] = "Operand" =>
       /\ step[2].kind \in {"List", "Unary", "Binary", "Call"}
       /\ Len(step[3]) < Len(Operands(step[2]))
       /\ CallsFunction(step[2]) /\ step[3] # <<>> => step[3][1].tag = "Function"
AllReady(agenda) == \A i \in 1..Len(agenda) : Ready(agenda[i])

\* The environments of the active calls were made one after the other, the first
\* of all by the program, in the globals.
Chain(s) ==
  /\ \A i \in 1..Len(s.calls) : s.calls[i].previous < s.environment
  /\ \A i, j \in 1..Len(s.calls) : i < j => s.calls[i].previous < s.calls[j].previous
  /\ (IF s.calls = <<>> THEN s.environment ELSE s.calls[1].previous) = 1

Encloses(s, i) ==
  LET scope == s.environments[ScopeOf(s, i)]
      function == s.functions[s.calls[i].function]
  IN /\ scope.enclosing = function.closure
     /\ Range(function.declaration.parameters) \subseteq DOMAIN scope.values
Lexical(s) == \A i \in 1..Len(s.calls) : Encloses(s, i)

Inv(s) ==
  /\ Typed(s)
  /\ AllReady(s.agenda)
  /\ \A i \in 1..Len(s.calls) : AllReady(s.calls[i].agenda)
  /\ Chain(s)
  /\ Lexical(s)
  /\ s.signal # "none" => s.agenda = <<>>

\* No environment that a caller waits in has changed.
Keeps(s, t) ==
  \A i \in 1..Len(s.calls) :
    t.environments[s.calls[i].previous] = s.environments[s.calls[i].previous]

State(environments, environment, functions, heap, output, result, signal, agenda, calls) ==
  [environments |-> environments, environment |-> environment, functions |-> functions,
   heap |-> heap, output |-> output, result |-> result, signal |-> signal,
   agenda |-> agenda, calls |-> calls]

-----------------------------------------------------------------------------
(* The sets of values, environments and steps grow with the objects. *)

\* As many objects, the same values.
LEMMA SameSets ==
  ASSUME NEW s, NEW t, Len(t.environments) = Len(s.environments),
         Len(t.functions) = Len(s.functions), Len(t.heap) = Len(s.heap)
  PROVE  /\ Known(t) = Known(s) /\ Scopes(t) = Scopes(s) /\ Callable(t) = Callable(s)
         /\ AgendaStep(t) = AgendaStep(s) /\ ActiveCall(t) = ActiveCall(s)
<1>1. Known(t) = Known(s)
  BY DEF Known
<1>2. Scopes(t) = Scopes(s)
  BY <1>1 DEF Scopes
<1>3. Callable(t) = Callable(s)
  BY DEF Callable
<1>4. AgendaStep(t) = AgendaStep(s)
  BY <1>1 DEF AgendaStep
<1>5. ActiveCall(t) = ActiveCall(s)
  BY <1>4 DEF ActiveCall
<1> QED BY <1>1, <1>2, <1>3, <1>4, <1>5

\* With more objects there are more values, environments and steps, and none fewer.
LEMMA LargerSets ==
  ASSUME NEW s, NEW t,
         Len(s.environments) \in Nat, Len(s.functions) \in Nat, Len(s.heap) \in Nat,
         Len(t.environments) \in Nat, Len(t.functions) \in Nat, Len(t.heap) \in Nat,
         Len(s.environments) <= Len(t.environments),
         Len(s.functions) <= Len(t.functions), Len(s.heap) <= Len(t.heap)
  PROVE  /\ Known(s) \subseteq Known(t) /\ Scopes(s) \subseteq Scopes(t)
         /\ Callable(s) \subseteq Callable(t)
         /\ AgendaStep(s) \subseteq AgendaStep(t) /\ ActiveCall(s) \subseteq ActiveCall(t)
<1>1. Known(s) \subseteq Known(t)
  BY DEF Known, PlainValue
<1>2. Scopes(s) \subseteq Scopes(t)
  <2>1. ASSUME NEW bound PROVE [bound -> Known(s)] \subseteq [bound -> Known(t)]
    BY <1>1
  <2>2. UNION {[bound -> Known(s)] : bound \in SUBSET Names}
          \subseteq UNION {[bound -> Known(t)] : bound \in SUBSET Names}
    BY <2>1
  <2> QED BY <2>2 DEF Scopes
<1>3. Callable(s) \subseteq Callable(t)
  BY DEF Callable
<1>4. AgendaStep(s) \subseteq AgendaStep(t)
  <2>1. Seq(Known(s)) \subseteq Seq(Known(t))
    BY <1>1, SeqMonotonic
  <2>2. 1..Len(s.environments) \subseteq 1..Len(t.environments)
    OBVIOUS
  <2>3. ({"Operand"} \X Exprs \X Seq(Known(s)))
          \subseteq ({"Operand"} \X Exprs \X Seq(Known(t)))
    BY <2>1
  <2>4. ({"Get"} \X (1..Len(s.environments)) \X Names)
          \subseteq ({"Get"} \X (1..Len(t.environments)) \X Names)
    BY <2>2
  <2> QED BY <2>3, <2>4 DEF AgendaStep
<1>5. ActiveCall(s) \subseteq ActiveCall(t)
  <2>1. Seq(AgendaStep(s)) \subseteq Seq(AgendaStep(t))
    BY <1>4, SeqMonotonic
  <2> QED BY <2>1 DEF ActiveCall
<1> QED BY <1>1, <1>2, <1>3, <1>4, <1>5

-----------------------------------------------------------------------------
(* The fields of an interpreter. *)

\* The fields of an interpreter, which is the record of them.
LEMMA Fields ==
  ASSUME NEW s, Typed(s)
  PROVE  /\ s.environments \in Seq(Scopes(s)) /\ s.environment \in 1..Len(s.environments)
         /\ s.functions \in Seq(Callable(s)) /\ s.heap \in Seq(Seq(Known(s)))
         /\ s.output \in Seq(Known(s)) /\ s.result \in Known(s)
         /\ s.signal \in Thrown \cup {"none"} /\ s.agenda \in Seq(AgendaStep(s))
         /\ s.calls \in Seq(ActiveCall(s))
         /\ Len(s.environments) \in Nat /\ Len(s.functions) \in Nat /\ Len(s.heap) \in Nat
         /\ Len(s.agenda) \in Nat /\ Len(s.calls) \in Nat
         /\ s = State(s.environments, s.environment, s.functions, s.heap, s.output,
                      s.result, s.signal, s.agenda, s.calls)
<1>1. /\ s.environments \in Seq(Scopes(s)) /\ s.environment \in 1..Len(s.environments)
      /\ s.functions \in Seq(Callable(s)) /\ s.heap \in Seq(Seq(Known(s)))
      /\ s.output \in Seq(Known(s)) /\ s.result \in Known(s)
      /\ s.signal \in Thrown \cup {"none"} /\ s.agenda \in Seq(AgendaStep(s))
      /\ s.calls \in Seq(ActiveCall(s))
  BY DEF Typed
<1>2. s = State(s.environments, s.environment, s.functions, s.heap, s.output,
                s.result, s.signal, s.agenda, s.calls)
  BY DEF Typed, State
<1>3. /\ Len(s.environments) \in Nat /\ Len(s.functions) \in Nat /\ Len(s.heap) \in Nat
      /\ Len(s.agenda) \in Nat /\ Len(s.calls) \in Nat
  BY <1>1, LenProperties
<1> QED BY <1>1, <1>2, <1>3

LEMMA StateFields ==
  ASSUME NEW environments, NEW environment, NEW functions, NEW heap, NEW output,
         NEW result, NEW signal, NEW agenda, NEW calls,
         NEW t, t = State(environments, environment, functions, heap, output, result,
                          signal, agenda, calls)
  PROVE  /\ t.environments = environments /\ t.environment = environment
         /\ t.functions = functions /\ t.heap = heap /\ t.output = output
         /\ t.result = result /\ t.signal = signal /\ t.agenda = agenda /\ t.calls = calls
BY DEF State

\* An interpreter whose fields refer to objects that exist.
LEMMA TypedState ==
  ASSUME NEW t,
         t.environments \in Seq(Scopes(t)), t.environment \in 1..Len(t.environments),
         t.functions \in Seq(Callable(t)), t.heap \in Seq(Seq(Known(t))),
         t.output \in Seq(Known(t)), t.result \in Known(t),
         t.signal \in Thrown \cup {"none"}, t.agenda \in Seq(AgendaStep(t)),
         t.calls \in Seq(ActiveCall(t)),
         \A i \in 1..Len(t.environments) : t.environments[i].enclosing < i,
         t = State(t.environments, t.environment, t.functions, t.heap, t.output,
                   t.result, t.signal, t.agenda, t.calls)
  PROVE  Typed(t)
BY DEF Typed, State

Goes(s, t) == Inv(t) /\ Keeps(s, t)

-----------------------------------------------------------------------------
(* What the operators that change an interpreter keep. *)

\* The environments, the functions and the calls are all that scoping depends on.
LEMMA SameScopes ==
  ASSUME NEW s, NEW t, Inv(s), Typed(t), AllReady(t.agenda),
         t.environments = s.environments, t.environment = s.environment,
         t.functions = s.functions, t.calls = s.calls,
         t.signal # "none" => t.agenda = <<>>
  PROVE  Goes(s, t)
<1>1. \A i : ScopeOf(t, i) = ScopeOf(s, i)
  BY DEF ScopeOf
<1>2. Chain(t)
  BY DEF Inv, Chain
<1>3. Lexical(t)
  BY <1>1 DEF Inv, Lexical, Encloses
<1>4. Keeps(s, t)
  BY DEF Keeps
<1> QED BY <1>2, <1>3, <1>4 DEF Inv, Goes

LEMMA NothingReady ==
  AllReady(<<>>)
BY DEF AllReady

\* What the operators of the model do to the nine fields.
LEMMA ThrowState ==
  ASSUME NEW a, NEW b, NEW c, NEW d, NEW e, NEW f, NEW g, NEW h, NEW i, NEW signal
  PROVE  Throw(State(a, b, c, d, e, f, g, h, i), signal)
           = State(a, b, c, d, e, f, signal, <<>>, i)
<1>1. [State(a, b, c, d, e, f, g, h, i) EXCEPT !.signal = signal]
        = State(a, b, c, d, e, f, signal, h, i)
  BY DEF State
<1>2. [State(a, b, c, d, e, f, signal, h, i) EXCEPT !.agenda = <<>>]
        = State(a, b, c, d, e, f, signal, <<>>, i)
  BY DEF State
<1> QED BY <1>1, <1>2, Zenon DEF Throw

LEMMA YieldListState ==
  ASSUME NEW a, NEW b, NEW c, NEW d, NEW e, NEW f, NEW g, NEW h, NEW i, NEW elements
  PROVE  YieldList(State(a, b, c, d, e, f, g, h, i), elements)
           = State(a, b, c, Append(d, elements), e, List(Len(d) + 1), g, h, i)
<1>0. State(a, b, c, d, e, f, g, h, i).heap = d
  BY DEF State
<1>1. [State(a, b, c, d, e, f, g, h, i) EXCEPT !.heap = Append(d, elements)]
        = State(a, b, c, Append(d, elements), e, f, g, h, i)
  BY DEF State
<1>2. [State(a, b, c, Append(d, elements), e, f, g, h, i) EXCEPT !.result = List(Len(d) + 1)]
           = State(a, b, c, Append(d, elements), e, List(Len(d) + 1), g, h, i)
  BY DEF State
<1> QED BY <1>0, <1>1, <1>2, Zenon DEF YieldList

LEMMA YieldState ==
  ASSUME NEW a, NEW b, NEW c, NEW d, NEW e, NEW f, NEW g, NEW h, NEW i, NEW value
  PROVE  Yield(State(a, b, c, d, e, f, g, h, i), value) = State(a, b, c, d, e, value, g, h, i)
BY DEF Yield, State

LEMMA WriteState ==
  ASSUME NEW a, NEW b, NEW c, NEW d, NEW e, NEW f, NEW g, NEW h, NEW i, NEW value
  PROVE  Write(State(a, b, c, d, e, f, g, h, i), value)
           = State(a, b, c, d, Append(e, value), f, g, h, i)
BY DEF Write, State

LEMMA DoState ==
  ASSUME NEW a, NEW b, NEW c, NEW d, NEW e, NEW f, NEW g, NEW h, NEW i, NEW steps
  PROVE  Do(State(a, b, c, d, e, f, g, h, i), steps)
           = State(a, b, c, d, e, f, g, steps \o h, i)
BY DEF Do, State

\* A sequence of steps that can be taken goes before another.
LEMMA ReadyConcat ==
  ASSUME NEW S, NEW a \in Seq(S), NEW b \in Seq(S), AllReady(a), AllReady(b)
  PROVE  a \o b \in Seq(S) /\ AllReady(a \o b)
<1>1. /\ a \o b \in Seq(S) /\ Len(a \o b) = Len(a) + Len(b)
      /\ \A i \in 1..(Len(a) + Len(b)) :
           (a \o b)[i] = IF i <= Len(a) THEN a[i] ELSE b[i - Len(a)]
  BY ConcatProperties
<1>2. Len(a) \in Nat /\ Len(b) \in Nat
  BY LenProperties
<1>3. ASSUME NEW i \in 1..Len(a \o b) PROVE Ready((a \o b)[i])
  <2>1. CASE i <= Len(a)
    <3>1. i \in 1..Len(a) /\ (a \o b)[i] = a[i]
      BY <1>1, <1>2, <2>1
    <3> QED BY <3>1 DEF AllReady
  <2>2. CASE ~(i <= Len(a))
    <3>1. i - Len(a) \in 1..Len(b) /\ (a \o b)[i] = b[i - Len(a)]
      BY <1>1, <1>2, <2>2
    <3> QED BY <3>1 DEF AllReady
  <2> QED BY <2>1, <2>2
<1> QED BY <1>1, <1>3 DEF AllReady

\* What refers to objects goes on doing so when more of them are made.
LEMMA GrownTypes ==
  ASSUME NEW s, NEW t, Typed(s),
         Len(t.environments) \in Nat, Len(t.functions) \in Nat, Len(t.heap) \in Nat,
         Len(s.environments) <= Len(t.environments),
         Len(s.functions) <= Len(t.functions), Len(s.heap) <= Len(t.heap)
  PROVE  /\ s.environments \in Seq(Scopes(t)) /\ s.environment \in 1..Len(t.environments)
         /\ s.functions \in Seq(Callable(t)) /\ s.heap \in Seq(Seq(Known(t)))
         /\ s.output \in Seq(Known(t)) /\ s.result \in Known(t)
         /\ s.agenda \in Seq(AgendaStep(t)) /\ s.calls \in Seq(ActiveCall(t))
<1>1. /\ s.environments \in Seq(Scopes(s)) /\ s.environment \in 1..Len(s.environments)
      /\ s.functions \in Seq(Callable(s)) /\ s.heap \in Seq(Seq(Known(s)))
      /\ s.output \in Seq(Known(s)) /\ s.result \in Known(s)
      /\ s.agenda \in Seq(AgendaStep(s)) /\ s.calls \in Seq(ActiveCall(s))
      /\ Len(s.environments) \in Nat /\ Len(s.functions) \in Nat /\ Len(s.heap) \in Nat
  BY Fields
<1>2. /\ Known(s) \subseteq Known(t) /\ Scopes(s) \subseteq Scopes(t)
      /\ Callable(s) \subseteq Callable(t)
      /\ AgendaStep(s) \subseteq AgendaStep(t) /\ ActiveCall(s) \subseteq ActiveCall(t)
  BY <1>1, LargerSets
<1>3. Seq(Known(s)) \subseteq Seq(Known(t))
  BY <1>2, SeqMonotonic
<1>4. s.environments \in Seq(Scopes(t)) /\ s.functions \in Seq(Callable(t))
  BY <1>1, <1>2, SeqMonotonic
<1>5. s.heap \in Seq(Seq(Known(t)))
  BY <1>1, <1>3, SeqMonotonic
<1>6. s.output \in Seq(Known(t)) /\ s.agenda \in Seq(AgendaStep(t))
  BY <1>1, <1>2, SeqMonotonic
<1>7. s.calls \in Seq(ActiveCall(t))
  BY <1>1, <1>2, SeqMonotonic
<1>8. s.environment \in 1..Len(t.environments) /\ s.result \in Known(t)
  BY <1>1, <1>2
<1> QED BY <1>4, <1>5, <1>6, <1>7, <1>8

\* A step that changes neither the environments nor the calls keeps the invariant.
LEMMA SameEnvironments ==
  ASSUME NEW s, Inv(s), NEW heap, NEW output, NEW result, NEW signal, NEW agenda,
         NEW t, t = State(s.environments, s.environment, s.functions, heap, output, result,
                          signal, agenda, s.calls),
         Len(heap) \in Nat, Len(s.heap) <= Len(heap), heap \in Seq(Seq(Known(t))),
         output \in Seq(Known(t)), result \in Known(t), signal \in Thrown \cup {"none"},
         agenda \in Seq(AgendaStep(t)), AllReady(agenda), signal # "none" => agenda = <<>>
  PROVE  Goes(s, t)
<1>1. Typed(s)
  BY DEF Inv
<1>2. /\ t.environments = s.environments /\ t.environment = s.environment
      /\ t.functions = s.functions /\ t.heap = heap /\ t.output = output
      /\ t.result = result /\ t.signal = signal /\ t.agenda = agenda /\ t.calls = s.calls
  BY StateFields
<1>3. /\ Len(t.environments) \in Nat /\ Len(t.functions) \in Nat /\ Len(t.heap) \in Nat
      /\ Len(s.environments) <= Len(t.environments)
      /\ Len(s.functions) <= Len(t.functions) /\ Len(s.heap) <= Len(t.heap)
  BY <1>1, <1>2, Fields
<1>4. /\ s.environments \in Seq(Scopes(t)) /\ s.environment \in 1..Len(t.environments)
      /\ s.functions \in Seq(Callable(t)) /\ s.calls \in Seq(ActiveCall(t))
  BY <1>1, <1>3, GrownTypes
<1>5. \A i \in 1..Len(t.environments) : t.environments[i].enclosing < i
  BY <1>1, <1>2 DEF Typed
<1>6. Typed(t)
  BY <1>2, <1>4, <1>5, TypedState
<1>7. t.signal # "none" => t.agenda = <<>>
  BY <1>2
<1> QED BY <1>2, <1>6, <1>7, SameScopes

\* The agenda and the values of a state with as many objects.
LEMMA SameCounts ==
  ASSUME NEW s, Typed(s), NEW output, NEW result, NEW signal, NEW agenda,
         NEW t, t = State(s.environments, s.environment, s.functions, s.heap, output, result,
                          signal, agenda, s.calls)
  PROVE  /\ Known(t) = Known(s) /\ AgendaStep(t) = AgendaStep(s)
         /\ Len(s.heap) \in Nat /\ Len(s.heap) <= Len(s.heap)
         /\ s.heap \in Seq(Seq(Known(t)))
<1>1. /\ t.environments = s.environments /\ t.functions = s.functions /\ t.heap = s.heap
  BY StateFields
<1>2. Known(t) = Known(s) /\ AgendaStep(t) = AgendaStep(s)
  BY <1>1, SameSets
<1> QED BY <1>2, Fields

\* throw, and the value of an expression (interpreter.cpp:94-157).
LEMMA ThrowKeeps ==
  ASSUME NEW s, Inv(s), NEW signal \in Thrown
  PROVE  Goes(s, Throw(s, signal))
<1> DEFINE t == Throw(s, signal)
<1>1. Typed(s)
  BY DEF Inv
<1>2. t = State(s.environments, s.environment, s.functions, s.heap, s.output, s.result,
                signal, <<>>, s.calls)
  BY <1>1, Fields, ThrowState
<1> HIDE DEF t
<1>3. /\ Known(t) = Known(s) /\ AgendaStep(t) = AgendaStep(s)
      /\ Len(s.heap) \in Nat /\ Len(s.heap) <= Len(s.heap)
      /\ s.heap \in Seq(Seq(Known(t)))
  BY <1>1, <1>2, SameCounts
<1>4. /\ s.output \in Seq(Known(t)) /\ s.result \in Known(t)
      /\ signal \in Thrown \cup {"none"} /\ <<>> \in Seq(AgendaStep(t)) /\ AllReady(<<>>)
      /\ (signal # "none" => <<>> = <<>>)
  BY <1>1, <1>3, Fields, EmptySeq, NothingReady
<1>5. Goes(s, t)
  BY <1>2, <1>3, <1>4, SameEnvironments
<1> QED BY <1>5 DEF t

LEMMA YieldKeeps ==
  ASSUME NEW s, Inv(s), NEW value \in Known(s)
  PROVE  Goes(s, Yield(s, value))
<1> DEFINE t == Yield(s, value)
<1>1. Typed(s)
  BY DEF Inv
<1>2. t = State(s.environments, s.environment, s.functions, s.heap, s.output, value,
                s.signal, s.agenda, s.calls)
  BY <1>1, Fields, YieldState
<1> HIDE DEF t
<1>3. /\ Known(t) = Known(s) /\ AgendaStep(t) = AgendaStep(s)
      /\ Len(s.heap) \in Nat /\ Len(s.heap) <= Len(s.heap)
      /\ s.heap \in Seq(Seq(Known(t)))
  BY <1>1, <1>2, SameCounts
<1>4. /\ s.output \in Seq(Known(t)) /\ value \in Known(t)
      /\ s.signal \in Thrown \cup {"none"} /\ s.agenda \in Seq(AgendaStep(t))
      /\ AllReady(s.agenda) /\ (s.signal # "none" => s.agenda = <<>>)
  BY <1>1, <1>3, Fields DEF Inv
<1>5. Goes(s, t)
  BY <1>2, <1>3, <1>4, SameEnvironments
<1> QED BY <1>5 DEF t

\* A print statement (interpreter.cpp:56-57).
LEMMA WriteKeeps ==
  ASSUME NEW s, Inv(s)
  PROVE  Goes(s, Write(s, s.result))
<1> DEFINE t == Write(s, s.result)
<1>1. Typed(s)
  BY DEF Inv
<1>2. t = State(s.environments, s.environment, s.functions, s.heap,
                Append(s.output, s.result), s.result, s.signal, s.agenda, s.calls)
  BY <1>1, Fields, WriteState
<1> HIDE DEF t
<1>3. /\ Known(t) = Known(s) /\ AgendaStep(t) = AgendaStep(s)
      /\ Len(s.heap) \in Nat /\ Len(s.heap) <= Len(s.heap)
      /\ s.heap \in Seq(Seq(Known(t)))
  BY <1>1, <1>2, SameCounts
<1>4. /\ s.output \in Seq(Known(t)) /\ s.result \in Known(t)
      /\ s.signal \in Thrown \cup {"none"} /\ s.agenda \in Seq(AgendaStep(t))
      /\ AllReady(s.agenda) /\ (s.signal # "none" => s.agenda = <<>>)
  BY <1>1, <1>3, Fields DEF Inv
<1>5. Append(s.output, s.result) \in Seq(Known(t))
  BY <1>4, AppendProperties
<1>6. Goes(s, t)
  BY <1>2, <1>3, <1>4, <1>5, SameEnvironments
<1> QED BY <1>6 DEF t

\* The descent into the parts of a statement or an expression.
LEMMA DoKeeps ==
  ASSUME NEW s, Inv(s), s.signal = "none", NEW steps \in Seq(AgendaStep(s)), AllReady(steps)
  PROVE  Goes(s, Do(s, steps))
<1> DEFINE t == Do(s, steps)
<1>1. Typed(s)
  BY DEF Inv
<1>2. t = State(s.environments, s.environment, s.functions, s.heap, s.output, s.result,
                s.signal, steps \o s.agenda, s.calls)
  BY <1>1, Fields, DoState
<1> HIDE DEF t
<1>3. /\ Known(t) = Known(s) /\ AgendaStep(t) = AgendaStep(s)
      /\ Len(s.heap) \in Nat /\ Len(s.heap) <= Len(s.heap)
      /\ s.heap \in Seq(Seq(Known(t)))
  BY <1>1, <1>2, SameCounts
<1>4. s.agenda \in Seq(AgendaStep(s)) /\ AllReady(s.agenda)
  BY <1>1, Fields DEF Inv
<1>5. steps \o s.agenda \in Seq(AgendaStep(t)) /\ AllReady(steps \o s.agenda)
  BY <1>3, <1>4, ReadyConcat
<1>6. /\ s.output \in Seq(Known(t)) /\ s.result \in Known(t)
      /\ s.signal \in Thrown \cup {"none"}
      /\ (s.signal # "none" => steps \o s.agenda = <<>>)
  BY <1>1, <1>3, Fields
<1>7. Goes(s, t)
  BY <1>2, <1>3, <1>5, <1>6, SameEnvironments
<1> QED BY <1>7 DEF t

\* A list is made (interpreter.cpp:113-118).
LEMMA YieldListKeeps ==
  ASSUME NEW s, Inv(s), NEW elements \in Seq(Known(s))
  PROVE  Goes(s, YieldList(s, elements))
<1> DEFINE t == YieldList(s, elements)
           heap == Append(s.heap, elements)
           list == List(Len(s.heap) + 1)
<1>1. Typed(s)
  BY DEF Inv
<1>2. t = State(s.environments, s.environment, s.functions, heap, s.output, list,
                s.signal, s.agenda, s.calls)
  BY <1>1, Fields, YieldListState
<1> HIDE DEF t
<1>3. /\ s.heap \in Seq(Seq(Known(s))) /\ Len(s.heap) \in Nat
      /\ Len(s.environments) \in Nat /\ Len(s.functions) \in Nat
  BY <1>1, Fields
<1>4. heap \in Seq(Seq(Known(s))) /\ Len(heap) = Len(s.heap) + 1
  BY <1>3, AppendProperties
<1> HIDE DEF heap, list
<1>5. t.environments = s.environments /\ t.functions = s.functions /\ t.heap = heap
  BY <1>2, StateFields
<1>6. /\ Len(t.environments) \in Nat /\ Len(t.functions) \in Nat /\ Len(t.heap) \in Nat
      /\ Len(s.environments) <= Len(t.environments)
      /\ Len(s.functions) <= Len(t.functions) /\ Len(s.heap) <= Len(t.heap)
  BY <1>3, <1>4, <1>5
<1>7. Known(s) \subseteq Known(t) /\ AgendaStep(s) \subseteq AgendaStep(t)
  BY <1>3, <1>6, LargerSets
<1>8. Seq(Known(s)) \subseteq Seq(Known(t)) /\ Seq(AgendaStep(s)) \subseteq Seq(AgendaStep(t))
  BY <1>7, SeqMonotonic
<1>9. heap \in Seq(Seq(Known(t)))
  BY <1>4, <1>8, SeqMonotonic
<1>10. list \in Known(t)
  BY <1>3, <1>4, <1>5 DEF Known, PlainValue, List, list
<1>11. /\ s.output \in Seq(Known(t)) /\ s.signal \in Thrown \cup {"none"}
       /\ s.agenda \in Seq(AgendaStep(t))
       /\ AllReady(s.agenda) /\ (s.signal # "none" => s.agenda = <<>>)
  BY <1>1, <1>8, Fields DEF Inv
<1>12. Len(heap) \in Nat /\ Len(s.heap) <= Len(heap)
  BY <1>3, <1>4
<1>13. Goes(s, t)
  BY <1>2, <1>9, <1>10, <1>11, <1>12, SameEnvironments
<1> QED BY <1>13 DEF t

\* Environment::define() on the environments.
Binding(environments, b, name, value) ==
  [environments EXCEPT ![b].values =
     [x \in DOMAIN @ \cup {name} |-> IF x = name THEN value ELSE @[x]]]

LEMMA DefineState ==
  ASSUME NEW a, NEW b, NEW c, NEW d, NEW e, NEW f, NEW g, NEW h, NEW i, NEW name, NEW value,
         b \in DOMAIN a
  PROVE  Define(State(a, b, c, d, e, f, g, h, i), name, value)
           = State(Binding(a, b, name, value), b, c, d, e, f, g, h, i)
BY DEF Define, State, Binding

\* The environment a name is bound in keeps the bindings it has, and so do all others.
LEMMA BindingKeeps ==
  ASSUME NEW s, NEW environments \in Seq(Scopes(s)), NEW b \in 1..Len(environments),
         NEW name \in Names, NEW value \in Known(s)
  PROVE  LET after == Binding(environments, b, name, value)
         IN /\ after \in Seq(Scopes(s)) /\ Len(after) = Len(environments)
            /\ \A i \in 1..Len(environments) :
                 /\ i # b => after[i] = environments[i]
                 /\ after[i].enclosing = environments[i].enclosing
                 /\ DOMAIN environments[i].values \subseteq DOMAIN after[i].values
<1> DEFINE old == environments[b]
           values == [x \in DOMAIN old.values \cup {name} |->
                        IF x = name THEN value ELSE old.values[x]]
           new == [values |-> values, enclosing |-> old.enclosing]
           after == Binding(environments, b, name, value)
<1>1. old \in Scopes(s)
  BY ElementOfSeq
<1>2. PICK bound \in SUBSET Names : old.values \in [bound -> Known(s)]
  BY <1>1 DEF Scopes
<1>3. DOMAIN old.values = bound /\ bound \cup {name} \in SUBSET Names
  BY <1>2
<1>4. values \in [bound \cup {name} -> Known(s)]
  BY <1>2, <1>3
<1>5. DOMAIN values = bound \cup {name}
  BY <1>3
<1>6. [old EXCEPT !.values = values] = new
  <2>1. old = [values |-> old.values, enclosing |-> old.enclosing]
    BY <1>1 DEF Scopes
  <2> HIDE DEF old, values
  <2> QED BY <2>1 DEF new
<1>7. after = [environments EXCEPT ![b] = new]
  BY <1>6 DEF Binding
<1> HIDE DEF values
<1>8. values \in UNION {[d -> Known(s)] : d \in SUBSET Names}
  BY <1>3, <1>4
<1>9. new \in Scopes(s)
  BY <1>1, <1>8 DEF Scopes
<1> HIDE DEF new, after
<1>10. /\ after \in Seq(Scopes(s)) /\ Len(after) = Len(environments)
       /\ \A i \in 1..Len(environments) : after[i] = IF i = b THEN new ELSE environments[i]
  BY <1>7, <1>9, ExceptSeq
<1>11. new.enclosing = old.enclosing /\ DOMAIN old.values \subseteq DOMAIN new.values
  BY <1>3, <1>5 DEF new
<1> HIDE DEF old
<1>12. \A i \in 1..Len(environments) :
         /\ i # b => after[i] = environments[i]
         /\ after[i].enclosing = environments[i].enclosing
         /\ DOMAIN environments[i].values \subseteq DOMAIN after[i].values
  BY <1>10, <1>11 DEF old
<1> QED BY <1>10, <1>12 DEF after

\* Where the functions of active calls run.
LEMMA ScopeExists ==
  ASSUME NEW s, Typed(s), NEW i \in 1..Len(s.calls)
  PROVE  ScopeOf(s, i) \in 1..Len(s.environments)
<1>1. s.environment \in 1..Len(s.environments) /\ s.calls \in Seq(ActiveCall(s))
      /\ Len(s.calls) \in Nat
  BY Fields
<1>2. CASE i = Len(s.calls)
  BY <1>1, <1>2 DEF ScopeOf
<1>3. CASE i # Len(s.calls)
  <2>1. i + 1 \in 1..Len(s.calls)
    BY <1>1, <1>3
  <2>2. s.calls[i + 1] \in ActiveCall(s)
    BY <1>1, <2>1, ElementOfSeq
  <2> QED BY <1>3, <2>2 DEF ScopeOf, ActiveCall
<1> QED BY <1>2, <1>3

\* An assignment binds its name in the current environment, which is younger than
\* those that the callers wait in (environment.cpp:9).
LEMMA DefineKeeps ==
  ASSUME NEW s, Inv(s), NEW name \in Names, NEW value \in Known(s)
  PROVE  Goes(s, Define(s, name, value))
<1> DEFINE t == Define(s, name, value)
           after == Binding(s.environments, s.environment, name, value)
<1>1. Typed(s) /\ Lexical(s) /\ Chain(s) /\ AllReady(s.agenda)
      /\ (\A i \in 1..Len(s.calls) : AllReady(s.calls[i].agenda))
      /\ (s.signal # "none" => s.agenda = <<>>)
  BY DEF Inv
<1>2. /\ s.environments \in Seq(Scopes(s)) /\ s.environment \in 1..Len(s.environments)
      /\ s.functions \in Seq(Callable(s)) /\ s.heap \in Seq(Seq(Known(s)))
      /\ s.output \in Seq(Known(s)) /\ s.result \in Known(s)
      /\ s.signal \in Thrown \cup {"none"} /\ s.agenda \in Seq(AgendaStep(s))
      /\ s.calls \in Seq(ActiveCall(s)) /\ Len(s.environments) \in Nat
  BY <1>1, Fields
<1>3. s.environment \in DOMAIN s.environments
  BY <1>2, LenProperties
<1>4. t = State(after, s.environment, s.functions, s.heap, s.output, s.result,
                s.signal, s.agenda, s.calls)
  BY <1>1, <1>3, Fields, DefineState
<1> HIDE DEF t
<1>5. /\ after \in Seq(Scopes(s)) /\ Len(after) = Len(s.environments)
      /\ \A i \in 1..Len(s.environments) :
           /\ i # s.environment => after[i] = s.environments[i]
           /\ after[i].enclosing = s.environments[i].enclosing
           /\ DOMAIN s.environments[i].values \subseteq DOMAIN after[i].values
  BY <1>2, BindingKeeps
<1> HIDE DEF after
<1>6. /\ t.environments = after /\ t.environment = s.environment
      /\ t.functions = s.functions /\ t.heap = s.heap /\ t.output = s.output
      /\ t.result = s.result /\ t.signal = s.signal /\ t.agenda = s.agenda
      /\ t.calls = s.calls
  BY <1>4, StateFields
<1>7. /\ Known(t) = Known(s) /\ Scopes(t) = Scopes(s) /\ Callable(t) = Callable(s)
      /\ AgendaStep(t) = AgendaStep(s) /\ ActiveCall(t) = ActiveCall(s)
  BY <1>5, <1>6, SameSets
<1>8. \A i \in 1..Len(t.environments) : t.environments[i].enclosing < i
  BY <1>1, <1>5, <1>6 DEF Typed
<1>9. Typed(t)
  <2>1. /\ t.environments \in Seq(Scopes(t)) /\ t.environment \in 1..Len(t.environments)
        /\ t.functions \in Seq(Callable(t)) /\ t.heap \in Seq(Seq(Known(t)))
        /\ t.output \in Seq(Known(t)) /\ t.result \in Known(t)
        /\ t.signal \in Thrown \cup {"none"} /\ t.agenda \in Seq(AgendaStep(t))
        /\ t.calls \in Seq(ActiveCall(t))
    BY <1>2, <1>5, <1>6, <1>7
  <2>2. t = State(t.environments, t.environment, t.functions, t.heap, t.output, t.result,
                  t.signal, t.agenda, t.calls)
    BY <1>4, <1>6
  <2> QED BY <1>8, <2>1, <2>2, TypedState
<1>10. Chain(t)
  BY <1>1, <1>6 DEF Chain
<1>11. Lexical(t)
  <2> SUFFICES ASSUME NEW i \in 1..Len(s.calls) PROVE Encloses(t, i)
    BY <1>6 DEF Lexical
  <2>1. Encloses(s, i) /\ ScopeOf(t, i) = ScopeOf(s, i)
    BY <1>1, <1>6 DEF Lexical, ScopeOf
  <2>2. ScopeOf(s, i) \in 1..Len(s.environments)
    BY <1>1, ScopeExists
  <2> QED BY <1>5, <1>6, <2>1, <2>2 DEF Encloses
<1>12. Keeps(s, t)
  <2> SUFFICES ASSUME NEW i \in 1..Len(s.calls)
               PROVE  t.environments[s.calls[i].previous] = s.environments[s.calls[i].previous]
    BY DEF Keeps
  <2>1. s.calls[i].previous < s.environment
    BY <1>1 DEF Chain
  <2>2. s.calls[i] \in ActiveCall(s)
    BY <1>2, ElementOfSeq
  <2>3. s.calls[i].previous \in 1..Len(s.environments)
    BY <2>2 DEF ActiveCall
  <2>4. s.calls[i].previous # s.environment
    BY <1>2, <2>1, <2>3
  <2>5. after[s.calls[i].previous] = s.environments[s.calls[i].previous]
    BY <1>5, <2>3, <2>4
  <2> QED BY <1>6, <2>5
<1>13. Goes(s, t)
  BY <1>1, <1>6, <1>9, <1>10, <1>11, <1>12 DEF Goes, Inv
<1> QED BY <1>13 DEF t

\* A function definition makes a Function object.
AddFunction(s, callable) == [s EXCEPT !.functions = Append(@, callable)]

LEMMA FunctionState ==
  ASSUME NEW a, NEW b, NEW c, NEW d, NEW e, NEW f, NEW g, NEW h, NEW i, NEW callable
  PROVE  AddFunction(State(a, b, c, d, e, f, g, h, i), callable)
           = State(a, b, Append(c, callable), d, e, f, g, h, i)
BY DEF AddFunction, State

\* A new Function object leaves those of the active calls as they are.
LEMMA FunctionKeeps ==
  ASSUME NEW s, Inv(s), NEW callable \in Callable(s)
  PROVE  LET t == AddFunction(s, callable)
         IN /\ Goes(s, t) /\ t.calls = s.calls /\ Len(t.functions) = Len(s.functions) + 1
            /\ t.environments = s.environments
<1> DEFINE t == AddFunction(s, callable)
           functions == Append(s.functions, callable)
<1>1. Typed(s) /\ Lexical(s) /\ Chain(s) /\ AllReady(s.agenda)
      /\ (\A i \in 1..Len(s.calls) : AllReady(s.calls[i].agenda))
      /\ (s.signal # "none" => s.agenda = <<>>)
  BY DEF Inv
<1>2. s.functions \in Seq(Callable(s)) /\ s.signal \in Thrown \cup {"none"}
      /\ s.calls \in Seq(ActiveCall(s)) /\ Len(s.environments) \in Nat
      /\ Len(s.functions) \in Nat /\ Len(s.heap) \in Nat
  BY <1>1, Fields
<1>3. t = State(s.environments, s.environment, functions, s.heap, s.output, s.result,
                s.signal, s.agenda, s.calls)
  BY <1>1, Fields, FunctionState
<1> HIDE DEF t
<1>4. /\ functions \in Seq(Callable(s)) /\ Len(functions) = Len(s.functions) + 1
      /\ \A i \in 1..Len(s.functions) : functions[i] = s.functions[i]
  BY <1>2, AppendProperties
<1> HIDE DEF functions
<1>5. /\ t.environments = s.environments /\ t.environment = s.environment
      /\ t.functions = functions /\ t.heap = s.heap /\ t.output = s.output
      /\ t.result = s.result /\ t.signal = s.signal /\ t.agenda = s.agenda
      /\ t.calls = s.calls
  BY <1>3, StateFields
<1>6. /\ Len(t.environments) \in Nat /\ Len(t.functions) \in Nat /\ Len(t.heap) \in Nat
      /\ Len(s.environments) <= Len(t.environments)
      /\ Len(s.functions) <= Len(t.functions) /\ Len(s.heap) <= Len(t.heap)
  BY <1>2, <1>4, <1>5
<1>7. /\ s.environments \in Seq(Scopes(t)) /\ s.environment \in 1..Len(t.environments)
      /\ s.heap \in Seq(Seq(Known(t)))
      /\ s.output \in Seq(Known(t)) /\ s.result \in Known(t)
      /\ s.agenda \in Seq(AgendaStep(t)) /\ s.calls \in Seq(ActiveCall(t))
  BY <1>1, <1>6, GrownTypes
<1>8. functions \in Seq(Callable(t))
  BY <1>4, <1>5 DEF Callable
<1>9. \A i \in 1..Len(t.environments) : t.environments[i].enclosing < i
  BY <1>1, <1>5 DEF Typed
<1>10. Typed(t)
  <2>1. t = State(t.environments, t.environment, t.functions, t.heap, t.output, t.result,
                  t.signal, t.agenda, t.calls)
    BY <1>3, <1>5
  <2> QED BY <1>2, <1>5, <1>7, <1>8, <1>9, <2>1, TypedState
<1>11. Chain(t)
  BY <1>1, <1>5 DEF Chain
<1>12. Lexical(t)
  <2> SUFFICES ASSUME NEW i \in 1..Len(s.calls) PROVE Encloses(t, i)
    BY <1>5 DEF Lexical
  <2>1. Encloses(s, i) /\ ScopeOf(t, i) = ScopeOf(s, i)
    BY <1>1, <1>5 DEF Lexical, ScopeOf
  <2>2. s.calls[i] \in ActiveCall(s)
    BY <1>2, ElementOfSeq
  <2>3. s.calls[i].function \in 1..Len(s.functions)
    BY <2>2 DEF ActiveCall
  <2>4. t.functions[t.calls[i].function] = s.functions[s.calls[i].function]
    BY <1>4, <1>5, <2>3
  <2> QED BY <1>5, <2>1, <2>4 DEF Encloses
<1>13. Keeps(s, t)
  BY <1>5 DEF Keeps
<1>14. Goes(s, t)
  BY <1>1, <1>5, <1>10, <1>11, <1>12, <1>13 DEF Goes, Inv
<1> QED BY <1>4, <1>5, <1>14 DEF t

\* A function definition (interpreter.cpp:68-73).
LEMMA DefineFunctionKeeps ==
  ASSUME NEW s, Inv(s), NEW statement \in Stmts, statement.kind = "Function"
  PROVE  Goes(s, DefineFunction(s, statement))
<1> DEFINE callable == [declaration |-> statement, closure |-> s.environment]
           made == AddFunction(s, callable)
           value == Function(Len(s.functions) + 1)
           t == Define(made, statement.name, value)
<1>1. Typed(s)
  BY DEF Inv
<1>2. callable \in Callable(s)
  BY <1>1, Fields DEF Callable
<1>3. statement.name \in Names
  BY TreeAssumption DEF IsStatement
<1> HIDE DEF callable
<1>4. /\ Goes(s, made) /\ made.calls = s.calls /\ Len(made.functions) = Len(s.functions) + 1
      /\ made.environments = s.environments
  BY <1>2, FunctionKeeps
<1>5. value \in Known(made)
  BY <1>1, <1>4, Fields DEF Known, Function
<1>6. DefineFunction(s, statement) = t
  BY DEF DefineFunction, AddFunction, callable
<1> HIDE DEF made, value
<1>7. Goes(made, t)
  BY <1>3, <1>4, <1>5, DefineKeeps DEF Goes
<1>8. Goes(s, t)
  BY <1>4, <1>7 DEF Goes, Keeps
<1> QED BY <1>6, <1>8

-----------------------------------------------------------------------------
(* Calls. *)

\* Every parameter has an argument.
LEMMA LastExists ==
  ASSUME NEW parameters \in Seq(Names), NEW name \in Range(parameters)
  PROVE  LastOf(parameters, name) \in 1..Len(parameters)
<1> DEFINE n == Len(parameters)
           T == {k \in 0..n : (n - k) \in DOMAIN parameters /\ parameters[n - k] = name}
<1>1. n \in Nat /\ DOMAIN parameters = 1..n
  BY LenProperties
<1>2. PICK p \in DOMAIN parameters : parameters[p] = name
  BY DEF Range
<1>3. n - p \in 0..n /\ n - (n - p) = p
  BY <1>1, <1>2
<1>4. T \in SUBSET (0..n) /\ T # {}
  BY <1>2, <1>3
<1>5. PICK k \in T : \A j \in T : k <= j
  <2> HIDE DEF T, n
  <2> QED BY <1>1, <1>4, LeastElement
<1>6. /\ n - k \in DOMAIN parameters /\ parameters[n - k] = name
      /\ \A j \in DOMAIN parameters : parameters[j] = name => j <= n - k
  <2>1. n - k \in DOMAIN parameters /\ parameters[n - k] = name /\ k \in 0..n
    BY <1>5
  <2>2. ASSUME NEW j \in DOMAIN parameters, parameters[j] = name PROVE j <= n - k
    <3>1. n - j \in 0..n /\ n - (n - j) = j
      BY <1>1
    <3>2. n - j \in T
      BY <2>2, <3>1
    <3>3. k <= n - j
      BY <1>5, <3>2
    <3> QED BY <1>1, <2>1, <3>3
  <2> QED BY <2>1, <2>2
<1>7. LastOf(parameters, name) \in DOMAIN parameters
  <2> HIDE DEF n
  <2> QED BY <1>6 DEF LastOf
<1> QED BY <1>1, <1>7

\* The parameters are bound to the arguments (interpreter.cpp:182-185).
LEMMA BoundValues ==
  ASSUME NEW s, NEW parameters \in Seq(Names), NEW arguments \in Seq(Known(s)),
         Len(arguments) = Len(parameters)
  PROVE  Bound(parameters, arguments) \in [Range(parameters) -> Known(s)]
<1>1. ASSUME NEW name \in Range(parameters)
      PROVE  arguments[LastOf(parameters, name)] \in Known(s)
  <2>1. LastOf(parameters, name) \in 1..Len(arguments)
    BY LastExists
  <2> QED BY <2>1, ElementOfSeq
<1> QED BY <1>1 DEF Bound

\* A block can be executed (interpreter.cpp:82-92).
LEMMA ExecutionReady ==
  ASSUME NEW s, NEW statements \in Seq(Stmts)
  PROVE  Execution(statements) \in Seq(AgendaStep(s)) /\ AllReady(Execution(statements))
<1>1. /\ Len(statements) \in Nat /\ DOMAIN statements = 1..Len(statements)
      /\ \A i \in 1..Len(statements) : statements[i] \in Stmts
  BY LenProperties, ElementOfSeq
<1>2. Execution(statements) = [i \in 1..Len(statements) |-> <<"Execute", statements[i]>>]
  BY <1>1 DEF Execution
<1>3. ASSUME NEW i \in 1..Len(statements)
      PROVE  /\ <<"Execute", statements[i]>> \in AgendaStep(s)
             /\ Ready(<<"Execute", statements[i]>>)
  BY <1>1 DEF AgendaStep, Ready
<1>4. Execution(statements) \in Seq(AgendaStep(s))
  BY <1>1, <1>2, <1>3
<1>5. Len(Execution(statements)) = Len(statements)
  BY <1>1, <1>2
<1> QED BY <1>2, <1>3, <1>4, <1>5 DEF AllReady

LEMMA CallState ==
  ASSUME NEW a, NEW b, NEW c, NEW d, NEW e, NEW f, NEW g, NEW h, NEW i,
         NEW called, NEW arguments,
         Len(arguments) = Len(c[called].declaration.parameters), Len(i) # CallLimit
  PROVE  CallFunction(State(a, b, c, d, e, f, g, h, i), called, arguments)
           = State(Append(a, [values |-> Bound(c[called].declaration.parameters, arguments),
                              enclosing |-> c[called].closure]),
                   Len(a) + 1, c, d, e, f, g, Execution(c[called].declaration.body),
                   Append(i, [function |-> called, previous |-> b, agenda |-> h]))
BY DEF CallFunction, State, Local

LEMMA UpToNext ==
  ASSUME NEW n \in Nat
  PROVE  \A i \in 1..(n + 1) : i \in 1..n \/ i = n + 1
OBVIOUS

\* The environment of a call binds the parameters, in that of the definition.
LEMMA LocalScope ==
  ASSUME NEW s, Typed(s), NEW function \in Callable(s), NEW arguments \in Seq(Known(s)),
         Len(arguments) = Len(function.declaration.parameters)
  PROVE  /\ Local(s, function, arguments) \in Scopes(s)
         /\ Local(s, function, arguments).enclosing = function.closure
         /\ DOMAIN Local(s, function, arguments).values
              = Range(function.declaration.parameters)
         /\ function.closure \in 1..Len(s.environments)
         /\ function.declaration.body \in Seq(Stmts)
<1> DEFINE parameters == function.declaration.parameters
<1>1. /\ function.declaration \in Stmts /\ function.declaration.kind = "Function"
      /\ function.closure \in 1..Len(s.environments)
  BY DEF Callable
<1>2. parameters \in Seq(Names) /\ function.declaration.body \in Seq(Stmts)
  BY <1>1, TreeAssumption DEF IsStatement
<1>3. Range(parameters) \in SUBSET Names
  BY <1>2, RangeOfSeq
<1>4. Bound(parameters, arguments) \in [Range(parameters) -> Known(s)]
  <2> HIDE DEF parameters
  <2> QED BY <1>2, BoundValues DEF parameters
<1>5. DOMAIN Bound(parameters, arguments) = Range(parameters)
  BY <1>4
<1>6. Len(s.environments) \in Nat
  BY Fields
<1>7. Bound(parameters, arguments) \in UNION {[bound -> Known(s)] : bound \in SUBSET Names}
  BY <1>3, <1>4
<1>8. Local(s, function, arguments)
        = [values |-> Bound(parameters, arguments), enclosing |-> function.closure]
  BY DEF Local
<1> HIDE DEF parameters
<1>9. Local(s, function, arguments) \in Scopes(s)
  BY <1>1, <1>6, <1>7, <1>8 DEF Scopes
<1> QED BY <1>1, <1>2, <1>5, <1>8, <1>9 DEF parameters

\* A function is entered: the new environment is the youngest, and the caller
\* waits in the one that was current (interpreter.cpp:180-187).
LEMMA EnterKeeps ==
  ASSUME NEW s, Inv(s), s.signal = "none", NEW called \in 1..Len(s.functions),
         NEW arguments \in Seq(Known(s)),
         Len(arguments) = Len(s.functions[called].declaration.parameters),
         Len(s.calls) # CallLimit
  PROVE  Goes(s, CallFunction(s, called, arguments))
<1> DEFINE t == CallFunction(s, called, arguments)
           function == s.functions[called]
           local == Local(s, function, arguments)
           environments == Append(s.environments, local)
           body == Execution(function.declaration.body)
           call == [function |-> called, previous |-> s.environment, agenda |-> s.agenda]
           calls == Append(s.calls, call)
           n == Len(s.calls)
           m == Len(s.environments)
<1>1. Typed(s) /\ Lexical(s) /\ Chain(s) /\ AllReady(s.agenda)
      /\ (\A i \in 1..n : AllReady(s.calls[i].agenda))
  BY DEF Inv
<1>2. /\ s.environments \in Seq(Scopes(s)) /\ s.environment \in 1..m
      /\ s.functions \in Seq(Callable(s)) /\ s.calls \in Seq(ActiveCall(s))
      /\ s.agenda \in Seq(AgendaStep(s))
      /\ m \in Nat /\ n \in Nat /\ Len(s.functions) \in Nat /\ Len(s.heap) \in Nat
  BY <1>1, Fields
<1>3. t = State(environments, m + 1, s.functions, s.heap, s.output, s.result, s.signal,
                body, calls)
  <2>1. s = State(s.environments, s.environment, s.functions, s.heap, s.output, s.result,
                  s.signal, s.agenda, s.calls)
    BY <1>1, Fields
  <2>2. CallFunction(State(s.environments, s.environment, s.functions, s.heap, s.output,
                           s.result, s.signal, s.agenda, s.calls), called, arguments)
          = State(Append(s.environments,
                         [values |-> Bound(s.functions[called].declaration.parameters,
                                           arguments),
                          enclosing |-> s.functions[called].closure]),
                  Len(s.environments) + 1, s.functions, s.heap, s.output, s.result, s.signal,
                  Execution(s.functions[called].declaration.body),
                  Append(s.calls, [function |-> called, previous |-> s.environment,
                                   agenda |-> s.agenda]))
    BY CallState
  <2> QED BY <2>1, <2>2 DEF Local
<1>4. function \in Callable(s)
  BY <1>2, ElementOfSeq
<1>5. /\ local \in Scopes(s) /\ local.enclosing = function.closure
      /\ DOMAIN local.values = Range(function.declaration.parameters)
      /\ function.closure \in 1..m /\ function.declaration.body \in Seq(Stmts)
  BY <1>1, <1>4, LocalScope
<1>6. call \in ActiveCall(s)
  BY <1>2 DEF ActiveCall
<1>7. call.function = called /\ call.previous = s.environment /\ call.agenda = s.agenda
  OBVIOUS
<1> HIDE DEF t, local, call
<1>8. /\ environments \in Seq(Scopes(s)) /\ Len(environments) = m + 1
      /\ (\A i \in 1..m : environments[i] = s.environments[i]) /\ environments[m + 1] = local
  BY <1>2, <1>5, AppendProperties
<1>9. /\ calls \in Seq(ActiveCall(s)) /\ Len(calls) = n + 1 /\ calls # <<>>
      /\ (\A i \in 1..n : calls[i] = s.calls[i]) /\ calls[n + 1] = call
  BY <1>2, <1>6, AppendProperties
<1> HIDE DEF environments, body, calls
<1>10. /\ t.environments = environments /\ t.environment = m + 1
       /\ t.functions = s.functions /\ t.heap = s.heap /\ t.output = s.output
       /\ t.result = s.result /\ t.signal = s.signal /\ t.agenda = body
       /\ t.calls = calls
  BY <1>3, StateFields
<1>11. /\ Len(t.environments) \in Nat /\ Len(t.functions) \in Nat /\ Len(t.heap) \in Nat
       /\ Len(s.environments) <= Len(t.environments)
       /\ Len(s.functions) <= Len(t.functions) /\ Len(s.heap) <= Len(t.heap)
  BY <1>2, <1>8, <1>10
<1>12. /\ s.functions \in Seq(Callable(t)) /\ s.heap \in Seq(Seq(Known(t)))
       /\ s.output \in Seq(Known(t)) /\ s.result \in Known(t)
  BY <1>1, <1>11, GrownTypes
<1>13. /\ Scopes(s) \subseteq Scopes(t) /\ ActiveCall(s) \subseteq ActiveCall(t)
  BY <1>2, <1>11, LargerSets
<1>14. environments \in Seq(Scopes(t)) /\ calls \in Seq(ActiveCall(t))
  BY <1>8, <1>9, <1>13, SeqMonotonic
<1>15. body \in Seq(AgendaStep(t)) /\ AllReady(body)
  BY <1>5, ExecutionReady DEF body
<1>16. \A i \in 1..Len(t.environments) : t.environments[i].enclosing < i
  <2> SUFFICES ASSUME NEW i \in 1..(m + 1) PROVE environments[i].enclosing < i
    BY <1>8, <1>10
  <2>1. CASE i \in 1..m
    <3>1. s.environments[i].enclosing < i
      BY <1>1, <2>1 DEF Typed
    <3> QED BY <1>8, <2>1, <3>1
  <2>2. CASE i = m + 1
    <3>1. environments[i].enclosing = function.closure
      BY <1>5, <1>8, <2>2
    <3>2. function.closure < m + 1
      BY <1>2, <1>5
    <3> QED BY <2>2, <3>1, <3>2
  <2> QED BY <1>2, <2>1, <2>2, UpToNext
<1>17. Typed(t)
  <2>1. t = State(t.environments, t.environment, t.functions, t.heap, t.output, t.result,
                  t.signal, t.agenda, t.calls)
    BY <1>3, <1>10
  <2>2. t.environment \in 1..Len(t.environments) /\ t.signal \in Thrown \cup {"none"}
    BY <1>2, <1>8, <1>10
  <2> QED BY <1>10, <1>12, <1>14, <1>15, <1>16, <2>1, <2>2, TypedState
<1>18. \A i \in 1..n : s.calls[i].previous \in 1..m /\ s.calls[i].previous < s.environment
                         /\ s.calls[i].function \in 1..Len(s.functions)
  <2> SUFFICES ASSUME NEW i \in 1..n
               PROVE  s.calls[i].previous \in 1..m /\ s.calls[i].previous < s.environment
                        /\ s.calls[i].function \in 1..Len(s.functions)
    OBVIOUS
  <2>1. s.calls[i] \in ActiveCall(s)
    BY <1>2, ElementOfSeq
  <2> QED BY <1>1, <2>1 DEF ActiveCall, Chain
<1>19. Chain(t)
  <2>1. ASSUME NEW i \in 1..(n + 1) PROVE calls[i].previous < m + 1
    <3>1. CASE i \in 1..n
      <4>1. calls[i] = s.calls[i] /\ s.calls[i].previous \in 1..m
        BY <1>9, <1>18, <3>1
      <4>2. \A k \in 1..m : k < m + 1
        BY <1>2
      <4> QED BY <4>1, <4>2
    <3>2. CASE i = n + 1
      <4>1. calls[i].previous = s.environment
        BY <1>7, <1>9, <3>2
      <4> QED BY <1>2, <4>1
    <3> QED BY <1>2, <3>1, <3>2, UpToNext
  <2>2. ASSUME NEW i \in 1..(n + 1), NEW j \in 1..(n + 1), i < j
        PROVE  calls[i].previous < calls[j].previous
    <3>1. i \in 1..n
      BY <1>2, <2>2
    <3>2. CASE j \in 1..n
      <4>1. s.calls[i].previous < s.calls[j].previous
        BY <1>1, <2>2, <3>1, <3>2 DEF Chain
      <4> QED BY <1>9, <3>1, <3>2, <4>1
    <3>3. CASE j = n + 1
      BY <1>7, <1>9, <1>18, <3>1, <3>3
    <3> QED BY <1>2, <3>2, <3>3, UpToNext
  <2>3. calls[1].previous = 1
    <3>1. CASE s.calls = <<>>
      <4>1. n = 0 /\ s.environment = 1
        BY <1>1, <3>1 DEF Chain
      <4>2. calls[1] = call
        BY <1>9, <4>1
      <4> QED BY <1>7, <4>1, <4>2
    <3>2. CASE s.calls # <<>>
      <4>1. 1 \in 1..n
        BY <1>2, <3>2, EmptySeq
      <4>2. s.calls[1].previous = 1
        BY <1>1, <3>2 DEF Chain
      <4> QED BY <1>9, <4>1, <4>2
    <3> QED BY <3>1, <3>2
  <2> QED BY <1>9, <1>10, <2>1, <2>2, <2>3 DEF Chain
<1>20. Lexical(t)
  <2> SUFFICES ASSUME NEW i \in 1..(n + 1) PROVE Encloses(t, i)
    BY <1>9, <1>10 DEF Lexical
  <2>1. CASE i \in 1..n
    <3>1. Encloses(s, i) /\ ScopeOf(s, i) \in 1..m
      BY <1>1, <2>1, ScopeExists DEF Lexical
    <3>2. ScopeOf(t, i) = calls[i + 1].previous
      BY <1>2, <1>9, <1>10, <2>1 DEF ScopeOf
    <3>3. calls[i + 1].previous = ScopeOf(s, i)
      <4>1. CASE i = n
        BY <1>7, <1>9, <4>1 DEF ScopeOf
      <4>2. CASE i # n
        <5>1. i + 1 \in 1..n
          BY <1>2, <2>1, <4>2
        <5> QED BY <1>9, <4>2, <5>1 DEF ScopeOf
      <4> QED BY <4>1, <4>2
    <3>4. t.environments[ScopeOf(t, i)] = s.environments[ScopeOf(s, i)]
      BY <1>8, <1>10, <3>1, <3>2, <3>3
    <3>5. t.functions[t.calls[i].function] = s.functions[s.calls[i].function]
      BY <1>9, <1>10, <2>1
    <3> QED BY <3>1, <3>4, <3>5 DEF Encloses
  <2>2. CASE i = n + 1
    <3>1. ScopeOf(t, i) = m + 1
      BY <1>9, <1>10, <2>2 DEF ScopeOf
    <3>2. t.environments[ScopeOf(t, i)] = local /\ t.functions[t.calls[i].function] = function
      BY <1>7, <1>8, <1>9, <1>10, <2>2, <3>1
    <3> QED BY <1>5, <3>2 DEF Encloses
  <2> QED BY <1>2, <2>1, <2>2, UpToNext
<1>21. Keeps(s, t)
  BY <1>8, <1>10, <1>18 DEF Keeps
<1>22. \A i \in 1..Len(t.calls) : AllReady(t.calls[i].agenda)
  <2> SUFFICES ASSUME NEW i \in 1..(n + 1) PROVE AllReady(calls[i].agenda)
    BY <1>9, <1>10
  <2>1. CASE i \in 1..n
    BY <1>1, <1>9, <2>1
  <2>2. CASE i = n + 1
    BY <1>1, <1>7, <1>9, <2>2
  <2> QED BY <1>2, <2>1, <2>2, UpToNext
<1>23. Goes(s, t)
  BY <1>10, <1>15, <1>17, <1>19, <1>20, <1>21, <1>22 DEF Goes, Inv
<1> QED BY <1>23 DEF t

\* call_function(), with the calls that fail (interpreter.cpp:180-192).
LEMMA CallKeeps ==
  ASSUME NEW s, Inv(s), s.signal = "none", NEW called \in 1..Len(s.functions),
         NEW arguments \in Seq(Known(s))
  PROVE  Goes(s, CallFunction(s, called, arguments))
<1>1. CASE Len(arguments) # Len(s.functions[called].declaration.parameters)
  <2>1. CallFunction(s, called, arguments)
          = Throw(s, "incorrect number of function arguments")
    BY <1>1 DEF CallFunction
  <2>2. "incorrect number of function arguments" \in Thrown
    BY DEF Thrown
  <2> QED BY <2>1, <2>2, ThrowKeeps
<1>2. CASE Len(arguments) = Len(s.functions[called].declaration.parameters)
           /\ Len(s.calls) = CallLimit
  <2>1. CallFunction(s, called, arguments) = Throw(s, "killed")
    BY <1>2 DEF CallFunction
  <2>2. "killed" \in Thrown
    BY DEF Thrown
  <2> QED BY <2>1, <2>2, ThrowKeeps
<1>3. CASE Len(arguments) = Len(s.functions[called].declaration.parameters)
           /\ Len(s.calls) # CallLimit
  BY <1>3, EnterKeeps
<1> QED BY <1>1, <1>2, <1>3

LEMMA LeaveState ==
  ASSUME NEW a, NEW b, NEW c, NEW d, NEW e, NEW f, NEW g, NEW h, NEW i
  PROVE  /\ g = "return" =>
              LeaveCall(State(a, b, c, d, e, f, g, h, i))
                = State(a, i[Len(i)].previous, c, d, e, f, "none", i[Len(i)].agenda,
                        Outer(i))
         /\ g = "none" =>
              LeaveCall(State(a, b, c, d, e, f, g, h, i))
                = State(a, i[Len(i)].previous, c, d, e, NoneValue, g, i[Len(i)].agenda,
                        Outer(i))
         /\ g \notin {"return", "none"} =>
              LeaveCall(State(a, b, c, d, e, f, g, h, i))
                = State(a, i[Len(i)].previous, c, d, e, f, g, h, Outer(i))
<1> DEFINE s == State(a, b, c, d, e, f, g, h, i)
           previous == i[Len(i)].previous
           agenda == i[Len(i)].agenda
           calls == Outer(i)
<1>1. s.signal = g /\ Innermost(s).previous = previous /\ Innermost(s).agenda = agenda
      /\ Outer(s.calls) = calls
  BY DEF State, Innermost
<1> HIDE DEF previous, agenda, calls
<1>2. [s EXCEPT !.environment = previous] = State(a, previous, c, d, e, f, g, h, i)
  BY DEF State
<1>3. [State(a, previous, c, d, e, f, g, h, i) EXCEPT !.calls = calls]
        = State(a, previous, c, d, e, f, g, h, calls)
  BY DEF State
<1>4. Restore(s) = State(a, previous, c, d, e, f, g, h, calls)
  <2> HIDE DEF s
  <2>1. Restore(s) = [[s EXCEPT !.environment = previous] EXCEPT !.calls = Outer(s.calls)]
    BY <1>1 DEF Restore
  <2> QED BY <1>1, <1>2, <1>3, <2>1
<1>5. [State(a, previous, c, d, e, f, g, h, calls) EXCEPT !.signal = "none"]
        = State(a, previous, c, d, e, f, "none", h, calls)
  BY DEF State
<1>6. [State(a, previous, c, d, e, f, "none", h, calls) EXCEPT !.agenda = agenda]
        = State(a, previous, c, d, e, f, "none", agenda, calls)
  BY DEF State
<1>7. [State(a, previous, c, d, e, f, g, h, calls) EXCEPT !.result = NoneValue]
        = State(a, previous, c, d, e, NoneValue, g, h, calls)
  BY DEF State
<1>8. [State(a, previous, c, d, e, NoneValue, g, h, calls) EXCEPT !.agenda = agenda]
        = State(a, previous, c, d, e, NoneValue, g, agenda, calls)
  BY DEF State
<1> HIDE DEF s
<1>9. CASE g = "return"
  <2>1. LeaveCall(s)
          = [[Restore(s) EXCEPT !.signal = "none"] EXCEPT !.agenda = Innermost(s).agenda]
    BY <1>1, <1>9 DEF LeaveCall
  <2> QED BY <1>1, <1>4, <1>5, <1>6, <1>9, <2>1 DEF s, previous, agenda, calls
<1>10. CASE g = "none"
  <2>1. LeaveCall(s)
          = [[Restore(s) EXCEPT !.result = NoneValue] EXCEPT !.agenda = Innermost(s).agenda]
    BY <1>1, <1>10 DEF LeaveCall
  <2> QED BY <1>1, <1>4, <1>7, <1>8, <1>10, <2>1 DEF s, previous, agenda, calls
<1>11. CASE g \notin {"return", "none"}
  <2>1. LeaveCall(s) = Restore(s)
    BY <1>1, <1>11 DEF LeaveCall
  <2> QED BY <1>4, <1>11, <2>1 DEF s, previous, calls
<1> QED BY <1>9, <1>10, <1>11

\* The environment a call began in is the current one again when it is over.
LEMMA LeftKeeps ==
  ASSUME NEW s, Inv(s), s.calls # <<>>, NEW result \in Known(s),
         NEW signal \in Thrown \cup {"none"}, NEW agenda \in Seq(AgendaStep(s)),
         AllReady(agenda), signal # "none" => agenda = <<>>,
         NEW t, t = State(s.environments, Innermost(s).previous, s.functions, s.heap,
                          s.output, result, signal, agenda, Outer(s.calls))
  PROVE  Goes(s, t)
<1> DEFINE n == Len(s.calls)
           calls == Outer(s.calls)
<1>1. Typed(s) /\ Lexical(s) /\ Chain(s)
      /\ (\A i \in 1..n : AllReady(s.calls[i].agenda))
  BY DEF Inv
<1>2. /\ s.environments \in Seq(Scopes(s)) /\ s.environment \in 1..Len(s.environments)
      /\ s.functions \in Seq(Callable(s)) /\ s.heap \in Seq(Seq(Known(s)))
      /\ s.output \in Seq(Known(s)) /\ s.calls \in Seq(ActiveCall(s)) /\ n \in Nat
  BY <1>1, Fields
<1>3. n \in Nat \ {0} /\ n \in 1..n
  BY <1>2, EmptySeq
<1>4. /\ calls \in Seq(ActiveCall(s)) /\ Len(calls) = n - 1
      /\ \A i \in 1..(n - 1) : calls[i] = s.calls[i]
  <2>1. \A i \in 1..(n - 1) : s.calls[i] \in ActiveCall(s)
    BY <1>2, ElementOfSeq
  <2>2. 1 \in Int /\ n - 1 \in Int
    BY <1>2
  <2> HIDE DEF n
  <2>3. /\ SubSeq(s.calls, 1, n - 1) \in Seq(ActiveCall(s))
        /\ Len(SubSeq(s.calls, 1, n - 1)) = IF 1 <= n - 1 THEN (n - 1) - 1 + 1 ELSE 0
        /\ \A i \in 1..((n - 1) - 1 + 1) : SubSeq(s.calls, 1, n - 1)[i] = s.calls[1 + i - 1]
    BY <2>1, <2>2, SubSeqProperties
  <2>4. calls = SubSeq(s.calls, 1, n - 1)
    BY DEF Outer, n
  <2> QED BY <1>3, <2>3, <2>4
<1>5. Innermost(s) = s.calls[n] /\ s.calls[n] \in ActiveCall(s)
  BY <1>2, <1>3, ElementOfSeq DEF Innermost
<1>6. s.calls[n].previous \in 1..Len(s.environments)
  BY <1>5 DEF ActiveCall
<1> HIDE DEF calls
<1>7. /\ t.environments = s.environments /\ t.environment = s.calls[n].previous
      /\ t.functions = s.functions /\ t.heap = s.heap /\ t.output = s.output
      /\ t.result = result /\ t.signal = signal /\ t.agenda = agenda /\ t.calls = calls
  BY <1>5, StateFields DEF calls
<1>8. /\ Known(t) = Known(s) /\ Scopes(t) = Scopes(s) /\ Callable(t) = Callable(s)
      /\ AgendaStep(t) = AgendaStep(s) /\ ActiveCall(t) = ActiveCall(s)
  BY <1>7, SameSets
<1>9. Typed(t)
  <2>1. \A i \in 1..Len(t.environments) : t.environments[i].enclosing < i
    BY <1>1, <1>7 DEF Typed
  <2>2. t = State(t.environments, t.environment, t.functions, t.heap, t.output, t.result,
                  t.signal, t.agenda, t.calls)
    BY <1>5, <1>7 DEF calls
  <2> QED BY <1>2, <1>4, <1>6, <1>7, <1>8, <2>1, <2>2, TypedState
<1>10. \A i \in 1..(n - 1) : i \in 1..n /\ i < n
  BY <1>2
<1>11. Chain(t)
  <2>1. \A i \in 1..(n - 1) : calls[i].previous < s.calls[n].previous
    BY <1>1, <1>3, <1>4, <1>10 DEF Chain
  <2>2. \A i, j \in 1..(n - 1) : i < j => calls[i].previous < calls[j].previous
    BY <1>1, <1>4, <1>10 DEF Chain
  <2>3. CASE calls = <<>>
    <3>1. n = 1
      BY <1>3, <1>4, <2>3
    <3>2. s.calls[n].previous = 1
      BY <1>1, <3>1 DEF Chain
    <3> QED BY <1>4, <1>7, <2>1, <2>2, <2>3, <3>2 DEF Chain
  <2>4. CASE calls # <<>>
    <3>1. n - 1 \in Nat \ {0}
      BY <1>4, <2>4, EmptySeq
    <3>2. 1 \in 1..(n - 1)
      <4> HIDE DEF n
      <4> QED BY <1>2, <3>1
    <3>3. calls[1].previous = 1
      BY <1>1, <1>4, <3>2 DEF Chain
    <3> QED BY <1>4, <1>7, <2>1, <2>2, <2>4, <3>3 DEF Chain
  <2> QED BY <2>3, <2>4
<1>12. Lexical(t)
  <2> SUFFICES ASSUME NEW i \in 1..(n - 1) PROVE Encloses(t, i)
    BY <1>4, <1>7 DEF Lexical
  <2>1. Encloses(s, i)
    BY <1>1, <1>10 DEF Lexical
  <2>2. ScopeOf(t, i) = ScopeOf(s, i)
    <3>1. ScopeOf(s, i) = s.calls[i + 1].previous
      BY <1>10 DEF ScopeOf
    <3>2. CASE i = n - 1
      <4>1. i + 1 = n
        BY <1>2, <3>2
      <4> QED BY <1>4, <1>7, <3>1, <3>2, <4>1 DEF ScopeOf
    <3>3. CASE i # n - 1
      <4>1. i + 1 \in 1..(n - 1)
        BY <1>2, <3>3
      <4> QED BY <1>4, <1>7, <3>1, <3>3, <4>1 DEF ScopeOf
    <3> QED BY <3>2, <3>3
  <2> QED BY <1>4, <1>7, <2>1, <2>2 DEF Encloses
<1>13. \A i \in 1..Len(t.calls) : AllReady(t.calls[i].agenda)
  BY <1>1, <1>4, <1>7, <1>10
<1>14. Keeps(s, t)
  BY <1>7 DEF Keeps
<1> QED BY <1>7, <1>9, <1>11, <1>12, <1>13, <1>14 DEF Goes, Inv

\* A body is left, at its end, by a return or by an exception
\* (interpreter.cpp:82-92 and 187-191).
LEMMA LeaveKeeps ==
  ASSUME NEW s, Inv(s), s.calls # <<>>, s.agenda = <<>>
  PROVE  Goes(s, LeaveCall(s))
<1> DEFINE call == s.calls[Len(s.calls)]
<1>1. Typed(s)
  BY DEF Inv
<1>2. s = State(s.environments, s.environment, s.functions, s.heap, s.output, s.result,
                s.signal, s.agenda, s.calls)
  BY <1>1, Fields
<1>3. Innermost(s) = call
  BY DEF Innermost
<1>4. Len(s.calls) \in 1..Len(s.calls) /\ s.calls \in Seq(ActiveCall(s))
  BY <1>1, Fields, EmptySeq
<1>5. call \in ActiveCall(s)
  BY <1>4, ElementOfSeq
<1>6. call.agenda \in Seq(AgendaStep(s)) /\ AllReady(call.agenda)
  BY <1>4, <1>5 DEF ActiveCall, Inv
<1>7. s.result \in Known(s) /\ NoneValue \in Known(s) /\ s.signal \in Thrown \cup {"none"}
  BY <1>1, Fields DEF Known, PlainValue, NoneValue
<1> HIDE DEF call
<1>8. CASE s.signal = "return"
  <2>1. LeaveCall(s) = State(s.environments, Innermost(s).previous, s.functions, s.heap,
                             s.output, s.result, "none", call.agenda, Outer(s.calls))
    BY <1>2, <1>3, <1>8, LeaveState DEF call
  <2>2. "none" \in Thrown \cup {"none"} /\ ("none" # "none" => call.agenda = <<>>)
    OBVIOUS
  <2> QED BY <1>6, <1>7, <2>1, <2>2, LeftKeeps
<1>9. CASE s.signal = "none"
  <2>1. LeaveCall(s) = State(s.environments, Innermost(s).previous, s.functions, s.heap,
                             s.output, NoneValue, "none", call.agenda, Outer(s.calls))
    BY <1>2, <1>3, <1>9, LeaveState DEF call
  <2>2. "none" \in Thrown \cup {"none"} /\ ("none" # "none" => call.agenda = <<>>)
    OBVIOUS
  <2> QED BY <1>6, <1>7, <2>1, <2>2, LeftKeeps
<1>10. CASE s.signal \notin {"return", "none"}
  <2>1. LeaveCall(s) = State(s.environments, Innermost(s).previous, s.functions, s.heap,
                             s.output, s.result, s.signal, s.agenda, Outer(s.calls))
    BY <1>2, <1>3, <1>10, LeaveState DEF call
  <2>2. s.agenda \in Seq(AgendaStep(s)) /\ AllReady(s.agenda)
        /\ (s.signal # "none" => s.agenda = <<>>)
    BY <1>1, Fields DEF Inv
  <2> QED BY <1>7, <2>1, <2>2, LeftKeeps
<1> QED BY <1>8, <1>9, <1>10

-----------------------------------------------------------------------------
(* The steps of interpret() that only change what is left to do. *)

LEMMA BeginState ==
  ASSUME NEW a, NEW b, NEW c, NEW d, NEW e, NEW f, NEW g, NEW h, NEW i, NEW program
  PROVE  Begin(State(a, b, c, d, e, f, g, h, i), program)
           = State(a, b, c, d, e, f, "none", Execution(program), i)
<1> DEFINE agenda == Execution(program)
<1> HIDE DEF agenda
<1>1. [State(a, b, c, d, e, f, g, h, i) EXCEPT !.signal = "none"]
        = State(a, b, c, d, e, f, "none", h, i)
  BY DEF State
<1>2. [State(a, b, c, d, e, f, "none", h, i) EXCEPT !.agenda = agenda]
        = State(a, b, c, d, e, f, "none", agenda, i)
  BY DEF State
<1> QED BY <1>1, <1>2, Zenon DEF Begin, agenda

LEMMA RestState ==
  ASSUME NEW a, NEW b, NEW c, NEW d, NEW e, NEW f, NEW g, NEW h, NEW i
  PROVE  Rest(State(a, b, c, d, e, f, g, h, i)) = State(a, b, c, d, e, f, g, Tail(h), i)
<1> DEFINE s == State(a, b, c, d, e, f, g, h, i)
           agenda == Tail(h)
<1>1. s.agenda = h
  BY DEF State
<1>2. Rest(s) = [s EXCEPT !.agenda = agenda]
  <2> HIDE DEF s
  <2> QED BY <1>1 DEF Rest
<1> HIDE DEF agenda
<1>3. [s EXCEPT !.agenda = agenda] = State(a, b, c, d, e, f, g, agenda, i)
  BY DEF State
<1> QED BY <1>2, <1>3 DEF agenda

LEMMA ScheduleKeeps ==
  ASSUME NEW s, Inv(s), NEW signal \in Thrown \cup {"none"}, NEW agenda \in Seq(AgendaStep(s)),
         AllReady(agenda), signal # "none" => agenda = <<>>,
         NEW t, t = State(s.environments, s.environment, s.functions, s.heap, s.output,
                          s.result, signal, agenda, s.calls)
  PROVE  Goes(s, t)
<1>1. Typed(s)
  BY DEF Inv
<1>2. /\ Known(t) = Known(s) /\ AgendaStep(t) = AgendaStep(s)
      /\ Len(s.heap) \in Nat /\ Len(s.heap) <= Len(s.heap)
      /\ s.heap \in Seq(Seq(Known(t)))
  BY <1>1, SameCounts
<1>3. s.output \in Seq(Known(t)) /\ s.result \in Known(t) /\ agenda \in Seq(AgendaStep(t))
  BY <1>1, <1>2, Fields
<1> QED BY <1>2, <1>3, SameEnvironments

\* The next program begins (interpreter.cpp:41-47).
LEMMA BeginKeeps ==
  ASSUME NEW s, Inv(s), NEW program \in Seq(Stmts)
  PROVE  Goes(s, Begin(s, program))
<1> DEFINE t == Begin(s, program)
           agenda == Execution(program)
<1>1. Typed(s)
  BY DEF Inv
<1>2. t = State(s.environments, s.environment, s.functions, s.heap, s.output, s.result,
                "none", agenda, s.calls)
  BY <1>1, Fields, BeginState
<1>3. agenda \in Seq(AgendaStep(s)) /\ AllReady(agenda)
  BY ExecutionReady
<1> HIDE DEF t, agenda
<1>4. "none" \in Thrown \cup {"none"} /\ ("none" # "none" => agenda = <<>>)
  OBVIOUS
<1>5. Goes(s, t)
  BY <1>2, <1>3, <1>4, ScheduleKeeps
<1> QED BY <1>5 DEF t

\* A step is taken from the agenda.
LEMMA RestKeeps ==
  ASSUME NEW s, Inv(s), s.agenda # <<>>
  PROVE  LET t == Rest(s)
         IN /\ Goes(s, t) /\ t.signal = "none" /\ t.calls = s.calls /\ t.result = s.result
            /\ t.environments = s.environments
            /\ Known(t) = Known(s) /\ AgendaStep(t) = AgendaStep(s)
<1> DEFINE t == Rest(s)
           agenda == Tail(s.agenda)
<1>1. Typed(s) /\ s.signal = "none" /\ AllReady(s.agenda)
  BY DEF Inv
<1>2. s.agenda \in Seq(AgendaStep(s)) /\ Len(s.agenda) \in Nat
  BY <1>1, Fields
<1>3. t = State(s.environments, s.environment, s.functions, s.heap, s.output, s.result,
                "none", agenda, s.calls)
  BY <1>1, Fields, RestState
<1>4. /\ agenda \in Seq(AgendaStep(s)) /\ Len(agenda) = Len(s.agenda) - 1
      /\ \A i \in 1..Len(agenda) : agenda[i] = s.agenda[i + 1]
  BY <1>2, HeadTailProperties
<1> HIDE DEF t, agenda
<1>5. AllReady(agenda)
  BY <1>1, <1>2, <1>4 DEF AllReady
<1>6. "none" \in Thrown \cup {"none"} /\ ("none" # "none" => agenda = <<>>)
  OBVIOUS
<1>7. Goes(s, t)
  BY <1>3, <1>4, <1>5, <1>6, ScheduleKeeps
<1>8. /\ t.environments = s.environments /\ t.functions = s.functions /\ t.heap = s.heap
      /\ t.signal = "none" /\ t.calls = s.calls /\ t.result = s.result
  BY <1>3, StateFields
<1>9. Known(t) = Known(s) /\ AgendaStep(t) = AgendaStep(s)
  BY <1>8, SameSets
<1> QED BY <1>7, <1>8, <1>9 DEF t

-----------------------------------------------------------------------------
(* Operators and built-in functions. *)

\* Values other than functions.
LEMMA KnownValues ==
  ASSUME NEW s, NEW v
  PROVE  /\ v \in Known(s) /\ v.tag # "Function" => v \in Value(Len(s.heap))
         /\ v \in Value(Len(s.heap)) /\ v.tag # "Function" => v \in Known(s)
         /\ v \in Known(s) /\ v.tag = "Function" => v.function \in 1..Len(s.functions)
         /\ v \in Known(s) /\ v.tag = "String" => v.text \in Seq(Character)
         /\ v \in Known(s) /\ v.tag = "List" => v.list \in 1..Len(s.heap)
BY DEF Known, Value, PlainValue, IntegerValue, FloatValue, StringValue, FunctionValue

LEMMA BooleanKnown ==
  ASSUME NEW s, NEW b \in BOOLEAN
  PROVE  Boolean(b) \in Known(s)
BY DEF Known, PlainValue, Boolean

LEMMA StringKnown ==
  ASSUME NEW s, NEW text \in Seq(Character)
  PROVE  String(text) \in Known(s)
BY DEF Known, PlainValue, String, StringValue

\* A unary expression (interpreter.cpp:119-125).
LEMMA UnaryKeeps ==
  ASSUME NEW s, Inv(s), NEW op, NEW right \in Known(s)
  PROVE  Goes(s, EvaluateUnary(s, op, right))
<1>1. Typed(s) /\ Len(s.heap) \in Nat
  BY Fields DEF Inv
<1>2. CASE ~IsNumber(right)
  <2>1. EvaluateUnary(s, op, right) = Throw(s, "unary operator requires a number")
    BY <1>2 DEF EvaluateUnary
  <2>2. "unary operator requires a number" \in Thrown
    BY DEF Thrown
  <2> QED BY <2>1, <2>2, ThrowKeeps
<1>3. CASE IsNumber(right)
  <2>1. right \in Value(Len(s.heap))
    BY <1>3, KnownValues DEF IsNumber
  <2>2. Negation(right) \in Value(Len(s.heap))
    BY <1>1, <1>3, <2>1, ArithmeticTypes
  <2>3. Negation(right) \in Known(s)
    <3>1. Negation(right).tag # "Function"
      BY DEF Negation, Integer, Float
    <3> QED BY <2>2, <3>1, KnownValues
  <2> DEFINE value == IF op = "Minus" THEN Negation(right) ELSE right
  <2>4. value \in Known(s)
    BY <2>3
  <2>5. EvaluateUnary(s, op, right) = Yield(s, value)
    BY <1>3 DEF EvaluateUnary
  <2> HIDE DEF value
  <2> QED BY <2>4, <2>5, YieldKeeps
<1> QED BY <1>2, <1>3

\* Arithmetic and comparison give values (interpreter.cpp:126-154).
LEMMA NumericKnown ==
  ASSUME NEW s, Typed(s), NEW l \in Known(s), IsNumber(l), NEW r \in Known(s), IsNumber(r),
         NEW op \in BinaryOperator \ {"EqualEqual", "BangEqual"},
         op = "Percent" => AreIntegers(l, r),
         op \in {"Slash", "Percent"} => Numerator(r) # 0
  PROVE  NumericResult(op, l, r) \in Known(s)
<1>1. Len(s.heap) \in Nat
  BY Fields
<1>2. l \in Value(Len(s.heap)) /\ r \in Value(Len(s.heap))
  BY KnownValues DEF IsNumber
<1>3. /\ Sum(l, r) \in Value(Len(s.heap)) /\ Difference(l, r) \in Value(Len(s.heap))
      /\ Product(l, r) \in Value(Len(s.heap))
  BY <1>1, <1>2, ArithmeticTypes
<1>4. /\ Sum(l, r).tag # "Function" /\ Difference(l, r).tag # "Function"
      /\ Product(l, r).tag # "Function"
  BY DEF Sum, Difference, Product, Integer, Float
<1>5. Sum(l, r) \in Known(s) /\ Difference(l, r) \in Known(s) /\ Product(l, r) \in Known(s)
  BY <1>3, <1>4, KnownValues
<1>6. CASE op = "Plus"
  BY <1>5, <1>6 DEF NumericResult
<1>7. CASE op = "Minus"
  BY <1>5, <1>7 DEF NumericResult
<1>8. CASE op = "Star"
  BY <1>5, <1>8 DEF NumericResult
<1>9. CASE op = "Slash"
  <2>1. Quotient(l, r) \in Value(Len(s.heap))
    BY <1>1, <1>2, <1>9, QuotientType
  <2>2. Quotient(l, r).tag # "Function"
    BY DEF Quotient, Float
  <2>3. Quotient(l, r) \in Known(s)
    BY <2>1, <2>2, KnownValues
  <2> QED BY <1>9, <2>3 DEF NumericResult
<1>10. CASE op = "Percent"
  <2>1. AreIntegers(l, r) /\ r.integer # 0
    BY <1>10 DEF AreIntegers, Numerator
  <2>2. Remainder(l, r) \in Value(Len(s.heap))
    BY <1>1, <1>2, <2>1, RemainderType
  <2>3. Remainder(l, r).tag # "Function"
    BY DEF Remainder, Integer
  <2>4. Remainder(l, r) \in Known(s)
    BY <2>2, <2>3, KnownValues
  <2> QED BY <1>10, <2>4 DEF NumericResult
<1>11. CASE op \in {"Less", "LessEqual", "Greater", "GreaterEqual"}
  <2>1. NumberLess(l, r) \in BOOLEAN /\ NumberLess(r, l) \in BOOLEAN
    BY DEF NumberLess
  <2>2. /\ Boolean(NumberLess(l, r)) \in Known(s) /\ Boolean(~NumberLess(r, l)) \in Known(s)
        /\ Boolean(NumberLess(r, l)) \in Known(s) /\ Boolean(~NumberLess(l, r)) \in Known(s)
    BY <2>1, BooleanKnown
  <2> QED BY <1>11, <2>2 DEF NumericResult
<1> QED BY <1>6, <1>7, <1>8, <1>9, <1>10, <1>11 DEF BinaryOperator

\* A binary expression (interpreter.cpp:126-154).
LEMMA BinaryKeeps ==
  ASSUME NEW s, Inv(s), NEW op \in BinaryOperator, NEW l \in Known(s), NEW r \in Known(s)
  PROVE  Goes(s, EvaluateBinary(s, op, l, r))
<1> DEFINE t == EvaluateBinary(s, op, l, r)
<1>1. Typed(s)
  BY DEF Inv
<1>2. CASE op \in {"EqualEqual", "BangEqual"}
  <2>1. ValuesEqual(l, r) \in BOOLEAN
    BY DEF ValuesEqual, NumberEqual
  <2>2. Boolean(ValuesEqual(l, r)) \in Known(s) /\ Boolean(~ValuesEqual(l, r)) \in Known(s)
    BY <2>1, BooleanKnown
  <2>3. \/ t = Yield(s, Boolean(ValuesEqual(l, r)))
        \/ t = Yield(s, Boolean(~ValuesEqual(l, r)))
    BY <1>2 DEF EvaluateBinary
  <2> HIDE DEF t
  <2>4. Goes(s, t)
    BY <2>2, <2>3, YieldKeeps
  <2> QED BY <2>4 DEF t
<1>3. CASE op \notin {"EqualEqual", "BangEqual"}
  <2>1. CASE op = "Plus" /\ l.tag = "String" /\ r.tag = "String"
    <3>1. l.text \in Seq(Character) /\ r.text \in Seq(Character)
      BY <2>1, KnownValues
    <3>2. l.text \o r.text \in Seq(Character)
      BY <3>1, ConcatProperties
    <3>3. String(l.text \o r.text) \in Known(s)
      BY <3>2, StringKnown
    <3>4. t = Yield(s, String(l.text \o r.text))
      BY <2>1 DEF EvaluateBinary
    <3> QED BY <3>3, <3>4, YieldKeeps
  <2>2. ASSUME ~(op = "Plus" /\ l.tag = "String" /\ r.tag = "String")
        PROVE  Goes(s, t)
    <3>1. CASE ~IsNumber(l) \/ ~IsNumber(r)
      <4>1. t = Throw(s, "operator requires compatible numeric operands")
        BY <1>3, <2>2, <3>1 DEF EvaluateBinary
      <4>2. "operator requires compatible numeric operands" \in Thrown
        BY DEF Thrown
      <4> QED BY <4>1, <4>2, ThrowKeeps
    <3>2. CASE IsNumber(l) /\ IsNumber(r) /\ op = "Percent" /\ ~AreIntegers(l, r)
      <4>1. t = Throw(s, "'%' requires integer operands")
        BY <3>2 DEF EvaluateBinary
      <4>2. "'%' requires integer operands" \in Thrown
        BY DEF Thrown
      <4> QED BY <4>1, <4>2, ThrowKeeps
    <3>3. CASE /\ IsNumber(l) /\ IsNumber(r) /\ ~(op = "Percent" /\ ~AreIntegers(l, r))
               /\ op \in {"Slash", "Percent"} /\ Numerator(r) = 0
      <4>1. t = Throw(s, "division by zero")
        BY <3>3 DEF EvaluateBinary
      <4>2. "division by zero" \in Thrown
        BY DEF Thrown
      <4> QED BY <4>1, <4>2, ThrowKeeps
    <3>4. CASE /\ IsNumber(l) /\ IsNumber(r) /\ ~(op = "Percent" /\ ~AreIntegers(l, r))
               /\ ~(op \in {"Slash", "Percent"} /\ Numerator(r) = 0)
      <4>1. t = Yield(s, NumericResult(op, l, r))
        BY <1>3, <2>2, <3>4 DEF EvaluateBinary
      <4>2. NumericResult(op, l, r) \in Known(s)
        BY <1>1, <1>3, <3>4, NumericKnown
      <4> QED BY <4>1, <4>2, YieldKeeps
    <3> QED BY <3>1, <3>2, <3>3, <3>4
  <2> QED BY <2>1, <2>2
<1> QED BY <1>2, <1>3

\* A built-in function (builtins.cpp:16-52).
LEMMA InvokeKeeps ==
  ASSUME NEW s, Inv(s), NEW builtin \in Builtin, NEW arguments \in Seq(Known(s))
  PROVE  Goes(s, Invoke(s, builtin, arguments))
<1>1. Typed(s) /\ Len(s.heap) \in Nat /\ s.heap \in Seq(Seq(Known(s)))
  BY Fields DEF Inv
<1>2. CASE BuiltinRejects(builtin, arguments)
  <2>1. Invoke(s, builtin, arguments) = Throw(s, "built-in rejects its arguments")
    BY <1>2 DEF Invoke
  <2>2. "built-in rejects its arguments" \in Thrown
    BY DEF Thrown
  <2> QED BY <2>1, <2>2, ThrowKeeps
<1>3. CASE ~BuiltinRejects(builtin, arguments) /\ builtin = "len"
  <2>1. Len(arguments) = 1 /\ arguments[1].tag \in {"String", "List"}
    BY <1>3 DEF BuiltinRejects
  <2>2. arguments[1] \in Known(s)
    <3>1. 1 \in 1..Len(arguments)
      BY <2>1
    <3> QED BY <3>1, ElementOfSeq
  <2>3. LengthOf(arguments[1], s.heap) \in Nat
    <3>1. CASE arguments[1].tag = "String"
      <4>1. arguments[1].text \in Seq(Character)
        BY <2>2, <3>1, KnownValues
      <4> QED BY <3>1, <4>1, LenProperties DEF LengthOf
    <3>2. CASE arguments[1].tag = "List"
      <4>1. arguments[1].list \in 1..Len(s.heap)
        BY <2>2, <3>2, KnownValues
      <4>2. s.heap[arguments[1].list] \in Seq(Known(s))
        BY <1>1, <4>1, ElementOfSeq
      <4>3. Len(s.heap[arguments[1].list]) \in Nat
        BY <4>2, LenProperties
      <4> QED BY <3>2, <4>3 DEF LengthOf
    <3> QED BY <2>1, <3>1, <3>2
  <2>4. Wrap(LengthOf(arguments[1], s.heap)) \in IntegerMin..IntegerMax
    BY <2>3, WrapInRange
  <2>5. Integer(Wrap(LengthOf(arguments[1], s.heap))) \in Known(s)
    BY <2>4 DEF Known, PlainValue, IntegerValue, Integer
  <2>6. Invoke(s, builtin, arguments) = Yield(s, Integer(Wrap(LengthOf(arguments[1], s.heap))))
    BY <1>3 DEF Invoke
  <2> QED BY <2>5, <2>6, YieldKeeps
<1>4. CASE ~BuiltinRejects(builtin, arguments) /\ builtin = "type"
  <2>1. Len(arguments) = 1
    BY <1>4 DEF BuiltinRejects
  <2>2. arguments[1] \in Known(s)
    <3>1. 1 \in 1..Len(arguments)
      BY <2>1
    <3> QED BY <3>1, ElementOfSeq
  <2>3. arguments[1].tag
          \in {"None", "Integer", "Float", "String", "Boolean", "Function", "List"}
    BY <2>2 DEF Known, PlainValue, IntegerValue, FloatValue, StringValue
  <2>4. TypeName[arguments[1].tag] \in Seq(Character)
    BY <2>3, CharacterAssumption DEF TypeName
  <2>5. String(TypeName[arguments[1].tag]) \in Known(s)
    BY <2>4, StringKnown
  <2>6. Invoke(s, builtin, arguments) = Yield(s, String(TypeName[arguments[1].tag]))
    BY <1>4 DEF Invoke
  <2> QED BY <2>5, <2>6, YieldKeeps
<1>5. CASE ~BuiltinRejects(builtin, arguments) /\ builtin = "range" /\ RangeExhausts(arguments)
  <2>1. Invoke(s, builtin, arguments) = Throw(s, "out of memory")
    BY <1>5 DEF Invoke
  <2>2. "out of memory" \in Thrown
    BY DEF Thrown
  <2> QED BY <2>1, <2>2, ThrowKeeps
<1>6. CASE ~BuiltinRejects(builtin, arguments) /\ builtin = "range" /\ ~RangeExhausts(arguments)
  <2>1. Len(arguments) \in 1..3 /\ \A i \in 1..Len(arguments) : arguments[i].tag = "Integer"
    BY <1>6 DEF BuiltinRejects
  <2>2. ASSUME NEW i \in 1..Len(arguments)
        PROVE  arguments[i].integer \in IntegerMin..IntegerMax
    <3>1. arguments[i] \in Known(s) /\ arguments[i].tag = "Integer"
      BY <2>1, ElementOfSeq
    <3>2. arguments[i] \in Value(Len(s.heap))
      BY <3>1, KnownValues
    <3> QED BY <1>1, <3>1, <3>2, NumberParts DEF IsNumber
  <2>3. RangeElements(arguments) \in Seq(IntegerValue)
    BY <1>6, <2>1, <2>2, RangeIntegers
  <2>4. IntegerValue \subseteq Known(s)
    BY DEF Known, PlainValue
  <2>5. RangeElements(arguments) \in Seq(Known(s))
    BY <2>3, <2>4, SeqMonotonic
  <2>6. Invoke(s, builtin, arguments) = YieldList(s, RangeElements(arguments))
    BY <1>6 DEF Invoke
  <2> QED BY <2>5, <2>6, YieldListKeeps
<1> QED BY <1>2, <1>3, <1>4, <1>5, <1>6 DEF Builtin

-----------------------------------------------------------------------------
(* Expressions. *)

\* The lookup of a name (environment.cpp:11-16).
LEMMA GetKeeps ==
  ASSUME NEW s, Inv(s), s.signal = "none", NEW environment \in 1..Len(s.environments),
         NEW name \in Names
  PROVE  Goes(s, Get(s, environment, name))
<1> DEFINE e == s.environments[environment]
<1>1. Typed(s) /\ s.environments \in Seq(Scopes(s)) /\ Len(s.environments) \in Nat
  BY Fields DEF Inv
<1>2. e \in Scopes(s)
  BY <1>1, ElementOfSeq
<1>3. PICK bound \in SUBSET Names : e.values \in [bound -> Known(s)]
  BY <1>2 DEF Scopes
<1>4. e.enclosing \in 0..Len(s.environments)
  BY <1>2 DEF Scopes
<1>5. CASE name \in DOMAIN e.values
  <2>1. e.values[name] \in Known(s)
    BY <1>3, <1>5
  <2>2. Get(s, environment, name) = Yield(s, e.values[name])
    BY <1>5 DEF Get
  <2> QED BY <2>1, <2>2, YieldKeeps
<1>6. CASE name \notin DOMAIN e.values /\ e.enclosing # 0
  <2> DEFINE step == <<"Get", e.enclosing, name>>
  <2>1. e.enclosing \in 1..Len(s.environments)
    BY <1>1, <1>4, <1>6
  <2>2. step \in AgendaStep(s) /\ Ready(step)
    BY <2>1 DEF AgendaStep, Ready
  <2>3. Get(s, environment, name) = Do(s, <<step>>)
    BY <1>6 DEF Get
  <2> HIDE DEF step
  <2>4. <<step>> \in Seq(AgendaStep(s)) /\ AllReady(<<step>>)
    BY <2>2 DEF AllReady
  <2> QED BY <2>3, <2>4, DoKeeps
<1>7. CASE name \notin DOMAIN e.values /\ e.enclosing = 0
  <2>1. Get(s, environment, name) = Throw(s, "undefined variable")
    BY <1>7 DEF Get
  <2>2. "undefined variable" \in Thrown
    BY DEF Thrown
  <2> QED BY <2>1, <2>2, ThrowKeeps
<1> QED BY <1>5, <1>6, <1>7

Composite == {"List", "Unary", "Binary", "Call"}

\* The operands of an expression are expressions.
LEMMA OperandsType ==
  ASSUME NEW e \in Exprs, e.kind \in Composite
  PROVE  Operands(e) \in Seq(Exprs)
<1>1. IsExpression(e)
  BY TreeAssumption
<1>2. CASE e.kind = "List"
  BY <1>1, <1>2 DEF IsExpression, Operands
<1>3. CASE e.kind = "Unary"
  BY <1>1, <1>3 DEF IsExpression, Operands
<1>4. CASE e.kind = "Binary"
  BY <1>1, <1>4 DEF IsExpression, Operands
<1>5. CASE e.kind = "Call"
  <2>1. e.callee \in Exprs /\ e.arguments \in Seq(Exprs)
    BY <1>1, <1>5 DEF IsExpression
  <2>2. <<e.callee>> \o e.arguments \in Seq(Exprs)
    BY <2>1, ConcatProperties
  <2> QED BY <1>5, <2>1, <2>2 DEF Operands
<1> QED BY <1>2, <1>3, <1>4, <1>5 DEF Composite

\* The operands have been evaluated (interpreter.cpp:113-178).
LEMMA CombineKeeps ==
  ASSUME NEW s, Inv(s), s.signal = "none", NEW e \in Exprs, e.kind \in Composite,
         NEW values \in Seq(Known(s)), Len(values) = Len(Operands(e)),
         CallsFunction(e) /\ values # <<>> => values[1].tag = "Function"
  PROVE  Goes(s, Combine(s, e, values))
<1>1. IsExpression(e)
  BY TreeAssumption
<1>2. CASE e.kind = "List"
  <2>1. Combine(s, e, values) = YieldList(s, values)
    BY <1>2 DEF Combine
  <2> QED BY <2>1, YieldListKeeps
<1>3. CASE e.kind = "Unary"
  <2>1. Len(values) = 1
    BY <1>3 DEF Operands
  <2>2. values[1] \in Known(s)
    <3>1. 1 \in 1..Len(values)
      BY <2>1
    <3> QED BY <3>1, ElementOfSeq
  <2>3. Combine(s, e, values) = EvaluateUnary(s, e.op, values[1])
    BY <1>3 DEF Combine
  <2> QED BY <2>2, <2>3, UnaryKeeps
<1>4. CASE e.kind = "Binary"
  <2>1. Len(values) = 2 /\ e.op \in BinaryOperator
    BY <1>1, <1>4 DEF Operands, IsExpression
  <2>2. values[1] \in Known(s) /\ values[2] \in Known(s)
    BY <2>1, ElementOfSeq
  <2>3. Combine(s, e, values) = EvaluateBinary(s, e.op, values[1], values[2])
    BY <1>4 DEF Combine
  <2> QED BY <2>1, <2>2, <2>3, BinaryKeeps
<1>5. CASE e.kind = "Call" /\ CallsFunction(e)
  <2>1. e.callee \in Exprs /\ e.arguments \in Seq(Exprs)
    BY <1>1, <1>5 DEF IsExpression
  <2>2. Operands(e) = <<e.callee>> \o e.arguments
    BY <1>5 DEF Operands
  <2>3. <<e.callee>> \in Seq(Exprs) /\ Len(<<e.callee>>) = 1
    BY <2>1
  <2>4. Len(values) = 1 + Len(e.arguments) /\ Len(e.arguments) \in Nat
    BY <2>1, <2>2, <2>3, ConcatProperties, LenProperties
  <2>5. values # <<>> /\ 1 \in 1..Len(values)
    BY <2>4
  <2>6. values[1] \in Known(s) /\ values[1].tag = "Function"
    BY <1>5, <2>5, ElementOfSeq
  <2>7. values[1].function \in 1..Len(s.functions)
    BY <2>6, KnownValues
  <2>8. Tail(values) \in Seq(Known(s))
    BY <2>5, HeadTailProperties
  <2>9. Combine(s, e, values) = CallFunction(s, values[1].function, Tail(values))
    BY <1>5 DEF Combine
  <2> QED BY <2>7, <2>8, <2>9, CallKeeps
<1>6. CASE e.kind = "Call" /\ ~CallsFunction(e)
  <2> DEFINE builtin == CHOOSE b \in BuiltinsCalled(e) : TRUE
  <2>1. BuiltinsCalled(e) # {} /\ BuiltinsCalled(e) \subseteq Builtin
    BY <1>6 DEF CallsFunction, BuiltinsCalled
  <2>2. builtin \in Builtin
    BY <2>1
  <2>3. Combine(s, e, values) = Invoke(s, builtin, values)
    BY <1>6 DEF Combine
  <2> HIDE DEF builtin
  <2> QED BY <2>2, <2>3, InvokeKeeps
<1> QED BY <1>2, <1>3, <1>4, <1>5, <1>6 DEF Composite

\* The operands are evaluated one by one (interpreter.cpp:113-178).
LEMMA OperandsKeep ==
  ASSUME NEW s, Inv(s), s.signal = "none", NEW e \in Exprs, e.kind \in Composite,
         NEW values \in Seq(Known(s)), Len(values) <= Len(Operands(e))
  PROVE  Goes(s, EvaluateOperands(s, e, values))
<1>1. CASE CallsFunction(e) /\ values # <<>> /\ values[1].tag # "Function"
  <2>1. EvaluateOperands(s, e, values) = Throw(s, "can only call functions")
    BY <1>1 DEF EvaluateOperands
  <2>2. "can only call functions" \in Thrown
    BY DEF Thrown
  <2> QED BY <2>1, <2>2, ThrowKeeps
<1>2. CASE ~(CallsFunction(e) /\ values # <<>> /\ values[1].tag # "Function")
           /\ Len(values) = Len(Operands(e))
  <2>1. EvaluateOperands(s, e, values) = Combine(s, e, values)
    BY <1>2 DEF EvaluateOperands
  <2> QED BY <1>2, <2>1, CombineKeeps
<1>3. CASE ~(CallsFunction(e) /\ values # <<>> /\ values[1].tag # "Function")
           /\ Len(values) # Len(Operands(e))
  <2> DEFINE next == <<"Evaluate", Operands(e)[Len(values) + 1]>>
             then == <<"Operand", e, values>>
  <2>1. Operands(e) \in Seq(Exprs)
    BY OperandsType
  <2>2. Len(values) \in Nat /\ Len(Operands(e)) \in Nat
    BY <2>1, LenProperties
  <2>3. Len(values) < Len(Operands(e)) /\ Len(values) + 1 \in 1..Len(Operands(e))
    BY <1>3, <2>2
  <2>4. Operands(e)[Len(values) + 1] \in Exprs
    BY <2>1, <2>3, ElementOfSeq
  <2>5. next \in AgendaStep(s) /\ Ready(next)
    BY <2>4 DEF AgendaStep, Ready
  <2>6. then \in AgendaStep(s) /\ Ready(then)
    BY <1>3, <2>3 DEF AgendaStep, Ready, Composite
  <2>7. EvaluateOperands(s, e, values) = Do(s, <<next, then>>)
    BY <1>3 DEF EvaluateOperands
  <2> HIDE DEF next, then
  <2>8. <<next, then>> \in Seq(AgendaStep(s)) /\ AllReady(<<next, then>>)
    BY <2>5, <2>6 DEF AllReady
  <2> QED BY <2>7, <2>8, DoKeeps
<1> QED BY <1>1, <1>2, <1>3

\* evaluate() (interpreter.cpp:94-157).
LEMMA EvaluateKeeps ==
  ASSUME NEW s, Inv(s), s.signal = "none", NEW e \in Exprs \cup {LiteralExpr(NoneValue)}
  PROVE  Goes(s, Evaluate(s, e))
<1>1. Typed(s) /\ s.environment \in 1..Len(s.environments)
  BY Fields DEF Inv
<1>2. CASE e.kind = "Literal"
  <2>1. e.value \in LiteralValue
    <3>1. CASE e \in Exprs
      BY <1>2, <3>1, TreeAssumption DEF IsExpression
    <3>2. CASE e = LiteralExpr(NoneValue)
      BY <3>2 DEF LiteralExpr, NoneValue, LiteralValue
    <3> QED BY <3>1, <3>2
  <2>2. CASE e.value.tag = "Integer" /\ e.value.integer > IntegerMax
    <3>1. Evaluate(s, e) = Throw(s, "out of range")
      BY <1>2, <2>2 DEF Evaluate
    <3>2. "out of range" \in Thrown
      BY DEF Thrown
    <3> QED BY <3>1, <3>2, ThrowKeeps
  <2>3. CASE ~(e.value.tag = "Integer" /\ e.value.integer > IntegerMax)
    <3>1. e.value \in Known(s)
      <4>1. CASE e.value.tag = "Integer"
        <5>1. e.value \in [tag : {"Integer"}, integer : Nat]
          BY <2>1, <4>1 DEF LiteralValue, FloatValue, StringValue
        <5>2. e.value.integer \in IntegerMin..IntegerMax
          BY <2>3, <4>1, <5>1, ValuesAssumption DEF IntegerMin
        <5>3. e.value \in IntegerValue
          BY <5>1, <5>2 DEF IntegerValue
        <5> QED BY <5>3 DEF Known, PlainValue
      <4>2. CASE e.value.tag # "Integer"
        BY <2>1, <4>2 DEF LiteralValue, Known, PlainValue
      <4> QED BY <4>1, <4>2
    <3>2. Evaluate(s, e) = Yield(s, e.value)
      BY <1>2, <2>3 DEF Evaluate
    <3> QED BY <3>1, <3>2, YieldKeeps
  <2> QED BY <2>2, <2>3
<1>3. CASE e.kind # "Literal"
  <2>1. e \in Exprs /\ IsExpression(e)
    BY <1>3, TreeAssumption DEF LiteralExpr
  <2>2. CASE e.kind = "Variable"
    <3>1. e.name \in Names
      BY <2>1, <2>2 DEF IsExpression
    <3>2. Evaluate(s, e) = Get(s, s.environment, e.name)
      BY <2>2 DEF Evaluate
    <3> QED BY <1>1, <3>1, <3>2, GetKeeps
  <2>3. CASE e.kind \in Composite
    <3>1. Evaluate(s, e) = EvaluateOperands(s, e, <<>>)
      BY <2>3 DEF Evaluate, Composite
    <3>2. Len(Operands(e)) \in Nat
      BY <2>1, <2>3, OperandsType, LenProperties
    <3>3. <<>> \in Seq(Known(s)) /\ Len(<<>>) <= Len(Operands(e))
      BY <3>2, EmptySeq
    <3> QED BY <2>1, <2>3, <3>1, <3>3, OperandsKeep
  <2>4. e.kind \in {"Variable"} \cup Composite
    BY <1>3, <2>1 DEF IsExpression, Composite
  <2> QED BY <2>2, <2>3, <2>4
<1> QED BY <1>2, <1>3

-----------------------------------------------------------------------------
(* Statements. *)

\* Every statement but a function definition evaluates an expression first.
LEMMA ExpressionOfStatement ==
  ASSUME NEW statement \in Stmts, statement.kind # "Function"
  PROVE  ExpressionOf(statement) \in Exprs \cup {LiteralExpr(NoneValue)}
<1>1. IsStatement(statement)
  BY TreeAssumption
<1>2. CASE statement.kind \in {"Expression", "Print"}
  BY <1>1, <1>2 DEF IsStatement, ExpressionOf
<1>3. CASE statement.kind = "Assignment"
  BY <1>1, <1>3 DEF IsStatement, ExpressionOf
<1>4. CASE statement.kind \in {"If", "While"}
  BY <1>1, <1>4 DEF IsStatement, ExpressionOf
<1>5. CASE statement.kind = "Return"
  <2> DEFINE none == LiteralExpr(NoneValue)
  <2>1. ExpressionOf(statement) = IF statement.value = <<>> THEN none ELSE statement.value[1]
    BY <1>5 DEF ExpressionOf
  <2>2. statement.value = <<>> \/ statement.value[1] \in Exprs
    BY <1>1, <1>5 DEF IsStatement
  <2> HIDE DEF none
  <2>3. ExpressionOf(statement) \in Exprs \cup {none}
    BY <2>1, <2>2
  <2> QED BY <2>3 DEF none
<1> QED BY <1>1, <1>2, <1>3, <1>4, <1>5 DEF IsStatement

\* execute(), up to that expression (interpreter.cpp:51-80).
LEMMA ExecuteKeeps ==
  ASSUME NEW s, Inv(s), s.signal = "none", NEW statement \in Stmts
  PROVE  Goes(s, Execute1(s, statement))
<1>1. CASE statement.kind = "Function"
  <2>1. Execute1(s, statement) = DefineFunction(s, statement)
    BY <1>1 DEF Execute1
  <2> QED BY <1>1, <2>1, DefineFunctionKeeps
<1>2. CASE statement.kind # "Function"
  <2> DEFINE next == <<"Evaluate", ExpressionOf(statement)>>
             then == <<"Finish", statement>>
  <2>1. ExpressionOf(statement) \in Exprs \cup {LiteralExpr(NoneValue)}
    BY <1>2, ExpressionOfStatement
  <2>2. next \in AgendaStep(s) /\ Ready(next)
    BY <2>1 DEF AgendaStep, Ready
  <2>3. then \in AgendaStep(s) /\ Ready(then)
    BY <1>2 DEF AgendaStep, Ready
  <2>4. Execute1(s, statement) = Do(s, <<next, then>>)
    BY <1>2 DEF Execute1
  <2> HIDE DEF next, then
  <2>5. <<next, then>> \in Seq(AgendaStep(s)) /\ AllReady(<<next, then>>)
    BY <2>2, <2>3 DEF AllReady
  <2> QED BY <2>4, <2>5, DoKeeps
<1> QED BY <1>1, <1>2

LEMMA BranchKeeps ==
  ASSUME NEW s, Inv(s), s.signal = "none", NEW statements \in Seq(Stmts)
  PROVE  Goes(s, Do(s, Execution(statements)))
<1>1. Execution(statements) \in Seq(AgendaStep(s)) /\ AllReady(Execution(statements))
  BY ExecutionReady
<1> QED BY <1>1, DoKeeps

LEMMA StaysKeeps ==
  ASSUME NEW s, Inv(s)
  PROVE  Goes(s, s)
BY DEF Goes, Keeps

\* execute(), from its value on (interpreter.cpp:51-80).
LEMMA FinishKeeps ==
  ASSUME NEW s, Inv(s), s.signal = "none", NEW statement \in Stmts,
         statement.kind # "Function"
  PROVE  Goes(s, Finish(s, statement))
<1>1. IsStatement(statement)
  BY TreeAssumption
<1>2. Typed(s) /\ s.result \in Known(s)
  BY Fields DEF Inv
<1>3. CASE statement.kind = "Expression"
  <2>1. Finish(s, statement) = s
    BY <1>3 DEF Finish
  <2> QED BY <2>1, StaysKeeps
<1>4. CASE statement.kind = "Assignment"
  <2>1. statement.name \in Names
    BY <1>1, <1>4 DEF IsStatement
  <2>2. Finish(s, statement) = Define(s, statement.name, s.result)
    BY <1>4 DEF Finish
  <2> QED BY <1>2, <2>1, <2>2, DefineKeeps
<1>5. CASE statement.kind = "Print"
  <2>1. Finish(s, statement) = Write(s, s.result)
    BY <1>5 DEF Finish
  <2> QED BY <2>1, WriteKeeps
<1>6. CASE statement.kind = "Return"
  <2>1. Finish(s, statement) = Throw(s, "return")
    BY <1>6 DEF Finish
  <2>2. "return" \in Thrown
    BY DEF Thrown
  <2> QED BY <2>1, <2>2, ThrowKeeps
<1>7. CASE statement.kind = "If"
  <2>1. /\ statement.then_branch \in Seq(Stmts)
        /\ statement.else_branch = <<>> \/ statement.else_branch[1] \in Seq(Stmts)
    BY <1>1, <1>7 DEF IsStatement
  <2>2. CASE Truthy(s.result, s.heap)
    <3>1. Finish(s, statement) = Do(s, Execution(statement.then_branch))
      BY <1>7, <2>2 DEF Finish
    <3> QED BY <2>1, <3>1, BranchKeeps
  <2>3. CASE ~Truthy(s.result, s.heap) /\ statement.else_branch # <<>>
    <3>1. Finish(s, statement) = Do(s, Execution(statement.else_branch[1]))
      BY <1>7, <2>3 DEF Finish
    <3> QED BY <2>1, <2>3, <3>1, BranchKeeps
  <2>4. CASE ~Truthy(s.result, s.heap) /\ statement.else_branch = <<>>
    <3>1. Finish(s, statement) = s
      BY <1>7, <2>4 DEF Finish
    <3> QED BY <3>1, StaysKeeps
  <2> QED BY <2>2, <2>3, <2>4
<1>8. CASE statement.kind = "While"
  <2> DEFINE body == Execution(statement.body)
             again == <<"Execute", statement>>
  <2>1. statement.body \in Seq(Stmts)
    BY <1>1, <1>8 DEF IsStatement
  <2>2. body \in Seq(AgendaStep(s)) /\ AllReady(body)
    BY <2>1, ExecutionReady
  <2>3. again \in AgendaStep(s) /\ Ready(again)
    BY DEF AgendaStep, Ready
  <2>4. CASE Truthy(s.result, s.heap)
    <3>1. Finish(s, statement) = Do(s, body \o <<again>>)
      BY <1>8, <2>4 DEF Finish
    <3> HIDE DEF body, again
    <3>2. <<again>> \in Seq(AgendaStep(s)) /\ AllReady(<<again>>)
      BY <2>3 DEF AllReady
    <3>3. body \o <<again>> \in Seq(AgendaStep(s)) /\ AllReady(body \o <<again>>)
      BY <2>2, <3>2, ReadyConcat
    <3> QED BY <3>1, <3>3, DoKeeps
  <2>5. CASE ~Truthy(s.result, s.heap)
    <3>1. Finish(s, statement) = s
      BY <1>8, <2>5 DEF Finish
    <3> QED BY <3>1, StaysKeeps
  <2> QED BY <2>4, <2>5
<1>9. statement.kind \in {"Expression", "Assignment", "Print", "Return", "If", "While"}
  BY <1>1 DEF IsStatement
<1> QED BY <1>3, <1>4, <1>5, <1>6, <1>7, <1>8, <1>9

-----------------------------------------------------------------------------
(* Steps. *)

\* Whatever is the next step on the agenda.
LEMMA PerformKeeps ==
  ASSUME NEW s, Inv(s), s.signal = "none", NEW step \in AgendaStep(s), Ready(step)
  PROVE  Goes(s, Perform(s, step))
<1>1. Typed(s) /\ s.result \in Known(s)
  BY Fields DEF Inv
<1>2. CASE step \in {"Execute", "Finish"} \X Stmts
  <2>1. step[2] \in Stmts /\ step[1] \in {"Execute", "Finish"}
    BY <1>2
  <2>2. CASE step[1] = "Execute"
    <3>1. Perform(s, step) = Execute1(s, step[2])
      BY <2>2 DEF Perform
    <3> QED BY <2>1, <3>1, ExecuteKeeps
  <2>3. CASE step[1] = "Finish"
    <3>1. Perform(s, step) = Finish(s, step[2])
      BY <2>3 DEF Perform
    <3>2. step[2].kind # "Function"
      BY <2>3 DEF Ready
    <3> QED BY <2>1, <3>1, <3>2, FinishKeeps
  <2> QED BY <2>1, <2>2, <2>3
<1>3. CASE step \in {"Evaluate"} \X (Exprs \cup {LiteralExpr(NoneValue)})
  <2>1. step[2] \in Exprs \cup {LiteralExpr(NoneValue)} /\ step[1] = "Evaluate"
    BY <1>3
  <2>2. Perform(s, step) = Evaluate(s, step[2])
    BY <2>1 DEF Perform
  <2> QED BY <2>1, <2>2, EvaluateKeeps
<1>4. CASE step \in {"Operand"} \X Exprs \X Seq(Known(s))
  <2> DEFINE values == Append(step[3], s.result)
  <2>1. step[1] = "Operand" /\ step[2] \in Exprs /\ step[3] \in Seq(Known(s))
    BY <1>4
  <2>2. step[2].kind \in Composite /\ Len(step[3]) < Len(Operands(step[2]))
    BY <2>1 DEF Ready, Composite
  <2>3. values \in Seq(Known(s)) /\ Len(values) = Len(step[3]) + 1
    BY <1>1, <2>1, AppendProperties
  <2>4. Len(step[3]) \in Nat /\ Len(Operands(step[2])) \in Nat
    BY <2>1, <2>2, OperandsType, LenProperties
  <2>5. Perform(s, step) = EvaluateOperands(s, step[2], values)
    BY <2>1 DEF Perform
  <2> HIDE DEF values
  <2>6. Len(values) <= Len(Operands(step[2]))
    BY <2>2, <2>3, <2>4
  <2> QED BY <2>1, <2>2, <2>3, <2>5, <2>6, OperandsKeep
<1>5. CASE step \in {"Get"} \X (1..Len(s.environments)) \X Names
  <2>1. step[1] = "Get" /\ step[2] \in 1..Len(s.environments) /\ step[3] \in Names
    BY <1>5
  <2>2. Perform(s, step) = Get(s, step[2], step[3])
    BY <2>1 DEF Perform
  <2> QED BY <2>1, <2>2, GetKeeps
<1> QED BY <1>2, <1>3, <1>4, <1>5 DEF AgendaStep

\* interpret() goes on (interpreter.cpp:41-47).
LEMMA GoOnKeeps ==
  ASSUME NEW s, Inv(s)
  PROVE  Goes(s, GoOn(s))
<1>1. Typed(s) /\ AllReady(s.agenda)
  BY DEF Inv
<1>2. s.agenda \in Seq(AgendaStep(s))
  BY <1>1, Fields
<1>3. CASE s.agenda # <<>>
  <2> DEFINE step == Head(s.agenda)
             r == Rest(s)
  <2>1. 1 \in 1..Len(s.agenda) /\ step = s.agenda[1]
    BY <1>2, <1>3, EmptySeq
  <2>2. step \in AgendaStep(s) /\ Ready(step)
    BY <1>1, <1>2, <2>1, ElementOfSeq DEF AllReady
  <2>3. GoOn(s) = Perform(r, step)
    BY <1>3 DEF GoOn
  <2>4. /\ Goes(s, r) /\ r.signal = "none" /\ r.calls = s.calls
        /\ r.environments = s.environments /\ AgendaStep(r) = AgendaStep(s)
    BY <1>3, RestKeeps
  <2> HIDE DEF step, r
  <2>5. Goes(r, Perform(r, step))
    BY <2>2, <2>4, PerformKeeps DEF Goes
  <2> QED BY <2>3, <2>4, <2>5 DEF Goes, Keeps
<1>4. CASE s.agenda = <<>> /\ s.calls # <<>>
  <2>1. GoOn(s) = LeaveCall(s)
    BY <1>4 DEF GoOn
  <2> QED BY <1>4, <2>1, LeaveKeeps
<1>5. CASE s.agenda = <<>> /\ s.calls = <<>>
  <2>1. GoOn(s) = Throw(s, "'return' outside a function")
    BY <1>5 DEF GoOn
  <2>2. "'return' outside a function" \in Thrown
    BY DEF Thrown
  <2> QED BY <2>1, <2>2, ThrowKeeps
<1> QED BY <1>3, <1>4, <1>5

\* The interpreter that has been constructed (interpreter.cpp:38-39).
LEMMA InitialInvariant ==
  Inv(NewInterpreter)
<1> DEFINE s == NewInterpreter
<1>1. s = State(<<[values |-> <<>>, enclosing |-> 0]>>, 1, <<>>, <<>>, <<>>, NoneValue,
                "none", <<>>, <<>>)
  BY DEF NewInterpreter, State
<1> HIDE DEF s
<1>2. /\ s.environments = <<[values |-> <<>>, enclosing |-> 0]>> /\ s.environment = 1
      /\ s.functions = <<>> /\ s.heap = <<>> /\ s.output = <<>> /\ s.result = NoneValue
      /\ s.signal = "none" /\ s.agenda = <<>> /\ s.calls = <<>>
  BY <1>1, StateFields
<1>3. [values |-> <<>>, enclosing |-> 0] \in Scopes(s)
  <2>1. {} \in SUBSET Names /\ <<>> \in [{} -> Known(s)]
    OBVIOUS
  <2>2. <<>> \in UNION {[bound -> Known(s)] : bound \in SUBSET Names}
    BY <2>1
  <2>3. 0 \in 0..Len(s.environments)
    BY <1>2
  <2> QED BY <2>2, <2>3 DEF Scopes
<1>4. Len(s.environments) = 1 /\ s.environments \in Seq(Scopes(s))
      /\ s.environments[1].enclosing = 0
  BY <1>2, <1>3
<1>5. NoneValue \in Known(s)
  BY DEF Known, PlainValue, NoneValue
<1>6. Typed(s)
  <2>1. s.environment \in 1..Len(s.environments)
    BY <1>2, <1>4
  <2>2. /\ s.functions \in Seq(Callable(s)) /\ s.heap \in Seq(Seq(Known(s)))
        /\ s.output \in Seq(Known(s)) /\ s.agenda \in Seq(AgendaStep(s))
        /\ s.calls \in Seq(ActiveCall(s))
    BY <1>2, EmptySeq
  <2>3. \A i \in 1..Len(s.environments) : s.environments[i].enclosing < i
    BY <1>4
  <2>4. s = State(s.environments, s.environment, s.functions, s.heap, s.output, s.result,
                  s.signal, s.agenda, s.calls)
    BY <1>1, <1>2
  <2> QED BY <1>2, <1>4, <1>5, <2>1, <2>2, <2>3, <2>4, TypedState
<1>7. Len(s.calls) = 0
  BY <1>2, EmptySeq
<1>8. Chain(s) /\ Lexical(s)
  BY <1>2, <1>7 DEF Chain, Lexical
<1>9. AllReady(s.agenda) /\ \A i \in 1..Len(s.calls) : AllReady(s.calls[i].agenda)
  BY <1>2, <1>7, NothingReady
<1>10. Inv(s)
  BY <1>2, <1>6, <1>8, <1>9 DEF Inv
<1> QED BY <1>10 DEF s

\* A step of the interpreter, and the start of the next program.
LEMMA StepKeeps ==
  ASSUME Inv(interpreter), InterpretNext \/ \E program \in Seq(Stmts) : Interpret(program)
  PROVE  Goes(interpreter, interpreter')
<1>1. CASE InterpretNext
  <2>1. CASE interpreter' = GoOn(interpreter)
    BY <2>1, GoOnKeeps
  <2>2. CASE interpreter' = Throw(interpreter, "killed")
    <3>1. "killed" \in Thrown
      BY DEF Thrown
    <3> QED BY <2>2, <3>1, ThrowKeeps
  <2> QED BY <1>1, <2>1, <2>2 DEF InterpretNext
<1>2. CASE \E program \in Seq(Stmts) : Interpret(program)
  <2>1. PICK program \in Seq(Stmts) : interpreter' = Begin(interpreter, program)
    BY <1>2 DEF Interpret
  <2> QED BY <2>1, BeginKeeps
<1> QED BY <1>1, <1>2

-----------------------------------------------------------------------------
(* Theorems. *)

\* The inductive invariant holds of every interpreter, whatever the programs
\* (interpreter.cpp:41-192).
THEOREM InterpreterInvariant ==
  InterpreterSpec => []Inv(interpreter)
<1>1. InterpreterInit => Inv(interpreter)
  BY InitialInvariant DEF InterpreterInit
<1>2. /\ Inv(interpreter)
      /\ [InterpretNext \/ \E program \in Seq(Stmts) : Interpret(program)]_interpreter
      => Inv(interpreter)'
  <2>1. CASE InterpretNext \/ \E program \in Seq(Stmts) : Interpret(program)
    BY <2>1, StepKeeps DEF Goes
  <2>2. CASE UNCHANGED interpreter
    BY <2>2
  <2> QED BY <2>1, <2>2
<1> QED BY <1>1, <1>2, PTL DEF InterpreterSpec

LEMMA FunctionIsSeq ==
  ASSUME NEW S, NEW n \in Nat, NEW f \in [1..n -> S]
  PROVE  f \in Seq(S)
BY SeqDef

LEMMA TypedObjects ==
  ASSUME NEW s, Typed(s)
  PROVE  ObjectsExist(s)
<1>1. /\ s.environments \in Seq(Scopes(s)) /\ s.environment \in 1..Len(s.environments)
      /\ s.functions \in Seq(Callable(s)) /\ s.heap \in Seq(Seq(Known(s)))
      /\ s.output \in Seq(Known(s)) /\ s.result \in Known(s)
      /\ s.signal \in Thrown \cup {"none"} /\ s.agenda \in Seq(AgendaStep(s))
      /\ s.calls \in Seq(ActiveCall(s)) /\ Len(s.environments) \in Nat
  BY Fields
<1>2. DOMAIN s.environments = 1..Len(s.environments)
  BY <1>1, LenProperties
<1>3. \A i \in 1..Len(s.environments) : s.environments[i] \in Scopes(s)
  BY <1>1, ElementOfSeq
<1>4. ASSUME NEW i \in 1..Len(s.environments) PROVE s.environments[i] \in Scope1(s)
  <2>1. s.environments[i] \in Range(s.environments)
    BY <1>2 DEF Range
  <2>2. s.environments[i].values \in {e.values : e \in Range(s.environments)}
    BY <2>1
  <2> QED BY <1>3, <2>2 DEF Scopes, Scope1
<1>5. s.environments \in Seq(Scope1(s))
  <2>1. s.environments \in [1..Len(s.environments) -> Scopes(s)]
    BY <1>1, LenProperties
  <2>2. s.environments \in [1..Len(s.environments) -> Scope1(s)]
    BY <1>4, <2>1
  <2> QED BY <1>1, <2>2, FunctionIsSeq
<1>6. ASSUME NEW i \in 1..Len(s.environments)
      PROVE  /\ s.environments[i].values
                  \in [DOMAIN s.environments[i].values \cap Names -> Known(s)]
             /\ s.environments[i].enclosing < i
  <2>1. PICK bound \in SUBSET Names : s.environments[i].values \in [bound -> Known(s)]
    BY <1>3 DEF Scopes
  <2>2. DOMAIN s.environments[i].values \cap Names = bound
    BY <2>1
  <2> QED BY <2>1, <2>2 DEF Typed
<1>7. s \in [environments : Seq(Scope1(s)), environment : 1..Len(s.environments),
            functions : Seq(Callable(s)), heap : Seq(Seq(Known(s))), output : Seq(Known(s)),
            result : Known(s), signal : Thrown \cup {"none"}, agenda : Seq(AgendaStep(s)),
            calls : Seq(ActiveCall(s))]
  BY <1>5 DEF Typed
<1> QED BY <1>2, <1>6, <1>7 DEF ObjectsExist

\* Whatever a value, an environment, a function, a call or a step still to come
\* refers to has been made before: a name that is looked up, a call and the body
\* that is left never find an environment or a function missing
\* (interpreter.cpp:51-192).
THEOREM InterpreterTypes ==
  InterpreterSpec => []InterpreterTypeOK
<1>1. Inv(interpreter) => InterpreterTypeOK
  BY TypedObjects DEF Inv, InterpreterTypeOK
<1> QED BY <1>1, InterpreterInvariant, PTL

\* However a program ends, the next one starts in the global environment
\* (interpreter.cpp:82-92).
THEOREM BackInGlobalsAlways ==
  InterpreterSpec => []BackInGlobals
<1>1. Inv(interpreter) => BackInGlobals
  BY DEF Inv, Chain, BackInGlobals, Idle
<1> QED BY <1>1, InterpreterInvariant, PTL

\* Every active call runs in an environment of its own that binds its parameters
\* and is enclosed by the one where its function was defined
\* (interpreter.cpp:68-73 and 180-192).
THEOREM LexicalScopes ==
  InterpreterSpec => []ScopesAreLexical
<1>1. ASSUME Inv(interpreter) PROVE ScopesAreLexical
  <2> DEFINE s == interpreter
  <2>1. Typed(s) /\ Chain(s) /\ Lexical(s)
    BY <1>1 DEF Inv
  <2>2. s.calls \in Seq(ActiveCall(s)) /\ Len(s.calls) \in Nat
    BY <2>1, Fields
  <2>3. DOMAIN s.calls = 1..Len(s.calls)
    BY <2>2, LenProperties
  <2>4. ASSUME NEW i \in 1..Len(s.calls) PROVE s.calls[i].previous < ScopeOf(s, i)
    <3>1. CASE i = Len(s.calls)
      BY <2>1, <3>1 DEF Chain, ScopeOf
    <3>2. CASE i # Len(s.calls)
      <4>1. i + 1 \in 1..Len(s.calls) /\ i < i + 1
        BY <2>2, <3>2
      <4> QED BY <2>1, <3>2, <4>1 DEF Chain, ScopeOf
    <3> QED BY <3>1, <3>2
  <2> QED BY <2>1, <2>3, <2>4 DEF ScopesAreLexical, Lexical, Encloses
<1> QED BY <1>1, InterpreterInvariant, PTL

\* No step changes a variable of an environment that a caller is waiting in, the
\* globals included, as long as it waits (interpreter.cpp:55, 72 and 182-187).
THEOREM CallersVariablesKept ==
  InterpreterSpec => CallersKeepVariables
<1> DEFINE Kept == \A i \in DOMAIN interpreter.calls :
                     LET caller == interpreter.calls[i].previous
                     IN interpreter.environments'[caller] = interpreter.environments[caller]
<1>1. /\ Inv(interpreter)
      /\ [InterpretNext \/ \E program \in Seq(Stmts) : Interpret(program)]_interpreter
      => [Kept]_interpreter
  <2> SUFFICES ASSUME Inv(interpreter),
                      InterpretNext \/ \E program \in Seq(Stmts) : Interpret(program)
               PROVE  Kept
    OBVIOUS
  <2>1. Keeps(interpreter, interpreter')
    BY StepKeeps DEF Goes
  <2>2. DOMAIN interpreter.calls = 1..Len(interpreter.calls)
    BY Fields, LenProperties DEF Inv
  <2> QED BY <2>1, <2>2 DEF Keeps
<1>2. InterpreterSpec => [][Kept]_interpreter
  BY <1>1, InterpreterInvariant, PTL DEF InterpreterSpec
<1> QED BY <1>2 DEF CallersKeepVariables
=============================================================================
