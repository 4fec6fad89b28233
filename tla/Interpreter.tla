----------------------------- MODULE Interpreter -----------------------------
(***************************************************************************)
(* The AST interpreter (src/src/runtime/interpreter.cpp, environment.cpp), *)
(* the engine the virtual machine replaces.  An Interpreter object is a    *)
(* record that each operator takes and returns changed:                    *)
(*   environments   the Environment objects made so far; 1 is globals_     *)
(*   environment    environment_, a position in environments               *)
(*   functions      the Function objects made so far                       *)
(*   heap           the elements of the List objects made so far           *)
(*   output         the values printed so far                              *)
(*   result         the value of the last expression                       *)
(*   signal         "none", or what has been thrown: "return", an error    *)
(*   agenda         what the innermost function has still to do, first the *)
(*                  next step: the descent of execute() and evaluate()     *)
(*   calls          the active calls, the innermost last, each with what   *)
(*                  its caller goes on with                                *)
(***************************************************************************)
EXTENDS Trees, Functions

CONSTANT CallLimit   \* nested calls that fit on the C++ stack

VARIABLE interpreter

NewInterpreter ==
  [environments |-> <<[values |-> <<>>, enclosing |-> 0]>>, environment |-> 1,
   functions |-> <<>>, heap |-> <<>>, output |-> <<>>, result |-> NoneValue,
   signal |-> "none", agenda |-> <<>>, calls |-> <<>>]

\* Nothing that is left to do in a function is done after an exception.
Throw(s, signal) == [s EXCEPT !.signal = signal, !.agenda = <<>>]
Yield(s, value) == [s EXCEPT !.result = value]
Write(s, value) == [s EXCEPT !.output = Append(@, value)]
YieldList(s, elements) ==
  [s EXCEPT !.heap = Append(@, elements), !.result = List(Len(s.heap) + 1)]

Do(s, steps) == [s EXCEPT !.agenda = steps \o @]
Execution(statements) == [i \in DOMAIN statements |-> <<"Execute", statements[i]>>]

-----------------------------------------------------------------------------
(* Environments. *)

\* Mutant: a name that is bound in the globals is given the value there.
DefineOutside(s, name, value) ==
  LET outer == name \in DOMAIN s.environments[1].values
                 /\ name \notin DOMAIN s.environments[s.environment].values
  IN [s EXCEPT !.environments[IF outer THEN 1 ELSE s.environment].values =
        [x \in DOMAIN @ \cup {name} |-> IF x = name THEN value ELSE @[x]]]

\* Environment::define().
Define(s, name, value) ==
  [s EXCEPT !.environments[s.environment].values =
     [x \in DOMAIN @ \cup {name} |-> IF x = name THEN value ELSE @[x]]]

\* Environment::get(), which goes on in the enclosing environment.
Get(s, environment, name) ==
  LET e == s.environments[environment]
  IN IF name \in DOMAIN e.values THEN Yield(s, e.values[name])
     ELSE IF e.enclosing # 0 THEN Do(s, <<<<"Get", e.enclosing, name>>>>)
     ELSE Throw(s, "undefined variable")

\* Of several parameters of one name the last counts.
LastOf(parameters, name) ==
  CHOOSE i \in DOMAIN parameters :
    /\ parameters[i] = name
    /\ \A j \in DOMAIN parameters : parameters[j] = name => j <= i
Bound(parameters, arguments) ==
  [name \in Range(parameters) |-> arguments[LastOf(parameters, name)]]

\* Mutant: a function sees the variables of its caller.
LocalOfCaller(s, function, arguments) ==
  [values |-> Bound(function.declaration.parameters, arguments), enclosing |-> s.environment]

\* The environment of a call.
Local(s, function, arguments) ==
  [values |-> Bound(function.declaration.parameters, arguments), enclosing |-> function.closure]

-----------------------------------------------------------------------------
(* Operators and built-in functions. *)

ValuesEqual(l, r) == IF IsNumber(l) /\ IsNumber(r) THEN NumberEqual(l, r) ELSE l = r

EvaluateUnary(s, op, right) ==
  IF ~IsNumber(right) THEN Throw(s, "unary operator requires a number")
  ELSE Yield(s, IF op = "Minus" THEN Negation(right) ELSE right)

NumericResult(op, l, r) ==
  CASE op = "Plus" -> Sum(l, r)
    [] op = "Minus" -> Difference(l, r)
    [] op = "Star" -> Product(l, r)
    [] op = "Slash" -> Quotient(l, r)
    [] op = "Percent" -> Remainder(l, r)
    [] op = "Less" -> Boolean(NumberLess(l, r))
    [] op = "LessEqual" -> Boolean(~NumberLess(r, l))
    [] op = "Greater" -> Boolean(NumberLess(r, l))
    [] op = "GreaterEqual" -> Boolean(~NumberLess(l, r))

EvaluateBinary(s, op, l, r) ==
  IF op = "EqualEqual" THEN Yield(s, Boolean(ValuesEqual(l, r)))
  ELSE IF op = "BangEqual" THEN Yield(s, Boolean(~ValuesEqual(l, r)))
  ELSE IF op = "Plus" /\ l.tag = "String" /\ r.tag = "String"
  THEN Yield(s, String(l.text \o r.text))
  ELSE IF ~IsNumber(l) \/ ~IsNumber(r)
  THEN Throw(s, "operator requires compatible numeric operands")
  ELSE IF op = "Percent" /\ ~AreIntegers(l, r)
  THEN Throw(s, "'%' requires integer operands")
  ELSE IF op \in {"Slash", "Percent"} /\ Numerator(r) = 0
  THEN Throw(s, "division by zero")
  ELSE Yield(s, NumericResult(op, l, r))

Invoke(s, builtin, arguments) ==
  CASE BuiltinRejects(builtin, arguments) -> Throw(s, "built-in rejects its arguments")
    [] ~BuiltinRejects(builtin, arguments) /\ builtin = "len" ->
         Yield(s, Integer(Wrap(LengthOf(arguments[1], s.heap))))
    [] ~BuiltinRejects(builtin, arguments) /\ builtin = "type" ->
         Yield(s, String(TypeName[arguments[1].tag]))
    [] ~BuiltinRejects(builtin, arguments) /\ builtin = "range" ->
         IF RangeExhausts(arguments) THEN Throw(s, "out of memory")
         ELSE YieldList(s, RangeElements(arguments))

-----------------------------------------------------------------------------
(* Calls. *)

\* call_function() and execute_block(), up to the statements of the body.
CallFunction(s, called, arguments) ==
  LET function == s.functions[called]
  IN IF Len(arguments) # Len(function.declaration.parameters)
     THEN Throw(s, "incorrect number of function arguments")
     ELSE IF Len(s.calls) = CallLimit THEN Throw(s, "killed")
     ELSE [s EXCEPT !.environments = Append(@, Local(s, function, arguments)),
                    !.environment = Len(s.environments) + 1,
                    !.calls = Append(@, [function |-> called, previous |-> s.environment,
                                         agenda |-> s.agenda]),
                    !.agenda = Execution(function.declaration.body)]

Innermost(s) == s.calls[Len(s.calls)]
Outer(calls) == SubSeq(calls, 1, Len(calls) - 1)

\* Mutant: an error leaves the body without restoring environment_.
RestoreUnlessThrown(s) ==
  [s EXCEPT !.environment = IF s.signal \in {"none", "return"} THEN Innermost(s).previous ELSE @,
            !.calls = Outer(@)]

\* Mutant: the variables of a call are gone when it is over.
RestoreAndFree(s) ==
  [s EXCEPT !.environment = Innermost(s).previous, !.calls = Outer(@),
            !.environments = Outer(@)]

\* execute_block() restores environment_ however the body is left.
Restore(s) == [s EXCEPT !.environment = Innermost(s).previous, !.calls = Outer(@)]

\* A return is the value of the call, and any other exception is thrown on.
LeaveCall(s) ==
  CASE s.signal = "return" ->
         [Restore(s) EXCEPT !.signal = "none", !.agenda = Innermost(s).agenda]
    [] s.signal = "none" ->
         [Restore(s) EXCEPT !.result = NoneValue, !.agenda = Innermost(s).agenda]
    [] OTHER -> Restore(s)

-----------------------------------------------------------------------------
(* Expressions. *)

BuiltinsCalled(e) ==
  {b \in Builtin : e.callee.kind = "Variable" /\ e.callee.name = BuiltinName[b]}
CallsFunction(e) == e.kind = "Call" /\ BuiltinsCalled(e) = {}

\* The expressions that are evaluated for e, in this order.
Operands(e) ==
  CASE e.kind = "List" -> e.elements
    [] e.kind = "Unary" -> <<e.right>>
    [] e.kind = "Binary" -> <<e.left, e.right>>
    [] e.kind = "Call" -> IF CallsFunction(e) THEN <<e.callee>> \o e.arguments
                          ELSE e.arguments

\* What is made of their values.
Combine(s, e, values) ==
  CASE e.kind = "List" -> YieldList(s, values)
    [] e.kind = "Unary" -> EvaluateUnary(s, e.op, values[1])
    [] e.kind = "Binary" -> EvaluateBinary(s, e.op, values[1], values[2])
    [] e.kind = "Call" -> IF CallsFunction(e)
                          THEN CallFunction(s, values[1].function, Tail(values))
                          ELSE Invoke(s, CHOOSE b \in BuiltinsCalled(e) : TRUE, values)

\* The callee is looked at before the arguments are evaluated.
EvaluateOperands(s, e, values) ==
  IF CallsFunction(e) /\ values # <<>> /\ values[1].tag # "Function"
  THEN Throw(s, "can only call functions")
  ELSE IF Len(values) = Len(Operands(e)) THEN Combine(s, e, values)
  ELSE Do(s, <<<<"Evaluate", Operands(e)[Len(values) + 1]>>, <<"Operand", e, values>>>>)

Evaluate(s, e) ==
  CASE e.kind = "Literal" -> IF e.value.tag = "Integer" /\ e.value.integer > IntegerMax
                             THEN Throw(s, "out of range") ELSE Yield(s, e.value)
    [] e.kind = "Variable" -> Get(s, s.environment, e.name)
    [] OTHER -> EvaluateOperands(s, e, <<>>)

-----------------------------------------------------------------------------
(* Statements. *)

ExpressionOf(statement) ==
  CASE statement.kind \in {"Expression", "Print"} -> statement.expression
    [] statement.kind = "Assignment" -> statement.value
    [] statement.kind \in {"If", "While"} -> statement.condition
    [] statement.kind = "Return" ->
         IF statement.value = <<>> THEN LiteralExpr(NoneValue) ELSE statement.value[1]

DefineFunction(s, statement) ==
  LET callable == [declaration |-> statement, closure |-> s.environment]
  IN Define([s EXCEPT !.functions = Append(@, callable)], statement.name,
            Function(Len(s.functions) + 1))

Execute1(s, statement) ==
  IF statement.kind = "Function" THEN DefineFunction(s, statement)
  ELSE Do(s, <<<<"Evaluate", ExpressionOf(statement)>>, <<"Finish", statement>>>>)

\* What execute() does with the value of the expression.
Finish(s, statement) ==
  CASE statement.kind = "Expression" -> s
    [] statement.kind = "Assignment" -> Define(s, statement.name, s.result)
    [] statement.kind = "Print" -> Write(s, s.result)
    [] statement.kind = "Return" -> Throw(s, "return")
    [] statement.kind = "If" ->
         IF Truthy(s.result, s.heap) THEN Do(s, Execution(statement.then_branch))
         ELSE IF statement.else_branch # <<>> THEN Do(s, Execution(statement.else_branch[1]))
         ELSE s
    [] statement.kind = "While" ->
         IF Truthy(s.result, s.heap)
         THEN Do(s, Execution(statement.body) \o <<<<"Execute", statement>>>>) ELSE s

-----------------------------------------------------------------------------
(* interpret(), step by step. *)

\* The program is over, and what it has thrown has been caught by whoever called.
Idle(s) == s.agenda = <<>> /\ s.calls = <<>> /\ s.signal # "return"

Begin(s, program) == [s EXCEPT !.signal = "none", !.agenda = Execution(program)]

Rest(s) == [s EXCEPT !.agenda = Tail(@)]

Perform(s, step) ==
  CASE step[1] = "Execute" -> Execute1(s, step[2])
    [] step[1] = "Finish" -> Finish(s, step[2])
    [] step[1] = "Evaluate" -> Evaluate(s, step[2])
    [] step[1] = "Operand" -> EvaluateOperands(s, step[2], Append(step[3], s.result))
    [] step[1] = "Get" -> Get(s, step[2], step[3])

\* A return that reaches the top is an error.
GoOn(s) ==
  IF s.agenda # <<>> THEN Perform(Rest(s), Head(s.agenda))
  ELSE IF s.calls # <<>> THEN LeaveCall(s)
  ELSE Throw(s, "'return' outside a function")

\* The next step is a remainder that traps.
Traps(s) ==
  /\ s.agenda # <<>>
  /\ LET step == Head(s.agenda)
     IN /\ step[1] = "Operand" /\ step[2].kind = "Binary" /\ step[2].op = "Percent"
        /\ step[3] # <<>> /\ AreIntegers(step[3][1], s.result)
        /\ RemainderTraps(step[3][1], s.result)

Interpret(program) == Idle(interpreter) /\ interpreter' = Begin(interpreter, program)

\* A remainder that traps yields 0 or ends the process.
InterpretNext ==
  /\ ~Idle(interpreter)
  /\ \/ interpreter' = GoOn(interpreter)
     \/ Traps(interpreter) /\ interpreter' = Throw(interpreter, "killed")

InterpreterInit == interpreter = NewInterpreter
InterpreterSpec ==
  InterpreterInit
    /\ [][InterpretNext \/ \E program \in Seq(Stmts) : Interpret(program)]_interpreter

-----------------------------------------------------------------------------
(* Properties. *)

\* The values there can be: each refers to an object that has been made.
Known(s) ==
  PlainValue(Len(s.heap)) \cup [tag : {"Function"}, function : 1..Len(s.functions)]

Scope1(s) ==
  [values : {e.values : e \in Range(s.environments)}, enclosing : 0..Len(s.environments)]
Callable(s) ==
  [declaration : {t \in Stmts : t.kind = "Function"}, closure : 1..Len(s.environments)]
AgendaStep(s) ==
  ({"Execute", "Finish"} \X Stmts)
    \cup ({"Evaluate"} \X (Exprs \cup {LiteralExpr(NoneValue)}))
    \cup ({"Operand"} \X Exprs \X Seq(Known(s)))
    \cup ({"Get"} \X (1..Len(s.environments)) \X Names)
ActiveCall(s) ==
  [function : 1..Len(s.functions), previous : 1..Len(s.environments),
   agenda : Seq(AgendaStep(s))]

Thrown ==
  {"undefined variable", "unary operator requires a number", "out of range",
   "operator requires compatible numeric operands", "'%' requires integer operands",
   "division by zero", "built-in rejects its arguments", "out of memory",
   "incorrect number of function arguments", "can only call functions",
   "'return' outside a function", "killed", "return"}

\* Whatever a value, an environment, a function, a call or a step still to come
\* refers to has been made before (interpreter.cpp:51-192).
ObjectsExist(s) ==
  /\ s \in [environments : Seq(Scope1(s)), environment : 1..Len(s.environments),
            functions : Seq(Callable(s)), heap : Seq(Seq(Known(s))), output : Seq(Known(s)),
            result : Known(s), signal : Thrown \cup {"none"}, agenda : Seq(AgendaStep(s)),
            calls : Seq(ActiveCall(s))]
  /\ \A i \in DOMAIN s.environments :
       LET e == s.environments[i]
       IN e.values \in [DOMAIN e.values \cap Names -> Known(s)] /\ e.enclosing < i
InterpreterTypeOK == ObjectsExist(interpreter)

\* The environment in which the function of the i-th active call runs.
ScopeOf(s, i) == IF i = Len(s.calls) THEN s.environment ELSE s.calls[i + 1].previous

\* However a program ends, with an exception out of nested calls too, the
\* interpreter is back in the global environment, where the next one starts
\* (interpreter.cpp:82-92).
BackInGlobals == Idle(interpreter) => interpreter.environment = 1

\* Every active call runs in an environment of its own, younger than all that were
\* there before, that binds its parameters and is enclosed by the one where its
\* function was defined, whoever calls it and whatever else that function, its
\* callers and the functions it calls have bound since (interpreter.cpp:68-73 and
\* 180-192).
ScopesAreLexical ==
  \A i \in DOMAIN interpreter.calls :
    LET scope == interpreter.environments[ScopeOf(interpreter, i)]
        function == interpreter.functions[interpreter.calls[i].function]
    IN /\ interpreter.calls[i].previous < ScopeOf(interpreter, i)
       /\ scope.enclosing = function.closure
       /\ Range(function.declaration.parameters) \subseteq DOMAIN scope.values

\* No call changes a variable of its callers, the globals included: a recursive
\* function finds its own as they were when the inner call is over
\* (interpreter.cpp:55, 72 and 182-187).
CallersKeepVariables ==
  [][\A i \in DOMAIN interpreter.calls :
       LET caller == interpreter.calls[i].previous
       IN interpreter.environments'[caller] = interpreter.environments[caller]]_interpreter
=============================================================================
