---------------------------- MODULE Differential ----------------------------
(***************************************************************************)
(* The two engines side by side: a program is compiled and run on a fresh  *)
(* virtual machine, and interpreted by a fresh interpreter.  The README    *)
(* calls the machine "the path that will become the final language         *)
(* runtime"; until then the engines have to agree.                         *)
(***************************************************************************)
EXTENDS VirtualMachine, Interpreter, SequencesExt

CONSTANT Programs   \* the syntax tree of each unit

\* One program in the life of both engines.  They share nothing: the machine may
\* as well wait until the interpreter is done.
RunOne ==
  /\ \A u \in Units : outcome[u] = "none"
  /\ \E u \in Units : Execute(u) /\ Interpret(Programs[u])

RunInterpreter == InterpretNext /\ UNCHANGED vars
RunMachine == Idle(interpreter) /\ Step /\ UNCHANGED interpreter

DifferentialInit == Init /\ InterpreterInit
DifferentialNext == RunInterpreter \/ RunMachine \/ RunOne
DifferentialSpec ==
  /\ DifferentialInit
  /\ [][DifferentialNext]_<<vars, interpreter>>
  /\ WF_<<vars, interpreter>>(RunInterpreter)
  /\ WF_<<vars, interpreter>>(RunMachine)

\* What interpret() comes to.
RECURSIVE Interpreted(_)
Interpreted(s) == IF Idle(s) THEN s ELSE Interpreted(GoOn(s))

\* What a value looks like when it is printed: all functions look alike.
RECURSIVE Shown(_, _)
Shown(v, elements) ==
  CASE v.tag = "List" ->
         [tag |-> "List", elements |-> [i \in DOMAIN elements[v.list] |->
                                           Shown(elements[v.list][i], elements)]]
    [] v.tag = "Function" -> [tag |-> "Function"]
    [] OTHER -> v
AllShown(values, elements) == [i \in DOMAIN values |-> Shown(values[i], elements)]

\* The interpreter's wording of an error of the machine.
Wording(error) ==
  CASE error = "unary '-' requires a number" -> "unary operator requires a number"
    [] error = "comparison requires numeric operands" ->
         "operator requires compatible numeric operands"
    [] error = "can only call compiled functions" -> "can only call functions"
    [] error = "finished" -> "none"
    [] OTHER -> error

GlobalOf(s, name) ==
  IF name \in DOMAIN s.environments[1].values THEN s.environments[1].values[name]
  ELSE Unbound

\* The machine left the globals that the interpreter i did.
SameGlobals(i) ==
  \A name \in Names : Shown(globals[name], heap) = Shown(GlobalOf(i, name), i.heap)

\* The machine printed what the interpreter i did, ended in the same way and left
\* the same globals.
Agrees(u, i) ==
  /\ AllShown(output, heap) = AllShown(i.output, i.heap)
  /\ Wording(outcome[u]) = i.signal
  /\ SameGlobals(i)

\* The interpreter looks at the callee before it evaluates the arguments, the
\* machine after: it may print more, and fail in an argument, but it fails too.
StoppedAtCallee(u, i) ==
  /\ i.signal = "can only call functions" /\ outcome[u] # "finished"
  /\ IsPrefix(AllShown(i.output, i.heap), AllShown(output, heap))
  /\ SameGlobals(i)

\* Compiled and interpreted, a program of the usual kind prints the same, ends in
\* the same way and leaves the same globals, but for what the arguments of a call
\* print when the callee is no function, and unless the system ends one of the two
\* (compiler.cpp and virtual_machine.cpp against interpreter.cpp:41-192).
EnginesAgree ==
  \A u \in Units :
    outcome[u] # "none" /\ "killed" \notin {outcome[u], interpreter.signal} =>
      Agrees(u, interpreter) \/ StoppedAtCallee(u, interpreter)

-----------------------------------------------------------------------------
(* Where the engines differ, the compiled program means what the interpreter   *)
(* makes of another one, in which no operand has a plus for a sign, only the    *)
(* first of several parameters of one name has that name, and every function    *)
(* is made once, before the program, and only named where its def stands.       *)

RECURSIVE Unsigned(_)
UnsignedAll(expressions) == [i \in DOMAIN expressions |-> Unsigned(expressions[i])]
Unsigned(e) ==
  CASE e.kind \in {"Literal", "Variable"} -> e
    [] e.kind = "List" -> ListExpr(UnsignedAll(e.elements))
    [] e.kind = "Unary" -> IF e.op = "Plus" THEN Unsigned(e.right)
                           ELSE UnaryExpr(e.op, Unsigned(e.right))
    [] e.kind = "Binary" -> BinaryExpr(Unsigned(e.left), e.op, Unsigned(e.right))
    [] e.kind = "Call" -> CallExpr(Unsigned(e.callee), UnsignedAll(e.arguments))

\* Names that are in no program.
SpareName(i) == <<"spare", ToString(i)>>
FirstNamed(parameters) ==
  [i \in DOMAIN parameters |->
     IF \E j \in 1..(i - 1) : parameters[j] = parameters[i] THEN SpareName(-i) ELSE parameters[i]]

\* made are the functions so far, done the statements with the names of functions
\* in the place of their defs.
RECURSIVE Lift(_, _)
LiftAll(made, statements) == FoldLeft(Lift, [made |-> made, done |-> <<>>], statements)
Lift(lifted, s) ==
  LET Done(made, statement) == [made |-> made, done |-> Append(lifted.done, statement)]
      body == LiftAll(lifted.made, s.body)
      then == LiftAll(lifted.made, s.then_branch)
      else == LiftAll(then.made, s.else_branch[1])
      function == FunctionStmt(SpareName(Len(body.made)), FirstNamed(s.parameters), body.done)
  IN CASE s.kind = "Function" ->
            Done(Append(body.made, function), AssignmentStmt(s.name, VariableExpr(function.name)))
       [] s.kind = "While" -> Done(body.made, WhileStmt(Unsigned(s.condition), body.done))
       [] s.kind = "If" ->
            IF s.else_branch = <<>>
            THEN Done(then.made, IfStmt(Unsigned(s.condition), then.done, <<>>))
            ELSE Done(else.made, IfStmt(Unsigned(s.condition), then.done, <<else.done>>))
       [] s.kind \in {"Expression", "Print"} ->
            Done(lifted.made, [s EXCEPT !.expression = Unsigned(@)])
       [] s.kind = "Assignment" -> Done(lifted.made, [s EXCEPT !.value = Unsigned(@)])
       [] s.kind = "Return" -> Done(lifted.made, [s EXCEPT !.value = UnsignedAll(@)])

Lifted(program) == LET all == LiftAll(<<>>, program) IN all.made \o all.done

\* That program is all the difference there is: without closures, with one object
\* for each def, the first of equal parameters, and no unary plus, the machine
\* does what the interpreter does (compiler.cpp:47-51 and 76-78,
\* virtual_machine.cpp:168-170, against interpreter.cpp:68-73, 119-123, 182-184).
LiftedAgrees ==
  \A u \in Units :
    outcome[u] # "none" => Agrees(u, Interpreted(Begin(NewInterpreter, Lifted(Programs[u]))))
=============================================================================
