------------------------------- MODULE Sessions -------------------------------
(***************************************************************************)
(* A session at the prompt (repl() in src/src/main.cpp): one machine runs  *)
(* program after program, each compiled to echo its expressions, and an    *)
(* error ends a program and not the session.  Beside it one interpreter is *)
(* given the same programs, with the echo written out, for it has none.    *)
(***************************************************************************)
EXTENDS Differential

CONSTANT SessionLength   \* programs in a session

ASSUME SessionAssumption == SessionLength \in Nat

VARIABLE session   \* the programs entered so far

sessionVars == <<vars, interpreter, session>>

\* The statements that echo are those outside functions, in blocks too.
RECURSIVE EchoingStatement(_)
Echoing(program) == [i \in DOMAIN program |-> EchoingStatement(program[i])]
EchoingStatement(s) ==
  CASE s.kind = "Expression" -> PrintStmt(s.expression)
    [] s.kind = "If" -> IfStmt(s.condition, Echoing(s.then_branch),
                               [i \in DOMAIN s.else_branch |-> Echoing(s.else_branch[i])])
    [] s.kind = "While" -> WhileStmt(s.condition, Echoing(s.body))
    [] OTHER -> s

\* execute_source() with the next program of the prompt, and interpret() with
\* the same one.
EnterProgram(u) ==
  /\ Len(session) < SessionLength
  /\ Execute(u)
  /\ interpreter' = Interpreted(Begin(interpreter, Echoing(Programs[u])))
  /\ session' = Append(session, u)

SessionInit == DifferentialInit /\ session = <<>>
SessionNext == \/ RunMachine /\ UNCHANGED session
               \/ \E u \in Units : EnterProgram(u)
SessionSpec == SessionInit /\ [][SessionNext]_sessionVars

AtPrompt == ~Running /\ session # <<>>

\* Between two programs both engines have printed the same, hold the same globals
\* and ended the last one in the same way, whatever errors came before: what a
\* failed program leaves in the stacks of either, or half done in the globals,
\* makes no difference to those that follow (virtual_machine.cpp:32-34,
\* interpreter.cpp:41-47, 82-92).
SessionsAgree == AtPrompt => Agrees(Last(session), interpreter)

\* As long as no program but the last fails, a session at the prompt is one program
\* with the lines of all: globals, functions and lists outlive the program that
\* made them, and nothing else does (main.cpp:13-18, 54, 97-98).
WholeSession == FlattenSeq([i \in DOMAIN session |-> Echoing(Programs[session[i]])])
SessionIsOneProgram ==
  AtPrompt /\ (\A i \in 1..(Len(session) - 1) : outcome[session[i]] = "finished") =>
    Agrees(Last(session), Interpreted(Begin(NewInterpreter, WholeSession)))
=============================================================================
