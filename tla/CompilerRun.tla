----------------------------- MODULE CompilerRun -----------------------------
(***************************************************************************)
(* One use of a Compiler object: compile() takes the statements of a       *)
(* program one after the other, and each function it meets is left to a    *)
(* Compiler of its own (src/src/compiler/compiler.cpp:12-136).             *)
(***************************************************************************)
EXTENDS Compiler, Trees

CONSTANTS
  Programs,       \* the programs that may be compiled
  Echo            \* the echo_expressions argument

ASSUME ProgramsAssumption == Programs \subseteq Seq(Stmts)

\* The count of arguments of a built-in fits into its part of the operand.
ASSUME ArgumentsAssumption ==
  \A e \in Exprs :
    e.kind = "Call" /\ BuiltinsNamed(e.callee) # {} => Len(e.arguments) < ArgumentLimit

ASSUME EchoAssumption == Echo \in BOOLEAN

\* Every function has an identity of its own.
ASSUME HandleAssumption == Handle = Seq(Nat)

VARIABLE
  compilers   \* the active Compiler objects, the one of the innermost function last

vars == compilers

Root == <<0>>

Nesting == Len(compilers)
Innermost == compilers[Nesting]

Init == \E program \in Programs : compilers = <<NewCompiler(Root, Echo, program)>>

CompileNext ==
  /\ ~Innermost.failed
  /\ Innermost.agenda # <<>>
  /\ ~Declares(Innermost)
  /\ compilers' = [compilers EXCEPT ![Nesting] = Work(@)]

BeginFunction ==
  /\ ~Innermost.failed
  /\ Declares(Innermost)
  /\ compilers' = Append(compilers, Nested(Innermost))

\* The nested compiler is done, or an exception leaves it.
EndFunction ==
  /\ Nesting > 1
  /\ Innermost.failed \/ Innermost.agenda = <<>>
  /\ compilers' = Append(SubSeq(compilers, 1, Nesting - 2),
                         CompileDefinition(compilers[Nesting - 1], Innermost))

Next == CompileNext \/ BeginFunction \/ EndFunction

Spec == Init /\ [][Next]_vars

-----------------------------------------------------------------------------
(* Properties. *)

\* Code that is written to the end: that of the functions, and in the end that
\* of the program.
Done == Nesting = 1 /\ Innermost.agenda = <<>> /\ ~Innermost.failed
Functions(c) == {c.chunks[h] : h \in DOMAIN c.chunks}
FunctionsWritten == UNION {Functions(compilers[i]) : i \in {j \in 1..Nesting : ~compilers[j].failed}}
Written ==
  FunctionsWritten \cup
    IF Done THEN {[code |-> Innermost.code, constants |-> Innermost.constants, parameters |-> <<>>]}
    ELSE {}

\* The code of every program and function is well formed and its operands
\* balance: jumps have a target, go to the start of a statement and stay inside
\* the chunk, constants exist, and no path of the code leaves an operand behind
\* or takes one too many.  The machine relies on all of it without a check of
\* its own (compiler.cpp:18-118).
CodeBalances ==
  \A chunk \in Written : WellFormed(chunk) /\ Balanced(chunk, DepthsOf(chunk))

\* Control cannot fall out of the end of a function, where the machine would
\* drop the frame without a result on the stack, whatever the branches, loops
\* and returns of its body (compiler.cpp:130-136).
FunctionsReturn == \A chunk \in FunctionsWritten : AlwaysReturns(chunk)

\* Statements that print nothing but what they echo: neither they nor those in
\* them, nor those in the body of any function, are print statements.
Printless(quiet) ==
  /\ \A s \in quiet :
       /\ s.kind # "Print"
       /\ s.kind = "If" => /\ s.then_branch \in Seq(quiet)
                           /\ s.else_branch = <<>> \/ s.else_branch[1] \in Seq(quiet)
       /\ s.kind = "While" => s.body \in Seq(quiet)
  /\ \A s \in Stmts : s.kind = "Function" => s.body \in Seq(quiet)

\* Only the expressions typed at the prompt are echoed, never those in the body
\* of a function: when no function has a print statement (Printless), none has
\* an instruction that prints (README.md:64, compiler.cpp:21 and 131).
OnlyTopLevelEchoes ==
  \A chunk \in FunctionsWritten :
    \A i \in DOMAIN chunk.code : chunk.code[i].op # "Print"
=============================================================================
