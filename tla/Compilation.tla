---------------------------- MODULE Compilation ----------------------------
(***************************************************************************)
(* What a use of a Compiler object comes to (module CompilerRun takes the  *)
(* same steps one by one): compile(), src/src/compiler/compiler.cpp:12-16. *)
(***************************************************************************)
EXTENDS Compiler

RECURSIVE Completed(_)
Completed(c) ==
  IF c.failed \/ c.agenda = <<>> THEN c
  ELSE Completed(IF Declares(c) THEN CompileDefinition(c, Completed(Nested(c))) ELSE Work(c))

Compile(handle, program, echo) == Completed(NewCompiler(handle, echo, program))
=============================================================================
