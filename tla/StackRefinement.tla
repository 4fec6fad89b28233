--------------------------- MODULE StackRefinement ---------------------------
(***************************************************************************)
(* The virtual machine implements CallStacks: its one stack, cut at the    *)
(* bases of the frames, is the operands of the calls.                      *)
(***************************************************************************)
EXTENDS VirtualMachine

\* The operands of the frames in the stack of the machine.
Base == CHOOSE base \in [1..Len(frames) -> 0..Len(stack)] : Bases(base)
Slice(i) == SubSeq(stack, Base[i] + 1, IF i = Len(frames) THEN Len(stack) ELSE Base[i + 1])
Slices == IF Running THEN [i \in 1..Len(frames) |-> Slice(i)] ELSE <<>>
Finished == {u \in Units : outcome[u] = "finished"}

Separate == INSTANCE CallStacks WITH Programs <- Units, calls <- Slices, finished <- Finished

\* To every program it looks as if each call had operands of its own, however
\* calls, returns and errors follow each other (virtual_machine.cpp:31-101).
CallsAreSeparate == Separate!Spec
=============================================================================
