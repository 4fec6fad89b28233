----------------------------- MODULE CallStacks ------------------------------
(***************************************************************************)
(* What the virtual machine promises of calls.  The code of a function is  *)
(* written as if each call had operands of its own: it begins with none,   *)
(* nobody else changes them, and what it leaves is one value for its       *)
(* caller.  The machine has one stack for all of them (module              *)
(* StackRefinement).                                                       *)
(***************************************************************************)
EXTENDS Integers, Sequences

CONSTANT Programs

VARIABLES
  calls,      \* the operands of each call, the innermost last
  finished    \* the programs that came to their end

vars == <<calls, finished>>

Nesting == Len(calls)
Innermost == calls[Nesting]

Init == calls = <<>> /\ finished = {}

Begin == calls = <<>> /\ calls' = <<<<>>>> /\ UNCHANGED finished

\* An instruction works on the operands of the innermost call, whatever it does.
Work ==
  /\ calls # <<>>
  /\ Len(calls') = Nesting
  /\ \A i \in 1..(Nesting - 1) : calls'[i] = calls[i]
  /\ UNCHANGED finished

\* The callee and its arguments are taken from the caller, and the callee starts.
Enter ==
  /\ calls # <<>>
  /\ \E left \in 0..(Len(Innermost) - 1) :
       calls' = [i \in 1..(Nesting + 1) |-> IF i < Nesting THEN calls[i]
                                          ELSE IF i = Nesting THEN SubSeq(Innermost, 1, left)
                                          ELSE <<>>]
  /\ UNCHANGED finished

\* A call leaves exactly one value, which its caller gets as one more operand.
Leave ==
  /\ Nesting > 1
  /\ Len(Innermost) = 1
  /\ calls' = [i \in 1..(Nesting - 1) |-> IF i = Nesting - 1 THEN Append(calls[i], Innermost[1])
                                        ELSE calls[i]]
  /\ UNCHANGED finished

\* A program comes to its end outside all calls and with nothing left over.
Finish(p) ==
  /\ calls = <<<<>>>>
  /\ calls' = <<>>
  /\ p \notin finished /\ finished' = finished \cup {p}

\* An error, wherever it happens, ends all calls.
Abort == calls # <<>> /\ calls' = <<>> /\ UNCHANGED finished

Next == Begin \/ Work \/ Enter \/ Leave \/ (\E p \in Programs : Finish(p)) \/ Abort

Spec == Init /\ [][Next]_vars
=============================================================================
