------------------------------- MODULE Prompt --------------------------------
(***************************************************************************)
(* The process (src/src/main.cpp): what main() does for each number of     *)
(* arguments; for the prompt, repl(), one action for each way through the  *)
(* body of its loop, and one for the end of the input.                     *)
(*                                                                         *)
(* A line is a sequence of classes of characters.  What execute_source()   *)
(* makes of a unit is left open: whatever it throws is caught and changes  *)
(* nothing at the prompt, so a unit is only noted in executed.             *)
(***************************************************************************)
EXTENDS Integers, SequencesExt

CONSTANTS
  Lines,       \* the lines that are typed, or in a file
  LineLimit    \* bound: how many of them in a session, and in a file

CharacterClass == {"space", "letter", "colon", "hash", "quote", "quit"}

ASSUME PromptAssumption ==
  /\ Lines \subseteq Seq(CharacterClass)
  /\ LineLimit \in Nat

VARIABLES
  entered,     \* the lines read so far
  buffer,      \* buffer, a sequence of lines
  multiline,   \* multiline
  executed,    \* the units given to execute_source(), each a sequence of lines
  argc,        \* argc, the words of the command line
  exit         \* what main() returns

session == <<entered, buffer, multiline, executed>>
vars == <<session, argc, exit>>

NoExit == -1
ExitCode == {0, 1, 64, 66}
ended == exit # NoExit

\* trim(); the text of ":quit" is one class.
Trim(line) ==
  LET code == {i \in DOMAIN line : line[i] # "space"}
  IN IF code = {} THEN <<>> ELSE SubSeq(line, Min(code), Max(code))
IsBlank(line) == Trim(line) = <<>>
IsQuit(line) == Trim(line) = <<"quit">>

\* The line up to the first '#', wherever that is, and whether it ends in ':'.
Code(line) ==
  LET hashes == {i \in DOMAIN line : line[i] = "hash"}
  IN Trim(IF hashes = {} THEN line ELSE SubSeq(line, 1, Min(hashes) - 1))

\* Mutant: the whole line counts, comment and all.
StartsBlockWithComment(line) == ~IsBlank(line) /\ Last(Trim(line)) = "colon"

StartsBlock(line) == Code(line) # <<>> /\ Last(Code(line)) = "colon"

Init ==
  /\ entered = <<>>
  /\ buffer = <<>>
  /\ multiline = FALSE
  /\ executed = <<>>
  /\ argc \in 1..3
  /\ exit = NoExit

\* More arguments than the name of a file.
Usage == ~ended /\ argc > 2 /\ exit' = 64 /\ UNCHANGED <<session, argc>>

CannotOpen == ~ended /\ argc = 2 /\ exit' = 66 /\ UNCHANGED <<session, argc>>

\* The whole file is one unit, blank lines and all.  An exception changes the
\* exit code.
RunFile ==
  /\ ~ended /\ argc = 2
  /\ \E k \in 0..LineLimit : entered' \in [1..k -> Lines]
  /\ executed' = <<entered'>>
  /\ exit' \in {0, 1}
  /\ UNCHANGED <<buffer, multiline, argc>>

-----------------------------------------------------------------------------
(* The prompt.  argc and exit stay as they are until the loop is left. *)

Prompts == ~ended /\ argc = 1
Leaves == exit' = 0 /\ UNCHANGED argc
Stays == UNCHANGED <<argc, exit>>

\* getline() has given another line.
Reads(line) ==
  /\ Prompts
  /\ Len(entered) < LineLimit
  /\ line \in Lines
  /\ entered' = Append(entered, line)

Quit(line) ==
  /\ Reads(line)
  /\ buffer = <<>> /\ IsQuit(line)
  /\ Leaves
  /\ UNCHANGED <<buffer, multiline, executed>>

IgnoreBlank(line) ==
  /\ Reads(line)
  /\ buffer = <<>> /\ IsBlank(line)
  /\ Stays
  /\ UNCHANGED <<buffer, multiline, executed>>

\* Mutant: the block is kept when it fails.
RunBlockKept(line) ==
  /\ Reads(line)
  /\ buffer # <<>> /\ multiline /\ IsBlank(line)
  /\ executed' = Append(executed, buffer)
  /\ multiline' = FALSE
  /\ Stays
  /\ UNCHANGED buffer

\* Mutant: multiline is not reset.
RunBlockStaysMultiline(line) ==
  /\ Reads(line)
  /\ buffer # <<>> /\ multiline /\ IsBlank(line)
  /\ executed' = Append(executed, buffer)
  /\ buffer' = <<>>
  /\ Stays
  /\ UNCHANGED multiline

\* A blank line runs the block.
RunBlock(line) ==
  /\ Reads(line)
  /\ buffer # <<>> /\ multiline /\ IsBlank(line)
  /\ executed' = Append(executed, buffer)
  /\ buffer' = <<>>
  /\ multiline' = FALSE
  /\ Stays

\* A line goes to the buffer, and stays there or is run with it.
AddLine(line) ==
  /\ Reads(line)
  /\ IF buffer = <<>> THEN ~IsQuit(line) /\ ~IsBlank(line) ELSE ~(multiline /\ IsBlank(line))
  /\ LET begins == buffer = <<>> /\ StartsBlock(line)
     IN IF begins \/ multiline
        THEN /\ multiline' = TRUE
             /\ buffer' = Append(buffer, line)
             /\ UNCHANGED executed
        ELSE /\ executed' = Append(executed, Append(buffer, line))
             /\ buffer' = <<>>
             /\ UNCHANGED multiline
  /\ Stays

\* Mutant: nothing is run, too.
EndOfInputRuns ==
  /\ Prompts
  /\ Leaves
  /\ executed' = Append(executed, buffer)
  /\ UNCHANGED <<entered, buffer, multiline>>

\* The input is at its end; what is in the buffer is run.
EndOfInput ==
  /\ Prompts
  /\ Leaves
  /\ executed' = IF buffer = <<>> THEN executed ELSE Append(executed, buffer)
  /\ UNCHANGED <<entered, buffer, multiline>>

Next ==
  \/ Usage \/ CannotOpen \/ RunFile
  \/ \E line \in Lines : Quit(line)
  \/ \E line \in Lines : IgnoreBlank(line)
  \/ \E line \in Lines : RunBlock(line)
  \/ \E line \in Lines : AddLine(line)
  \/ EndOfInput

Spec == Init /\ [][Next]_vars

-----------------------------------------------------------------------------
(* Properties. *)

\* A line as the lexer reads it: a '#' in a string begins no comment.
InString(line, i) == Cardinality({j \in 1..(i - 1) : line[j] = "quote"}) % 2 = 1
Comments(line) == {i \in DOMAIN line : line[i] = "hash" /\ ~InString(line, i)}
Statement(line) ==
  Trim(IF Comments(line) = {} THEN line ELSE SubSeq(line, 1, Min(Comments(line)) - 1))
OpensBlock(line) == Statement(line) # <<>> /\ Last(Statement(line)) = "colon"
HasQuotedHash(line) == \E i \in DOMAIN line : line[i] = "hash" /\ InString(line, i)

\* Every variable has its type.
TypeOK ==
  /\ entered \in Seq(Lines) /\ Len(entered) <= LineLimit
  /\ buffer \in Seq(Lines)
  /\ multiline \in BOOLEAN
  /\ executed \in Seq(Seq(Lines))
  /\ argc = 1 => <<>> \notin Range(executed)
  /\ argc \in 1..3
  /\ exit \in ExitCode \cup {NoExit}

\* Between two lines the buffer holds a block or nothing, and multiline says
\* which (main.cpp:44-66): otherwise a line would wait for no block, or a blank
\* line would run one twice.
BufferIsBlock ==
  /\ multiline <=> buffer # <<>>
  /\ multiline => StartsBlock(buffer[1])
  /\ \A i \in DOMAIN buffer : ~IsBlank(buffer[i])

\* The lines that are not blank.
CodeLines(lines) ==
  LET keep[i \in 0..Len(lines)] ==
        IF i = 0 THEN <<>>
        ELSE IF IsBlank(lines[i]) THEN keep[i - 1] ELSE Append(keep[i - 1], lines[i])
  IN keep[Len(lines)]

\* Every line that is not blank is run exactly once, in the order in which the
\* lines were entered; ":quit" is the only one that may be left out, at the end,
\* and only at the prompt (main.cpp:37-102).
EveryLineOnce ==
  LET run == CodeLines(FlattenSeq(executed) \o (IF ended THEN <<>> ELSE buffer))
      code == CodeLines(entered)
  IN \/ run = code
     \/ /\ ended /\ argc = 1
        /\ IsQuit(Last(entered)) /\ Append(run, Last(entered)) = code

Whole(units) ==
  OpensBlock(Last(units)[1]) <=> IsBlank(Last(entered')) \/ ended'

\* A unit whose first line opens a block is run by a blank line or the end of
\* the input, every other one at once (src/README.md:64).
BlocksRunWhole == [][argc = 1 /\ executed' # executed => Whole(executed')]_vars

\* The same, of lines without a '#' in a string.
PlainBlocksRunWhole ==
  [][argc = 1 /\ executed' # executed /\ ~HasQuotedHash(Last(executed')[1]) =>
       Whole(executed')]_vars
=============================================================================
