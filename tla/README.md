# A verification development of SKript

SKript (`src/`) is a small Python-like language: a lexer, a parser, a compiler
to bytecode and a stack machine, and an older interpreter of the syntax tree
that the machine is to replace. The modules here model the part in which the
pieces rely on each other without checking: bytecode that the machine executes
blindly, one operand stack shared by all calls, frames that point to code they
do not own, tokens that the parser takes on trust, a prompt that goes on with
the same machine after an error, and two engines that have to mean the same. TLC
checks small instances. TLAPS proves the central invariants of the lexer, the
parser, the compiler, the machine, the interpreter and the prompt, and that the machine
implements one with a stack for each call, for every program, text and session.

Paths below are relative to `src/src/` unless they begin with `src/`.

## Inventory

| part | state | operations | it is correct when |
|---|---|---|---|
| lexer (`lexer/`) | position, line and column, `indentation_`, `at_line_start_`, tokens | `tokenize()` | indents and dedents balance, blank lines and comments do not count, places are right |
| parser (`parser/`) | tokens, `current_` | `parse()` | it ends, stays inside the tokens, accepts just the language, builds the one tree, sees an error where it is |
| syntax tree (`ast/`) | nodes, owned by their parents | | |
| compiler (`compiler/`) | `chunk_`, `echo_expressions_`; one compiler per function | `compile()` | jumps have targets, operands balance on every path, functions return, only the prompt echoes |
| bytecode (`compiler/bytecode.*`) | code and constants of a chunk | `add_constant()` | |
| virtual machine (`vm/`) | `stack_`, `frames_`, `globals_` | `execute()`, one program at a time | frames keep to their operands, code outlives its frames, errors leave nothing to the next program |
| values and built-ins (`runtime/value.*`, `builtins.*`) | functions and lists behind `shared_ptr` | arithmetic, comparison, truth, `len`, `type`, `range` | integers keep their width, identity of objects |
| AST interpreter, environments (`runtime/`) | `globals_`, `environment_`, the environments of calls | `interpret()` | scopes are restored however a call ends, it agrees with the machine |
| prompt and command line (`main.cpp`) | the machine, `buffer`, `multiline` | one line at a time | every statement runs once, an error costs only its line |

Calls go down the list `main -> Lexer -> Parser -> Compiler -> VirtualMachine`,
each stage taking the whole result of the one before (`main.cpp:13-18`). Only
the machine outlives a line of the prompt. A compiled `Function` owns its chunk;
`globals_`, operands, locals, list elements and the constants of other chunks
own the `Function`. A frame owns neither (`vm/virtual_machine.hpp:25`).

There is one thread and nothing is persisted: nothing interleaves but the
programs of a session, and there is no recovery but from an exception. What is
hard is long chains of legal steps: calls in half-evaluated expressions, returns
out of nested blocks, a function that loses its last name while it runs, an
error deep in a call followed by the next line. `PROJECT.json` lists these
hazards one by one, each with the properties aimed at it.

## Modules

- **Values**: tagged values, arithmetic, truth, comparison, the built-ins.
  `int64_t` is scaled to `IntegerMin..IntegerMax` and wraps, as the compiled
  code does where C++ leaves overflow undefined; the one operation that traps on
  x86, `INT64_MIN % -1`, may also end the process (`Kill`). Floats are exact
  fractions. Strings are sequences of opaque characters. A function is the
  handle of its object, a list its position in `heap`, both by identity.
- **Bytecode**: chunks, and what it means that one is `WellFormed`, `Balanced`
  with respect to a number of operands at each instruction, and that a
  function's `AlwaysReturns`.
- **VirtualMachine**: one action per opcode (the five arithmetic ones share
  `binary()` and `Binary`), `EndOfCode` for the head of the dispatch loop, and
  `Execute` for the next program of the session. Operands pop before they are
  inspected, as in the code, so that an error leaves the same rest on the stack.
  An exception sets `outcome` and keeps stack and frames; `Execute` clears them.
- **Ast**, **Trees**: the nodes, and sets of trees that have their parts, for whatever
  reads them.
- **Compiler**: the recursive descent of `compiler.cpp` as operators on a record for
  the `Compiler` object. The calls that the active C++ functions have still to make
  are its `agenda`, and an operator is the part of a function up to its next call, so
  that nothing is recursive. **CompilerRun** is one use of it, a call at a time, with
  a compiler for each function that is being compiled; **Compilation** is what such a
  run comes to, for the modules that only need the code.
- **Interpreter**: `interpreter.cpp` and `environment.cpp`, a step of the descent at
  a time, on a record for the `Interpreter` object. What the innermost function of the
  program has still to do is its `agenda`, in which a statement waits for the value of
  its expression and an operation for its operands, one after the other. A call of a
  function is put on `calls` with the environment to go back to (`previous` in
  `execute_block()`) and the agenda of its caller. An exception sets `signal` and
  empties the agenda; each call that is open is then left by a step of its own
  (`LeaveCall`), which restores `environment_`, and ends a return. Environments and
  functions are objects that are made and never freed. `INT64_MIN % -1` may end the
  process here as well (`Traps`).
- **CallStacks**, **StackRefinement**: what the machine promises of calls, as a
  machine in which each call has operands of its own, and the refinement mapping
  that cuts the one stack of `VirtualMachine` at the bases of its frames.
- **Differential** composes `VirtualMachine` and `Interpreter` on the same programs.
  They share nothing, so the machine waits until the interpreter is done. Where the
  engines are known to differ, `Lifted` says how: it rewrites a program so that the
  interpreter does with it what the machine does with the original. **Sessions**
  composes them on sessions: one machine and one interpreter, program after program.
  There, as in `LiftedAgrees`, only what a program comes to counts, so an interpreter
  runs it at once (`Interpreted`).
- **Lexer**: `tokenize()` over texts of classes of characters. A step is one
  branch of its loop; the loops inside a branch (`EndOfRun`) are part of it, but
  for strings, which are read one character or escape at a time. Tokens keep
  their bounds in the text, so that properties can compare them with it.
- **TokenStream**: what the lexer guarantees and the parser assumes
  (`FormsLines`): the property `ParserCanRely` of the lexer's run, and the
  assumption `ParserAssumption` on the parser's texts.
- **Parser**: one `parse()`. The C++ functions call each other recursively; here
  their calls still to come are an agenda, what they have built is a stack of
  trees, and an action is the part of a function up to its next call. So
  properties can look at the parser in the middle of a text, and nothing
  is recursive. **Grammar** is the language as rules instead of as a
  descent: a rule gives the set of trees of the tokens between two positions.
  An operator groups to the left there because its rule is recursive on the left.
- **Prompt**: `main()`, a file or the loop of `repl()`, with its exit codes. A line
  is a sequence of classes of characters, as `trim()` and `starts_block()` look at
  them; what is given to `execute_source()` is noted in `executed`, for nothing
  that happens there comes back to the prompt but an exception, which is caught.
- **MCVirtualMachine**, **MCCompiler**, **MCDifferential**, **MCDifferences**,
  **MCSessions**, **MCParser**, **MCLexer**, **MCPrompt** give the programs,
  texts and lines. Chunks are not written by hand: the model of the compiler
  compiles the syntax trees, whose text stands above each.
- **ValuesProofs**, **LexerProofs**, **ParserProofs**, **CompilerProofs**,
  **VirtualMachineProofs**, **StackProofs**, **InterpreterProofs**, **PromptProofs**
  hold the proofs.

Some definitions are marked as mutants. They are plausible bugs of the code that
the definition after them models, kept to see that a property notices them; no
specification uses them.

## Runs

| run | states | what it asks |
|---|---|---|
| `calls` | 5779 | Six programs of one prompt in every order: functions that assign to their own name, whose name is given away during the call, that return inner functions, repeat parameters, sit in lists. |
| `errors` | 53617 | Eight programs that fail, each in any order after the others: overflow, the trapping remainder, wrong callees and counts, endless recursion, a `range` that exhausts memory, wrong operands, `return` at the top. |
| `compiler` | 70666 | 2940 programs of one to three statements, nested to three levels, compiled one call of the descent at a time. |
| `differential` | 14430 | 168 programs: four initial values, six function bodies, seven ways to use the function, run by both engines, each step by step. |
| `differences` | 6536 | 120 programs with repeated parameters, unary plus, nested functions and functions that are compared: what differs, and the scopes in which the interpreter runs them. |
| `sessions` | 109455 | Every session of up to five of nine programs that define, replace and call the same functions and variables; which of them fail depends on those before. |
| `parser` | 223899 | 10555 texts: programs with every statement and every pair of operators, all that one wrong token makes of some of them, and all short rows of tokens; 424 are of the language. |
| `lexer` | 87527 | 12914 texts: all layouts of three lines of 19 shapes and of four simpler ones, all rows of three characters, strings of up to four characters, numbers of up to five. |
| `prompt` | 74844 | Wrong command lines, files, and sessions of up to four lines out of twelve: blank lines, `:quit`, statements, headers, with and without comments, and a `#` in a string. |
| `carriage_returns`, `indentation_errors`, `quoted_hashes` | | The three findings, see below. |

Bounds. `IntegerMax = 7` makes -8 and its neighbours reachable within a few
operations. `FrameLimit = 3` (12 in `differential` and `differences`, 24 in
`sessions`) stands for the memory that frames may take: recursion beyond it fails
as an allocation does, by `bad_alloc` or by the end of the process. `ListCapacity`
does the same for a list; at 16 it is larger than every list that ends, so that
only the endless loop of `range` reaches it. `ArgumentLimit = 4` is the 2^16 of
`compiler.cpp:96`; no program has so many arguments. `CallLimit`, one less than
`FrameLimit`, lets the interpreter nest as many calls as the machine has frames
for; no program of the three runs with both engines reaches either.
`SessionLength = 5` is enough to define two functions, call them, fail and go on.
Each program of a session runs once, so that sessions end; they are told apart by
their position and not by symmetry, for each is different.

Properties by what would break them:

- `StackDiscipline`, `CallersKeepOperands`, `NoInternalError`: the stack is the
  frames' operands one above the other, in and after every sequence of calls,
  jumps, returns and errors. `CodeBalances` and `FunctionsReturn` are the
  compiler's half of it.
- `NoDanglingFrame`, `FunctionsKept`: every frame's code is reachable from
  something that owns it. `FunctionsKept` is the reason: a function stores to
  its locals only (`virtual_machine.cpp:115`), so that while one runs no
  global can change and whatever was reachable stays so.
- `CallsAreSeparate`: the machine implements `CallStacks`. A call takes the callee
  and its arguments from the caller and begins with nothing; whatever happens
  inside, the operands of the callers stay; a return leaves one value; a program
  ends outside all calls with nothing left over; an error ends all calls.
- `ParametersBound`, `TypeOK`, `OnlyTopLevelEchoes`. The machine's `TypeOK` is checked
  in `errors`, where integers overflow.
- `EnginesAgree`: the same output, end and globals from both engines, up to the
  wording of errors and one documented difference: the interpreter looks at the
  callee before the arguments (`interpreter.cpp:173`). When a callee is no function
  (`StoppedAtCallee`), the machine has printed what the interpreter has, and perhaps
  what the arguments print, it fails too, perhaps in an argument, and the globals are
  the same. Programs that the system ends, in either engine, are left out: where the
  remainder traps, one may be killed and the other not.
- `LiftedAgrees`: in programs where they do differ, four things are all the
  difference there is: a nested function sees globals and not the variables around it,
  a def makes one function and not one each time it is executed, of equal parameters
  the first counts, and a unary plus is no operation.
- `BackInGlobals`: the interpreter is back where it started after every end, of errors
  out of nested calls too. `ScopesAreLexical`: each of the calls that are open runs in
  an environment of its own, younger than its caller's, that has its parameters and
  is enclosed by the one where the function was defined, wherever it is called from
  and whatever has been assigned since. `CallersKeepVariables`: no call, however it
  nests or recurses, changes a variable of those that wait for it. `InterpreterTypeOK`:
  whatever is referred to exists, and an environment is enclosed by an older one, so
  that every lookup ends. Values outlive the calls that made them.
- `SessionsAgree`: between any two programs of a session both engines have
  printed the same, hold the same globals and ended alike, whatever failed
  before; the stacks and scopes a failed program leaves make no difference.
  `SessionIsOneProgram`: a session without errors prints and leaves what one
  program with all its lines does, so that a file may be entered line by line.
- `EveryProgramEnds`: the dispatch loop ends in programs whose loops do.
- `ParsesTheLanguage`: the parser accepts the texts of `Grammar` and no others,
  with the one tree that each has there. `ErrorsAreErrors`: what it has
  read before it reports an error is the beginning of no text of the language, the
  token of the error included, so it is not reported early. `ParserCanRely`: every
  line of tokens ends in `Newline`, blocks open and close between lines,
  `EndOfFile` comes once. (`consume_line_end()`, which takes a `Dedent` or
  `EndOfFile` for the end of a line, `parser.cpp:177-182`, never needs to.)
- `BlocksPair`, `BlocksFollowLines`: indents and dedents pair up, and the depth
  of a token is what the widths of the lines with code before it say; blank lines
  and comments do not count. The second is stated over tokens and text without
  the stack that the lexer keeps. Texts in which a line without code has a carriage
  return before any other character but spaces (`HasBlankReturn`) are left to a run
  of their own: a blank line that ends in CR LF is one, `\r # comment` another. `NothingLost`, `PlacesAreRight`: every character is in
  exactly one token or may be skipped, and every token and every error in a line
  has its place. `EveryTextEnds`.
- `BufferIsBlock`, `EveryLineOnce`, `PlainBlocksRunWhole`: the buffer and
  `multiline` agree, each line is run once and in order, and a block in one
  piece.

Three runs show a disagreement between the code and what the repository says.
`carriage_returns`: `scan_indentation()` does not take a line of CR LF for blank
(`lexer/lexer.cpp:140`), so that in a file written on Windows, which is read in
binary mode (`main.cpp:88`), a blank line inside a block closes it, and the next
line of the block opens another one without a header. `indentation_errors`: an
error in the indentation is reported at the last token of an earlier line, or at 1:1
(`lexer/lexer.cpp:210`). `quoted_hashes`: `if x == "#":` is run without its block
(`main.cpp:28`).

Deadlock is not checked: a session, a text and the input may end, and a killed
process stays so.

Fairness. `FairSpec` is weak fairness of `Step`, the machine's next instruction:
`execute()` is a loop that nothing suspends and no step waits for another party.
`Execute` has none, for nobody must type another line. `tokenize()` is such a
loop, too, so the lexer's `FairSpec` is weak fairness of its `Next`; so is the
parser's, a descent that nothing suspends. `DifferentialSpec` is weakly fair to both
engines, the interpreter being another such descent; that the trapping remainder ends
the process is left open. The prompt
waits for a user and is assumed to do nothing by itself.

## Proofs

The proofs are for all programs, sessions, texts, lines and bounds, from these
assumptions: `ValuesAssumption`, `CharacterAssumption`, `BytecodeAssumption` and
`MachineAssumption` fix the kinds of the constants of the machine,
`LexerAssumption` and `PromptAssumption` those of the lexer and the prompt;
`CompiledAssumption` says that every chunk is well formed and balanced, and that
those of functions always return. This is what the machine relies on and what is
proved of the compiler; TLC also evaluates it on every program of the runs.
The compiler's own assumptions are `TreeAssumption`, that the trees are those the
parser builds, with their parts; `HandleAssumption`, that every function has an
identity of its own; `EchoAssumption`, that the flag is one; and
`ArgumentsAssumption`, that no built-in is called with 65536 arguments, without
which `CodeBalances` is false. The interpreter's are `TreeAssumption` as well, and
`ValuesAssumption` and `CharacterAssumption`.

- `ParserStaysInText`, `ParserBuildsPrograms`: that the parser never reads behind
  `EndOfFile`, that what it has parsed is the whole text and one tree, and that every
  node in that tree has the parts its constructor takes. `TypeOK` is not inductive:
  in the middle of a text there are many trees, of all kinds, and a `Binary` takes
  what it finds. The inductive invariant (`IInv`) gives the stack of trees a shape,
  the sorts of its trees, and says that the agenda carries this shape, step by step,
  to one sequence of statements (`BuildsProgram`, `Moves`). A step that is replaced by
  the steps it calls carries as far as they do together (`GoesOn`), and a node is
  made of trees of the right sorts (`NodeFits`). parse()'s own loop is always the last
  of the agenda, so the descent ends at `EndOfFile` and nowhere else (`Waits`). The
  only assumption is `ParserAssumption`, and of it only that `EndOfFile` is the last
  token and no other. `ParserBuildsPrograms` speaks of any two sets of trees that have
  all the nodes over them (`Closed`). In the least such sets every tree is a node
  with its parts, which is `TreeAssumption` of the compiler, with the values of
  literals for their texts.
- `CompiledCodeBalances`, `CompiledFunctionsReturn`, `CompiledFunctionsHaveCode`:
  that the code is well formed and balanced, that functions return, and that
  the functions among the constants have code. In the middle of a program none of
  it holds: jumps have no target and operands wait for their instruction. The
  inductive invariant (`CompilersOnTheirWay`) has two halves. The code that is
  there balances at some depths, but for the jumps without a target (`Right`). The
  agenda brings the operands that the code has left to none (`Plan`): an expression
  adds one, a statement starts and ends with none, and so on, each step from the
  height the one before ends at. Every open jump has a step that will fill it in
  (`On`). A step that is replaced by the steps it calls keeps the plan, an
  instruction takes its part from it (`WorkReady`), and a patched jump goes to the
  end of the code, which is the start of a statement when it is patched. With
  an empty agenda the plan says that nothing is left and no jump is open
  (`FinishedGood`), and the depths are those that a pass over the code finds
  (`DepthsFound`). A function then is complete and joins the chunks of the compiler
  around it (`DefinitionReady`), which has not moved meanwhile.
- `OnlyThePromptEchoes`: `OnlyTopLevelEchoes` holds of every program in which no
  function has a print statement of its own (`Printless`; without that it is false),
  whether or not the program is compiled to echo. The compiler of a function is
  `Silent`: it does not echo, its code does not print, and nothing on its agenda will.
  The flag alone is not enough, for the agenda may already hold the instruction. The
  outermost compiler is not silent, but it writes no function: it only receives what
  silent ones have finished (`Hushed`). The programs of `compiler` print at the top
  level and nowhere else (`QuietAssumption`).

- `TypeCorrect`: `TypeOK` is inductive. The work is in arithmetic (a wrapped
  integer is in range, a denominator stays positive, `ValuesProofs`) and in that
  values remain values when lists are made.
- `Disciplined`: `TypeOK /\ Discipline` is inductive, while `StackDiscipline`
  alone is not. A function's frame must be strictly inside its code, or
  `EndOfCode` could drop it without a result; and the bases of the frames must
  ascend. The proof shows first that each step moves the innermost frame
  (`MovesTo`), enters a function (`Enters`), leaves one (`Leaves`) or ends the
  program (`Ends`), and then that each of these four keeps the bases.
- From it `StackIsDisciplined`, `InternalErrorsNeverHappen` and `CallersAreSafe`
  follow.
- `CallsAreAsIfSeparate`, that the machine implements `CallStacks`. `Disciplined`
  says that the stack can be cut at some bases; the equations between them
  leave no choice (`RowsAgree`: there would be a first one that differs), so that
  bases before and after a step agree where the frames do. Then each of the four
  kinds of steps of `Disciplined` maps to `Work`, `Enter`, `Leave`, and `Finish`
  or `Abort`, and `Execute` to `Begin`. That a program finishes only once needs
  another invariant, `UnitRuns`: the program that runs has no outcome yet.
- `ParametersAreBound`: no step takes a local away, and a call binds every
  parameter.
- `FunctionsAreKept` and `NoFrameDangles`: neither property is inductive, for what
  is in use is in reach by definition and leaves it when an operand is dropped.
  `Owned` says that every frame runs a function which the program or a global keeps,
  so does every function in reach, and the outermost frame has no locals.
  A step that takes what it puts somewhere from what was in reach (`Passes`) brings
  nothing into reach but the list it makes: the old reach with that list is closed
  (`GrownReachesNew`). Only the outermost frame overwrites a global, when by
  `Disciplined` its operand was the only one, so that nothing is in use
  (`NothingInUse`).
- `LexerTypes` and `BlocksArePaired`: `TypeOK /\ Blocks` is inductive. `BlocksPair`
  is not: that each width on `indentation_` is less than the next one gives the same
  of any two only by induction, so `Ascends` says it of any two. Then the blocks
  that a line belongs to are the outermost ones (`EnclosingIsPrefix`), as many dedents
  are read as widths are dropped, and what tokens of one type do to the depth is
  counted once (`PairsConcat`). That a scan ends inside the text needs a least
  position that ends it (`LeastElement`).
- `ParserMayRely`: what the parser assumes of its tokens, the lexer gives it, which
  closes the chain from a text over its tokens and its tree to its code and what the
  machine relies on. `ParserCanRely` only speaks of finished texts. The invariant
  (`Lines`) says of every moment which types may stand next to each other
  (`Follows`), that a line begins behind a Newline (`LineEnds`) and with no string
  open, and of the end that only dedents stand between the last Newline and
  `EndOfFile` (`Complete`). With the depths of `Blocks` that is `FormsLines`.
- `PlacesCounted` and `EveryCharacterCounts`: every step passes characters of one
  line, perhaps with its end (`Passes`), and only adds tokens, each at the place where
  the lexer is or where the string began (`Added`). So `line_` and `column_` are always
  those counted in the text, and with them those of the tokens (`Placed`). For the
  characters the invariant (`Lossless`) speaks of those up to `Taken`, which is
  `current_`, but `start_` inside a string: each of them has found its place, no
  later token changes that (`AccountedKept`), and the new ones are in the new token or
  between two (`NewAccounted`). That an empty line has no Newline, so that its end is
  in no token, needs that at the beginning of a line no token reaches into it.
- `BlocksAreThoseOfLines`: `BlocksFollowLines` compares the widths and depths of any
  two texts of one block. What ties them to the lexer is `indentation_`. `Nested`: as
  long as the block of a text stays open, the entry at its depth is the width of its
  line, and no narrower text has come since; once it is closed, a narrower one has, or
  its line has begun but has no token yet (`Closing`). `LineState`: inside a line the
  innermost entry is the width of that line, and until its first token there is only
  white space. So a line that has begun gets a token, for its first character other
  than a space is none of those that make it empty, and if it were a carriage return
  with nothing but white space up to a comment or the end, the text is one of those
  left out (`BlankReturn`). From both follows `Followed`, which is the property, for
  the text that is read (`NestedText`); a line that closes blocks closes those that
  are wider and no others (`NestedDedents`). The first attempt at this proof failed:
  the property then left out blank lines that end in CR LF only, and `\r # comment` or
  a carriage return with spaces behind it closes blocks as well. `HasBlankReturn` and
  the texts of `lexer` have these lines since.
- `PromptTypes` and `BufferHoldsBlock`: `TypeOK /\ BufferIsBlock` is inductive.
  `BlocksAreRunWhole` follows: what `RunBlock` and `EndOfInput` run begins with a
  header, for it was the buffer, and what `AddLine` runs at once is one line, for
  the buffer was empty. Without a `#` in a string the prompt cuts a line where the
  lexer does (`SameHeaders`).
- `LinesAreRunOnce`: as long as the process runs, the lines of the units with those in
  the buffer (`Given`) are the lines of code that were entered, so `EveryLineOnce` is
  inductive once it is said that without a prompt nothing is read before the end
  (`NothingRead`). What has to be shown is how `FlattenSeq` and `CodeLines` grow by a
  unit and a line. Both are recursive functions, that is, a `CHOOSE` among the
  functions that satisfy an equation: that there is one (`RecursionExists`) and only one
  (`RecursionUnique`) again needs a least position.

- `InterpreterInvariant`: `Inv` is inductive for whatever programs are interpreted one
  after the other, and TLC has checked it in both runs of the interpreter. It needs
  only the assumptions on values and on trees. None of the properties is inductive:
  - `Typed` is `InterpreterTypeOK` with the values of each environment spelled out.
    What is made is only added, so that what refers to it keeps its type (`Known`,
    `Scopes`, `AgendaStep` grow with the objects).
  - `Ready`: an operation that waits has an operand left, and the value that a call
    has for its callee is a function. Otherwise `Combine` could find less than it
    takes. That a callee is tested before its arguments (`interpreter.cpp:173`) is what
    makes it true.
  - `Chain`: the environments in which callers wait are younger one after the other, the
    first is the globals', and the current one is younger than all. So an assignment,
    which goes to the current one, is in none of them, from which
    `CallersVariablesKept` follows; and when no call is open the current one is the
    globals', `BackInGlobalsAlways`. A call keeps it for it makes a new environment,
    a return for it goes back to that of its caller.
  - `Lexical` is `ScopesAreLexical` but for the order of the environments, which is
    `Chain`. That a binding takes no parameter away is what keeps it (`DefineKeeps`).
  - Nothing is left to do after an exception, so that the next step leaves a call.
- `InterpreterTypes`, `BackInGlobalsAlways`, `LexicalScopes`, `CallersVariablesKept`
  follow. They speak of `InterpreterSpec`, an interpreter that is given any programs.
  The runs `differential` and `differences` let it take the same steps
  (`InterpretNext`, `Interpret`), on the trees of the run.

Only model-checked, for lack of a prover for induction over data: that the engines agree
(`EnginesAgree`, `LiftedAgrees`, `SessionsAgree`, `SessionIsOneProgram`), since what a
program prints, which of its values look alike and the lifted program are recursive, as
is `Interpreted`; and that the parser accepts the right texts (`ParsesTheLanguage`,
`ErrorsAreErrors`), since the trees of the grammar are. Liveness (`EveryProgramEnds`,
`EveryTextEnds`) is out of reach of the provers here.

## Not modelled

- Rounding, infinities, NaN and the comparison of large integers as doubles; the
  text of numbers and of error messages, and the places that the machine and the
  parser report; keywords and the single symbols in the lexer. 65536 arguments.
- The depth of the C++ stack in the parser, the compiler, the interpreter's expressions
  and the destruction of nested values: deep nesting ends the process. Only the nested
  calls of the interpreter have a limit (`CallLimit`).
- The lifetime of the interpreter's environments and declarations. A `Function`
  points into the `Program` that declared it (`runtime/interpreter.cpp:70`); nothing
  under `src/` interprets two programs with one interpreter, and `sessions`
  assumes a caller that keeps every `Program`. Cycles of functions and environments
  are never freed, which `src/docs/memory-management.md:7` accepts.
- Literals that do not fit, in the comparison of the engines: the compiler rejects
  them before anything runs, the interpreter when it gets to them.
- `Environment::assign()`, which nothing calls, and a block as a statement of its own,
  which the parser never builds (`interpreter.cpp:75-76`).

## Plan

Owners and lifetimes in the interpreter: that the declaration of a function is still
there when it is called, and which environments stay in cycles.
