------------------------------ MODULE MCPrompt -------------------------------
(***************************************************************************)
(* Lines for the prompt.                                                   *)
(***************************************************************************)
EXTENDS Prompt

Plain ==
  {<<>>,                                            \* a blank line
   <<"space">>,
   <<"quit">>,                                      \* :quit
   <<"space", "quit">>,
   <<"letter">>,                                    \* x
   <<"space", "letter">>,                           \*     x
   <<"letter", "colon", "space">>,                  \* if x:
   <<"letter", "colon", "hash", "letter">>,         \* if x: # why
   <<"hash", "colon">>,                             \* # note:
   <<"letter", "hash", "colon">>}                   \* x # note:

\* if x == "#":    and    print(":#")
Quoted ==
  {<<"letter", "quote", "hash", "quote", "colon">>,
   <<"letter", "quote", "colon", "hash", "quote">>}

AllLines == LET all == Plain \cup Quoted IN all
=============================================================================
