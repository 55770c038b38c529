----------------------------- MODULE MCConsole -----------------------------
\* Key codes: 0 a letter, 1 blank, 2 backspace, 3 newline, 4 to 8 the
\* commands, 9 the code of the terminator, 10 a code the table does not have.
EXTENDS Console

Table == <<"a", " ", BS, "\n", "h", "c", "e", "d", "p">>

Typed == {<<0, 0, 2>>,           \* edit, from the second row back into the first
          <<2, 3>>,              \* backspace on nothing
          <<0, 10, 3>>,          \* a code without a character, an unknown command
          <<4, 3>>, <<5, 3>>,    \* help, cat without a file
          <<5, 1, 0>>,           \* cat a, and a line that is too long
          <<5, 1, 4>>,           \* cat of a file that does not exist
          <<6, 3>>, <<6, 1, 0>>, \* echo of nothing, echo a
          <<9, 2, 3>>,           \* the terminator's key
          <<7, 3, 0>>,           \* div
          <<8, 3>>}              \* panic

Texts == (<<"h">> :> <<"\n", "h", "h", "\n">>)
Files == (<<"a">> :> <<"x">>)
None == <<>>
Dollar == <<"$">>
Bang == <<"!">>
Eol == <<"\n">>
=============================================================================
