------------------------------ MODULE TextMode ------------------------------
(***************************************************************************)
(* The text screen, kernel/x86/textmode.cpp: a buffer of cells, row after  *)
(* row, and a cursor.                                                      *)
(***************************************************************************)
EXTENDS Integers, Sequences, SequencesExt

CONSTANTS col_max, row_max

ASSUME ScreenAssumption == col_max \in Nat \ {0} /\ row_max \in Nat \ {0}

BS == "BS"      \* backspace
NL == "\n"
CR == "\r"
Blank == " "

Cells == 0 .. col_max * row_max - 1

textmode_clear(s) == [s EXCEPT !.buffer = [n \in Cells |-> Blank]]
textmode_move(s, ncol, nrow) == [s EXCEPT !.col = ncol, !.row = nrow]

textmode_init == textmode_clear([buffer |-> [n \in Cells |-> Blank], col |-> 0, row |-> 0])

\* Mutant of textmode_scroll: the last row keeps its old text.
scroll_keeps_last(s) ==
    [s EXCEPT !.buffer = [n \in Cells |-> IF n + col_max \in Cells THEN @[n + col_max]
                                          ELSE @[n]]]

\* One row up; the last one is blank.
textmode_scroll(s) ==
    [s EXCEPT !.buffer = [n \in Cells |-> IF n + col_max \in Cells THEN @[n + col_max]
                                          ELSE Blank]]

\* The switch over the character.  A backspace moves the cursor only.
Put(s, c) ==
    CASE c = NL -> [s EXCEPT !.col = 0, !.row = @ + 1]
      [] c = BS /\ s.col # 0 -> [s EXCEPT !.col = @ - 1]
      [] c = BS /\ s.col = 0 /\ s.row # 0 -> [s EXCEPT !.row = @ - 1, !.col = col_max - 1]
      [] c = BS /\ s.col = 0 /\ s.row = 0 -> s
      [] c = CR -> s
      [] OTHER -> [s EXCEPT !.buffer[col_max * s.row + s.col] = c, !.col = @ + 1]

\* Mutant of Wrap: a full row is noticed one character late.
WrapLate(s) == IF s.col > col_max THEN [s EXCEPT !.col = 0, !.row = @ + 1] ELSE s

Wrap(s) == IF s.col >= col_max THEN [s EXCEPT !.col = 0, !.row = @ + 1] ELSE s

textmode_write(s, c) ==
    LET w == Wrap(Put(s, c))
    IN  IF w.row >= row_max THEN [textmode_scroll(w) EXCEPT !.row = @ - 1] ELSE w

Display(s, text) == FoldLeft(textmode_write, s, text)
=============================================================================
