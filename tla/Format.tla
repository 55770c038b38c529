------------------------------- MODULE Format -------------------------------
(***************************************************************************)
(* Numbers as text: compose_integer of kernel/util/conv.cpp and the        *)
(* formatters of include/tupai/util/fmt.hpp that call it.  A text is the   *)
(* sequence of its characters up to the terminator.                        *)
(***************************************************************************)
EXTENDS Integers, Sequences, SequencesExt

CONSTANT WIDTH      \* the bits of the integer type T, sizeof(T) * 8

ASSUME WidthAssumption == WIDTH \in {4 * n : n \in 1 .. 16}

Digits == <<"0", "1", "2", "3", "4", "5", "6", "7", "8", "9", "A", "B", "C", "D", "E", "F">>

Values(signed) == IF signed THEN -(2 ^ (WIDTH - 1)) .. 2 ^ (WIDTH - 1) - 1
                  ELSE 0 .. 2 ^ WIDTH - 1

\* The most negative value has no opposite in T.
abs(x) == IF x < 0 /\ x # -(2 ^ (WIDTH - 1)) THEN -x ELSE x

\* The loop that divides until nothing is left.
CountDigits(x, base) ==
    LET count[n \in 0 .. 2 ^ WIDTH] == IF n = 0 THEN 0 ELSE 1 + count[n \div base]
    IN  IF x > 0 THEN count[x] ELSE 0

Prefix(base) == CASE base = 2 -> <<"0", "b">> [] base = 8 -> <<"0", "o">>
                  [] base = 16 -> <<"0", "x">> [] OTHER -> <<>>

\* Mutant of Padding: as many zeros as the caller likes.
PaddingUncapped(base, pad) ==
    LET p == IF pad # -1 THEN pad
             ELSE IF base = 2 THEN WIDTH ELSE IF base = 16 THEN WIDTH \div 4 ELSE pad
    IN  IF p > 1 THEN p ELSE 1

\* The padding asked for, -1 for all digits, at least one and at most WIDTH.
Padding(base, pad) ==
    LET p == IF pad # -1 THEN pad
             ELSE IF base = 2 THEN WIDTH ELSE IF base = 16 THEN WIDTH \div 4 ELSE pad
        q == IF p > 1 THEN p ELSE 1
    IN  IF q < WIDTH THEN q ELSE WIDTH

Failure == <<"?">>      \* compose returns false; the buffer has no text

\* The text of val, in a buffer of n characters.  A base of 1 never returns.
compose_integer(val, n, base, pad) ==
    LET x == abs(val)
        digits == CountDigits(x, base)
        zeros == Padding(base, pad) - digits
    IN  IF n < WIDTH + 4 \/ base <= 0 \/ base > 16 THEN Failure
        ELSE (IF val < 0 THEN <<"-">> ELSE <<>>)
             \o Prefix(base)
             \o [i \in 1 .. zeros |-> "0"]
             \o [i \in 1 .. digits |-> Digits[((x \div base ^ (digits - i)) % base) + 1]]

compose_bool(val, n) ==
    IF n < 6 THEN Failure
    ELSE IF val THEN <<"t", "r", "u", "e">> ELSE <<"f", "a", "l", "s", "e">>

\* __fmt_arg of an integer of any of the eight types: a buffer that is just
\* large enough, and the defaults of an argument without fmt_int.
__fmt_arg(val, base, pad) == compose_integer(val, WIDTH + 4, base, pad)

\* A truth value: a buffer for the longer word.
__fmt_bool(val) == compose_bool(val, 6)

\* A pointer: all hexadecimal digits.
__fmt_pointer(val) == compose_integer(val, WIDTH + 4, 16, WIDTH \div 4)

\* __fmt_ostream::write: a character that does not fit is dropped.
ostream_write(size, buff, c) == IF Len(buff) + 1 >= size THEN buff ELSE Append(buff, c)

\* __fmt_arg of a string, or of a character, which is a string of one.
__fmt_string(size, buff, str) == FoldLeft(LAMBDA b, c : ostream_write(size, b, c), buff, str)

\* fmt: the texts of the arguments, one after the other.
fmt(size, texts) == FoldLeft(LAMBDA buff, text : __fmt_string(size, buff, text), <<>>, texts)

-----------------------------------------------------------------------------
(* Reading a text back. *)

DigitValue(c) == (CHOOSE d \in 1 .. 16 : Digits[d] = c) - 1

Number(text, base) == FoldLeft(LAMBDA v, c : v * base + DigitValue(c), 0, text)

Parse(text, base) ==
    LET negative == text[1] = "-"
        body == SubSeq(text, Len(Prefix(base)) + (IF negative THEN 2 ELSE 1), Len(text))
    IN  IF negative THEN -Number(body, base) ELSE Number(body, base)

VARIABLE asked      \* what is to be written: a value with its base and padding

NotAsked == [val |-> 0, base |-> 0, pad |-> 0]

format_init == asked = NotAsked

\* An argument of print or fmt, as it is or with fmt_int.
fmt_int(val, base, pad) ==
    asked' = [val |-> val, base |-> base, pad |-> pad]

format_next ==
    /\ asked = NotAsked
    /\ \E signed \in BOOLEAN, base \in 2 .. 16, pad \in -1 .. WIDTH + 1 :
          \E val \in Values(signed) : fmt_int(val, base, pad)

\* Every value of the type, in every base and with every padding, is written
\* so that it reads back, in a buffer that __fmt_arg made just large enough
\* for it; only the most negative value comes out as zero.  fmt cuts its
\* result off where the buffer ends and leaves room for the terminator.
FormatFaithful == asked # NotAsked =>
    LET val == asked.val
        text == __fmt_arg(val, asked.base, asked.pad)
        bool == __fmt_bool(val > 0)
    IN  /\ Len(text) + 1 <= WIDTH + 4
        /\ Parse(text, asked.base) = IF val = -(2 ^ (WIDTH - 1)) THEN 0 ELSE val
        /\ val >= 0 => /\ Len(__fmt_pointer(val)) = 2 + WIDTH \div 4
                       /\ Parse(__fmt_pointer(val), 16) = val
        /\ \A size \in {1, 2, 5, 6, WIDTH + 4} :
              LET buff == fmt(size, <<bool, text>>)
              IN  /\ IsPrefix(buff, bool \o text)
                  /\ Len(buff) = IF Len(bool \o text) < size THEN Len(bool \o text) ELSE size - 1
=============================================================================
