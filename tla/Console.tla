------------------------------ MODULE Console ------------------------------
(***************************************************************************)
(* From a key to the screen: the keyboard handler (kernel/x86/kbd.cpp),    *)
(* the two pipes of the terminal (kernel/dev/tty.cpp on fifo_t), the line  *)
(* editor (kernel/util/in.cpp), the shell (kernel/shell.cpp) and the       *)
(* thread that shows the output.                                           *)
(*                                                                         *)
(* Interrupt handlers run with interrupts off and are one step each.  A    *)
(* thread is preempted between the steps of a push or a pop: the load of   *)
(* the length, its store, and what is done before and after.  Accesses     *)
(* within a step are not taken apart here (RingRace has them all apart).   *)
(* The model starts where the shell starts.                                *)
(***************************************************************************)
EXTENDS TextMode, Ring

CONSTANTS LINE,             \* the size of the shell's line buffer, 64
          ARGS,             \* the size of its argument list, 64
          scancode_table,   \* a sequence: the string without its terminator
          Scripts,          \* bound: what is typed, sequences of key codes
          KbdBuffer,        \* bound: key codes the controller keeps
          MaxMeets,         \* bound: times that a push and a pop of a pipe meet
          Prompt, Motd, Usage, NotFound, Newline, ExceptionText, PanicText,
          CommandText,      \* command word -> what it prints
          Contents          \* file name -> what cat prints

\* What is printed has no backspace in it: one in a file that cat prints
\* would leave text behind the cursor.
Printed == {Prompt, Motd, Usage, NotFound, Newline, ExceptionText, PanicText}
           \cup {CommandText[word] : word \in DOMAIN CommandText}
           \cup {Contents[name] : name \in DOMAIN Contents}

ASSUME ConsoleAssumption ==
    /\ LINE \in Nat \ {0, 1}
    /\ scancode_table \in Seq(STRING)
    /\ Scripts \subseteq Seq(Nat)
    /\ MaxMeets \in Nat
    /\ \A text \in Printed : /\ text \in Seq(STRING)
                              /\ \A n \in 1 .. Len(text) : text[n] # BS
    /\ \A n \in 1 .. Len(Prompt) : Prompt[n] \notin {NL, CR}
    \* The longest line and its prompt leave a row of the screen free.
    /\ LINE - 1 + Len(Prompt) <= col_max * (row_max - 1)

VARIABLES
    script,     \* what will still be typed
    kbd,        \* key codes in the controller
    inpipe, outpipe,
    outpush,    \* how far the shell's push into outpipe is
    inpop,      \* how far its pop from inpipe is
    outpop,     \* how far the output thread's pop from outpipe is
    met,        \* how often a push and a pop of one pipe have met
    spinlock,   \* tty.cpp's: the thread that holds it, or "free"
    shell,      \* where the shell's thread is, and its locals
    screen,
    clean       \* history: outpipe never overflowed, no push and pop met in it

ring_ops == <<outpush, inpop, outpop, met>>
vars == <<script, kbd, inpipe, outpipe, outpush, inpop, outpop, met, spinlock, shell, screen, clean>>

-----------------------------------------------------------------------------
(* push() and pop() of a pipe in the middle of a thread.  at is the step   *)
(* that comes next, l the length that was loaded, c the character.         *)

NoPush == [at |-> "head", l |-> 0]
NoPop == [at |-> "spin", l |-> 0, c |-> NUL]

\* One begins in the middle of the other.
Meets(b) == (b => met < MaxMeets) /\ met' = IF b THEN met + 1 ELSE met

\* read_unsafe: wait for a character, and load the length for pop.
load_length(p, q) ==
    /\ p.at = "spin" /\ q.length # 0
    /\ p' = [at |-> "lower", l |-> q.length, c |-> NUL]
    /\ q' = q

lower_length(p, q) ==
    /\ p.at = "lower"
    /\ p' = [at |-> "item", l |-> 0, c |-> NUL]
    /\ q' = [q EXCEPT !.length = p.l - 1]

take_item(p, q) ==
    /\ p.at = "item"
    /\ p' = [at |-> "tail", l |-> 0, c |-> Oldest(q)]
    /\ q' = q

\* The last step of a pop.
move_tail(p, q) ==
    /\ p.at = "tail"
    /\ p' = NoPop
    /\ q' = [q EXCEPT !.tail = IF q.length # 0 THEN (@ + 1) % PIPE_SIZE ELSE @]

popping(p, q) == load_length(p, q) \/ lower_length(p, q) \/ take_item(p, q)

-----------------------------------------------------------------------------
(* The keyboard and the screen. *)

\* A key is pressed or released; the controller keeps its code.
press ==
    /\ script # <<>> /\ Len(kbd) < KbdBuffer
    /\ kbd' = Append(kbd, Head(script))
    /\ script' = Tail(script)
    /\ UNCHANGED <<inpipe, outpipe, ring_ops, spinlock, shell, screen, clean>>

\* The table has a terminator, which is a character of it like the others.
Known(keycode) == keycode < Len(scancode_table) + 1
CharOf(keycode) == IF keycode = Len(scancode_table) THEN NUL ELSE scancode_table[keycode + 1]

\* kbd_isr_main: tty_write_in for each code, up to one the table does not
\* have; what is behind that one waits for the next interrupt.
kbd_isr_main ==
    LET stop == SelectInSeq(kbd, LAMBDA k : ~Known(k))
        n == IF stop = 0 THEN Len(kbd) ELSE stop - 1
        chars == [k \in 1 .. n |-> CharOf(kbd[k])]
    IN  /\ kbd # <<>>
        /\ kbd' = IF stop = 0 THEN <<>> ELSE SubSeq(kbd, stop + 1, Len(kbd))
        /\ inpipe' = FoldLeft(Pushed, inpipe, chars)
        /\ Meets(inpop # NoPop)
        /\ UNCHANGED <<script, outpipe, outpush, inpop, outpop, spinlock, shell, screen, clean>>

\* tty_out_thread: take a character, which no lock protects, and show it.  No
\* serial port is open, and serial_write only takes and returns its own lock.
tty_out_thread ==
    /\ \/ popping(outpop, outpipe) /\ UNCHANGED screen
       \/ move_tail(outpop, outpipe) /\ screen' = textmode_write(screen, outpop.c)
    /\ Meets(outpush # NoPush /\ outpop = NoPop)
    /\ clean' = (clean /\ outpush = NoPush)
    /\ UNCHANGED <<script, kbd, inpipe, outpush, inpop, spinlock, shell>>

-----------------------------------------------------------------------------
(* The shell. *)

\* An exchange takes the spinlock, or is tried again.
spinlock_lock_impl == spinlock = "free" /\ spinlock' = "shell"
spinlock_unlock_impl == spinlock' = "free"

\* readline and print write each character with tty_write, which takes the
\* spinlock.  (print is util::log and takes an interrupt lock too, which
\* kmem_alloc releases when the log grows: see RingRace.)
write_lock ==
    /\ shell.at = "run" /\ shell.todo # <<>>
    /\ spinlock_lock_impl
    /\ shell' = [shell EXCEPT !.at = "write"]
    /\ UNCHANGED <<script, kbd, inpipe, outpipe, ring_ops, screen, clean>>

\* The push has ended: tty_write returns the spinlock.
written ==
    /\ outpush' = NoPush
    /\ spinlock_unlock_impl
    /\ shell' = [shell EXCEPT !.at = "run", !.todo = Tail(@)]

move_head ==
    /\ outpush.at = "head"
    /\ outpush' = [at |-> "put", l |-> 0]
    /\ outpipe' = Advanced(outpipe)
    /\ Meets(outpop # NoPop)
    /\ clean' = (clean /\ outpop = NoPop /\ Fits(outpipe, <<Head(shell.todo)>>))
    /\ UNCHANGED <<shell, spinlock>>

\* The character is stored, and the length loaded if it can grow.
put_item ==
    /\ outpush.at = "put"
    /\ outpipe' = [outpipe EXCEPT !.items[outpipe.head] = Head(shell.todo)]
    /\ IF outpipe.length < PIPE_SIZE
       THEN /\ outpush' = [at |-> "raise", l |-> outpipe.length]
            /\ UNCHANGED <<shell, spinlock>>
       ELSE written
    /\ UNCHANGED <<met, clean>>

raise_length ==
    /\ outpush.at = "raise"
    /\ outpipe' = [outpipe EXCEPT !.length = outpush.l + 1]
    /\ written
    /\ UNCHANGED <<met, clean>>

\* The push of tty_write, with the spinlock, which tty_out_thread never takes.
tty_write ==
    /\ shell.at = "write"
    /\ move_head \/ put_item \/ raise_length
    /\ UNCHANGED <<script, kbd, inpipe, inpop, outpop, screen>>

\* tty_read: the spinlock is held until a character comes.
tty_read ==
    /\ shell.at = "run" /\ shell.todo = <<>> /\ ~shell.entered
    /\ spinlock_lock_impl
    /\ shell' = [shell EXCEPT !.at = "wait"]
    /\ UNCHANGED <<script, kbd, inpipe, outpipe, ring_ops, screen, clean>>

\* The keyboard handler comes between any two steps of its pop.
read_unsafe_in ==
    /\ shell.at = "wait"
    /\ popping(inpop, inpipe)
    /\ UNCHANGED <<script, kbd, outpipe, outpush, outpop, met, spinlock, shell, screen, clean>>

\* What readline does with a character: erase, end the line, echo, store.
Edited(c) ==
    LET erase == c = BS /\ shell.line # <<>>
        line == IF erase THEN Front(shell.line)
                ELSE IF c \in {BS, CR, NL, NUL} THEN shell.line
                ELSE Append(shell.line, c)
    IN  [shell EXCEPT !.at = "run", !.line = line,
                      !.entered = c \in {CR, NL} \/ Len(line) + 1 >= LINE,
                      !.nul = @ \/ c = NUL,
                      !.todo = IF erase THEN <<BS, Blank, BS>>
                               ELSE IF c = BS THEN <<>> ELSE <<c>>]

\* Mutant of readline: tty_read returns with the spinlock held.
readline_no_unlock ==
    /\ shell.at = "wait"
    /\ move_tail(inpop, inpipe)
    /\ shell' = Edited(inpop.c)
    /\ UNCHANGED <<script, kbd, outpipe, outpush, outpop, met, spinlock, screen, clean>>

\* tty_read returns the character and readline handles it.
readline ==
    /\ shell.at = "wait"
    /\ move_tail(inpop, inpipe)
    /\ spinlock_unlock_impl
    /\ shell' = Edited(inpop.c)
    /\ UNCHANGED <<script, kbd, outpipe, outpush, outpop, met, screen, clean>>

\* The words of a line, at most ARGS.
split_args(line) ==
    LET blank(n) == line[n] \in {Blank, "\t"}
        starts == {n \in 1 .. Len(line) : ~blank(n) /\ (n = 1 \/ blank(n - 1))}
        word(n) == SubSeq(line, n, (CHOOSE m \in n .. Len(line) :
                       /\ \A k \in n .. m : ~blank(k)
                       /\ m = Len(line) \/ blank(m + 1)))
        sorted == SetToSortSeq(starts, LAMBDA a, b : a < b)
    IN  [n \in 1 .. IF Len(sorted) < ARGS THEN Len(sorted) ELSE ARGS |-> word(sorted[n])]

\* echo opens /dev/stdout, which cannot be opened (Fd): fwrite to that stream
\* writes nothing, and print shows the end of the line.
Echo(args) == IF Len(args) = 1 THEN <<>> ELSE Newline

\* cat reads a file byte by byte.  A path that names nothing is descriptor 0,
\* one that the shell has not got, and there is nothing to read.
Cat(args) ==
    IF Len(args) = 1 THEN Usage
    ELSE IF args[2] \in DOMAIN Contents THEN Contents[args[2]] ELSE <<>>

\* What a command prints.  The text of most commands is made elsewhere.
Response(args) ==
    CASE args = <<>> -> <<>>
      [] args # <<>> /\ args[1] \in DOMAIN CommandText -> CommandText[args[1]]
      [] args # <<>> /\ args[1] = <<"c">> -> Cat(args)
      [] args # <<>> /\ args[1] = <<"e">> -> Echo(args)
      [] OTHER -> NotFound

Entered == shell.at = "run" /\ shell.todo = <<>> /\ shell.entered
Args == split_args(shell.line)
Word == IF Args = <<>> THEN <<>> ELSE Args[1]

NewLine(todo) == [at |-> "run", line |-> <<>>, entered |-> FALSE, nul |-> FALSE, todo |-> todo]

\* A command that returns, and the next prompt.
shell_main ==
    /\ Entered
    /\ Word \notin {<<"d">>, <<"p">>}
    /\ shell' = NewLine(Response(Args) \o Prompt)
    /\ UNCHANGED <<script, kbd, inpipe, outpipe, ring_ops, spinlock, screen, clean>>

\* util::log, by a handler that nothing interrupts.
log(pipe, text) == FoldLeft(Pushed, pipe, text)

\* div: the exception handler logs with interrupts off, then kills the thread.
exception_handle ==
    /\ Entered /\ Word = <<"d">>
    /\ spinlock = "free"
    /\ outpipe' = log(outpipe, ExceptionText)
    /\ Meets(outpop # NoPop)
    /\ clean' = (clean /\ outpop = NoPop /\ Fits(outpipe, ExceptionText))
    /\ shell' = [shell EXCEPT !.at = "dead"]
    /\ UNCHANGED <<script, kbd, inpipe, outpush, inpop, outpop, spinlock, screen>>

\* panic: interrupts off, the message on a cleared screen, and no more.
panic ==
    /\ Entered /\ Word = <<"p">>
    /\ screen' = Display(textmode_move(textmode_clear(screen), 0, 0), PanicText)
    /\ shell' = [shell EXCEPT !.at = "hung"]
    /\ UNCHANGED <<script, kbd, inpipe, outpipe, ring_ops, spinlock, clean>>

Init ==
    /\ script \in Scripts
    /\ kbd = <<>>
    /\ inpipe = EmptyPipe /\ outpipe = EmptyPipe
    /\ outpush = NoPush /\ inpop = NoPop /\ outpop = NoPop
    /\ met = 0
    /\ spinlock = "free"
    /\ shell = NewLine(Motd \o Prompt)
    /\ screen = textmode_init
    /\ clean = TRUE

Running == shell.at # "hung"
Shell == Running /\ (write_lock \/ tty_write \/ tty_read \/ read_unsafe_in \/ readline
                     \/ shell_main \/ exception_handle \/ panic)
Tty == Running /\ tty_out_thread
Kbd == Running /\ kbd_isr_main

Next == (Running /\ press) \/ Kbd \/ Shell \/ Tty

\* The scheduler gives every thread its turns, and a pending interrupt is taken.
Spec == Init /\ [][Next]_vars /\ WF_vars(Kbd) /\ WF_vars(Shell) /\ WF_vars(Tty)

-----------------------------------------------------------------------------
(* Properties. *)

\* The cursor stays on the screen, so that no character is written outside
\* the buffer, and the line stays in its buffer with its terminator.
TypeOK ==
    /\ screen.col \in 0 .. col_max - 1 /\ screen.row \in 0 .. row_max - 1
    /\ Len(shell.line) < LINE
    /\ inpipe.length \in 0 .. PIPE_SIZE /\ outpipe.length \in 0 .. PIPE_SIZE
    /\ spinlock \in {"free", "shell"}

Idle == /\ shell.at = "wait" /\ kbd = <<>>
        /\ inpipe.length = 0 /\ inpop = NoPop /\ outpipe.length = 0 /\ outpop = NoPop

\* When the shell waits for a key and all output is shown, the screen shows
\* the prompt and the line as the shell has it, up to the cursor and nothing
\* behind it, across wrapped and scrolled rows and erased characters, and
\* whatever the keyboard handler did to the keys by pushing in the middle of
\* a pop.  Not so once the output has overflowed, or a push of it has met a
\* pop: tty_out_thread takes no lock, and each can undo the other's change.
\* Nor in a line in which readline got a NUL, which it echoes and does not
\* store.
LineShown == Idle /\ clean /\ ~shell.nul =>
    LET text == Prompt \o shell.line
        pos == col_max * screen.row + screen.col
    IN  /\ \A n \in 1 .. Len(text) : screen.buffer[pos - Len(text) + n - 1] = text[n]
        /\ \A n \in Cells : n >= pos => screen.buffer[n] = Blank

\* Whatever is typed, and whenever a push meets a pop, the machine comes to
\* rest: no key is left in a pipe and no output to be shown, unless a command
\* has killed the shell or stopped the kernel.
ComesToRest == []<>(Idle \/ shell.at = "dead" \/ ~Running)
=============================================================================
