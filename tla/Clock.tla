------------------------------- MODULE Clock -------------------------------
(***************************************************************************)
(* clock_read (kernel/dev/clock.cpp), which reads the registers of the     *)
(* real time clock one by one while the clock runs                         *)
(* (kernel/x86/cmos.cpp).                                                  *)
(***************************************************************************)
EXTENDS Integers, Sequences

CONSTANT Moments    \* bound: sequences of consecutive times, <<sec, min, hour, day, month, year>>

CURRENT_YEAR == 2017

\* A time that the registers can hold, in the hundred years that cmos_read tells apart.
IsTime(t) ==
    /\ t \in [1 .. 6 -> Nat]
    /\ t[1] \in 0 .. 59 /\ t[2] \in 0 .. 59 /\ t[3] \in 0 .. 23
    /\ t[4] \in 1 .. 31 /\ t[5] \in 1 .. 12 /\ t[6] \in CURRENT_YEAR .. CURRENT_YEAR + 99

\* A call is over before a register comes back to a value that it has left.
ASSUME MomentsAssumption ==
    \A times \in Moments :
        /\ times \in Seq([1 .. 6 -> Nat]) /\ times # <<>>
        /\ \A m \in 1 .. Len(times) : IsTime(times[m])
        /\ \A r \in 1 .. 6, i, k \in 1 .. Len(times) :
              times[i][r] = times[k][r] => \A j \in i .. k : times[j][r] = times[i][r]

Formats == [binary : BOOLEAN, hours24 : BOOLEAN]    \* register B
NoTime == <<0, 0, 0, 1, 1, 1970>>

VARIABLES rtc,      \* the clock: its format, its times, which one it is, and if it is updating
          call      \* cmos_read: registers read, time, l_time, i

clock_vars == <<rtc, call>>

clock_init ==
    /\ rtc = [format |-> [binary |-> TRUE, hours24 |-> TRUE], times |-> <<NoTime>>, now |-> 1,
              updating |-> FALSE]
    /\ call = [at |-> "none", reg |-> 0, time |-> NoTime, l_time |-> NoTime, i |-> 0]

-----------------------------------------------------------------------------
(* The clock. *)

Bcd(n) == (n \div 10) * 16 + (n % 10)

\* A register of the clock at a moment: the hour has a bit for the afternoon.
Register(time, reg) ==
    LET f == rtc.format
        hour12 == IF time[3] % 12 = 0 THEN 12 ELSE time[3] % 12
        hour == IF f.hours24 THEN time[3] ELSE hour12
        pm == IF ~f.hours24 /\ time[3] >= 12 THEN 128 ELSE 0
        code(n) == IF f.binary THEN n ELSE Bcd(n)
    IN  IF reg = 3 THEN code(hour) + pm
        ELSE IF reg = 6 THEN code(time[6] % 100) ELSE code(time[reg])

update_begin ==
    /\ rtc.now < Len(rtc.times) /\ ~rtc.updating
    /\ rtc' = [rtc EXCEPT !.updating = TRUE]
    /\ UNCHANGED call

update_end ==
    /\ rtc.updating
    /\ rtc' = [rtc EXCEPT !.updating = FALSE, !.now = @ + 1]
    /\ UNCHANGED call

-----------------------------------------------------------------------------
(* cmos_read. *)

clock_read(format, times) ==
    /\ call.at = "none"
    /\ rtc' = [format |-> format, times |-> times, now |-> 1, updating |-> FALSE]
    /\ call' = [call EXCEPT !.at = "wait"]

\* Wait for no update to be in progress.
cmos_updating ==
    /\ call.at = "wait" /\ ~rtc.updating
    /\ call' = [call EXCEPT !.at = "read", !.reg = 1, !.l_time = call.time]
    /\ UNCHANGED rtc

\* A register that is read during an update has its old or its new value.
cmos_get_reg ==
    /\ call.at = "read"
    /\ \E m \in {rtc.now} \cup (IF rtc.updating THEN {rtc.now + 1} ELSE {}) :
          call' = [call EXCEPT !.time[call.reg] = Register(rtc.times[m], call.reg),
                               !.reg = @ + 1,
                               !.at = IF call.reg = 6 THEN "compare" ELSE "read"]
    /\ UNCHANGED rtc

\* Mutant of compare: two rounds are enough.
compare_twice ==
    /\ call.at = "compare"
    /\ call' = [call EXCEPT !.i = IF @ = 0 THEN 1 ELSE 2,
                            !.at = IF call.i = 0 THEN "wait" ELSE "done"]
    /\ UNCHANGED rtc

\* The condition of the loop: at least two rounds, and two that agree.
compare ==
    /\ call.at = "compare"
    /\ call' = [call EXCEPT !.i = IF @ = 0 THEN 1 ELSE 2,
                            !.at = IF call.i = 0 \/ call.time # call.l_time THEN "wait"
                                   ELSE "done"]
    /\ UNCHANGED rtc

\* BCD to binary, except the bit of the afternoon.
FromBcd(x) == (x % 16) + (x \div 16) * 10
FromBcdHour(x) == (x % 16) + ((x % 128) \div 16) * 10 + (x \div 128) * 128

\* What cmos_read makes of the registers.
Decode(format, t) ==
    LET b == IF format.binary THEN t
             ELSE [r \in 1 .. 6 |-> IF r = 3 THEN FromBcdHour(t[r]) ELSE FromBcd(t[r])]
        hour == IF ~format.hours24 /\ b[3] >= 128 THEN ((b[3] % 128) + 12) % 24 ELSE b[3]
        century == b[6] + (CURRENT_YEAR \div 100) * 100
        year == IF century < CURRENT_YEAR THEN century + 100 ELSE century
    IN  [b EXCEPT ![3] = hour, ![6] = year]

clock_next ==
    \/ \E f \in Formats, times \in Moments : clock_read(f, times)
    \/ update_begin \/ update_end
    \/ cmos_updating \/ cmos_get_reg \/ compare

clock_spec == clock_init /\ [][clock_next]_clock_vars

\* The hour after noon and after midnight of a clock that counts to twelve.
AtTwelve(format, t) == ~format.hours24 /\ t[3] % 12 = 0

\* However the clock moves on between two registers, through the end of a
\* minute, a day or a year, what clock_read returns is one time, the one at
\* a moment of the call: all its fields in every format, but for the hour
\* AtTwelve, of which only the place on the dial is claimed (ClockTold).
ClockRight == call.at = "done" =>
    \E m \in 1 .. rtc.now :
        LET t == rtc.times[m]
            told == Decode(rtc.format, call.time)
        IN  /\ told[3] % 12 = t[3] % 12
            /\ told = IF AtTwelve(rtc.format, t) THEN [t EXCEPT ![3] = told[3]] ELSE t

\* What "12-hour to 24-hour clock" (cmos.cpp:89) says: the time returned is
\* the time at a moment of the call, in both formats of the hour.
ClockTold == call.at = "done" =>
    \E m \in 1 .. rtc.now : Decode(rtc.format, call.time) = rtc.times[m]
=============================================================================
