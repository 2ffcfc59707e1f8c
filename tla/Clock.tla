-------------------------------- MODULE Clock --------------------------------
(***************************************************************************)
(* The clocks and sleeps of the library, std/src/time.c on POSIX: a        *)
(* program that notes a time, works or sleeps, and takes the difference.   *)
(*                                                                         *)
(* The clocks of the system are external: CLOCK_MONOTONIC only goes on,    *)
(* the one of gettimeofday is also set, forwards and backwards.  Time goes *)
(* on in microseconds; a millisecond has PerMs of them, a second PerMs     *)
(* milliseconds, and an int is one of -IntHalf..IntHalf - 1.  A program    *)
(* runs for MaxTime, the clock is set to times up to MaxWall.              *)
(***************************************************************************)
EXTENDS Integers

CONSTANTS PerMs, IntHalf, MaxTime, MaxWall

VARIABLES
    mono, wall,     \* the two clocks of the system
    noted,          \* the time that the program noted: by which clock, and what it
                    \* was; when it really was, and whether the clock was set since
    elapsed,        \* the difference it took, and what really passed
    sleep,          \* the sleep that goes on, or was the last: its milliseconds,
                    \* its start, its end and whether a signal cut it short
    asleep

vars == <<mono, wall, noted, elapsed, sleep, asleep>>

Clocks == {"ns", "us", "ms", "s"}

\* Microseconds in the unit of a clock; a nanosecond is one here.
Unit(c) == CASE c = "ms" -> PerMs [] c = "s" -> PerMs * PerMs [] OTHER -> 1

Nothing == [clock |-> "none", value |-> 0, at |-> 0, set |-> FALSE]
NoTime == [clock |-> "none", value |-> 0, real |-> 0, set |-> FALSE]

Init ==
    /\ mono = 0 /\ wall \in 0..MaxWall
    /\ noted = Nothing /\ elapsed = NoTime
    /\ sleep = [ms |-> 0, from |-> 0, until |-> 0, cut |-> FALSE] /\ asleep = FALSE

-----------------------------------------------------------------------------
Pass ==
    /\ mono < MaxTime
    /\ mono' = mono + 1 /\ wall' = wall + 1
    /\ UNCHANGED <<noted, elapsed, sleep, asleep>>

SetClock(t) ==
    /\ t # wall /\ wall' = t
    /\ noted' = [noted EXCEPT !.set = noted # Nothing]
    /\ UNCHANGED <<mono, elapsed, sleep, asleep>>

AllWall(c) == wall \div Unit(c)

\* xy_time_ns is the monotonic clock, xy_time_us, xy_time_ms and xy_time_s are
\* the other one, seconds and the part of a second put together.
xy_time(c) == IF c = "ns" THEN mono ELSE wall \div Unit(c)

Note(c) ==
    /\ ~asleep
    /\ noted' = [clock |-> c, value |-> xy_time(c), at |-> mono, set |-> FALSE]
    /\ elapsed' = NoTime
    /\ UNCHANGED <<mono, wall, sleep, asleep>>

\* xy_time_diff_ms, or the program's own subtraction.
xy_time_diff(start, end) == end - start

TakeElapsed ==
    /\ ~asleep /\ noted # Nothing
    /\ noted' = Nothing
    /\ elapsed' = [clock |-> noted.clock, set |-> noted.set, real |-> mono - noted.at,
                   value |-> xy_time_diff(noted.value, xy_time(noted.clock))]
    /\ UNCHANGED <<mono, wall, sleep, asleep>>

\* milliseconds * 1000 in an int, or anything when it does not fit one: that is
\* undefined.  usleep takes it as an unsigned one.
Microseconds(ms) ==
    IF ms * PerMs < IntHalf THEN {ms * PerMs} ELSE 0..(2 * IntHalf - 1)

xy_sleep_ms(ms) ==
    /\ ~asleep /\ asleep' = TRUE
    /\ \E us \in Microseconds(ms) :
          sleep' = [ms |-> ms, from |-> mono, until |-> mono + us, cut |-> FALSE]
    /\ UNCHANGED <<mono, wall, noted, elapsed>>

\* usleep returns when the time has come, or earlier for a signal: nobody looks.
Wake ==
    /\ asleep /\ asleep' = FALSE
    /\ sleep' = [sleep EXCEPT !.cut = mono < sleep.until, !.until = mono]
    /\ UNCHANGED <<mono, wall, noted, elapsed>>

Next ==
    \/ Pass \/ (\E t \in 0..MaxWall : SetClock(t))
    \/ (\E c \in Clocks : Note(c)) \/ TakeElapsed
    \/ (\E ms \in 0..(IntHalf - 1) : xy_sleep_ms(ms)) \/ Wake

Spec == Init /\ [][Next]_vars

-----------------------------------------------------------------------------
TypeOK ==
    /\ mono \in 0..MaxTime /\ wall \in 0..(MaxWall + MaxTime)
    /\ noted \in [clock : Clocks \cup {"none"}, value : Nat, at : 0..MaxTime, set : BOOLEAN]
    /\ elapsed \in [clock : Clocks \cup {"none"}, value : Int, real : 0..MaxTime, set : BOOLEAN]
    /\ sleep \in [ms : Nat, from : 0..MaxTime, until : 0..(MaxTime + 2 * IntHalf), cut : BOOLEAN]
    /\ asleep \in BOOLEAN

(* A difference of two readings is what really passed, but for less than one of *)
(* its unit - of nanoseconds always, of the other clocks unless somebody set    *)
(* the clock of the system between the two (time.c:11-65).                      *)
ElapsedHolds ==
    elapsed.clock = "ns" \/ (elapsed.clock # "none" /\ ~elapsed.set) =>
        LET off == elapsed.value * Unit(elapsed.clock) - elapsed.real
        IN  -Unit(elapsed.clock) < off /\ off < Unit(elapsed.clock)

(* A sleep that no signal cuts short is as long as it was asked to be, while    *)
(* its microseconds fit an int (time.c:67-73).                                  *)
SleepsLongEnough ==
    ~asleep /\ ~sleep.cut /\ sleep.ms * PerMs < IntHalf
        => sleep.until - sleep.from >= sleep.ms * PerMs

(* Times and sleeps are what a program takes them for, within these limits.     *)
TimesHold == TypeOK /\ ElapsedHolds /\ SleepsLongEnough
=============================================================================
