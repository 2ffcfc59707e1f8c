-------------------------------- MODULE Input --------------------------------
(***************************************************************************)
(* The input functions of the library, std/src/io.c: xy_grab_i32 (the i64, *)
(* f32 and f64 ones differ in the format alone) and xy_grab_str with its   *)
(* one static buffer, called by the threads of a program.                  *)
(*                                                                         *)
(* scanf is external: it holds the lock of stdin for its whole length and  *)
(* converts as C says - a conversion that fails takes what could still     *)
(* have begun one, a sign, and leaves the rest.                            *)
(***************************************************************************)
EXTENDS Integers, Sequences, SequencesExt

CONSTANTS
    Threads,
    Chars,          \* the characters of the input: "7", "-", "x" and "blank"
    MaxInput,       \* characters of the input
    BufferSize      \* bytes of the buffer, 1024 in the code and at least 2

VARIABLES
    stdin,      \* the whole input
    pos,        \* characters of it taken
    buffer,     \* the string in the static buffer of xy_grab_str
    held,       \* what each thread's last xy_grab_str returned: its text, or "NULL"
    holding,    \* the thread has a pointer from it
    newest,     \* the threads, one or none, that the buffer was filled for last
    returned,   \* the texts of all conversions that succeeded, in order
    swallowed   \* the places of the signs that conversions which failed took

vars == <<stdin, pos, buffer, held, holding, newest, returned, swallowed>>

Init ==
    /\ stdin \in SeqOf(Chars, MaxInput) /\ pos = 0
    /\ buffer = <<>> /\ held = [t \in Threads |-> <<>>] /\ holding = [t \in Threads |-> FALSE]
    /\ newest = {} /\ returned = <<>> /\ swallowed = {}

-----------------------------------------------------------------------------
\* The input from position p on begins with n characters of S, and no more.
Run(p, S) == CHOOSE n \in 0..(Len(stdin) - p) :
                /\ \A i \in (p + 1)..(p + n) : stdin[i] \in S
                /\ p + n < Len(stdin) => stdin[p + n + 1] \notin S
Begin == pos + Run(pos, {"blank"})      \* both conversions skip the blanks
Least(a, b) == IF a < b THEN a ELSE b

\* %d: an optional sign and digits.
sign == IF Run(Begin, {"-"}) > 0 THEN 1 ELSE 0
digits == Run(Begin + sign, {"7"})

ThroughTheBuffer(t) ==
    /\ \/ /\ digits > 0
          /\ pos' = Begin + sign + digits
          /\ buffer' = SubSeq(stdin, Begin + 1, Least(pos', Begin + BufferSize - 1))
          /\ returned' = Append(returned, SubSeq(stdin, Begin + 1, pos'))
          /\ UNCHANGED swallowed
       \/ /\ digits = 0
          /\ pos' = Begin + sign
          /\ swallowed' = swallowed \cup ((Begin + 1)..pos')
          /\ UNCHANGED <<buffer, returned>>
    /\ UNCHANGED <<stdin, held, holding, newest>>

xy_grab_i32(t) ==
    /\ \/ /\ digits > 0
          /\ pos' = Begin + sign + digits
          /\ returned' = Append(returned, SubSeq(stdin, Begin + 1, pos'))
          /\ UNCHANGED swallowed
       \/ /\ digits = 0             \* 0 is returned
          /\ pos' = Begin + sign
          /\ swallowed' = swallowed \cup ((Begin + 1)..pos')
          /\ UNCHANGED returned
    /\ UNCHANGED <<stdin, buffer, held, holding, newest>>

BlanksNotSkipped(t) ==
    LET n == Least(Run(pos, Chars \ {"blank"}), BufferSize - 1)
        text == SubSeq(stdin, pos + 1, pos + n) IN
    /\ pos' = pos + n
    /\ \/ /\ n > 0
          /\ buffer' = text
          /\ held' = [held EXCEPT ![t] = text] /\ holding' = [holding EXCEPT ![t] = TRUE]
          /\ newest' = {t}
          /\ returned' = Append(returned, text)
       \/ /\ n = 0
          /\ holding' = [holding EXCEPT ![t] = FALSE]
          /\ UNCHANGED <<buffer, held, newest, returned>>
    /\ UNCHANGED <<stdin, swallowed>>

\* %1023s: characters up to a blank, at most those that fit.
xy_grab_str(t) ==
    LET n == Least(Run(Begin, Chars \ {"blank"}), BufferSize - 1)
        text == SubSeq(stdin, Begin + 1, Begin + n) IN
    /\ pos' = Begin + n
    /\ \/ /\ n > 0
          /\ buffer' = text
          /\ held' = [held EXCEPT ![t] = text] /\ holding' = [holding EXCEPT ![t] = TRUE]
          /\ newest' = {t}
          /\ returned' = Append(returned, text)
       \/ /\ n = 0                  \* NULL
          /\ holding' = [holding EXCEPT ![t] = FALSE]
          /\ UNCHANGED <<buffer, held, newest, returned>>
    /\ UNCHANGED <<stdin, swallowed>>

Next == \E t \in Threads : xy_grab_i32(t) \/ xy_grab_str(t)

\* A thread that reads until the end of the input goes on reading words.
Spec == Init /\ [][Next]_vars /\ WF_vars(\E t \in Threads : xy_grab_str(t))

-----------------------------------------------------------------------------
TypeOK ==
    /\ stdin \in Seq(Chars) /\ pos \in 0..Len(stdin)
    /\ buffer \in Seq(Chars) /\ Len(buffer) < BufferSize
    /\ held \in [Threads -> Seq(Chars)] /\ holding \in [Threads -> BOOLEAN] /\ newest \subseteq Threads
    /\ returned \in Seq(Seq(Chars)) /\ swallowed \subseteq 1..pos

(* Between them the calls return the input in order, none of it twice, and lose *)
(* of it only the blanks and the signs that begin no number, however long its   *)
(* words are and whichever calls fail (io.c:39-77).                             *)
InOrder ==
    /\ \A i \in swallowed : stdin[i] = "-"
    /\ FlattenSeq(returned) =
       FlattenSeq([i \in 1..pos |-> IF stdin[i] = "blank" \/ i \in swallowed THEN <<>>
                                   ELSE <<stdin[i]>>])

(* The string that xy_grab_str returned last stays what it was, whatever number *)
(* is read and whoever comes to the end of the input; the strings that it       *)
(* returned before, to this thread or to others, are the same bytes and go with *)
(* it (io.c:70-77).                                                             *)
NewestIntact == \A t \in newest : holding[t] => buffer = held[t]

(* A number that does not convert stays in the way of the numbers after it, but *)
(* a program that goes on reading words comes to the end of the input.          *)
ReadsToTheEnd == <>(pos = Len(stdin))

(* What the calls returned is the input, and the buffer is the newest string.   *)
InputSound == TypeOK /\ InOrder /\ NewestIntact
=============================================================================
