------------------------------- MODULE Arrays -------------------------------
(***************************************************************************)
(* The array helpers of the library, std/src/array.c, one iteration of a   *)
(* loop at a time, on a memory of ints that belongs to the caller.  An int *)
(* is one of -Half..Half - 1; what an addition beyond them gives, C leaves *)
(* undefined.                                                              *)
(***************************************************************************)
EXTENDS Integers

CONSTANTS
    Half,       \* 2^31 in the code
    Cells       \* ints of the caller's memory

ASSUME HalfAssumption == Half \in Nat \ {0}
ASSUME CellsAssumption == Cells \in Nat

Ints == -Half..(Half - 1)
Memory == 0..(Cells - 1)

\* The sum of two ints; one that is no int may come out as anything.
Added(m, n) == IF m + n \in Ints THEN {m + n} ELSE Ints

Loops == {"fill", "sum", "min", "max"}
Ops == Loops \cup {"copy"}

VARIABLES
    mem,        \* the memory
    before,     \* what it was when the function was called
    call,       \* the function and its arguments: arr or dest, src, size and value
    at,         \* "idle", in the "loop" or "returned"
    i,          \* the index of the loop
    acc         \* sum, min or max

vars == <<mem, before, call, at, i, acc>>

\* Ranges that the caller has; null says that arr, dest or src is NULL.  Only
\* copy has a src, only fill a value.
Calls == {c \in [op : Ops, null : BOOLEAN, arr : 0..Cells, src : 0..Cells, size : 0..Cells,
                 value : Ints] :
             /\ c.arr + c.size <= Cells /\ c.src + c.size <= Cells
             /\ c.op # "copy" => c.src = 0
             /\ c.op # "fill" => c.value = 0}
NoCall == [op |-> "fill", null |-> TRUE, arr |-> 0, src |-> 0, size |-> 0, value |-> 0]

Span(start) == start..(start + call.size - 1)

Init ==
    /\ mem \in [Memory -> Ints] /\ before = mem
    /\ call = NoCall /\ at = "idle" /\ i = 0 /\ acc = 0

-----------------------------------------------------------------------------
\* min and max begin with 0 instead.
BeginsWithZero(c) ==
    /\ at = "idle"
    /\ call' = c /\ before' = mem
    /\ at' = IF c.null THEN "returned" ELSE "loop"
    /\ i' = 0 /\ acc' = 0
    /\ UNCHANGED mem

\* The function is called.  NULL returns at once, and so does min or max of no
\* ints; min and max begin with the first int.
Begin(c) ==
    /\ at = "idle"
    /\ call' = c /\ before' = mem
    /\ IF c.null \/ (c.op \in {"min", "max"} /\ c.size = 0)
       THEN at' = "returned" /\ i' = 0 /\ acc' = 0
       ELSE IF c.op \in {"min", "max"} THEN at' = "loop" /\ i' = 1 /\ acc' = mem[c.arr]
       ELSE at' = "loop" /\ i' = 0 /\ acc' = 0
    /\ UNCHANGED mem

More(op) == at = "loop" /\ call.op = op /\ i < call.size
Current == mem[call.arr + i]

Fill ==
    /\ More("fill")
    /\ mem' = [mem EXCEPT ![call.arr + i] = call.value]
    /\ i' = i + 1
    /\ UNCHANGED <<before, call, at, acc>>

Sum ==
    /\ More("sum")
    /\ acc' \in Added(acc, Current)
    /\ i' = i + 1
    /\ UNCHANGED <<mem, before, call, at>>

Least ==
    /\ More("min")
    /\ acc' = IF Current < acc THEN Current ELSE acc
    /\ i' = i + 1
    /\ UNCHANGED <<mem, before, call, at>>

Greatest ==
    /\ More("max")
    /\ acc' = IF Current > acc THEN Current ELSE acc
    /\ i' = i + 1
    /\ UNCHANGED <<mem, before, call, at>>

\* memcpy, which may leave anything where the ranges overlap.
Copy ==
    /\ at = "loop" /\ call.op = "copy" /\ at' = "returned"
    /\ IF Span(call.arr) \cap Span(call.src) = {}
       THEN mem' = [a \in Memory |->
                       IF a \in Span(call.arr) THEN mem[a - call.arr + call.src] ELSE mem[a]]
       ELSE \E m \in [Memory -> Ints] : mem' = [a \in Memory |->
                       IF a \in Span(call.arr) THEN m[a] ELSE mem[a]]
    /\ UNCHANGED <<before, call, i, acc>>

Return ==
    /\ at = "loop" /\ call.op \in Loops /\ i >= call.size
    /\ at' = "returned"
    /\ UNCHANGED <<mem, before, call, i, acc>>

\* No call leaves anything for the next one but the memory, and Init has them all.
Finished == at = "returned" /\ UNCHANGED vars

Next ==
    \/ \E c \in Calls : Begin(c)
    \/ Fill \/ Sum \/ Least \/ Greatest \/ Copy \/ Return
    \/ Finished

Spec == Init /\ [][Next]_vars /\ WF_vars(Fill \/ Sum \/ Least \/ Greatest \/ Copy \/ Return)

-----------------------------------------------------------------------------
TypeOK ==
    /\ mem \in [Memory -> Ints] /\ before \in [Memory -> Ints]
    /\ call \in Calls /\ at \in {"idle", "loop", "returned"}
    /\ i \in 0..Cells /\ acc \in Ints

\* The ints that the call is about.
Seen(n) == call.arr..(call.arr + n - 1)
Done(op) == at = "returned" /\ call.op = op /\ ~call.null

(* min and max return an int of the array that no int of it is beyond, and 0    *)
(* for an array of none or for NULL (array.c:25-41).                            *)
ExtremesHold ==
    /\ Done("min") /\ call.size > 0 =>
           /\ \E a \in Seen(call.size) : acc = mem[a]
           /\ \A a \in Seen(call.size) : acc <= mem[a]
    /\ Done("max") /\ call.size > 0 =>
           /\ \E a \in Seen(call.size) : acc = mem[a]
           /\ \A a \in Seen(call.size) : acc >= mem[a]
    /\ (at = "returned" /\ call.op \in {"min", "max"} /\ (call.null \/ call.size = 0)) => acc = 0

(* fill and copy leave the ints they were asked for where they were asked to,   *)
(* and every other cell as it was; the other functions write nothing            *)
(* (array.c:4-14).                                                              *)
WritesHold ==
    /\ Done("fill") =>
           mem = [a \in Memory |-> IF a \in Seen(call.size) THEN call.value ELSE before[a]]
    /\ Done("copy") /\ Span(call.arr) \cap Span(call.src) = {} =>
           mem = [a \in Memory |-> IF a \in Seen(call.size) THEN before[a - call.arr + call.src]
                                   ELSE before[a]]
    /\ (call.null \/ call.op \notin {"fill", "copy"}) => mem = before

\* The sum of the first n ints, as a number.
Total[n \in 0..Cells] == IF n = 0 THEN 0 ELSE Total[n - 1] + mem[call.arr + n - 1]

(* sum returns the number, as long as the sums on the way to it are ints, and 0 *)
(* for NULL; of a sum that leaves them nothing is said, also when the whole     *)
(* would be one again (array.c:16-23).                                          *)
SumHolds ==
    /\ Done("sum") /\ (\A n \in 0..call.size : Total[n] \in Ints) => acc = Total[call.size]
    /\ (at = "returned" /\ call.op = "sum" /\ call.null) => acc = 0

(* What the functions return and leave behind.                                  *)
ResultsHold == TypeOK /\ ExtremesHold /\ WritesHold /\ SumHolds

(* Every call returns.                                                          *)
CallsReturn == (at = "loop") ~> (at = "returned")
=============================================================================
