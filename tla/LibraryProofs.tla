---------------------------- MODULE LibraryProofs ----------------------------
(***************************************************************************)
(* For any program that imports and calls the library, memories of any     *)
(* size, ints of any width, clocks of any resolution, files and inputs of  *)
(* any length: what the functions on arrays return and write, that the     *)
(* three accounts of the library's functions agree, what a program takes   *)
(* two readings of a clock and a sleep for, what is written to and read    *)
(* from a file by several users at the same time, and what several threads *)
(* read from the input.                                                    *)
(*                                                                         *)
(* The parts share no state, so each has an invariant of its own, and a    *)
(* step of the library is one of a part and leaves the others alone.       *)
(***************************************************************************)
EXTENDS MCStandardLibrary, SequenceTheorems, WellFoundedInduction, TLAPS

-----------------------------------------------------------------------------
(* Counting *)

\* The order of the numbers as a set, as WellFoundedInduction has orders.
Less == {p \in Nat \X Nat : p[1] < p[2]}

\* A set of numbers has a least one.
LEMMA LeastNumber ==
    ASSUME NEW S \in SUBSET Nat, S # {}
    PROVE  \E n \in S : \A m \in S : n <= m
<1>1. IsWellFoundedOn(Less, Nat)
  BY NatLessThanWellFounded DEF OpToRel, Less
<1>2. PICK n \in S : \A m \in S : ~ (<<m, n>> \in Less)
  BY <1>1, WFMin
<1>3. ASSUME NEW m \in S PROVE n <= m
  <2>1. <<m, n>> \in Nat \X Nat /\ ~ (<<m, n>> \in {p \in Nat \X Nat : p[1] < p[2]})
    BY <1>2 DEF Less
  <2>2. ~ (m < n)
    BY <2>1
  <2>3. QED
    BY <2>2
<1>4. QED
  BY <1>3

\* A set of numbers that has 0, and the next of each below bound, has all up to bound.
LEMMA Counting ==
    ASSUME NEW bound \in Nat, NEW S, 0 \in S, \A n \in S : n \in Nat /\ n < bound => n + 1 \in S
    PROVE  \A n \in 0..bound : n \in S
<1> DEFINE missing == {n \in 0..bound : n \notin S}
<1> SUFFICES ASSUME missing # {} PROVE FALSE
  OBVIOUS
<1>1. missing \in SUBSET Nat
  OBVIOUS
<1>2. PICK n \in missing : \A m \in missing : n <= m
  <2> HIDE DEF missing
  <2>1. QED
    BY <1>1, LeastNumber
<1>3. n # 0 /\ n \in 0..bound /\ n \notin S
  BY <1>2
<1>4. n - 1 \in 0..bound /\ n - 1 < bound /\ n - 1 \in Nat /\ ~ (n <= n - 1)
  BY <1>3
<1>5. n - 1 \in S
  BY <1>2, <1>4
<1>6. (n - 1) + 1 \in S
  BY <1>4, <1>5
<1>7. QED
  BY <1>3, <1>6

-----------------------------------------------------------------------------
(* The arrays *)

Extreme(op) == call.op = op /\ ~call.null /\ call.size > 0 /\ at # "idle"

LoopBounds ==
    /\ at = "loop" => ~call.null /\ i <= call.size
    /\ (at = "loop" /\ call.op = "copy") => mem = before
    /\ (at = "returned" /\ ~call.null /\ call.op \in Loops) => i >= call.size
    /\ (Extreme("min") \/ Extreme("max")) => 1 <= i /\ i <= call.size
    /\ (at # "idle" /\ call.op \in {"min", "max"} /\ (call.null \/ call.size = 0)) =>
           at = "returned" /\ acc = 0
    /\ (at # "idle" /\ call.op = "sum" /\ call.null) => at = "returned" /\ acc = 0

LeastSoFar ==
    Extreme("min") => /\ \E a \in Seen(i) : acc = mem[a]
                      /\ \A a \in Seen(i) : acc <= mem[a]

GreatestSoFar ==
    Extreme("max") => /\ \E a \in Seen(i) : acc = mem[a]
                      /\ \A a \in Seen(i) : acc >= mem[a]

FilledSoFar ==
    (call.op = "fill" /\ ~call.null /\ at # "idle") =>
        /\ i <= call.size
        /\ mem = [a \in Memory |-> IF a \in Seen(i) THEN call.value ELSE before[a]]

OthersUntouched == (call.null \/ call.op \notin {"fill", "copy"}) => mem = before

Copied ==
    (Done("copy") /\ Span(call.arr) \cap Span(call.src) = {}) =>
        mem = [a \in Memory |-> IF a \in Seen(call.size) THEN before[a - call.arr + call.src]
                                ELSE before[a]]

LoopsInv ==
    /\ TypeOK /\ LoopBounds /\ LeastSoFar /\ GreatestSoFar
    /\ FilledSoFar /\ OthersUntouched /\ Copied
    /\ at = "idle" => call.null

-----------------------------------------------------------------------------
\* The cells of a call's range are cells of the memory.
LEMMA RangesAreMemory ==
    ASSUME NEW c \in Calls
    PROVE  /\ c.arr \in 0..Cells /\ c.src \in 0..Cells /\ c.size \in 0..Cells
           /\ c.value \in Ints /\ c.op \in Ops /\ c.null \in BOOLEAN
           /\ c.arr + c.size <= Cells /\ c.src + c.size <= Cells
BY DEF Calls

\* Where TLC starts, the invariant holds.
LEMMA InitInv == Init => LoopsInv
<1>1. NoCall \in Calls
  BY HalfAssumption, CellsAssumption DEF NoCall, Calls, Ops, Loops, Ints
<1>2. 0 \in Ints /\ 0 \in 0..Cells
  BY HalfAssumption, CellsAssumption DEF Ints
<1>3. NoCall.null
  BY DEF NoCall
<1>4. QED
  BY <1>1, <1>2, <1>3 DEF Init, LoopsInv, TypeOK, LoopBounds, LeastSoFar, GreatestSoFar, FilledSoFar,
     OthersUntouched, Copied, Extreme, Done

-----------------------------------------------------------------------------
\* A function is called.
LEMMA BeginInv == ASSUME LoopsInv, NEW c \in Calls, Begin(c) PROVE LoopsInv'
<1> USE DEF LoopsInv
<1>1. /\ c.arr \in 0..Cells /\ c.size \in 0..Cells /\ c.arr + c.size <= Cells
      /\ c.op \in Ops /\ c.null \in BOOLEAN /\ c.value \in Ints
  BY RangesAreMemory
<1>2. 0 \in Ints /\ 0 \in 0..Cells
  BY HalfAssumption, CellsAssumption DEF Ints
<1>3. call' = c /\ before' = mem /\ mem' = mem
  BY DEF Begin
<1>4. CASE c.null \/ (c.op \in {"min", "max"} /\ c.size = 0)
  <2>1. at' = "returned" /\ i' = 0 /\ acc' = 0
    BY <1>4 DEF Begin
  <2> QED
    BY <1>1, <1>2, <1>3, <1>4, <2>1 DEF TypeOK, LoopBounds, LeastSoFar, GreatestSoFar,
       FilledSoFar, OthersUntouched, Copied, Extreme, Done, Loops
<1>5. CASE ~c.null /\ c.op \in {"min", "max"} /\ c.size # 0
  <2>1. at' = "loop" /\ i' = 1 /\ acc' = mem[c.arr]
    BY <1>5 DEF Begin
  <2>2. c.arr \in Memory /\ 1 \in 0..Cells /\ 1 <= c.size
    BY <1>1, <1>5, CellsAssumption DEF Memory
  <2>3. TypeOK'
    BY <1>1, <1>3, <2>1, <2>2 DEF TypeOK
  <2>4. Seen(i)' = {c.arr}
    BY <1>1, <1>3, <2>1 DEF Seen
  <2>5. acc' \in Ints /\ acc' <= acc' /\ acc' >= acc'
    BY <2>3, HalfAssumption DEF TypeOK, Ints
  <2>6. LeastSoFar' /\ GreatestSoFar'
    BY <1>3, <2>1, <2>4, <2>5 DEF LeastSoFar, GreatestSoFar
  <2> QED
    BY <1>1, <1>3, <1>5, <2>1, <2>2, <2>3, <2>6 DEF LoopBounds, FilledSoFar, OthersUntouched,
       Copied, Extreme, Done
<1>6. CASE ~c.null /\ c.op \notin {"min", "max"}
  <2>1. at' = "loop" /\ i' = 0 /\ acc' = 0
    BY <1>6 DEF Begin
  <2>2. Seen(i)' = {}
    BY <1>1, <1>3, <2>1 DEF Seen
  <2>3. TypeOK'
    BY <1>1, <1>2, <1>3, <2>1 DEF TypeOK
  <2>4. mem' = [a \in Memory |-> before'[a]]
    BY <1>3 DEF TypeOK
  <2>5. FilledSoFar'
    BY <1>1, <1>3, <2>1, <2>2, <2>4 DEF FilledSoFar
  <2> QED
    BY <1>1, <1>3, <1>6, <2>1, <2>3, <2>5 DEF LoopBounds, LeastSoFar, GreatestSoFar,
       OthersUntouched, Copied, Extreme, Done
<1> QED
  BY <1>1, <1>4, <1>5, <1>6

-----------------------------------------------------------------------------
(* The iterations of the loops *)

\* What every iteration finds: an index within the range, and a cell within the memory.
LEMMA Iteration ==
    ASSUME LoopsInv, NEW op \in Loops, More(op)
    PROVE  /\ i \in Int /\ 0 <= i /\ i + 1 <= call.size /\ i + 1 \in 0..Cells
           /\ call.arr \in Int /\ 0 <= call.arr
           /\ call.arr + i \in Memory /\ Current \in Ints
           /\ ~call.null
           /\ Seen(i + 1) = Seen(i) \cup {call.arr + i}
           /\ \A a \in Seen(i) : a # call.arr + i
<1>1. call \in Calls /\ i \in 0..Cells /\ mem \in [Memory -> Ints]
  BY DEF LoopsInv, TypeOK
<1>2. /\ call.arr \in 0..Cells /\ call.size \in 0..Cells /\ call.arr + call.size <= Cells
  BY <1>1, RangesAreMemory
<1>3. i < call.size /\ ~call.null
  BY DEF LoopsInv, LoopBounds, More
<1>4. /\ i \in Int /\ 0 <= i /\ i + 1 <= call.size /\ i + 1 \in 0..Cells
      /\ call.arr \in Int /\ 0 <= call.arr
      /\ call.arr + i \in Memory
  BY <1>1, <1>2, <1>3, CellsAssumption DEF Memory
<1>5. Current \in Ints
  BY <1>1, <1>4 DEF Current
<1>6. /\ Seen(i + 1) = Seen(i) \cup {call.arr + i}
      /\ \A a \in Seen(i) : a # call.arr + i
  BY <1>4 DEF Seen
<1> QED
  BY <1>3, <1>4, <1>5, <1>6

LEMMA FillCellInv == ASSUME LoopsInv, Fill PROVE LoopsInv'
<1> USE DEF LoopsInv
<1>1. /\ mem' = [mem EXCEPT ![call.arr + i] = call.value] /\ i' = i + 1
      /\ UNCHANGED <<before, call, at, acc>>
  BY DEF Fill
<1>2. at = "loop" /\ call.op = "fill" /\ "fill" \in Loops
  BY DEF Fill, More, Loops
<1>3. /\ i \in Int /\ 0 <= i /\ i + 1 <= call.size /\ i + 1 \in 0..Cells
      /\ call.arr + i \in Memory /\ ~call.null
      /\ Seen(i + 1) = Seen(i) \cup {call.arr + i}
  BY <1>2, Iteration DEF Fill
<1>4. call.value \in Ints /\ call.size \in Int
  BY RangesAreMemory DEF TypeOK
<1>5. TypeOK'
  BY <1>1, <1>3, <1>4 DEF TypeOK
<1>6. FilledSoFar'
  <2>1. mem = [a \in Memory |-> IF a \in Seen(i) THEN call.value ELSE before[a]]
    BY <1>2, <1>3 DEF FilledSoFar
  <2>2. mem' = [a \in Memory |-> IF a \in Seen(i) \cup {call.arr + i} THEN call.value ELSE before[a]]
    BY <1>1, <1>3, <2>1
  <2>3. Seen(i)' = Seen(i) \cup {call.arr + i}
    BY <1>1, <1>3 DEF Seen
  <2> QED
    BY <1>1, <1>3, <2>2, <2>3 DEF FilledSoFar
<1>7. QED
  BY <1>1, <1>2, <1>3, <1>5, <1>6 DEF LoopBounds, LeastSoFar, GreatestSoFar, OthersUntouched,
     Copied, Extreme, Done

LEMMA SumInv == ASSUME LoopsInv, Sum PROVE LoopsInv'
<1> USE DEF LoopsInv
<1>1. /\ acc' \in Added(acc, Current) /\ i' = i + 1
      /\ UNCHANGED <<mem, before, call, at>>
  BY DEF Sum
<1>2. at = "loop" /\ call.op = "sum" /\ "sum" \in Loops
  BY DEF Sum, More, Loops
<1>3. i \in Int /\ i + 1 <= call.size /\ i + 1 \in 0..Cells /\ Current \in Ints /\ ~call.null
  BY <1>2, Iteration DEF Sum
<1>4. acc + Current \in Int
  BY <1>3, HalfAssumption DEF TypeOK, Ints
<1>5. TypeOK'
  BY <1>1, <1>3, <1>4 DEF TypeOK, Added
<1>6. QED
  BY <1>1, <1>2, <1>3, <1>5 DEF LoopBounds, LeastSoFar, GreatestSoFar, FilledSoFar,
     OthersUntouched, Copied, Extreme, Done

LEMMA LeastInv == ASSUME LoopsInv, Least PROVE LoopsInv'
<1> USE DEF LoopsInv
<1>1. /\ acc' = IF Current < acc THEN Current ELSE acc
      /\ i' = i + 1 /\ UNCHANGED <<mem, before, call, at>>
  BY DEF Least
<1>2. at = "loop" /\ call.op = "min" /\ "min" \in Loops
  BY DEF Least, More, Loops
<1>3. /\ i \in Int /\ 0 <= i /\ i + 1 <= call.size /\ i + 1 \in 0..Cells
      /\ call.arr + i \in Memory /\ Current \in Ints /\ ~call.null
      /\ Seen(i + 1) = Seen(i) \cup {call.arr + i}
  BY <1>2, Iteration DEF Least
<1>4. call.size \in Int /\ acc \in Int /\ Current \in Int /\ Seen(i) \subseteq Int
  BY <1>3, RangesAreMemory, HalfAssumption DEF TypeOK, Ints, Seen
<1>5. TypeOK'
  BY <1>1, <1>3 DEF TypeOK
<1>6. LeastSoFar'
  <2>1. Extreme("min")
    BY <1>2, <1>3, <1>4 DEF Extreme
  <2>2. PICK b \in Seen(i) : acc = mem[b]
    BY <2>1 DEF LeastSoFar
  <2>3. \A a \in Seen(i) : acc <= mem[a]
    BY <2>1 DEF LeastSoFar
  <2>4. \A a \in Seen(i) : mem[a] \in Int
    <3>1. call.arr \in Int /\ 0 <= call.arr /\ call.arr + call.size <= Cells
      BY RangesAreMemory DEF TypeOK
    <3>2. Seen(i) \subseteq Memory
      BY <1>3, <1>4, <3>1, CellsAssumption DEF Seen, Memory
    <3>3. QED
      BY <3>2, HalfAssumption DEF TypeOK, Ints
  <2>5. Seen(i)' = Seen(i) \cup {call.arr + i} /\ Current = mem[call.arr + i] /\ mem' = mem
    BY <1>1, <1>3 DEF Seen, Current
  <2>6. CASE Current < acc
    BY <1>1, <1>4, <2>3, <2>4, <2>5, <2>6 DEF LeastSoFar
  <2>7. CASE ~(Current < acc)
    BY <1>1, <1>4, <2>2, <2>3, <2>4, <2>5, <2>7 DEF LeastSoFar
  <2>8. QED
    BY <2>6, <2>7
<1>7. QED
  BY <1>1, <1>2, <1>3, <1>4, <1>5, <1>6 DEF LoopBounds, GreatestSoFar, FilledSoFar, OthersUntouched,
     Copied, Extreme, Done

LEMMA GreatestInv == ASSUME LoopsInv, Greatest PROVE LoopsInv'
<1> USE DEF LoopsInv
<1>1. /\ acc' = IF Current > acc THEN Current ELSE acc
      /\ i' = i + 1 /\ UNCHANGED <<mem, before, call, at>>
  BY DEF Greatest
<1>2. at = "loop" /\ call.op = "max" /\ "max" \in Loops
  BY DEF Greatest, More, Loops
<1>3. /\ i \in Int /\ 0 <= i /\ i + 1 <= call.size /\ i + 1 \in 0..Cells
      /\ call.arr + i \in Memory /\ Current \in Ints /\ ~call.null
      /\ Seen(i + 1) = Seen(i) \cup {call.arr + i}
  BY <1>2, Iteration DEF Greatest
<1>4. call.size \in Int /\ acc \in Int /\ Current \in Int /\ Seen(i) \subseteq Int
  BY <1>3, RangesAreMemory, HalfAssumption DEF TypeOK, Ints, Seen
<1>5. TypeOK'
  BY <1>1, <1>3 DEF TypeOK
<1>6. GreatestSoFar'
  <2>1. Extreme("max")
    BY <1>2, <1>3, <1>4 DEF Extreme
  <2>2. PICK b \in Seen(i) : acc = mem[b]
    BY <2>1 DEF GreatestSoFar
  <2>3. \A a \in Seen(i) : acc >= mem[a]
    BY <2>1 DEF GreatestSoFar
  <2>4. \A a \in Seen(i) : mem[a] \in Int
    <3>1. call.arr \in Int /\ 0 <= call.arr /\ call.arr + call.size <= Cells
      BY RangesAreMemory DEF TypeOK
    <3>2. Seen(i) \subseteq Memory
      BY <1>3, <1>4, <3>1, CellsAssumption DEF Seen, Memory
    <3>3. QED
      BY <3>2, HalfAssumption DEF TypeOK, Ints
  <2>5. Seen(i)' = Seen(i) \cup {call.arr + i} /\ Current = mem[call.arr + i] /\ mem' = mem
    BY <1>1, <1>3 DEF Seen, Current
  <2>6. CASE Current > acc
    BY <1>1, <1>4, <2>3, <2>4, <2>5, <2>6 DEF GreatestSoFar
  <2>7. CASE ~(Current > acc)
    BY <1>1, <1>4, <2>2, <2>3, <2>4, <2>5, <2>7 DEF GreatestSoFar
  <2>8. QED
    BY <2>6, <2>7
<1>7. QED
  BY <1>1, <1>2, <1>3, <1>4, <1>5, <1>6 DEF LoopBounds, LeastSoFar, FilledSoFar, OthersUntouched,
     Copied, Extreme, Done

-----------------------------------------------------------------------------
(* The steps that end a call *)

LEMMA CopyInv == ASSUME LoopsInv, Copy PROVE LoopsInv'
<1> USE DEF LoopsInv
<1>1. /\ at = "loop" /\ call.op = "copy" /\ at' = "returned"
      /\ UNCHANGED <<before, call, i, acc>>
  BY DEF Copy
<1>2. /\ call.arr \in 0..Cells /\ call.src \in 0..Cells /\ call.size \in 0..Cells
      /\ call.arr + call.size <= Cells /\ call.src + call.size <= Cells
  BY RangesAreMemory DEF TypeOK
<1>3. ~call.null /\ mem = before
  BY <1>1 DEF LoopBounds
<1>4. /\ mem' \in [Memory -> Ints]
      /\ Span(call.arr) \cap Span(call.src) = {} =>
             mem' = [a \in Memory |->
                        IF a \in Span(call.arr) THEN mem[a - call.arr + call.src] ELSE mem[a]]
  <2>1. CASE Span(call.arr) \cap Span(call.src) = {}
    <3>1. mem' = [a \in Memory |->
                     IF a \in Span(call.arr) THEN mem[a - call.arr + call.src] ELSE mem[a]]
      BY <2>1 DEF Copy
    <3>2. \A a \in Span(call.arr) : a - call.arr + call.src \in Memory
      BY <1>2, CellsAssumption DEF Span, Memory
    <3>3. QED
      BY <3>1, <3>2 DEF TypeOK
  <2>2. CASE Span(call.arr) \cap Span(call.src) # {}
    <3>1. PICK m \in [Memory -> Ints] :
             mem' = [a \in Memory |-> IF a \in Span(call.arr) THEN m[a] ELSE mem[a]]
      BY <2>2 DEF Copy
    <3>2. QED
      BY <2>2, <3>1 DEF TypeOK
  <2>3. QED
    BY <2>1, <2>2
<1>5. TypeOK'
  BY <1>1, <1>4 DEF TypeOK
<1>6. Copied'
  <2>1. Span(call.arr) = Seen(call.size)
    BY DEF Span, Seen
  <2>2. Span(call.arr)' = Span(call.arr) /\ Span(call.src)' = Span(call.src)
        /\ Seen(call.size)' = Seen(call.size)
    BY <1>1 DEF Span, Seen
  <2>3. QED
    BY <1>1, <1>3, <1>4, <2>1, <2>2 DEF Copied, Done
<1>7. QED
  BY <1>1, <1>3, <1>5, <1>6 DEF LoopBounds, LeastSoFar, GreatestSoFar, FilledSoFar,
     OthersUntouched, Extreme, Loops

LEMMA ReturnInv == ASSUME LoopsInv, Return PROVE LoopsInv'
<1> USE DEF LoopsInv
<1>1. /\ at = "loop" /\ call.op \in Loops /\ i >= call.size /\ at' = "returned"
      /\ UNCHANGED <<mem, before, call, i, acc>>
  BY DEF Return
<1>2. TypeOK'
  BY <1>1 DEF TypeOK
<1>3. Seen(i)' = Seen(i)
  BY <1>1 DEF Seen
<1>4. QED
  BY <1>1, <1>2, <1>3 DEF LoopBounds, LeastSoFar, GreatestSoFar, FilledSoFar, OthersUntouched,
     Copied, Extreme, Done, Loops

\* A state that only stutters.
LEMMA StutterInv == ASSUME LoopsInv, UNCHANGED vars PROVE LoopsInv'
BY DEF LoopsInv, vars, TypeOK, LoopBounds, LeastSoFar, GreatestSoFar, FilledSoFar, OthersUntouched,
   Copied, Extreme, Done, Seen, Span

LEMMA StepInv == ASSUME LoopsInv, [Next]_vars PROVE LoopsInv'
<1>1. ASSUME NEW c \in Calls, Begin(c) PROVE LoopsInv'
  BY <1>1, BeginInv
<1>2. CASE Fill  BY <1>2, FillCellInv
<1>3. CASE Sum  BY <1>3, SumInv
<1>4. CASE Least  BY <1>4, LeastInv
<1>5. CASE Greatest  BY <1>5, GreatestInv
<1>6. CASE Copy  BY <1>6, CopyInv
<1>7. CASE Return  BY <1>7, ReturnInv
<1>8. CASE Finished \/ UNCHANGED vars  BY <1>8, StutterInv DEF Finished
<1>9. QED
  BY <1>1, <1>2, <1>3, <1>4, <1>5, <1>6, <1>7, <1>8 DEF Next

-----------------------------------------------------------------------------
\* min and max return the extreme.
LEMMA ExtremesCorrect == LoopsInv => ExtremesHold
<1>1. ASSUME LoopsInv, at = "returned", NEW op \in {"min", "max"}, call.op = op, ~call.null,
             call.size > 0
      PROVE  Seen(i) = Seen(call.size)
  <2>1. call.size \in Int /\ i \in Int
    BY <1>1, RangesAreMemory DEF LoopsInv, TypeOK
  <2>2. i = call.size
    BY <1>1, <2>1 DEF LoopsInv, LoopBounds, Extreme, Loops
  <2>3. QED
    BY <2>2
<1>2. ASSUME LoopsInv, Done("min"), call.size > 0
      PROVE  (\E a \in Seen(call.size) : acc = mem[a]) /\ (\A a \in Seen(call.size) : acc <= mem[a])
  BY <1>1, <1>2 DEF LoopsInv, LeastSoFar, Extreme, Done
<1>3. ASSUME LoopsInv, Done("max"), call.size > 0
      PROVE  (\E a \in Seen(call.size) : acc = mem[a]) /\ (\A a \in Seen(call.size) : acc >= mem[a])
  BY <1>1, <1>3 DEF LoopsInv, GreatestSoFar, Extreme, Done
<1>4. QED
  BY <1>2, <1>3 DEF ExtremesHold, LoopsInv, LoopBounds

\* The cells that fill and copy were asked to write, and no other.
LEMMA WritesCorrect == LoopsInv => WritesHold
<1>1. ASSUME LoopsInv, Done("fill")
      PROVE  mem = [a \in Memory |-> IF a \in Seen(call.size) THEN call.value ELSE before[a]]
  <2>1. call.size \in Int /\ i \in Int
    BY <1>1, RangesAreMemory DEF LoopsInv, TypeOK
  <2>2. i = call.size
    BY <1>1, <2>1 DEF LoopsInv, LoopBounds, FilledSoFar, Done, Loops
  <2>3. QED
    BY <1>1, <2>2 DEF LoopsInv, FilledSoFar, Done
<1>2. QED
  BY <1>1 DEF LoopsInv, WritesHold, Copied, OthersUntouched

-----------------------------------------------------------------------------
(* The sum *)

\* f has the sums of up to n ints.
SumsTo(f, n) == f = [m \in 0..n |-> IF m = 0 THEN 0 ELSE f[m - 1] + mem[call.arr + m - 1]]

\* The recursion of Total defines a function.
LEMMA SumsExist == \E f : SumsTo(f, Cells)
<1> DEFINE S == {n \in 0..Cells : \E f : SumsTo(f, n)}
<1>1. 0 \in S
  <2>1. SumsTo([m \in 0..0 |-> 0], 0)
    BY DEF SumsTo
  <2>2. 0 \in 0..Cells
    BY CellsAssumption
  <2>3. QED
    BY <2>1, <2>2
<1>2. ASSUME NEW n \in S, n < Cells PROVE n + 1 \in S
  <2>1. n \in 0..Cells /\ n + 1 \in 0..Cells
    BY <1>2, CellsAssumption
  <2>2. PICK f : SumsTo(f, n)
    BY <1>2
  <2> DEFINE g == [m \in 0..(n + 1) |-> IF m = n + 1 THEN f[n] + mem[call.arr + m - 1] ELSE f[m]]
  <2>3. ASSUME NEW m \in 0..(n + 1)
        PROVE  g[m] = IF m = 0 THEN 0 ELSE g[m - 1] + mem[call.arr + m - 1]
    <3>1. CASE m = n + 1
      <4>1. g[m] = f[n] + mem[call.arr + m - 1] /\ m # 0
        BY <2>1, <2>3, <3>1
      <4>2. g[m - 1] = f[n]
        BY <2>1, <2>3, <3>1
      <4>3. QED
        BY <4>1, <4>2
    <3>2. CASE m # n + 1
      <4>1. m \in 0..n /\ g[m] = f[m]
        BY <2>1, <2>3, <3>2
      <4>2. CASE m = 0
        BY <2>2, <4>1, <4>2 DEF SumsTo
      <4>3. CASE m # 0
        <5>1. m - 1 \in 0..(n + 1) /\ m - 1 # n + 1
          BY <2>1, <4>1, <4>3
        <5>2. g[m - 1] = f[m - 1]
          BY <5>1
        <5>3. f[m] = f[m - 1] + mem[call.arr + m - 1]
          BY <2>2, <4>1, <4>3 DEF SumsTo
        <5>4. QED
          BY <4>1, <4>3, <5>2, <5>3
      <4>4. QED
        BY <4>2, <4>3
    <3>3. QED
      BY <3>1, <3>2
  <2>4. SumsTo(g, n + 1)
    <3>1. g = [m \in 0..(n + 1) |-> g[m]]
      OBVIOUS
    <3> HIDE DEF g
    <3>2. QED
      BY <2>3, <3>1 DEF SumsTo
  <2>5. QED
    BY <2>1, <2>4
<1>3. \A n \in S : n \in Nat /\ n < Cells => n + 1 \in S
  BY <1>2
<1>4. \A n \in 0..Cells : n \in S
  <2> HIDE DEF S
  <2>1. QED
    BY <1>1, <1>3, CellsAssumption, Counting
<1>5. Cells \in 0..Cells
  BY CellsAssumption
<1>6. QED
  BY <1>4, <1>5

\* What the loop keeps: the sum so far is that of the ints that it has passed,
\* unless a sum on the way was no int.
SumSoFar ==
    (call.op = "sum" /\ ~call.null /\ at # "idle") =>
        /\ i <= call.size
        /\ \A f : SumsTo(f, Cells) =>
               f[i] \in Int /\ ((\A n \in 0..i : f[n] \in Ints) => acc = f[i])

\* Before the loop nothing is summed.
LEMMA SumBegins == ASSUME NEW c \in Calls, Begin(c) PROVE SumSoFar'
<1>1. i' <= call'.size \/ call'.op # "sum" \/ call'.null
  <2>1. c.size \in 0..Cells
    BY RangesAreMemory
  <2>2. QED
    BY <2>1, CellsAssumption DEF Begin
<1> SUFFICES ASSUME call'.op = "sum", ~call'.null, NEW f, SumsTo(f, Cells)'
             PROVE  f[i'] \in Int /\ acc' = f[i']
  BY <1>1 DEF SumSoFar
<1>2. i' = 0 /\ acc' = 0
  BY DEF Begin
<1>3. 0 \in 0..Cells
  BY CellsAssumption
<1>4. f[0] = 0
  BY <1>3 DEF SumsTo
<1>5. QED
  BY <1>2, <1>4

\* An iteration adds the same int to both.
LEMMA SumAdds == ASSUME LoopsInv, SumSoFar, Sum PROVE SumSoFar'
<1>1. /\ acc' \in Added(acc, Current) /\ i' = i + 1
      /\ mem' = mem /\ call' = call /\ at' = at
  BY DEF Sum
<1>2. at = "loop" /\ call.op = "sum" /\ "sum" \in Loops
  BY DEF Sum, More, Loops
<1>3. /\ i \in Int /\ 0 <= i /\ i + 1 <= call.size /\ i + 1 \in 0..Cells
      /\ Current \in Int /\ ~call.null /\ acc \in Int
  <2>1. /\ i \in Int /\ 0 <= i /\ i + 1 <= call.size /\ i + 1 \in 0..Cells
        /\ Current \in Ints /\ ~call.null
    BY <1>2, Iteration DEF Sum
  <2>2. QED
    BY <2>1, HalfAssumption DEF LoopsInv, TypeOK, Ints
<1> SUFFICES ASSUME NEW f, SumsTo(f, Cells)'
             PROVE  f[i'] \in Int /\ ((\A n \in 0..i' : f[n] \in Ints) => acc' = f[i'])
  BY <1>1, <1>3 DEF SumSoFar
<1>4. SumsTo(f, Cells)
  BY <1>1 DEF SumsTo
<1>5. f[i] \in Int /\ ((\A n \in 0..i : f[n] \in Ints) => acc = f[i])
  BY <1>2, <1>3, <1>4 DEF SumSoFar
<1>6. f[i + 1] = f[i] + Current
  <2>1. (i + 1) - 1 = i /\ call.arr + (i + 1) - 1 = call.arr + i /\ i + 1 # 0
    <3>1. call.arr \in Int
      BY RangesAreMemory DEF LoopsInv, TypeOK
    <3>2. QED
      BY <1>3, <3>1
  <2>2. f[i + 1] = f[(i + 1) - 1] + mem[call.arr + (i + 1) - 1]
    BY <1>3, <1>4, <2>1 DEF SumsTo
  <2>3. QED
    BY <2>1, <2>2 DEF Current
<1>7. ASSUME \A n \in 0..(i + 1) : f[n] \in Ints PROVE acc' = f[i + 1]
  <2>1. acc = f[i] /\ f[i + 1] \in Ints
    BY <1>3, <1>5, <1>7
  <2>2. acc + Current \in Ints
    BY <1>6, <2>1
  <2>3. QED
    BY <1>1, <1>6, <2>1, <2>2 DEF Added
<1>8. QED
  BY <1>1, <1>3, <1>5, <1>6, <1>7

LEMMA SumStep == ASSUME LoopsInv, SumSoFar, [Next]_vars PROVE SumSoFar'
<1>1. ASSUME NEW c \in Calls, Begin(c) PROVE SumSoFar'
  BY <1>1, SumBegins
<1>2. CASE Sum
  BY <1>2, SumAdds
<1>3. CASE Fill \/ Least \/ Greatest \/ Copy
  BY <1>3 DEF SumSoFar, Fill, Least, Greatest, Copy, More
<1>4. CASE Return \/ Finished \/ UNCHANGED vars
  <2>1. /\ mem' = mem /\ call' = call /\ i' = i /\ acc' = acc
        /\ at' # "idle" => at # "idle"
    BY <1>4 DEF Return, Finished, vars
  <2>2. QED
    BY <2>1 DEF SumSoFar, SumsTo
<1>5. QED
  BY <1>1, <1>2, <1>3, <1>4 DEF Next

\* The sum that is returned.
LEMMA SumCorrect == LoopsInv /\ SumSoFar => SumHolds
<1>1. ASSUME LoopsInv, SumSoFar, Done("sum"), \A n \in 0..call.size : Total[n] \in Ints
      PROVE  acc = Total[call.size]
  <2>1. at = "returned" /\ call.op = "sum" /\ ~call.null
    BY <1>1 DEF Done
  <2>2. i = call.size
    <3>1. call.size \in 0..Cells /\ i \in 0..Cells
      BY <1>1, RangesAreMemory DEF LoopsInv, TypeOK
    <3>2. i >= call.size /\ i <= call.size
      BY <1>1, <2>1 DEF LoopsInv, LoopBounds, Loops, SumSoFar
    <3>3. QED
      BY <3>1, <3>2
  <2>3. SumsTo(Total, Cells)
    BY SumsExist, Zenon DEF SumsTo, Total
  <2>4. (\A n \in 0..i : Total[n] \in Ints) => acc = Total[i]
    BY <1>1, <2>1, <2>3, Zenon DEF SumSoFar
  <2>5. QED
    BY <1>1, <2>2, <2>4
<1>2. ASSUME LoopsInv, at = "returned", call.op = "sum", call.null PROVE acc = 0
  BY <1>2 DEF LoopsInv, LoopBounds
<1>3. QED
  BY <1>1, <1>2 DEF SumHolds

ArraysInv == LoopsInv /\ SumSoFar

LEMMA ArraysInit == Init => ArraysInv
<1>1. Init => SumSoFar
  BY DEF Init, SumSoFar
<1>2. QED
  BY <1>1, InitInv DEF ArraysInv

LEMMA ArraysNext == ASSUME ArraysInv, [Next]_vars PROVE ArraysInv'
BY StepInv, SumStep DEF ArraysInv

-----------------------------------------------------------------------------
(* The clocks *)

\* What a noted time says of the two clocks: the readings are taken later, when
\* the one of the system may have been set.
NotedHolds ==
    /\ noted.clock = "none" => noted = C!Nothing
    /\ noted.clock # "none" => noted.at <= mono
    /\ noted.clock = "ns" => noted.value = noted.at
    /\ noted.clock \in {"us", "ms", "s"} /\ ~noted.set =>
           LET then == wall - (mono - noted.at)
           IN  then >= 0 /\ noted.value = then \div C!Unit(noted.clock)

SleepHolds ==
    /\ sleep.from <= mono
    /\ asleep /\ sleep.ms * PerMs < IntHalf => sleep.until = sleep.from + sleep.ms * PerMs

ClockInv ==
    /\ C!TypeOK /\ wall <= MaxWall + mono
    /\ NotedHolds /\ C!ElapsedHolds
    /\ SleepHolds /\ C!SleepsLongEnough

\* A reading is what it is of, less a part of a unit.
LEMMA Rounded ==
    ASSUME NEW u \in Nat \ {0}, NEW w \in Nat
    PROVE  /\ w \div u \in Nat
           /\ (w \div u) * u <= w /\ w < (w \div u) * u + u
  <1>1. w \div u \in Int /\ w % u \in 0..(u - 1) /\ w = u * (w \div u) + (w % u)
    BY SMTT(30)
  <1>2. u * (w \div u) = (w \div u) * u
    BY <1>1
  <1>3. w \div u >= 0
    BY <1>1, SMTT(30)
  <1> QED BY <1>1, <1>2, <1>3

LEMMA UnitNat == ASSUME NEW c PROVE C!Unit(c) \in Nat \ {0}
  <1>1. PerMs * PerMs \in Nat \ {0}
    BY ClockAssumption
  <1> QED BY <1>1, ClockAssumption DEF C!Unit

\* A sleep of so few milliseconds is passed on as it is.
LEMMA MicrosecondsIs ==
    ASSUME NEW ms \in Nat
    PROVE  /\ C!Microseconds(ms) \subseteq 0..(2 * IntHalf - 1)
           /\ ms * PerMs < IntHalf => C!Microseconds(ms) = {ms * PerMs}
  <1>1. ms * PerMs \in Nat
    BY ClockAssumption
  <1> QED BY <1>1, ClockAssumption DEF C!Microseconds

LEMMA ClockInit == ASSUME C!Init PROVE ClockInv
  <1> USE ClockAssumption DEF C!Init
  <1>1. C!TypeOK /\ wall <= MaxWall + mono
    <2>1. mono \in 0..MaxTime /\ wall \in 0..(MaxWall + MaxTime) /\ wall <= MaxWall + mono
      OBVIOUS
    <2>2. noted \in [clock : C!Clocks \cup {"none"}, value : Nat, at : 0..MaxTime, set : BOOLEAN]
      BY DEF C!Nothing
    <2>3. elapsed \in [clock : C!Clocks \cup {"none"}, value : Int, real : 0..MaxTime, set : BOOLEAN]
      BY DEF C!NoTime
    <2>4. sleep \in [ms : Nat, from : 0..MaxTime, until : 0..(MaxTime + 2 * IntHalf), cut : BOOLEAN]
      OBVIOUS
    <2> QED BY <2>1, <2>2, <2>3, <2>4 DEF C!TypeOK
  <1>2. NotedHolds /\ C!ElapsedHolds
    BY DEF NotedHolds, C!Nothing, C!NoTime, C!ElapsedHolds
  <1>3. 0 * PerMs = 0
    OBVIOUS
  <1>4. SleepHolds /\ C!SleepsLongEnough
    BY <1>3 DEF SleepHolds, C!SleepsLongEnough
  <1> QED BY <1>1, <1>2, <1>4 DEF ClockInv

LEMMA PassInv == ASSUME ClockInv, C!Pass PROVE ClockInv'
  BY ClockAssumption
  DEF C!Pass, ClockInv, C!TypeOK, NotedHolds, C!ElapsedHolds, SleepHolds, C!SleepsLongEnough

LEMMA UnsetIs ==
    \A b \in BOOLEAN :
        [C!Nothing EXCEPT !.set = b] = [clock |-> "none", value |-> 0, at |-> 0, set |-> b]
  BY DEF C!Nothing

LEMMA SetClockIs ==
    ASSUME NEW t, C!SetClock(t)
    PROVE  \/ noted = C!Nothing /\ noted' = noted
           \/ noted # C!Nothing /\ noted' = [noted EXCEPT !.set = TRUE]
  <1>1. CASE noted = C!Nothing
    <2>1. (noted # C!Nothing) = FALSE
      BY <1>1
    <2>2. noted' = [noted EXCEPT !.set = FALSE]
      BY <2>1 DEF C!SetClock
    <2>3. [C!Nothing EXCEPT !.set = FALSE] = C!Nothing
      <3>1. FALSE \in BOOLEAN
        OBVIOUS
      <3> QED BY <3>1, UnsetIs, Zenon DEF C!Nothing
    <2> QED BY <1>1, <2>2, <2>3, Zenon
  <1>2. CASE noted # C!Nothing
    <2>1. (noted # C!Nothing) = TRUE
      BY <1>2
    <2>2. noted' = [noted EXCEPT !.set = TRUE]
      BY <2>1 DEF C!SetClock
    <2> QED BY <1>2, <2>2
  <1> QED BY <1>1, <1>2

LEMMA SetClockInv == ASSUME ClockInv, NEW t \in 0..MaxWall, C!SetClock(t) PROVE ClockInv'
  <1> USE ClockAssumption DEF ClockInv
  <1>1. /\ \/ noted = C!Nothing /\ noted' = noted
           \/ noted # C!Nothing /\ noted' = [noted EXCEPT !.set = TRUE]
        /\ wall' = t /\ UNCHANGED <<mono, elapsed, sleep, asleep>>
    BY SetClockIs DEF C!SetClock
  <1>2. C!TypeOK' /\ (wall <= MaxWall + mono)'
    <2>1. noted' \in [clock : C!Clocks \cup {"none"}, value : Nat, at : 0..MaxTime, set : BOOLEAN]
      BY <1>1 DEF C!TypeOK
    <2> QED BY <1>1, <2>1 DEF C!TypeOK
  <1>3. NotedHolds'
    BY <1>1 DEF NotedHolds, C!TypeOK, C!Nothing
  <1> QED BY <1>1, <1>2, <1>3 DEF C!TypeOK, C!ElapsedHolds, SleepHolds, C!SleepsLongEnough

LEMMA ReadingNat == ASSUME ClockInv, NEW c PROVE C!xy_time(c) \in Nat
  <1>1. mono \in Nat /\ wall \in Nat
    BY ClockAssumption DEF ClockInv, C!TypeOK
  <1>2. C!Unit(c) \in Nat \ {0}
    BY UnitNat
  <1>3. wall \div C!Unit(c) \in Nat
    BY <1>1, <1>2, Rounded
  <1> QED BY <1>1, <1>3 DEF C!xy_time

LEMMA NoteInv == ASSUME ClockInv, NEW c \in C!Clocks, C!Note(c) PROVE ClockInv'
  <1> USE ClockAssumption DEF C!Note, ClockInv
  <1>0. C!xy_time(c) \in Nat
    BY ReadingNat
  <1>1. C!TypeOK' /\ (wall <= MaxWall + mono)'
    BY <1>0 DEF C!TypeOK, C!NoTime, C!Clocks
  <1>2. NotedHolds'
    BY <1>0 DEF NotedHolds, C!TypeOK, C!Clocks, C!xy_time
  <1>3. C!ElapsedHolds'
    BY DEF C!ElapsedHolds, C!NoTime
  <1> QED BY <1>1, <1>2, <1>3 DEF C!TypeOK, SleepHolds, C!SleepsLongEnough

LEMMA DifferenceHolds ==
    ASSUME NEW u \in Nat \ {0}, NEW first \in Nat, NEW second \in Nat
    PROVE  LET off == ((second \div u) - (first \div u)) * u - (second - first)
           IN  -u < off /\ off < u
  <1> DEFINE a == first \div u
             b == second \div u
  <1>1. /\ a \in Nat /\ a * u <= first /\ first < a * u + u
        /\ b \in Nat /\ b * u <= second /\ second < b * u + u
    BY Rounded
  <1> HIDE DEF a, b
  <1>2. (b - a) * u = b * u - a * u /\ a * u \in Nat /\ b * u \in Nat
    BY <1>1
  <1>3. -u < (b - a) * u - (second - first) /\ (b - a) * u - (second - first) < u
    BY <1>1, <1>2
  <1> QED BY <1>3 DEF a, b

LEMMA TakeElapsedInv == ASSUME ClockInv, C!TakeElapsed PROVE ClockInv'
  <1> USE ClockAssumption DEF C!TakeElapsed, ClockInv
  <1>0. C!xy_time(noted.clock) \in Nat /\ noted.clock \in C!Clocks /\ C!Unit(noted.clock) \in Nat \ {0}
    BY ReadingNat, UnitNat DEF NotedHolds, C!TypeOK
  <1>1. C!TypeOK' /\ (wall <= MaxWall + mono)'
    BY <1>0 DEF C!TypeOK, C!Nothing, C!Clocks, C!xy_time_diff, NotedHolds
  <1>2. NotedHolds'
    BY DEF NotedHolds, C!Nothing
  <1>3. C!ElapsedHolds'
    <2>1. CASE noted.clock = "ns"
      BY <2>1, <1>0 DEF C!ElapsedHolds, C!TypeOK, C!xy_time_diff, C!xy_time, NotedHolds, C!Unit
    <2>2. CASE noted.clock # "ns" /\ ~noted.set
      <3> DEFINE u == C!Unit(noted.clock)
                 then == wall - (mono - noted.at)
      <3>1. /\ then \in Nat /\ noted.value = then \div u
            /\ wall \in Nat /\ C!xy_time(noted.clock) = wall \div u /\ wall - then = mono - noted.at
        BY <2>2, <1>0 DEF NotedHolds, C!Clocks, C!TypeOK, C!xy_time
      <3>2. LET off == ((wall \div u) - (then \div u)) * u - (wall - then)
            IN  -u < off /\ off < u
        BY <3>1, <1>0, DifferenceHolds
      <3>3. /\ elapsed'.clock = noted.clock /\ elapsed'.real = wall - then
            /\ elapsed'.value = (wall \div u) - (then \div u)
        BY <3>1 DEF C!xy_time_diff
      <3> QED BY <3>2, <3>3 DEF C!ElapsedHolds
    <2>3. CASE noted.clock # "ns" /\ noted.set
      BY <2>3 DEF C!ElapsedHolds
    <2> QED BY <2>1, <2>2, <2>3 DEF C!TypeOK
  <1> QED BY <1>1, <1>2, <1>3 DEF C!TypeOK, SleepHolds, C!SleepsLongEnough

LEMMA SleepInv == ASSUME ClockInv, NEW ms \in 0..(IntHalf - 1), C!xy_sleep_ms(ms) PROVE ClockInv'
  <1> USE ClockAssumption DEF C!xy_sleep_ms, ClockInv
  <1>0. PICK us \in C!Microseconds(ms) :
            sleep' = [ms |-> ms, from |-> mono, until |-> mono + us, cut |-> FALSE]
    OBVIOUS
  <1>1. /\ ms \in Nat /\ us \in 0..(2 * IntHalf - 1)
        /\ ms * PerMs < IntHalf => us = ms * PerMs
    BY <1>0, MicrosecondsIs
  <1>2. C!TypeOK' /\ (wall <= MaxWall + mono)'
    BY <1>0, <1>1 DEF C!TypeOK
  <1>3. NotedHolds' /\ C!ElapsedHolds'
    BY DEF NotedHolds, C!ElapsedHolds, C!TypeOK
  <1> QED BY <1>0, <1>1, <1>2, <1>3 DEF C!TypeOK, SleepHolds, C!SleepsLongEnough

LEMMA WakeIs ==
    ASSUME ClockInv, C!Wake
    PROVE  \/ mono < sleep.until /\ sleep' = [sleep EXCEPT !.cut = TRUE, !.until = mono]
           \/ mono >= sleep.until /\ sleep' = [sleep EXCEPT !.cut = FALSE, !.until = mono]
  <1>1. CASE mono < sleep.until
    <2>1. (mono < sleep.until) = TRUE
      BY <1>1
    <2>2. sleep' = [sleep EXCEPT !.cut = TRUE, !.until = mono]
      BY <2>1 DEF C!Wake
    <2> QED BY <1>1, <2>2
  <1>2. CASE ~(mono < sleep.until)
    <2>1. (mono < sleep.until) = FALSE
      BY <1>2
    <2>2. sleep' = [sleep EXCEPT !.cut = FALSE, !.until = mono]
      BY <2>1 DEF C!Wake
    <2>3. mono >= sleep.until
      BY <1>2, ClockAssumption DEF ClockInv, C!TypeOK
    <2> QED BY <2>2, <2>3
  <1> QED BY <1>1, <1>2

LEMMA WakeInv == ASSUME ClockInv, C!Wake PROVE ClockInv'
  <1> USE ClockAssumption DEF ClockInv
  <1>1. /\ \/ mono < sleep.until /\ sleep' = [sleep EXCEPT !.cut = TRUE, !.until = mono]
           \/ mono >= sleep.until /\ sleep' = [sleep EXCEPT !.cut = FALSE, !.until = mono]
        /\ asleep /\ asleep' = FALSE /\ UNCHANGED <<mono, wall, noted, elapsed>>
    BY WakeIs DEF C!Wake
  <1>3. /\ sleep' \in [ms : Nat, from : 0..MaxTime, until : 0..(MaxTime + 2 * IntHalf), cut : BOOLEAN]
        /\ sleep'.ms = sleep.ms /\ sleep'.from = sleep.from /\ sleep'.until = mono
        /\ sleep'.cut \/ mono >= sleep.until
    <2>0. mono \in 0..MaxTime /\ mono \in 0..(MaxTime + 2 * IntHalf)
      BY DEF C!TypeOK
    <2>1. CASE mono < sleep.until /\ sleep' = [sleep EXCEPT !.cut = TRUE, !.until = mono]
      <3>1. sleep' \in [ms : Nat, from : 0..MaxTime, until : 0..(MaxTime + 2 * IntHalf), cut : BOOLEAN]
        BY <2>0, <2>1 DEF C!TypeOK
      <3>2. /\ sleep'.ms = sleep.ms /\ sleep'.from = sleep.from /\ sleep'.until = mono
            /\ sleep'.cut = TRUE
        BY <2>1 DEF C!TypeOK
      <3> QED BY <3>1, <3>2
    <2>2. CASE mono >= sleep.until /\ sleep' = [sleep EXCEPT !.cut = FALSE, !.until = mono]
      <3>1. sleep' \in [ms : Nat, from : 0..MaxTime, until : 0..(MaxTime + 2 * IntHalf), cut : BOOLEAN]
        BY <2>0, <2>2 DEF C!TypeOK
      <3>2. sleep'.ms = sleep.ms /\ sleep'.from = sleep.from /\ sleep'.until = mono
        BY <2>2 DEF C!TypeOK
      <3> QED BY <2>2, <3>1, <3>2
    <2> QED BY <1>1, <2>1, <2>2
  <1>4. C!TypeOK' /\ (wall <= MaxWall + mono)'
    BY <1>1, <1>3 DEF C!TypeOK
  <1>5. NotedHolds' /\ C!ElapsedHolds'
    BY <1>1 DEF NotedHolds, C!ElapsedHolds, C!TypeOK
  <1>6. SleepHolds' /\ C!SleepsLongEnough'
    <2>1. /\ mono \in Nat /\ sleep.from \in Nat /\ sleep.until \in Nat
          /\ sleep.ms * PerMs < IntHalf => sleep.until = sleep.from + sleep.ms * PerMs
      BY <1>1 DEF C!TypeOK, SleepHolds
    <2> QED BY <1>1, <1>3, <2>1 DEF SleepHolds, C!SleepsLongEnough
  <1> QED BY <1>4, <1>5, <1>6

LEMMA ClockNext == ASSUME ClockInv, C!Next \/ UNCHANGED clock PROVE ClockInv'
  <1>1. CASE UNCHANGED clock
    BY <1>1
    DEF clock, ClockInv, C!TypeOK, NotedHolds, C!ElapsedHolds, SleepHolds, C!SleepsLongEnough
  <1> QED BY <1>1, PassInv, SetClockInv, NoteInv, TakeElapsedInv, SleepInv, WakeInv DEF C!Next

-----------------------------------------------------------------------------
(* The files *)

readAll == <<stage, size, block, overrun, handles, result, shortened, failed>>

Readers == [open : BOOLEAN, pos : 0..MaxSize, emptied : BOOLEAN]
Writers == [mode : {"closed", "w", "a"}, kept : Seq(Bytes)]

\* The writer's bytes are in the file or kept back, and nowhere else; the reader
\* has not passed the end of a file that nobody empties.
UsersInv ==
    /\ disk \in Seq(Bytes) /\ got \in Seq(Bytes) /\ put \in Seq(Bytes) /\ lost \in BOOLEAN
    /\ reader \in Readers /\ writer \in Writers
    /\ Len(disk) + Len(writer.kept) <= MaxSize
    /\ writer.mode # "closed" => put = disk \o writer.kept
    /\ writer.mode = "closed" => writer.kept = <<>>
    /\ reader.open /\ ~reader.emptied =>
           reader.pos <= Len(disk) /\ got = SubSeq(disk, 1, reader.pos)

\* While xy_file_read_all is between measuring and reading, a file that nobody
\* emptied is at least as long as it was, and the block has a byte more.
ReadInv ==
    /\ kind \in Kinds
    /\ stage \in {"idle", "opened", "measured", "allocated", "returned"}
    /\ size \in Int /\ size >= -1 /\ block \in Seq(Bytes \cup {"nul", "garbage"})
    /\ overrun \in BOOLEAN /\ shortened \in BOOLEAN /\ failed \in BOOLEAN
    /\ result \in {"none", "null", "block"}
    /\ handles = IF stage \in {"opened", "measured", "allocated"} THEN 1 ELSE 0
    /\ kind = "regular" => ~overrun
    /\ stage \in {"measured", "allocated"} /\ kind = "regular" =>
           size >= 0 /\ (~shortened => size <= Len(disk))
    /\ stage = "allocated" => Len(block) = size + 1

FilesInv == UsersInv /\ ReadInv

LEMMA FilesTyped == ASSUME FilesInv PROVE F!TypeOK /\ F!FilesSound
  <1>1. handles \in {0, 1}
    BY DEF FilesInv, ReadInv
  <1>2. F!TypeOK
    BY <1>1 DEF FilesInv, UsersInv, ReadInv, F!TypeOK, Readers, Writers
  <1> QED BY <1>2 DEF FilesInv, UsersInv, ReadInv, F!FilesSound, F!InBounds, F!HandleReturned, F!PiecesInOrder

LEMMA FilesInit == ASSUME F!Init PROVE FilesInv
  <1> USE FileAssumption DEF F!Init
  <1>1. disk \in Seq(Bytes) /\ Len(disk) <= MaxSize
    <2>1. PICK m \in 0..MaxSize : disk \in [1..m -> Bytes]
      BY DEF F!SeqOf
    <2> QED BY <2>1
  <1>2. <<>> \in Seq(Bytes) /\ Len(<<>>) = 0 /\ <<>> \in Seq(Bytes \cup {"nul", "garbage"})
    BY EmptySeq
  <1>3. /\ reader \in Readers /\ ~reader.open
        /\ writer \in Writers /\ writer.mode = "closed" /\ writer.kept = <<>>
    BY <1>2 DEF F!Unread, F!Closed, Readers, Writers
  <1>4. UsersInv
    <2>1. Len(disk) + Len(writer.kept) <= MaxSize
      BY <1>1, <1>2, <1>3
    <2>2. got \in Seq(Bytes) /\ put \in Seq(Bytes) /\ lost \in BOOLEAN
      BY <1>2
    <2> HIDE DEF F!Init
    <2> QED BY <1>1, <1>3, <2>1, <2>2 DEF UsersInv
  <1>5. ReadInv
    <2>1. /\ overrun \in BOOLEAN /\ shortened \in BOOLEAN /\ failed \in BOOLEAN
          /\ overrun = FALSE /\ block \in Seq(Bytes \cup {"nul", "garbage"})
      BY <1>2
    <2>2. kind \in Kinds /\ stage = "idle" /\ size = 0 /\ handles = 0 /\ result = "none"
      OBVIOUS
    <2> HIDE DEF F!Init
    <2> QED BY <2>1, <2>2 DEF ReadInv
  <1> QED BY <1>4, <1>5 DEF FilesInv

\* What the users do while xy_file_read_all runs.
LEMMA UsersLeave ==
    ASSUME ReadInv, UNCHANGED <<kind, stage, size, block, overrun, handles, result, failed>>,
           shortened' \in BOOLEAN, shortened => shortened',
           Len(disk) \in Nat, Len(disk') \in Nat, ~shortened' => Len(disk) <= Len(disk')
    PROVE  ReadInv'
  BY DEF ReadInv

LEMMA OpenAllInv == ASSUME FilesInv, F!OpenAll PROVE FilesInv'
  BY DEF FilesInv, UsersInv, ReadInv, F!OpenAll, F!Return, F!users, Readers, Writers

LEMMA MeasureInv == ASSUME FilesInv, F!Measure PROVE FilesInv'
  <1> USE DEF F!Measure
  <1>1. UsersInv'
    BY DEF FilesInv, UsersInv, F!users, Readers, Writers
  <1>2. ReadInv'
    <2>1. Len(disk) \in Nat /\ disk' = disk /\ kind' = kind /\ size' \in Int /\ size' >= -1
      BY DEF FilesInv, UsersInv
    <2>2. /\ kind = "regular" => size' >= 0 /\ size' <= Len(disk)
          /\ shortened' = FALSE /\ stage = "opened" /\ stage' = "measured"
      BY <2>1
    <2>3. UNCHANGED <<block, overrun, handles, result, failed>>
      OBVIOUS
    <2> HIDE DEF F!Measure
    <2> QED BY <2>1, <2>2, <2>3 DEF FilesInv, ReadInv
  <1> QED BY <1>1, <1>2 DEF FilesInv

LEMMA Garbage ==
    ASSUME NEW n \in Nat
    PROVE  /\ [k \in 1..n |-> "garbage"] \in Seq(Bytes \cup {"nul", "garbage"})
           /\ Len([k \in 1..n |-> "garbage"]) = n
  OBVIOUS

LEMMA AllocateInv == ASSUME FilesInv, F!Allocate PROVE FilesInv'
  <1> USE DEF F!Allocate
  <1>1. UsersInv'
    BY DEF FilesInv, UsersInv, F!users, Readers, Writers
  <1>2. ReadInv'
    <2>1. CASE /\ stage' = "allocated" /\ block' = [k \in 1..(size + 1) |-> "garbage"]
               /\ UNCHANGED <<result, handles>>
      <3>1. size + 1 \in Nat
        BY DEF FilesInv, ReadInv
      <3>2. block' \in Seq(Bytes \cup {"nul", "garbage"}) /\ Len(block') = size + 1
        BY <2>1, <3>1, Garbage
      <3> QED BY <2>1, <3>2 DEF FilesInv, ReadInv, F!users
    <2>2. CASE F!Return("null") /\ handles' = handles - 1 /\ UNCHANGED block
      BY <2>2 DEF FilesInv, ReadInv, F!Return, F!users
    <2> QED BY <2>1, <2>2
  <1> QED BY <1>1, <1>2 DEF FilesInv

\* What fread and the terminator leave in the block.
LEMMA Filled ==
    ASSUME ReadInv, disk \in Seq(Bytes), NEW n \in 0..Len(disk), Len(block) = size + 1
    PROVE  LET after == [k \in 1..Len(block) |->
                            IF k = size + 1 THEN "nul" ELSE IF k <= n THEN disk[k] ELSE block[k]]
           IN  after \in Seq(Bytes \cup {"nul", "garbage"})
  <1> DEFINE All == Bytes \cup {"nul", "garbage"}
  <1>1. /\ size + 1 \in Nat /\ block \in [1..(size + 1) -> All]
        /\ disk \in [1..Len(disk) -> Bytes] /\ Len(disk) \in Nat
    BY DEF ReadInv
  <1>2. \A k \in 1..(size + 1) : k <= n => disk[k] \in All
    BY <1>1
  <1> QED BY <1>1, <1>2

LEMMA FillIs ==
    ASSUME FilesInv, F!Fill
    PROVE  /\ stage = "allocated" /\ stage' = "returned" /\ result' = "block"
           /\ handles' = handles - 1
           /\ UNCHANGED <<kind, disk, size, shortened, reader, got, writer, put, lost>>
           /\ failed' \in BOOLEAN /\ overrun' \in BOOLEAN
           /\ kind = "regular" => overrun' = FALSE
           /\ \E n \in 0..Len(disk) :
                 /\ kind = "regular" /\ ~failed' /\ ~shortened => n = size
                 /\ block' = [k \in 1..Len(block) |->
                                 IF k = size + 1 THEN "nul" ELSE IF k <= n THEN disk[k] ELSE block[k]]
  <1> DEFINE Takes(n) ==
               /\ failed' = (size >= 0 /\ n < F!Least(size, Len(disk)))
               /\ overrun' = (n > Len(block) \/ size + 1 \notin DOMAIN block)
               /\ block' = [k \in 1..Len(block) |->
                               IF k = size + 1 THEN "nul" ELSE IF k <= n THEN disk[k] ELSE block[k]]
  <1>1. PICK n \in {IF size < 0 THEN Len(disk) ELSE F!Least(size, Len(disk))}
                    \cup (IF F!Fails("fread") THEN 0..F!Least(size, Len(disk)) ELSE {}) : Takes(n)
    BY DEF F!Fill
  <1>2. /\ Len(disk) \in Nat /\ Len(block) = size + 1 /\ size \in Int /\ size >= -1
        /\ DOMAIN block = 1..Len(block) /\ stage = "allocated"
    BY DEF F!Fill, FilesInv, UsersInv, ReadInv
  <1>3. n \in 0..Len(disk) /\ (size >= 0 => n <= size)
    BY <1>1, <1>2 DEF F!Least
  <1>4. overrun' \in BOOLEAN /\ failed' \in BOOLEAN
    BY <1>1
  <1>5. kind = "regular" => overrun' = FALSE
    <2>1. ASSUME kind = "regular" PROVE (n > Len(block) \/ size + 1 \notin DOMAIN block) = FALSE
      BY <1>2, <1>3, <2>1 DEF FilesInv, ReadInv
    <2> QED BY <1>1, <2>1
  <1>6. kind = "regular" /\ ~failed' /\ ~shortened => n = size
    <2>1. ASSUME kind = "regular", ~shortened, n # size
          PROVE  (size >= 0 /\ n < F!Least(size, Len(disk))) = TRUE
      BY <1>2, <1>3, <2>1 DEF FilesInv, ReadInv, F!Least
    <2> QED BY <1>1, <2>1
  <1> QED BY <1>1, <1>2, <1>3, <1>4, <1>5, <1>6 DEF F!Fill, F!Return, F!users

LEMMA FillInv == ASSUME FilesInv, F!Fill PROVE FilesInv'
  <1>1. UsersInv'
    BY FillIs DEF FilesInv, UsersInv, Readers, Writers
  <1>2. block' \in Seq(Bytes \cup {"nul", "garbage"})
    <2>1. Len(block) = size + 1 /\ disk \in Seq(Bytes) /\ ReadInv
      BY FillIs DEF FilesInv, UsersInv, ReadInv
    <2> QED BY <2>1, FillIs, Filled
  <1>3. ReadInv'
    <2>1. /\ stage = "allocated" /\ stage' = "returned" /\ result' = "block"
          /\ handles' = handles - 1 /\ UNCHANGED <<kind, size, shortened>>
          /\ failed' \in BOOLEAN /\ overrun' \in BOOLEAN /\ (kind = "regular" => overrun' = FALSE)
      BY FillIs
    <2>2. handles' = 0
      BY <2>1 DEF FilesInv, ReadInv
    <2> QED BY <1>2, <2>1, <2>2 DEF FilesInv, ReadInv
  <1> QED BY <1>1, <1>3 DEF FilesInv

\* A step of the reader leaves the file and all but the reader as they are.
LEMMA ReaderStep ==
    ASSUME FilesInv, UNCHANGED <<kind, disk, readAll, writer, put, lost>>,
           reader' \in Readers, got' \in Seq(Bytes),
           reader'.open /\ ~reader'.emptied =>
               reader'.pos <= Len(disk) /\ got' = SubSeq(disk, 1, reader'.pos)
    PROVE  FilesInv'
  <1>1. UsersInv'
    BY DEF FilesInv, UsersInv
  <1>2. ReadInv'
    BY DEF FilesInv, ReadInv, readAll
  <1> QED BY <1>1, <1>2 DEF FilesInv

LEMMA UnreadIs ==
    /\ F!Unread \in Readers /\ F!Unread.open = FALSE
    /\ [F!Unread EXCEPT !.open = TRUE] \in Readers /\ [F!Unread EXCEPT !.open = TRUE].pos = 0
  <1>1. F!Unread \in Readers /\ F!Unread.open = FALSE /\ F!Unread.pos = 0
    BY FileAssumption DEF F!Unread, Readers
  <1> QED BY <1>1 DEF Readers

LEMMA OpenReaderInv == ASSUME FilesInv, F!OpenReader PROVE FilesInv'
  <1>1. reader' \in Readers /\ reader'.pos = 0 /\ got' = <<>> /\ got' \in Seq(Bytes)
    BY UnreadIs DEF F!OpenReader
  <1>2. 0 <= Len(disk) /\ SubSeq(disk, 1, 0) = <<>>
    BY SubSeqEmpty DEF FilesInv, UsersInv
  <1> QED BY <1>1, <1>2, ReaderStep DEF F!OpenReader, F!readAll, readAll

LEMMA CloseReaderInv == ASSUME FilesInv, F!CloseReader PROVE FilesInv'
  <1>1. reader' \in Readers /\ ~reader'.open /\ got' = <<>> /\ got' \in Seq(Bytes)
    BY UnreadIs DEF F!CloseReader
  <1> QED BY <1>1, ReaderStep DEF F!CloseReader, F!readAll, readAll

LEMMA ReadInvariant == ASSUME FilesInv, NEW n \in 1..MaxSize, F!Read(n) PROVE FilesInv'
  <1> DEFINE until == F!Least(reader.pos + n, Len(disk))
             bytes == SubSeq(disk, reader.pos + 1, until)
  <1>1. /\ disk \in Seq(Bytes) /\ got \in Seq(Bytes) /\ reader \in Readers
        /\ Len(disk) \in Nat /\ Len(disk) <= MaxSize
    BY FileAssumption DEF FilesInv, UsersInv, Writers
  <1>2. reader.pos \in 0..MaxSize /\ until \in 0..Len(disk) /\ until <= reader.pos + n
    BY <1>1, FileAssumption DEF Readers, F!Least
  <1>3. got' = got \o bytes /\ reader' = [reader EXCEPT !.pos = @ + Len(bytes)]
    BY DEF F!Read
  <1> HIDE DEF until
  <1>4. /\ bytes \in Seq(Bytes)
        /\ Len(bytes) = IF reader.pos + 1 <= until THEN until - reader.pos ELSE 0
    <2>1. \A k \in (reader.pos + 1)..until : disk[k] \in Bytes
      BY <1>1, <1>2, ElementOfSeq
    <2>2. reader.pos + 1 \in Int /\ until \in Int
      BY <1>2
    <2>3. /\ bytes \in Seq(Bytes)
          /\ Len(bytes) = IF reader.pos + 1 <= until THEN until - (reader.pos + 1) + 1 ELSE 0
      BY <2>1, <2>2, SubSeqProperties
    <2> HIDE DEF bytes
    <2> QED BY <1>2, <2>3
  <1> HIDE DEF bytes
  <1>5. /\ reader.pos + Len(bytes) \in 0..MaxSize
        /\ reader.pos <= Len(disk) => reader.pos + Len(bytes) = until
    <2>1. CASE reader.pos + 1 <= until
      BY <1>1, <1>2, <1>4, <2>1, FileAssumption, SMTT(30)
    <2>2. CASE ~(reader.pos + 1 <= until)
      <3>1. Len(bytes) = 0 /\ reader.pos + Len(bytes) = reader.pos /\ until <= reader.pos
        BY <1>2, <1>4, <2>2
      <3>2. reader.pos <= Len(disk) => until = reader.pos
        BY <1>1, <1>2, <3>1 DEF F!Least, until
      <3> QED BY <1>2, <3>1, <3>2
    <2> QED BY <2>1, <2>2
  <1>6. /\ reader' \in Readers /\ reader'.open = reader.open /\ reader'.emptied = reader.emptied
        /\ reader'.pos = reader.pos + Len(bytes)
    BY <1>1, <1>3, <1>5 DEF Readers
  <1>7. got' \in Seq(Bytes)
    BY <1>1, <1>3, <1>4, ConcatProperties
  <1>8. ASSUME reader.open /\ ~reader.emptied
        PROVE  until <= Len(disk) /\ reader'.pos = until /\ got' = SubSeq(disk, 1, until)
    <2>1. reader.pos <= Len(disk) /\ got = SubSeq(disk, 1, reader.pos)
      BY <1>8 DEF FilesInv, UsersInv
    <2>2. reader.pos <= until
      BY <1>1, <1>2, <2>1 DEF until, F!Least
    <2>3. SubSeq(disk, 1, reader.pos) \o SubSeq(disk, reader.pos + 1, until) = SubSeq(disk, 1, until)
      <3>1. 1 \in 1..(Len(disk) + 1) /\ reader.pos \in (1 - 1)..Len(disk) /\ until \in reader.pos..Len(disk)
        BY <1>1, <1>2, <2>1, <2>2
      <3> QED BY <1>1, <3>1, ConcatAdjacentSubSeq
    <2>4. got' = SubSeq(disk, 1, until)
      BY <1>3, <2>1, <2>3, Zenon DEF bytes
    <2> QED BY <1>2, <1>5, <1>6, <2>1, <2>4
  <1> QED BY <1>6, <1>7, <1>8, ReaderStep DEF F!Read, F!readAll, readAll

\* The reader goes on at its place in a file that has grown.
LEMMA Grown ==
    ASSUME UsersInv, NEW more \in Seq(Bytes), disk' = disk \o more, UNCHANGED <<reader, got>>
    PROVE  /\ disk' \in Seq(Bytes) /\ Len(disk') = Len(disk) + Len(more) /\ Len(disk) <= Len(disk')
           /\ reader'.open /\ ~reader'.emptied =>
                  reader'.pos <= Len(disk') /\ got' = SubSeq(disk', 1, reader'.pos)
  <1>1. /\ disk \in Seq(Bytes) /\ Len(disk) \in Nat /\ Len(more) \in Nat
        /\ disk' \in Seq(Bytes) /\ Len(disk') = Len(disk) + Len(more)
    BY ConcatProperties DEF UsersInv
  <1>2. ASSUME reader.open, ~reader.emptied
        PROVE  reader.pos <= Len(disk) + Len(more) /\ got = SubSeq(disk \o more, 1, reader.pos)
    <2>1. reader.pos \in 0..Len(disk) /\ got = SubSeq(disk, 1, reader.pos)
      BY <1>1, <1>2 DEF UsersInv, Readers
    <2>2. CASE reader.pos = 0
      <3>1. SubSeq(disk, 1, 0) = <<>> /\ SubSeq(disk \o more, 1, 0) = <<>>
        BY SubSeqEmpty
      <3> QED BY <1>1, <2>1, <2>2, <3>1
    <2>3. CASE reader.pos # 0
      <3>1. 1 \in 1..Len(disk) /\ reader.pos \in 1..Len(disk)
        BY <1>1, <2>1, <2>3
      <3>2. SubSeq(disk \o more, 1, reader.pos) = SubSeq(disk, 1, reader.pos)
        BY <1>1, <3>1, SubSeqOfConcat1
      <3> QED BY <1>1, <2>1, <3>2
    <2> QED BY <2>2, <2>3
  <1>3. reader' = reader /\ got' = got
    OBVIOUS
  <1>4. Len(disk) <= Len(disk')
    BY <1>1
  <1> QED BY <1>1, <1>2, <1>3, <1>4

LEMMA AppendLast ==
    ASSUME NEW s \in Seq(Bytes), NEW t \in Seq(Bytes), NEW b \in Bytes
    PROVE  Append(s \o t, b) = s \o Append(t, b)
  <1>1. <<b>> \in Seq(Bytes) /\ s \o t \in Seq(Bytes)
    BY ConcatProperties
  <1>2. (s \o t) \o <<b>> = s \o (t \o <<b>>)
    BY <1>1, ConcatAssociative
  <1>3. Append(s \o t, b) = (s \o t) \o <<b>> /\ Append(t, b) = t \o <<b>>
    BY <1>1, AppendIsConcat
  <1> QED BY <1>2, <1>3, Zenon

LEMMA WriteInv == ASSUME FilesInv, NEW b \in Bytes, F!Write(b) PROVE FilesInv'
  <1>1. /\ disk \in Seq(Bytes) /\ writer \in Writers /\ writer.kept \in Seq(Bytes)
        /\ put = disk \o writer.kept /\ put \in Seq(Bytes) /\ Len(put) < MaxSize
        /\ writer.mode # "closed"
    BY DEF FilesInv, UsersInv, F!Write, Writers
  <1>2. /\ Append(writer.kept, b) \in Seq(Bytes) /\ Len(Append(writer.kept, b)) = Len(writer.kept) + 1
        /\ Append(put, b) \in Seq(Bytes) /\ Len(put) = Len(disk) + Len(writer.kept)
        /\ Len(disk) \in Nat /\ Len(writer.kept) \in Nat
    BY <1>1, AppendProperties, ConcatProperties
  <1>3. Append(put, b) = disk \o Append(writer.kept, b)
    BY <1>1, AppendLast
  <1>4. writer' \in Writers /\ writer'.mode = writer.mode /\ writer'.kept = Append(writer.kept, b)
    BY <1>1, <1>2 DEF F!Write, Writers
  <1>5. put' = Append(put, b) /\ UNCHANGED <<kind, disk, readAll, reader, got, lost>>
    BY DEF F!Write, F!readAll, readAll
  <1>6. Len(disk') + Len(writer'.kept) <= MaxSize
    BY <1>1, <1>2, <1>4, <1>5, FileAssumption
  <1>7. UsersInv'
    BY <1>1, <1>2, <1>3, <1>4, <1>5, <1>6 DEF FilesInv, UsersInv
  <1>8. ReadInv'
    BY <1>5 DEF FilesInv, ReadInv, readAll
  <1> QED BY <1>7, <1>8 DEF FilesInv

LEMMA FlushInv == ASSUME FilesInv, F!Flush PROVE FilesInv'
  <1>1. /\ UsersInv /\ writer \in Writers /\ writer.kept \in Seq(Bytes)
        /\ disk \in Seq(Bytes) /\ Len(disk) \in Nat
        /\ disk' = disk \o writer.kept /\ UNCHANGED <<reader, got>>
        /\ writer' = [writer EXCEPT !.kept = <<>>]
    BY DEF FilesInv, UsersInv, F!Flush, Writers
  <1>2. /\ writer' \in Writers /\ writer'.mode = writer.mode /\ writer'.kept = <<>>
        /\ <<>> \in Seq(Bytes) /\ Len(<<>>) = 0
    <2>1. <<>> \in Seq(Bytes) /\ Len(<<>>) = 0
      BY EmptySeq
    <2>2. writer' \in Writers
      BY <1>1, <2>1 DEF Writers
    <2>3. writer'.mode = writer.mode /\ writer'.kept = <<>>
      BY <1>1 DEF Writers
    <2> QED BY <2>1, <2>2, <2>3
  <1>3. /\ disk' \in Seq(Bytes) /\ Len(disk') = Len(disk) + Len(writer.kept) /\ Len(disk) <= Len(disk')
        /\ reader'.open /\ ~reader'.emptied =>
               reader'.pos <= Len(disk') /\ got' = SubSeq(disk', 1, reader'.pos)
    BY <1>1, Grown
  <1>4. disk' \o <<>> = disk'
    BY <1>3, ConcatEmptySeq
  <1>5. UNCHANGED <<kind, readAll, reader, got, put, lost>>
    BY DEF F!Flush, F!readAll, readAll
  <1>6. UsersInv'
    <2>1. Len(disk') + Len(writer'.kept) <= MaxSize /\ Len(disk') \in Nat
      BY <1>1, <1>2, <1>3 DEF UsersInv
    <2>2. writer'.mode # "closed" => put' = disk' \o writer'.kept
      BY <1>1, <1>2, <1>4, <1>5 DEF UsersInv
    <2> QED BY <1>1, <1>2, <1>3, <1>5, <2>1, <2>2 DEF UsersInv
  <1>7. ReadInv'
    <2>1. Len(disk') \in Nat
      BY <1>3
    <2> QED BY <1>1, <1>3, <1>5, <2>1, UsersLeave DEF FilesInv, ReadInv, readAll
  <1> QED BY <1>6, <1>7 DEF FilesInv

LEMMA ClosedIs == F!Closed \in Writers /\ F!Closed.mode = "closed" /\ F!Closed.kept = <<>>
  BY DEF F!Closed, Writers

LEMMA CloseWriterInv == ASSUME FilesInv, F!CloseWriter PROVE FilesInv'
  <1>1. /\ UsersInv /\ writer.kept \in Seq(Bytes) /\ disk \in Seq(Bytes) /\ Len(disk) \in Nat
        /\ Len(writer.kept) \in Nat
        /\ writer' = F!Closed /\ UNCHANGED <<kind, readAll, reader, got, put>>
    BY DEF FilesInv, UsersInv, F!CloseWriter, Writers, F!readAll, readAll
  <1>2. /\ disk' \in Seq(Bytes) /\ Len(disk) <= Len(disk') /\ Len(disk') <= MaxSize
        /\ reader'.open /\ ~reader'.emptied =>
               reader'.pos <= Len(disk') /\ got' = SubSeq(disk', 1, reader'.pos)
    <2>1. CASE disk' = disk \o writer.kept
      BY <1>1, <2>1, Grown DEF UsersInv
    <2>2. CASE disk' = disk
      BY <1>1, <2>2, FileAssumption DEF UsersInv
    <2> QED BY <2>1, <2>2 DEF F!CloseWriter
  <1>3. lost' \in BOOLEAN
    BY DEF FilesInv, UsersInv, F!CloseWriter
  <1>4. /\ writer' \in Writers /\ writer'.mode = "closed" /\ writer'.kept = <<>>
        /\ Len(<<>>) = 0 /\ Len(disk') \in Nat
    BY <1>1, <1>2, ClosedIs
  <1>5. UsersInv'
    <2>1. Len(disk') + Len(writer'.kept) <= MaxSize
      BY <1>2, <1>4
    <2> QED BY <1>1, <1>2, <1>3, <1>4, <2>1 DEF UsersInv
  <1>6. ReadInv'
    BY <1>1, <1>2, <1>4, UsersLeave DEF FilesInv, ReadInv, readAll
  <1> QED BY <1>5, <1>6 DEF FilesInv

\* Only "w" empties the file, and then the readers of both kinds know of it.
LEMMA OpenWriterIs ==
    ASSUME FilesInv, NEW mode \in {"w", "a"}, F!OpenWriter(mode)
    PROVE  /\ disk' \in Seq(Bytes) /\ Len(disk') <= Len(disk) /\ (mode = "a" => disk' = disk)
           /\ reader' \in Readers /\ reader'.open = reader.open /\ reader'.pos = reader.pos
           /\ ~reader'.emptied => mode = "a" /\ ~reader.emptied
           /\ shortened' \in BOOLEAN /\ (shortened => shortened')
           /\ ~shortened' => disk' = disk
  <1>1. /\ disk \in Seq(Bytes) /\ Len(disk) \in Nat /\ reader \in Readers
        /\ reader.emptied \in BOOLEAN /\ shortened \in BOOLEAN
        /\ <<>> \in Seq(Bytes) /\ Len(<<>>) = 0
    BY DEF FilesInv, UsersInv, ReadInv, Readers
  <1>2. disk' = (IF mode = "w" THEN <<>> ELSE disk)
    BY DEF F!OpenWriter
  <1>3. reader' \in Readers /\ reader'.open = reader.open /\ reader'.pos = reader.pos
    <2>1. \A e \in BOOLEAN : LET r == [reader EXCEPT !.emptied = e]
                             IN  r \in Readers /\ r.open = reader.open /\ r.pos = reader.pos
      BY <1>1 DEF Readers
    <2>2. (reader.emptied \/ mode = "w") \in BOOLEAN
      OBVIOUS
    <2>3. reader' = [reader EXCEPT !.emptied = reader.emptied \/ mode = "w"]
      BY DEF F!OpenWriter
    <2> QED BY <2>1, <2>2, <2>3, Zenon
  <1>4. ~reader'.emptied => mode = "a" /\ ~reader.emptied
    <2>1. reader'.emptied = (reader.emptied \/ mode = "w")
      BY <1>1 DEF F!OpenWriter, Readers
    <2> QED BY <2>1
  <1>5. shortened' = (shortened \/ (mode = "w" /\ disk # <<>>))
    BY DEF F!OpenWriter
  <1>6. shortened' \in BOOLEAN /\ (shortened => shortened') /\ (~shortened' => disk' = disk)
    BY <1>2, <1>5
  <1> QED BY <1>1, <1>2, <1>3, <1>4, <1>6

LEMMA OpenWriterInv == ASSUME FilesInv, NEW mode \in {"w", "a"}, F!OpenWriter(mode) PROVE FilesInv'
  <1>1. /\ UNCHANGED <<kind, stage, size, block, overrun, handles, result, failed, got>>
        /\ put' = disk' /\ lost' = FALSE /\ writer' = [F!Closed EXCEPT !.mode = mode]
    BY DEF F!OpenWriter
  <1>2. /\ writer' \in Writers /\ writer'.mode = mode /\ writer'.kept = <<>>
        /\ <<>> \in Seq(Bytes) /\ Len(<<>>) = 0
    BY <1>1, ClosedIs DEF Writers
  <1>3. /\ disk' \in Seq(Bytes) /\ Len(disk') \in Nat /\ Len(disk') <= MaxSize /\ Len(disk) \in Nat
        /\ disk' \o <<>> = disk'
    <2>1. disk' \in Seq(Bytes) /\ Len(disk') <= Len(disk)
      BY OpenWriterIs
    <2>2. /\ Len(disk) \in Nat /\ Len(disk') \in Nat /\ Len(writer.kept) \in Nat
          /\ Len(disk) + Len(writer.kept) <= MaxSize
      BY <2>1 DEF FilesInv, UsersInv, Writers
    <2>3. disk' \o <<>> = disk'
      BY <2>1, ConcatEmptySeq
    <2> QED BY <2>1, <2>2, <2>3, FileAssumption
  <1>4. ASSUME reader'.open, ~reader'.emptied
        PROVE  reader'.pos <= Len(disk') /\ got' = SubSeq(disk', 1, reader'.pos)
    <2>1. reader.open /\ ~reader.emptied /\ disk' = disk /\ reader'.pos = reader.pos
      BY <1>4, OpenWriterIs
    <2> QED BY <1>1, <2>1 DEF FilesInv, UsersInv
  <1>5. UsersInv'
    <2>1. got' \in Seq(Bytes) /\ put' \in Seq(Bytes) /\ lost' \in BOOLEAN /\ reader' \in Readers
      BY <1>1, <1>3, OpenWriterIs DEF FilesInv, UsersInv
    <2>2. Len(disk') + Len(writer'.kept) <= MaxSize
      BY <1>2, <1>3
    <2>3. put' = disk' \o writer'.kept
      BY <1>1, <1>2, <1>3
    <2> QED BY <1>2, <1>3, <1>4, <2>1, <2>2, <2>3 DEF UsersInv
  <1>6. ReadInv'
    <2>1. shortened' \in BOOLEAN /\ (shortened => shortened') /\ (~shortened' => Len(disk) <= Len(disk'))
      BY <1>3, OpenWriterIs
    <2> QED BY <1>1, <1>3, <2>1, UsersLeave DEF FilesInv
  <1> QED BY <1>5, <1>6 DEF FilesInv

LEMMA FilesNext == ASSUME FilesInv, F!Next \/ UNCHANGED file PROVE FilesInv'
  <1>1. CASE UNCHANGED file
    BY <1>1 DEF file, FilesInv, UsersInv, ReadInv
  <1>2. CASE F!Finished
    BY <1>2 DEF F!Finished, F!vars, F!readAll, F!users, FilesInv, UsersInv, ReadInv
  <1> QED
    BY <1>1, <1>2, OpenAllInv, MeasureInv, AllocateInv, FillInv, OpenReaderInv, ReadInvariant,
       CloseReaderInv, OpenWriterInv, WriteInv, FlushInv, CloseWriterInv
    DEF F!Next

-----------------------------------------------------------------------------
(* The signatures *)

\* What stands in a table at a name is what a row of the name says.
LEMMA Lookup ==
    ASSUME NEW rows, NEW n \in DOMAIN L!Table(rows)
    PROVE  \E r \in rows : n \in r[1] /\ L!Table(rows)[n] = r[2]
  <1>1. n \in UNION {r[1] : r \in rows} /\ L!Table(rows)[n] = (CHOOSE r \in rows : n \in r[1])[2]
    BY DEF L!Table
  <1>2. \E r \in rows : n \in r[1]
    BY <1>1
  <1> QED BY <1>1, <1>2

LEMMA DeclaredExported == DOMAIN L!Declared \subseteq DOMAIN L!Exported
  BY SMTT(60) DEF L!Declared, L!Exported, L!OneReal, L!TwoReals, L!Clocks, L!Table

LEMMA NamesExported ==
    /\ L!Clocks \cup L!OneReal \cup L!TwoReals \subseteq DOMAIN L!Exported
    /\ {"xy_say_i32", "xy_say_bool", "xy_sleep_ms", "xy_say_i64", "xy_say_f32", "xy_say_f64",
       "xy_say_str", "xy_free", "xy_hashmap_destroy", "xy_hashmap_clear", "xy_say_char",
       "xy_say_newline", "xy_grab_i32", "xy_grab_i64", "xy_grab_str", "xy_abs_i32", "xy_min_i32",
       "xy_max_i32", "xy_strlen", "xy_hashmap_size", "xy_strcat", "xy_hashmap_get", "xy_strcmp",
       "xy_hashmap_remove", "xy_hashmap_contains", "xy_hashmap_create", "xy_alloc",
       "xy_hashmap_insert"} \subseteq DOMAIN L!Exported
  BY DEF L!Exported, L!OneReal, L!TwoReals, L!Clocks, L!Table

\* A function that is declared has the signature that the header gives it.
LEMMA SameSignature == ASSUME NEW n \in DOMAIN L!Declared PROVE L!Declared[n] = L!Exported[n]
  <1>1. ASSUME NEW x \in {"xy_say_i32", "xy_say_bool", "xy_sleep_ms"}
        PROVE  L!Exported[x] = L!Returns("void", <<"i32">>)
    <2>1. x \in DOMAIN L!Exported
      BY NamesExported
    <2> QED BY <2>1, Lookup DEF L!Exported, L!Clocks, L!OneReal, L!TwoReals
  <1>2. ASSUME NEW x \in {"xy_say_i64"} PROVE L!Exported[x] = L!Returns("void", <<"i64">>)
    <2>1. x \in DOMAIN L!Exported
      BY NamesExported
    <2> QED BY <2>1, Lookup DEF L!Exported, L!Clocks, L!OneReal, L!TwoReals
  <1>3. ASSUME NEW x \in {"xy_say_f32"} PROVE L!Exported[x] = L!Returns("void", <<"float">>)
    <2>1. x \in DOMAIN L!Exported
      BY NamesExported
    <2> QED BY <2>1, Lookup DEF L!Exported, L!Clocks, L!OneReal, L!TwoReals
  <1>4. ASSUME NEW x \in {"xy_say_f64"} PROVE L!Exported[x] = L!Returns("void", <<"double">>)
    <2>1. x \in DOMAIN L!Exported
      BY NamesExported
    <2> QED BY <2>1, Lookup DEF L!Exported, L!Clocks, L!OneReal, L!TwoReals
  <1>5. ASSUME NEW x \in {"xy_say_str", "xy_free", "xy_hashmap_destroy", "xy_hashmap_clear"}
        PROVE  L!Exported[x] = L!Returns("void", <<"ptr">>)
    <2>1. x \in DOMAIN L!Exported
      BY NamesExported
    <2> QED BY <2>1, Lookup DEF L!Exported, L!Clocks, L!OneReal, L!TwoReals
  <1>6. ASSUME NEW x \in {"xy_say_char"} PROVE L!Exported[x] = L!Returns("void", <<"i8">>)
    <2>1. x \in DOMAIN L!Exported
      BY NamesExported
    <2> QED BY <2>1, Lookup DEF L!Exported, L!Clocks, L!OneReal, L!TwoReals
  <1>7. ASSUME NEW x \in {"xy_say_newline"} PROVE L!Exported[x] = L!Returns("void", <<>>)
    <2>1. x \in DOMAIN L!Exported
      BY NamesExported
    <2> QED BY <2>1, Lookup DEF L!Exported, L!Clocks, L!OneReal, L!TwoReals
  <1>8. ASSUME NEW x \in {"xy_grab_i32"} PROVE L!Exported[x] = L!Returns("i32", <<>>)
    <2>1. x \in DOMAIN L!Exported
      BY NamesExported
    <2> QED BY <2>1, Lookup DEF L!Exported, L!Clocks, L!OneReal, L!TwoReals
  <1>9. ASSUME NEW x \in L!Clocks \cup {"xy_grab_i64"} PROVE L!Exported[x] = L!Returns("i64", <<>>)
    <2>1. x \in DOMAIN L!Exported
      BY NamesExported
    <2> QED BY <2>1, Lookup DEF L!Exported, L!Clocks, L!OneReal, L!TwoReals
  <1>10. ASSUME NEW x \in {"xy_grab_str"} PROVE L!Exported[x] = L!Returns("ptr", <<>>)
    <2>1. x \in DOMAIN L!Exported
      BY NamesExported
    <2> QED BY <2>1, Lookup DEF L!Exported, L!Clocks, L!OneReal, L!TwoReals
  <1>11. ASSUME NEW x \in L!OneReal PROVE L!Exported[x] = L!Returns("double", <<"double">>)
    <2>1. x \in DOMAIN L!Exported
      BY NamesExported
    <2> QED BY <2>1, Lookup DEF L!Exported, L!Clocks, L!OneReal, L!TwoReals
  <1>12. ASSUME NEW x \in L!TwoReals
         PROVE  L!Exported[x] = L!Returns("double", <<"double", "double">>)
    <2>1. x \in DOMAIN L!Exported
      BY NamesExported
    <2> QED BY <2>1, Lookup DEF L!Exported, L!Clocks, L!OneReal, L!TwoReals
  <1>13. ASSUME NEW x \in {"xy_abs_i32"} PROVE L!Exported[x] = L!Returns("i32", <<"i32">>)
    <2>1. x \in DOMAIN L!Exported
      BY NamesExported
    <2> QED BY <2>1, Lookup DEF L!Exported, L!Clocks, L!OneReal, L!TwoReals
  <1>14. ASSUME NEW x \in {"xy_min_i32", "xy_max_i32"}
         PROVE  L!Exported[x] = L!Returns("i32", <<"i32", "i32">>)
    <2>1. x \in DOMAIN L!Exported
      BY NamesExported
    <2> QED BY <2>1, Lookup DEF L!Exported, L!Clocks, L!OneReal, L!TwoReals
  <1>15. ASSUME NEW x \in {"xy_strlen", "xy_hashmap_size"}
         PROVE  L!Exported[x] = L!Returns("i64", <<"ptr">>)
    <2>1. x \in DOMAIN L!Exported
      BY NamesExported
    <2> QED BY <2>1, Lookup DEF L!Exported, L!Clocks, L!OneReal, L!TwoReals
  <1>16. ASSUME NEW x \in {"xy_strcat", "xy_hashmap_get"}
         PROVE  L!Exported[x] = L!Returns("ptr", <<"ptr", "ptr">>)
    <2>1. x \in DOMAIN L!Exported
      BY NamesExported
    <2> QED BY <2>1, Lookup DEF L!Exported, L!Clocks, L!OneReal, L!TwoReals
  <1>17. ASSUME NEW x \in {"xy_strcmp", "xy_hashmap_remove", "xy_hashmap_contains"}
         PROVE  L!Exported[x] = L!Returns("i32", <<"ptr", "ptr">>)
    <2>1. x \in DOMAIN L!Exported
      BY NamesExported
    <2> QED BY <2>1, Lookup DEF L!Exported, L!Clocks, L!OneReal, L!TwoReals
  <1>18. ASSUME NEW x \in {"xy_hashmap_create", "xy_alloc"}
         PROVE  L!Exported[x] = L!Returns("ptr", <<"i64">>)
    <2>1. x \in DOMAIN L!Exported
      BY NamesExported
    <2> QED BY <2>1, Lookup DEF L!Exported, L!Clocks, L!OneReal, L!TwoReals
  <1>19. ASSUME NEW x \in {"xy_hashmap_insert"}
         PROVE  L!Exported[x] = L!Returns("i32", <<"ptr", "ptr", "ptr">>)
    <2>1. x \in DOMAIN L!Exported
      BY NamesExported
    <2> QED BY <2>1, Lookup DEF L!Exported, L!Clocks, L!OneReal, L!TwoReals
  <1> QED
    BY Lookup, <1>1, <1>2, <1>3, <1>4, <1>5, <1>6, <1>7, <1>8, <1>9, <1>10, <1>11, <1>12, <1>13,
       <1>14, <1>15, <1>16, <1>17, <1>18, <1>19
    DEF L!Declared

\* What the modules offer.
Offered ==
    L!Say \cup L!OneReal \cup L!TwoReals \cup L!Clocks \cup
    {"xy_grab_i32", "xy_grab_i64", "xy_grab_str", "xy_abs_i32", "xy_min_i32", "xy_max_i32",
     "xy_strlen", "xy_strcat", "xy_strcmp", "xy_hashmap_create", "xy_hashmap_destroy",
     "xy_hashmap_insert", "xy_hashmap_get", "xy_hashmap_remove", "xy_hashmap_contains",
     "xy_hashmap_size", "xy_hashmap_clear", "xy_sleep_ms", "xy_alloc", "xy_free"}

\* No function of a module lacks a type or a declaration.
LEMMA ModulesKnown ==
    ASSUME NEW m \in DOMAIN L!Modules
    PROVE  L!Modules[m] \subseteq DOMAIN L!Declared /\ L!Modules[m] \subseteq DOMAIN L!Registered
  <1>1. L!Modules[m] \subseteq DOMAIN L!Declared
    <2> SUFFICES ASSUME NEW n \in L!Modules[m] PROVE n \in DOMAIN L!Declared
      OBVIOUS
    <2>1. n \in Offered
      BY Lookup DEF L!Modules, Offered
    <2> QED BY <2>1 DEF Offered, L!Declared, L!Table, L!Say, L!OneReal, L!TwoReals, L!Clocks
  <1>2. L!Modules[m] \subseteq DOMAIN L!Registered
    <2> SUFFICES ASSUME NEW n \in L!Modules[m] PROVE n \in DOMAIN L!Registered
      OBVIOUS
    <2>1. n \in Offered
      BY Lookup DEF L!Modules, Offered
    <2> QED BY <2>1 DEF Offered, L!Registered, L!Table, L!Say, L!OneReal, L!TwoReals, L!Clocks
  <1> QED BY <1>1, <1>2

\* The type of a function in the language is the one that its value has.
LEMMA TypesFit ==
    ASSUME NEW n \in DOMAIN L!Registered, n \in DOMAIN L!Declared
    PROVE  ~(L!Registered[n] = "void" /\ L!Declared[n].ret = "ptr") =>
               L!LlvmType(L!Registered[n]) = L!Declared[n].ret
  BY Lookup, SMTT(60)
  DEF L!Declared, L!Registered, L!OneReal, L!TwoReals, L!Clocks, L!Say, L!LlvmType, L!Returns

LEMMA DeclaredTyped ==
    ASSUME NEW n \in DOMAIN L!Declared
    PROVE  L!Declared[n].ret \in L!LlvmTypes /\ L!Declared[n].params \in Seq(L!LlvmTypes)
  <1> DEFINE T == L!LlvmTypes
  <1>1. /\ <<>> \in Seq(T) /\ <<"i8">> \in Seq(T) /\ <<"i32">> \in Seq(T) /\ <<"i64">> \in Seq(T)
        /\ <<"float">> \in Seq(T) /\ <<"double">> \in Seq(T) /\ <<"ptr">> \in Seq(T)
        /\ <<"double", "double">> \in Seq(T) /\ <<"i32", "i32">> \in Seq(T)
        /\ <<"ptr", "ptr">> \in Seq(T) /\ <<"ptr", "ptr", "ptr">> \in Seq(T)
        /\ "void" \in T /\ "i32" \in T /\ "i64" \in T /\ "double" \in T /\ "ptr" \in T
    BY DEF L!LlvmTypes
  <1> HIDE DEF T
  <1> DEFINE Typed(signature) == signature.ret \in T /\ signature.params \in Seq(T)
  <1>2. /\ Typed(L!Returns("void", <<>>)) /\ Typed(L!Returns("void", <<"i8">>))
        /\ Typed(L!Returns("void", <<"i32">>)) /\ Typed(L!Returns("void", <<"i64">>))
        /\ Typed(L!Returns("void", <<"float">>)) /\ Typed(L!Returns("void", <<"double">>))
        /\ Typed(L!Returns("void", <<"ptr">>)) /\ Typed(L!Returns("ptr", <<>>))
        /\ Typed(L!Returns("ptr", <<"i64">>)) /\ Typed(L!Returns("ptr", <<"ptr", "ptr">>))
    BY <1>1 DEF L!Returns
  <1>3. /\ Typed(L!Returns("i32", <<>>)) /\ Typed(L!Returns("i32", <<"i32">>))
        /\ Typed(L!Returns("i32", <<"i32", "i32">>)) /\ Typed(L!Returns("i32", <<"ptr", "ptr">>))
        /\ Typed(L!Returns("i32", <<"ptr", "ptr", "ptr">>))
        /\ Typed(L!Returns("i64", <<>>)) /\ Typed(L!Returns("i64", <<"ptr">>))
        /\ Typed(L!Returns("double", <<"double">>))
        /\ Typed(L!Returns("double", <<"double", "double">>))
    BY <1>1 DEF L!Returns
  <1> HIDE DEF Typed
  <1>4. Typed(L!Declared[n])
    BY <1>2, <1>3, Lookup DEF L!Declared
  <1> QED BY <1>4 DEF Typed, T

SymbolTypes == {"void", "i32", "i64", "f64", "str"}

LEMMA RegisteredTyped == ASSUME NEW n \in DOMAIN L!Registered PROVE L!Registered[n] \in SymbolTypes
  BY Lookup DEF L!Registered, SymbolTypes

LEMMA CoreIs == "core" \in DOMAIN L!Modules
  BY DEF L!Modules, L!Table

LEMMA NamesOf == ASSUME NEW m \in DOMAIN L!Modules PROVE L!Modules[m] \subseteq L!Names
  BY DEF L!Names

\* The analyzer and the generator know the same functions; a name that the
\* generator binds to the library has the type that the registry gives it.
SignaturesInv ==
    /\ L!TypeOK
    /\ \A n \in L!Names : symbols[n] # "undeclared" <=> functions[n] # "none"
    /\ \A n \in L!Names : functions[n] = "library" =>
           n \in DOMAIN L!Declared /\ n \in DOMAIN L!Registered /\ symbols[n] = L!Registered[n]
    /\ \A m \in imported : \A n \in L!Modules[m] : functions[n] # "none"
    /\ L!CallsFit /\ L!ResultsAgree

CalledType == [name : L!Names \cup {"none"}, bound : {"none", "library", "user"},
               passed : Seq(L!LlvmTypes), type : SymbolTypes, value : L!LlvmTypes]

LEMMA NoCallIs == L!NoCall \in CalledType /\ L!NoCall.bound = "none"
  BY DEF L!NoCall, CalledType, SymbolTypes, L!LlvmTypes

LEMMA SignaturesInit == ASSUME L!Init PROVE SignaturesInv
  <1> DEFINE core == L!Modules["core"]
  <1>1. core \subseteq L!Names /\ core \subseteq DOMAIN L!Declared /\ core \subseteq DOMAIN L!Registered
    BY CoreIs, NamesOf, ModulesKnown
  <1>2. \A n \in core : L!Registered[n] \in SymbolTypes
    BY <1>1, RegisteredTyped
  <1> HIDE DEF core
  <1>3. /\ symbols = [n \in L!Names |-> IF n \in core THEN L!Registered[n] ELSE "undeclared"]
        /\ functions = [n \in L!Names |-> IF n \in core THEN "library" ELSE "none"]
        /\ imported = {} /\ errors = FALSE /\ called = L!NoCall
    BY DEF L!Init, core
  <1>4. /\ symbols \in [L!Names -> {"undeclared"} \cup SymbolTypes]
        /\ functions \in [L!Names -> {"none", "library", "user"}]
    BY <1>2, <1>3
  <1>5. L!TypeOK
    BY <1>3, <1>4, NoCallIs DEF L!TypeOK, CalledType, SymbolTypes
  <1>6. \A n \in L!Names : /\ symbols[n] # "undeclared" <=> functions[n] # "none"
                           /\ functions[n] = "library" => n \in core /\ symbols[n] = L!Registered[n]
    BY <1>2, <1>3 DEF SymbolTypes
  <1>7. L!CallsFit /\ L!ResultsAgree
    BY <1>3, NoCallIs DEF L!CallsFit, L!ResultsAgree
  <1> QED BY <1>1, <1>3, <1>5, <1>6, <1>7 DEF SignaturesInv

\* While no call is accepted, only the names matter.
LEMMA NoCallInv ==
    ASSUME symbols' \in [L!Names -> {"undeclared"} \cup SymbolTypes],
           functions' \in [L!Names -> {"none", "library", "user"}],
           imported' \subseteq DOMAIN L!Modules, errors' \in BOOLEAN, called' = L!NoCall,
           \A n \in L!Names : symbols'[n] # "undeclared" <=> functions'[n] # "none",
           \A n \in L!Names : functions'[n] = "library" =>
               n \in DOMAIN L!Declared /\ n \in DOMAIN L!Registered /\ symbols'[n] = L!Registered[n],
           \A m \in imported' : \A n \in L!Modules[m] : functions'[n] # "none"
    PROVE  SignaturesInv'
  <1>1. L!TypeOK'
    BY NoCallIs DEF L!TypeOK, CalledType, SymbolTypes
  <1>2. L!CallsFit' /\ L!ResultsAgree'
    BY NoCallIs DEF L!CallsFit, L!ResultsAgree
  <1> QED BY <1>1, <1>2 DEF SignaturesInv

LEMMA NamesTyped ==
    ASSUME SignaturesInv
    PROVE  /\ symbols \in [L!Names -> {"undeclared"} \cup SymbolTypes]
           /\ functions \in [L!Names -> {"none", "library", "user"}]
           /\ imported \subseteq DOMAIN L!Modules /\ errors \in BOOLEAN
  BY DEF SignaturesInv, L!TypeOK, SymbolTypes

LEMMA ImportInv == ASSUME SignaturesInv, NEW m, NEW source, L!ImportDecl(m, source) PROVE SignaturesInv'
  <1>1. CASE source = "xystd" /\ m \in DOMAIN L!Modules
    <2> DEFINE mod == L!Modules[m]
    <2>1. mod \subseteq L!Names /\ mod \subseteq DOMAIN L!Declared /\ mod \subseteq DOMAIN L!Registered
      BY <1>1, NamesOf, ModulesKnown
    <2>2. \A n \in mod : L!Registered[n] \in SymbolTypes
      BY <2>1, RegisteredTyped
    <2>3. m \in imported => \A n \in mod : functions[n] # "none"
      BY DEF SignaturesInv
    <2> HIDE DEF mod
    <2>4. /\ symbols' = [n \in L!Names |-> IF n \in mod /\ symbols[n] = "undeclared"
                                           THEN L!Registered[n] ELSE symbols[n]]
          /\ functions' = [n \in L!Names |-> IF /\ m \notin imported /\ n \in mod
                                                /\ n \in DOMAIN L!Declared /\ functions[n] = "none"
                                             THEN "library" ELSE functions[n]]
          /\ imported' = imported \cup {m} /\ errors' = errors /\ called' = L!NoCall
      BY <1>1 DEF L!ImportDecl, L!Registering, L!Declaring, mod
    <2>5. /\ symbols' \in [L!Names -> {"undeclared"} \cup SymbolTypes]
          /\ functions' \in [L!Names -> {"none", "library", "user"}]
      BY <2>2, <2>4, NamesTyped
    <2>6. ASSUME NEW n \in L!Names
          PROVE  /\ symbols'[n] # "undeclared" <=> functions'[n] # "none"
                 /\ functions'[n] = "library" =>
                        n \in DOMAIN L!Declared /\ n \in DOMAIN L!Registered /\ symbols'[n] = L!Registered[n]
                 /\ functions[n] # "none" => functions'[n] # "none"
                 /\ n \in mod => functions'[n] # "none"
      <3>1. /\ symbols[n] # "undeclared" <=> functions[n] # "none"
            /\ functions[n] = "library" =>
                   n \in DOMAIN L!Declared /\ n \in DOMAIN L!Registered /\ symbols[n] = L!Registered[n]
        BY DEF SignaturesInv
      <3>2. CASE n \in mod /\ functions[n] = "none"
        BY <2>1, <2>2, <2>3, <2>4, <3>1, <3>2 DEF SymbolTypes
      <3>3. CASE ~(n \in mod /\ functions[n] = "none")
        BY <2>4, <3>1, <3>3
      <3> QED BY <3>2, <3>3
    <2>7. \A o \in imported' : \A n \in L!Modules[o] : functions'[n] # "none"
      <3> SUFFICES ASSUME NEW o \in imported', NEW n \in L!Modules[o] PROVE functions'[n] # "none"
        OBVIOUS
      <3>1. o \in DOMAIN L!Modules /\ n \in L!Names
        BY <1>1, <2>4, NamesTyped, NamesOf
      <3>2. o \in imported => functions[n] # "none"
        BY DEF SignaturesInv
      <3> QED BY <2>4, <2>6, <3>1, <3>2 DEF mod
    <2>8. imported' \subseteq DOMAIN L!Modules /\ errors' \in BOOLEAN
      BY <1>1, <2>4, NamesTyped
    <2> QED BY <2>4, <2>5, <2>6, <2>7, <2>8, NoCallInv
  <1>2. CASE ~(source = "xystd" /\ m \in DOMAIN L!Modules)
    <2>1. errors' = TRUE /\ called' = L!NoCall /\ UNCHANGED <<symbols, imported, functions>>
      BY <1>2 DEF L!ImportDecl
    <2>2. errors' \in BOOLEAN
      BY <2>1
    <2> QED BY <2>1, <2>2, NamesTyped, NoCallInv DEF SignaturesInv
  <1> QED BY <1>1, <1>2

LEMMA FuncDeclInv == ASSUME SignaturesInv, NEW n \in UserNames, L!FuncDecl(n) PROVE SignaturesInv'
  <1>1. n \in L!Names
    BY DEF L!Names
  <1>2. CASE symbols[n] = "undeclared"
    <2>1. functions[n] = "none"
      BY <1>1, <1>2 DEF SignaturesInv
    <2>2. /\ symbols' = [symbols EXCEPT ![n] = "void"] /\ functions' = [functions EXCEPT ![n] = "user"]
          /\ imported' = imported /\ errors' = errors /\ called' = L!NoCall
      BY <1>2, <2>1 DEF L!FuncDecl
    <2>3. /\ symbols' \in [L!Names -> {"undeclared"} \cup SymbolTypes]
          /\ functions' \in [L!Names -> {"none", "library", "user"}]
      BY <1>1, <2>2, NamesTyped DEF SymbolTypes
    <2>4. ASSUME NEW k \in L!Names
          PROVE  /\ symbols'[k] # "undeclared" <=> functions'[k] # "none"
                 /\ functions'[k] = "library" =>
                        k \in DOMAIN L!Declared /\ k \in DOMAIN L!Registered /\ symbols'[k] = L!Registered[k]
                 /\ functions[k] # "none" => functions'[k] # "none"
      <3>1. /\ symbols[k] # "undeclared" <=> functions[k] # "none"
            /\ functions[k] = "library" =>
                   k \in DOMAIN L!Declared /\ k \in DOMAIN L!Registered /\ symbols[k] = L!Registered[k]
        BY DEF SignaturesInv
      <3> QED BY <1>1, <2>2, <3>1, NamesTyped
    <2>5. \A o \in imported' : \A k \in L!Modules[o] : functions'[k] # "none"
      <3> SUFFICES ASSUME NEW o \in imported', NEW k \in L!Modules[o] PROVE functions'[k] # "none"
        OBVIOUS
      <3>1. k \in L!Names /\ functions[k] # "none"
        BY <2>2, NamesTyped, NamesOf DEF SignaturesInv
      <3> QED BY <2>4, <3>1
    <2> QED BY <2>2, <2>3, <2>4, <2>5, NamesTyped, NoCallInv
  <1>3. CASE symbols[n] # "undeclared"
    <2>1. errors' = TRUE /\ called' = L!NoCall /\ UNCHANGED <<symbols, imported, functions>>
      BY <1>3 DEF L!FuncDecl
    <2>2. errors' \in BOOLEAN
      BY <2>1
    <2> QED BY <2>1, <2>2, NamesTyped, NoCallInv DEF SignaturesInv
  <1> QED BY <1>2, <1>3

LEMMA CallInv == ASSUME SignaturesInv, NEW n \in L!Names, NEW args, L!CallExpr(n, args) PROVE SignaturesInv'
  <1>1. CASE symbols[n] = "undeclared" \/ functions[n] = "none" \/ ~L!Verified(n, L!Passed(n, args))
    <2>1. errors' = TRUE /\ called' = L!NoCall /\ UNCHANGED <<symbols, imported, functions>>
      BY <1>1 DEF L!CallExpr
    <2>2. errors' \in BOOLEAN
      BY <2>1
    <2> QED BY <2>1, <2>2, NamesTyped, NoCallInv DEF SignaturesInv
  <1>2. CASE ~(symbols[n] = "undeclared" \/ functions[n] = "none" \/ ~L!Verified(n, L!Passed(n, args)))
    <2> DEFINE params == L!Passed(n, args)
               ret == L!Signature(n).ret
    <2>1. /\ called' = [name |-> n, bound |-> functions[n], passed |-> params, type |-> symbols[n],
                        value |-> ret]
          /\ UNCHANGED <<symbols, imported, functions, errors>>
          /\ symbols[n] # "undeclared" /\ functions[n] # "none" /\ params = L!Signature(n).params
      BY <1>2 DEF L!CallExpr, L!Verified
    <2> HIDE DEF params, ret
    <2>2. symbols[n] \in SymbolTypes /\ functions[n] \in {"library", "user"}
      BY <2>1, NamesTyped
    <2>3. CASE functions[n] = "library"
      <3>1. n \in DOMAIN L!Declared /\ n \in DOMAIN L!Registered /\ symbols[n] = L!Registered[n]
        BY <2>3 DEF SignaturesInv
      <3>2. ret = L!Declared[n].ret /\ params = L!Declared[n].params
        BY <2>1, <2>3 DEF L!Signature, ret
      <3>3. ret \in L!LlvmTypes /\ params \in Seq(L!LlvmTypes)
        BY <3>1, <3>2, DeclaredTyped
      <3>4. called' \in CalledType
        BY <2>1, <2>2, <3>3 DEF CalledType
      <3>5. n \in DOMAIN L!Exported /\ params = L!Exported[n].params /\ ret = L!Exported[n].ret
        BY <3>1, <3>2, DeclaredExported, SameSignature
      <3>6. ~(symbols[n] = "void" /\ ret = "ptr") => L!LlvmType(symbols[n]) = ret
        BY <3>1, <3>2, TypesFit
      <3>7. /\ called'.name = n /\ called'.passed = params /\ called'.value = ret
            /\ called'.type = symbols[n]
        BY <2>1
      <3>8. L!TypeOK'
        BY <2>1, <3>4, NamesTyped DEF L!TypeOK, CalledType, SymbolTypes
      <3>9. L!CallsFit' /\ L!ResultsAgree'
        BY <3>5, <3>6, <3>7 DEF L!CallsFit, L!ResultsAgree, L!LlvmType
      <3> QED BY <2>1, <3>8, <3>9 DEF SignaturesInv
    <2>4. CASE functions[n] = "user"
      <3>1. ret = "void" /\ params = <<>>
        BY <2>1, <2>4 DEF L!Signature, L!Returns, ret
      <3>2. ret \in L!LlvmTypes /\ params \in Seq(L!LlvmTypes)
        BY <3>1, EmptySeq DEF L!LlvmTypes
      <3>3. called' \in CalledType /\ called'.bound = "user"
        BY <2>1, <2>2, <2>4, <3>2 DEF CalledType
      <3>4. L!TypeOK'
        BY <2>1, <3>3, NamesTyped DEF L!TypeOK, CalledType, SymbolTypes
      <3>5. L!CallsFit' /\ L!ResultsAgree'
        BY <3>3 DEF L!CallsFit, L!ResultsAgree
      <3> QED BY <2>1, <3>4, <3>5 DEF SignaturesInv
    <2> QED BY <2>2, <2>3, <2>4
  <1> QED BY <1>1, <1>2

LEMMA SignaturesNext == ASSUME SignaturesInv, L!Next \/ UNCHANGED signatures PROVE SignaturesInv'
  <1>1. CASE UNCHANGED signatures
    BY <1>1 DEF signatures, SignaturesInv, L!TypeOK, L!CallsFit, L!ResultsAgree
  <1> QED BY <1>1, ImportInv, FuncDeclInv, CallInv DEF L!Next

-----------------------------------------------------------------------------
(* The input *)

\* g joins the first n sequences of t, one by one.
Joins(g, t, n) == g = [k \in 1..n |-> IF k = 1 THEN t[k] ELSE g[k - 1] \o t[k]]

LEMMA JoinsExist == ASSUME NEW t, NEW n \in Nat PROVE \E g : Joins(g, t, n)
<1> DEFINE S == {m \in 0..n : \E g : Joins(g, t, m)}
<1>1. 0 \in S
  <2>1. Joins([k \in 1..0 |-> 0], t, 0)
    BY DEF Joins
  <2> QED BY <2>1
<1>2. ASSUME NEW m \in S, m \in Nat, m < n PROVE m + 1 \in S
  <2>1. PICK g : Joins(g, t, m)
    BY <1>2
  <2> DEFINE h == [k \in 1..(m + 1) |->
                      IF k = m + 1 THEN (IF k = 1 THEN t[k] ELSE g[k - 1] \o t[k]) ELSE g[k]]
  <2>2. ASSUME NEW k \in 1..(m + 1) PROVE h[k] = IF k = 1 THEN t[k] ELSE h[k - 1] \o t[k]
    <3>1. k > 1 => k - 1 \in 1..m /\ k - 1 \in 1..(m + 1) /\ k - 1 # m + 1
      BY <1>2
    <3>2. k > 1 => h[k - 1] = g[k - 1]
      BY <3>1
    <3>3. k # m + 1 => k \in 1..m
      BY <1>2
    <3>4. k \in 1..m => g[k] = IF k = 1 THEN t[k] ELSE g[k - 1] \o t[k]
      BY <2>1 DEF Joins
    <3> QED BY <3>2, <3>3, <3>4
  <2>3. h = [k \in 1..(m + 1) |-> h[k]]
    OBVIOUS
  <2> HIDE DEF h
  <2>4. Joins(h, t, m + 1)
    BY <2>2, <2>3 DEF Joins
  <2> QED BY <1>2, <2>4
<1>3. \A m \in S : m \in Nat /\ m < n => m + 1 \in S
  BY <1>2
<1>4. \A m \in 0..n : m \in S
  <2> HIDE DEF S
  <2> QED BY <1>1, <1>3, Counting
<1> QED BY <1>4

\* The first n of the sequences of t.
First(t, n) == [k \in 1..n |-> t[k]]

LEMMA FlattenIs ==
    ASSUME NEW t, NEW n \in Nat
    PROVE  /\ n = 0 => I!FlattenSeq(First(t, n)) = <<>>
           /\ n > 0 => \E g : Joins(g, t, n) /\ I!FlattenSeq(First(t, n)) = g[n]
<1> DEFINE p == First(t, n)
<1>1. Len(p) = n /\ \A k \in 1..n : p[k] = t[k]
  BY DEF First
<1>2. n = 0 => p = <<>>
  BY DEF First
<1> HIDE DEF p
<1>3. ASSUME n > 0 PROVE \E g : Joins(g, t, n) /\ I!FlattenSeq(p) = g[n]
  <2> DEFINE g == CHOOSE h : h = [k \in 1..Len(p) |-> IF k = 1 THEN p[k] ELSE h[k - 1] \o p[k]]
  <2>1. \E h : h = [k \in 1..Len(p) |-> IF k = 1 THEN p[k] ELSE h[k - 1] \o p[k]]
    <3>1. \E h : Joins(h, p, Len(p))
      BY <1>1, JoinsExist, Zenon
    <3> QED BY <3>1 DEF Joins
  <2>2. g = [k \in 1..Len(p) |-> IF k = 1 THEN p[k] ELSE g[k - 1] \o p[k]]
    BY <2>1, Zenon
  <2>3. I!FlattenSeq(p) = g[Len(p)]
    BY <1>1, <1>3 DEF I!FlattenSeq
  <2> HIDE DEF g
  <2>4. Joins(g, t, n)
    BY <1>1, <2>2 DEF Joins
  <2> QED BY <1>1, <2>3, <2>4
<1>4. n = 0 => I!FlattenSeq(p) = <<>>
  BY <1>1, <1>2 DEF I!FlattenSeq
<1> QED BY <1>3, <1>4 DEF p

\* Joining the first n + 1 sequences adds the last of them.
LEMMA FlattenNext ==
    ASSUME NEW Over, NEW t, NEW n \in Nat, \A k \in 1..(n + 1) : t[k] \in Seq(Over)
    PROVE  /\ I!FlattenSeq(First(t, n)) \in Seq(Over)
           /\ I!FlattenSeq(First(t, n + 1)) = I!FlattenSeq(First(t, n)) \o t[n + 1]
<1>1. PICK g : Joins(g, t, n + 1) /\ I!FlattenSeq(First(t, n + 1)) = g[n + 1]
  BY FlattenIs
<1>2. \A k \in 1..(n + 1) : g[k] = IF k = 1 THEN t[k] ELSE g[k - 1] \o t[k]
  BY <1>1 DEF Joins
<1> DEFINE S == {m \in 0..n : m > 0 => g[m] \in Seq(Over)}
<1>3. \A m \in 0..n : m \in S
  <2>1. 0 \in S
    OBVIOUS
  <2>2. ASSUME NEW m \in S, m \in Nat, m < n PROVE m + 1 \in S
    <3>1. m + 1 \in 1..(n + 1) /\ m + 1 \in 0..n /\ (m + 1) - 1 = m
      BY <2>2
    <3>4. t[m + 1] \in Seq(Over)
      BY <3>1
    <3>2. CASE m = 0
      <4>1. g[m + 1] = t[m + 1]
        BY <1>2, <3>1, <3>2
      <4> QED BY <3>1, <3>4, <4>1
    <3>3. CASE m > 0
      <4>1. g[m] \in Seq(Over)
        BY <3>3
      <4>2. g[m + 1] = g[m] \o t[m + 1]
        <5>1. m + 1 # 1
          BY <2>2, <3>3
        <5> QED BY <1>2, <3>1, <5>1
      <4>3. g[m] \o t[m + 1] \in Seq(Over)
        BY <3>4, <4>1, ConcatProperties
      <4> QED BY <3>1, <4>2, <4>3
    <3> QED BY <2>2, <3>2, <3>3
  <2>3. \A m \in S : m \in Nat /\ m < n => m + 1 \in S
    BY <2>2
  <2> HIDE DEF S
  <2> QED BY <2>1, <2>3, Counting
<1>4. CASE n = 0
  <2>1. I!FlattenSeq(First(t, n)) = <<>>
    BY <1>4, FlattenIs
  <2>2. I!FlattenSeq(First(t, n + 1)) = t[n + 1] /\ t[n + 1] \in Seq(Over)
    BY <1>1, <1>2, <1>4
  <2>3. <<>> \o t[n + 1] = t[n + 1]
    BY <2>2, ConcatEmptySeq
  <2> QED BY <2>1, <2>2, <2>3
<1>5. CASE n > 0
  <2>1. PICK f : Joins(f, t, n) /\ I!FlattenSeq(First(t, n)) = f[n]
    BY <1>5, FlattenIs
  <2>2. \A k \in 1..n : f[k] = IF k = 1 THEN t[k] ELSE f[k - 1] \o t[k]
    BY <2>1 DEF Joins
  <2> DEFINE A == {m \in 0..n : m > 0 => f[m] = g[m]}
  <2>3. \A m \in 0..n : m \in A
    <3>1. 0 \in A
      OBVIOUS
    <3>2. ASSUME NEW m \in A, m \in Nat, m < n PROVE m + 1 \in A
      <4>1. m + 1 \in 1..(n + 1) /\ m + 1 \in 1..n /\ (m + 1) - 1 = m
        BY <3>2
      <4>2. m > 0 => f[m] = g[m]
        OBVIOUS
      <4>3. f[m + 1] = IF m + 1 = 1 THEN t[m + 1] ELSE f[m] \o t[m + 1]
        BY <2>2, <4>1
      <4>4. g[m + 1] = IF m + 1 = 1 THEN t[m + 1] ELSE g[m] \o t[m + 1]
        BY <1>2, <4>1
      <4>5. f[m + 1] = g[m + 1]
        BY <3>2, <4>2, <4>3, <4>4
      <4> QED BY <4>1, <4>5
    <3>3. \A m \in A : m \in Nat /\ m < n => m + 1 \in A
      BY <3>2
    <3> HIDE DEF A
    <3> QED BY <3>1, <3>3, Counting
  <2>4. n \in A /\ n \in S
    BY <1>3, <2>3
  <2>5. f[n] = g[n] /\ f[n] \in Seq(Over)
    BY <1>5, <2>4
  <2>6. g[n + 1] = g[n] \o t[n + 1]
    <3>1. n + 1 \in 1..(n + 1) /\ n + 1 # 1 /\ (n + 1) - 1 = n
      BY <1>5
    <3> QED BY <1>2, <3>1
  <2> QED BY <1>1, <2>1, <2>5, <2>6
<1> QED BY <1>4, <1>5

\* Joining one more sequence adds it.
LEMMA FlattenAppend ==
    ASSUME NEW Over, NEW s \in Seq(Seq(Over)), NEW x \in Seq(Over)
    PROVE  /\ I!FlattenSeq(s) \in Seq(Over)
           /\ I!FlattenSeq(Append(s, x)) = I!FlattenSeq(s) \o x
<1> DEFINE t == Append(s, x)
<1>1. PICK n \in Nat : n = Len(s)
  OBVIOUS
<1>2. /\ t \in Seq(Seq(Over)) /\ Len(t) = n + 1
      /\ \A k \in 1..n : t[k] = s[k]
      /\ t[n + 1] = x
  BY <1>1, AppendProperties
<1> HIDE DEF t
<1>3. s = [k \in 1..n |-> s[k]] /\ t = [k \in 1..(n + 1) |-> t[k]]
  BY <1>1, <1>2
<1>4. s = First(t, n) /\ t = First(t, n + 1)
  <2>1. First(t, n) = [k \in 1..n |-> s[k]]
    BY <1>2 DEF First
  <2> QED BY <1>3, <2>1 DEF First
<1>5. \A k \in 1..(n + 1) : t[k] \in Seq(Over)
  BY <1>2, ElementOfSeq
<1>6. /\ I!FlattenSeq(First(t, n)) \in Seq(Over)
      /\ I!FlattenSeq(First(t, n + 1)) = I!FlattenSeq(First(t, n)) \o t[n + 1]
  BY <1>5, FlattenNext
<1>7. /\ I!FlattenSeq(s) \in Seq(Over)
      /\ I!FlattenSeq(t) = I!FlattenSeq(s) \o x
  BY <1>2, <1>4, <1>6
<1> QED BY <1>7 DEF t

\* The first q of t are sequences over Over; those after the first p are empty, or
\* have one element of s each.
Sequences(t, q, Over) == \A k \in 1..q : t[k] \in Seq(Over)
Empties(t, p, q) == p <= q /\ \A k \in (p + 1)..q : t[k] = <<>>
Singles(t, s, p, q) == p <= q /\ q <= Len(s) /\ \A k \in (p + 1)..q : t[k] = <<s[k]>>

\* Those after the first p add x to what the first p join to.
Add(t, p, q, x) == I!FlattenSeq(First(t, q)) = I!FlattenSeq(First(t, p)) \o x

\* Empty sequences add nothing.
LEMMA FlattenSkips ==
    ASSUME NEW Over, NEW t, NEW p \in Nat, NEW q \in Nat, Sequences(t, q, Over), Empties(t, p, q)
    PROVE  I!FlattenSeq(First(t, q)) = I!FlattenSeq(First(t, p))
<1> USE DEF Sequences, Empties
<1> DEFINE S == {m \in 0..(q - p) : I!FlattenSeq(First(t, p + m)) = I!FlattenSeq(First(t, p))}
<1>1. 0 \in S /\ q - p \in Nat /\ q - p \in 0..(q - p) /\ p + (q - p) = q
  <2>1. p + 0 = p
    OBVIOUS
  <2> QED BY <2>1
<1>2. ASSUME NEW m \in S, m \in Nat, m < q - p PROVE m + 1 \in S
  <2>1. /\ p + m \in Nat /\ (p + m) + 1 = p + (m + 1) /\ (p + m) + 1 \in (p + 1)..q
        /\ m + 1 \in 0..(q - p)
    BY <1>2
  <2>2. /\ I!FlattenSeq(First(t, p + m)) \in Seq(Over)
        /\ I!FlattenSeq(First(t, (p + m) + 1)) = I!FlattenSeq(First(t, p + m)) \o t[(p + m) + 1]
    <3>1. \A k \in 1..((p + m) + 1) : t[k] \in Seq(Over)
      BY <2>1
    <3> QED BY <2>1, <3>1, FlattenNext
  <2>3. t[(p + m) + 1] = <<>>
    BY <2>1
  <2>4. I!FlattenSeq(First(t, p + m)) \o <<>> = I!FlattenSeq(First(t, p + m))
    BY <2>2, ConcatEmptySeq
  <2> QED BY <1>2, <2>1, <2>2, <2>3, <2>4
<1>3. \A m \in S : m \in Nat /\ m < q - p => m + 1 \in S
  BY <1>2
<1>4. q - p \in S
  <2> HIDE DEF S
  <2> QED BY <1>1, <1>3, Counting
<1> QED BY <1>1, <1>4

\* Sequences of one character each add the characters.
LEMMA FlattenTakes ==
    ASSUME NEW Over, NEW t, NEW s \in Seq(Over), NEW p \in Nat, NEW q \in Nat,
           Sequences(t, q, Over), Singles(t, s, p, q)
    PROVE  Add(t, p, q, SubSeq(s, p + 1, q))
<1> USE DEF Sequences, Singles, Add
<1> DEFINE S == {m \in 0..(q - p) : I!FlattenSeq(First(t, p + m))
                                    = I!FlattenSeq(First(t, p)) \o SubSeq(s, p + 1, p + m)}
<1>0. I!FlattenSeq(First(t, p)) \in Seq(Over)
  <2>1. CASE p = 0
    <3>1. I!FlattenSeq(First(t, p)) = <<>>
      BY <2>1, FlattenIs
    <3> QED BY <3>1
  <2>2. CASE p > 0
    <3>1. p - 1 \in Nat /\ (p - 1) + 1 = p
      BY <2>2
    <3>2. \A k \in 1..((p - 1) + 1) : t[k] \in Seq(Over)
      BY <3>1
    <3>3. /\ I!FlattenSeq(First(t, p - 1)) \in Seq(Over)
          /\ I!FlattenSeq(First(t, (p - 1) + 1)) = I!FlattenSeq(First(t, p - 1)) \o t[(p - 1) + 1]
      BY <3>1, <3>2, FlattenNext
    <3>4. t[(p - 1) + 1] \in Seq(Over)
      BY <3>1, <3>2
    <3> QED BY <3>1, <3>3, <3>4, ConcatProperties
  <2> QED BY <2>1, <2>2
<1>1. 0 \in S /\ q - p \in Nat /\ q - p \in 0..(q - p) /\ p + (q - p) = q
  <2>1. p + 0 = p /\ p + 1 \in Int /\ p \in Int /\ p < p + 1
    OBVIOUS
  <2>2. SubSeq(s, p + 1, p) = <<>>
    BY <2>1, SubSeqEmpty
  <2>3. I!FlattenSeq(First(t, p)) \o <<>> = I!FlattenSeq(First(t, p))
    BY <1>0, ConcatEmptySeq
  <2>4. 0 \in 0..(q - p) /\ q - p \in Nat /\ q - p \in 0..(q - p) /\ p + (q - p) = q
    OBVIOUS
  <2> QED BY <2>1, <2>2, <2>3, <2>4
<1>2. ASSUME NEW m \in S, m \in Nat, m < q - p PROVE m + 1 \in S
  <2>1. /\ p + m \in Nat /\ (p + m) + 1 = p + (m + 1) /\ (p + m) + 1 \in (p + 1)..q
        /\ m + 1 \in 0..(q - p) /\ Len(s) \in Nat
    BY <1>2
  <2>2. I!FlattenSeq(First(t, (p + m) + 1)) = I!FlattenSeq(First(t, p + m)) \o t[(p + m) + 1]
    <3>1. \A k \in 1..((p + m) + 1) : t[k] \in Seq(Over)
      BY <2>1
    <3> QED BY <2>1, <3>1, FlattenNext
  <2>3. t[(p + m) + 1] = <<s[(p + m) + 1]>>
    BY <2>1
  <2> DEFINE a == SubSeq(s, p + 1, p + m)
             b == SubSeq(s, p + 1, p + (m + 1))
             c == <<s[(p + m) + 1]>>
  <2>4. a \in Seq(Over) /\ b = a \o c
    <3>1. p + 1 \in 1..Len(s) /\ p + (m + 1) \in (p + 1)..Len(s) /\ (p + (m + 1)) - 1 = p + m
      BY <2>1
    <3>2. b = SubSeq(s, p + 1, (p + (m + 1)) - 1) \o <<s[p + (m + 1)]>>
      BY <3>1, SubSeqRecursiveSecond
    <3>3. \A k \in (p + 1)..(p + m) : s[k] \in Over
      BY <2>1, ElementOfSeq
    <3>4. a \in Seq(Over)
      BY <2>1, <3>3, SubSeqProperties
    <3> QED BY <2>1, <3>1, <3>2, <3>4
  <2>5. c \in Seq(Over)
    <3>1. (p + m) + 1 \in 1..Len(s)
      BY <2>1
    <3> QED BY <3>1, ElementOfSeq
  <2>6. I!FlattenSeq(First(t, p + m)) = I!FlattenSeq(First(t, p)) \o a
    OBVIOUS
  <2> HIDE DEF a, b, c, S
  <2>7. (I!FlattenSeq(First(t, p)) \o a) \o c = I!FlattenSeq(First(t, p)) \o (a \o c)
    <3> DEFINE joined == I!FlattenSeq(First(t, p))
    <3>1. joined \in Seq(Over) /\ a \in Seq(Over) /\ c \in Seq(Over)
      BY <1>0, <2>4, <2>5
    <3> HIDE DEF joined
    <3>2. (joined \o a) \o c = joined \o (a \o c)
      BY <3>1, ConcatAssociative, SMTT(30)
    <3> QED BY <3>2 DEF joined
  <2>8. I!FlattenSeq(First(t, p + (m + 1))) = I!FlattenSeq(First(t, p)) \o b
    BY <2>1, <2>2, <2>3, <2>4, <2>6, <2>7 DEF c
  <2> USE DEF S, b
  <2> QED BY <2>1, <2>8
<1>3. \A m \in S : m \in Nat /\ m < q - p => m + 1 \in S
  BY <1>2
<1>4. q - p \in S
  <2> HIDE DEF S
  <2> QED BY <1>1, <1>3, Counting
<1> QED BY <1>1, <1>4

\* What each place of the input adds to what is returned.
Given(k, lostSigns) == IF stdin[k] = "blank" \/ k \in lostSigns THEN <<>> ELSE <<stdin[k]>>

Places(lostSigns) == [k \in 1..Len(stdin) |-> Given(k, lostSigns)]

\* A run exists, and all of it is of the set.
LEMMA RunIs ==
    ASSUME I!TypeOK, NEW p \in 0..Len(stdin), NEW S
    PROVE  /\ I!Run(p, S) \in 0..(Len(stdin) - p)
           /\ \A k \in (p + 1)..(p + I!Run(p, S)) : stdin[k] \in S
<1>1. PICK n \in Nat : n = Len(stdin)
  BY DEF I!TypeOK
<1> DEFINE Stops == {m \in 0..(n - p) : p + m < n => stdin[p + m + 1] \notin S}
           IsRun(m) == /\ \A k \in (p + 1)..(p + m) : stdin[k] \in S
                       /\ p + m < n => stdin[p + m + 1] \notin S
<1>2. Stops \in SUBSET Nat /\ n - p \in Stops
  BY <1>1
<1>3. PICK m \in Stops : \A l \in Stops : m <= l
  <2> HIDE DEF Stops
  <2> QED BY <1>2, LeastNumber
<1>4. m \in 0..(n - p) /\ IsRun(m)
  <2>1. ASSUME NEW k \in (p + 1)..(p + m) PROVE stdin[k] \in S
    <3> DEFINE l == k - p - 1
    <3>1. l \in 0..(n - p) /\ ~ (m <= l) /\ p + l + 1 = k
      BY <1>1, <1>3
    <3>2. l \notin Stops
      BY <1>3, <3>1
    <3> HIDE DEF l
    <3> QED BY <3>1, <3>2
  <2> QED BY <1>3, <2>1
<1>5. I!Run(p, S) = CHOOSE l \in 0..(n - p) : IsRun(l)
  BY <1>1 DEF I!Run
<1>6. I!Run(p, S) \in 0..(n - p) /\ IsRun(I!Run(p, S))
  <2> HIDE DEF IsRun
  <2> QED BY <1>4, <1>5
<1> QED BY <1>1, <1>6

\* After the blanks, the calls begin at the first character that is none.
LEMMA BeginIs ==
    ASSUME I!TypeOK
    PROVE  /\ I!Begin \in pos..Len(stdin)
           /\ \A k \in (pos + 1)..I!Begin : stdin[k] = "blank"
<1>1. /\ I!Run(pos, {"blank"}) \in 0..(Len(stdin) - pos)
      /\ \A k \in (pos + 1)..(pos + I!Run(pos, {"blank"})) : stdin[k] \in {"blank"}
  BY RunIs DEF I!TypeOK
<1>2. pos \in Nat /\ Len(stdin) \in Nat
  BY DEF I!TypeOK
<1> DEFINE r == I!Run(pos, {"blank"})
<1>3. I!Begin = pos + r
  BY DEF I!Begin
<1> HIDE DEF r
<1>4. r \in 0..(Len(stdin) - pos) /\ \A k \in (pos + 1)..(pos + r) : stdin[k] \in {"blank"}
  BY <1>1 DEF r
<1>5. pos + r \in pos..Len(stdin)
  BY <1>2, <1>4
<1>6. \A k \in (pos + 1)..(pos + r) : stdin[k] = "blank"
  BY <1>4
<1> QED BY <1>3, <1>5, <1>6

\* A call skips the blanks up to b and goes on to e; what lies between them is
\* returned, or it is signs that are swallowed.
LEMMA InOrderKept ==
    ASSUME I!TypeOK, I!InOrder, NEW b \in pos..Len(stdin), NEW e \in b..Len(stdin),
           \A k \in (pos + 1)..b : stdin[k] = "blank",
           stdin' = stdin, pos' = e,
           \/ /\ \A k \in (b + 1)..e : stdin[k] # "blank"
              /\ returned' = Append(returned, SubSeq(stdin, b + 1, e)) /\ swallowed' = swallowed
           \/ /\ \A k \in (b + 1)..e : stdin[k] = "-"
              /\ returned' = returned /\ swallowed' = swallowed \cup ((b + 1)..e)
    PROVE  I!InOrder' /\ returned' \in Seq(Seq(Chars)) /\ swallowed' \subseteq 1..e
<1>0. stdin \in Seq(Chars) /\ pos \in 0..Len(stdin) /\ Len(stdin) \in Nat
  BY DEF I!TypeOK
<1>1. PICK n \in Nat : n = Len(stdin) /\ stdin \in Seq(Chars) /\ pos \in 0..n
  BY <1>0
<1>2. /\ b \in Nat /\ e \in Nat /\ pos \in Nat /\ pos <= b /\ b <= e /\ e <= n
  BY <1>1
<1>3. returned \in Seq(Seq(Chars)) /\ swallowed \subseteq 1..pos
  BY DEF I!TypeOK
<1> DEFINE t == Places(swallowed')
<1>4. \A k \in 1..n : t[k] = Given(k, swallowed')
  BY <1>1 DEF Places
<1>5. \A k \in 1..n : Given(k, swallowed') \in Seq(Chars)
  <2>1. \A k \in 1..n : <<stdin[k]>> \in Seq(Chars)
    BY <1>1, ElementOfSeq
  <2>2. <<>> \in Seq(Chars)
    OBVIOUS
  <2> QED BY <2>1, <2>2 DEF Given
<1>6. \A k \in 1..pos : Given(k, swallowed') = Given(k, swallowed)
  <2>1. \A k \in 1..pos : k \in swallowed' <=> k \in swallowed
    BY <1>2, <1>3
  <2> QED BY <2>1 DEF Given
<1>7. First(t, pos) = [k \in 1..pos |-> Given(k, swallowed)]
  <2>1. \A k \in 1..pos : t[k] = Given(k, swallowed)
    BY <1>1, <1>4, <1>6
  <2> HIDE DEF t
  <2> QED BY <2>1 DEF First
<1>8. I!FlattenSeq(returned) = I!FlattenSeq(First(t, pos))
  BY <1>7 DEF I!InOrder, Given
<1>9. First(t, e) = [k \in 1..e |-> Given(k, swallowed')]
  <2>1. \A k \in 1..e : t[k] = Given(k, swallowed')
    BY <1>1, <1>2, <1>4
  <2> HIDE DEF t
  <2> QED BY <2>1 DEF First
<1>10. \A k \in 1..e : t[k] \in Seq(Chars)
  BY <1>2, <1>4, <1>5
<1>11. \A k \in (pos + 1)..b : t[k] = <<>>
  <2>1. \A k \in (pos + 1)..b : k \in 1..n /\ Given(k, swallowed') = <<>>
    BY <1>2 DEF Given
  <2> QED BY <1>4, <2>1
<1> HIDE DEF t
<1>12. I!FlattenSeq(First(t, b)) = I!FlattenSeq(First(t, pos))
  <2>1. Sequences(t, b, Chars) /\ Empties(t, pos, b)
    BY <1>2, <1>10, <1>11 DEF Sequences, Empties
  <2> QED BY <1>2, <2>1, FlattenSkips
<1>13. \A k \in (b + 1)..e : stdin[k] # "blank"
  OBVIOUS
<1>14. \A k \in swallowed' : stdin[k] = "-"
  BY DEF I!InOrder
<1>15. I!FlattenSeq(returned') = I!FlattenSeq(First(t, e)) /\ returned' \in Seq(Seq(Chars))
  <2>1. CASE returned' = Append(returned, SubSeq(stdin, b + 1, e)) /\ swallowed' = swallowed
    <3>1. \A k \in (b + 1)..e : t[k] = <<stdin[k]>>
      <4>1. \A k \in (b + 1)..e : k \in 1..n /\ k \notin swallowed /\ stdin[k] # "blank"
        BY <1>2, <1>3, <1>13
      <4>2. \A k \in (b + 1)..e : Given(k, swallowed') = <<stdin[k]>>
        BY <2>1, <4>1 DEF Given
      <4> QED BY <1>4, <4>1, <4>2
    <3>2. I!FlattenSeq(First(t, e)) = I!FlattenSeq(First(t, b)) \o SubSeq(stdin, b + 1, e)
      <4>1. Sequences(t, e, Chars) /\ Singles(t, stdin, b, e)
        BY <1>1, <1>2, <1>10, <3>1 DEF Sequences, Singles
      <4>2. stdin \in Seq(Chars) /\ b \in Nat /\ e \in Nat
        BY <1>1, <1>2
      <4>3. Add(t, b, e, SubSeq(stdin, b + 1, e))
        BY <4>1, <4>2, FlattenTakes, Zenon
      <4> QED BY <4>3 DEF Add
    <3>3. SubSeq(stdin, b + 1, e) \in Seq(Chars)
      <4>1. \A k \in (b + 1)..e : stdin[k] \in Chars
        BY <1>1, <1>2, ElementOfSeq
      <4> QED BY <1>2, <4>1, SubSeqProperties
    <3>4. I!FlattenSeq(returned') = I!FlattenSeq(returned) \o SubSeq(stdin, b + 1, e)
      BY <1>3, <2>1, <3>3, FlattenAppend
    <3>5. returned' \in Seq(Seq(Chars))
      BY <1>3, <2>1, <3>3, AppendProperties
    <3> QED BY <1>8, <1>12, <3>2, <3>4, <3>5
  <2>2. CASE returned' = returned /\ swallowed' = swallowed \cup ((b + 1)..e)
    <3>1. \A k \in (b + 1)..e : t[k] = <<>>
      <4>1. \A k \in (b + 1)..e : k \in 1..n /\ Given(k, swallowed') = <<>>
        BY <1>2, <2>2 DEF Given
      <4> QED BY <1>4, <4>1
    <3>2. I!FlattenSeq(First(t, e)) = I!FlattenSeq(First(t, b))
      <4>1. Sequences(t, e, Chars) /\ Empties(t, b, e)
        BY <1>2, <1>10, <3>1 DEF Sequences, Empties
      <4> QED BY <1>2, <4>1, FlattenSkips
    <3> QED BY <1>3, <1>8, <1>12, <2>2, <3>2
  <2> QED BY <2>1, <2>2
<1>16. swallowed' \subseteq 1..e
  <2>1. swallowed' \subseteq swallowed \cup ((b + 1)..e)
    OBVIOUS
  <2>2. 1..pos \subseteq 1..e /\ (b + 1)..e \subseteq 1..e
    BY <1>2
  <2> QED BY <1>3, <2>1, <2>2
<1>17. I!InOrder'
  BY <1>9, <1>14, <1>15 DEF I!InOrder, Given
<1> QED BY <1>15, <1>16, <1>17

LEMMA InputInit == ASSUME I!Init PROVE I!InputSound
<1>1. stdin \in Seq(Chars)
  BY InputAssumption DEF I!Init, I!SeqOf
<1>2. I!FlattenSeq(<<>>) = <<>> /\ [k \in 1..0 |-> Given(k, {})] = <<>>
  BY DEF I!FlattenSeq
<1>3. I!TypeOK
  BY <1>1, InputAssumption DEF I!Init, I!TypeOK
<1>4. I!InOrder
  BY <1>2 DEF I!Init, I!InOrder, Given
<1>5. I!NewestIntact
  BY DEF I!Init, I!NewestIntact
<1> QED BY <1>3, <1>4, <1>5 DEF I!InputSound

\* A number: an optional sign and digits, or the sign alone is swallowed.
LEMMA NumberRead == ASSUME I!InputSound, NEW t \in Threads, I!xy_grab_i32(t) PROVE I!InputSound'
<1>1. I!TypeOK /\ I!InOrder /\ I!NewestIntact
  BY DEF I!InputSound
<1>2. PICK n \in Nat : n = Len(stdin) /\ pos \in 0..n
  BY <1>1 DEF I!TypeOK
<1>3. PICK b \in pos..n : b = I!Begin /\ \A k \in (pos + 1)..b : stdin[k] = "blank"
  BY <1>1, <1>2, BeginIs
<1>4. PICK s \in 0..1 : s = I!sign
  BY DEF I!sign
<1>5. b + s \in b..n /\ \A k \in (b + 1)..(b + s) : stdin[k] = "-"
  <2>1. b \in 0..n
    BY <1>2, <1>3
  <2>2. /\ I!Run(b, {"-"}) \in 0..(n - b)
        /\ \A k \in (b + 1)..(b + I!Run(b, {"-"})) : stdin[k] \in {"-"}
    BY <1>1, <1>2, <2>1, RunIs
  <2>3. s = IF I!Run(b, {"-"}) > 0 THEN 1 ELSE 0
    BY <1>3, <1>4 DEF I!sign
  <2> QED BY <1>2, <2>1, <2>2, <2>3
<1>6. PICK d \in 0..(n - (b + s)) : /\ d = I!digits
                                    /\ \A k \in (b + s + 1)..(b + s + d) : stdin[k] = "7"
  <2>1. b + s \in 0..n
    BY <1>2, <1>3, <1>5
  <2>2. /\ I!Run(b + s, {"7"}) \in 0..(n - (b + s))
        /\ \A k \in (b + s + 1)..(b + s + I!Run(b + s, {"7"})) : stdin[k] \in {"7"}
    BY <1>1, <1>2, <2>1, RunIs
  <2>3. I!digits = I!Run(b + s, {"7"})
    BY <1>3, <1>4 DEF I!digits
  <2> QED BY <2>2, <2>3
<1>7. UNCHANGED <<stdin, buffer, held, holding, newest>>
  BY DEF I!xy_grab_i32
<1>8. PICK e \in b..n :
        /\ pos' = e
        /\ \/ /\ \A k \in (b + 1)..e : stdin[k] # "blank"
              /\ returned' = Append(returned, SubSeq(stdin, b + 1, e)) /\ swallowed' = swallowed
           \/ /\ \A k \in (b + 1)..e : stdin[k] = "-"
              /\ returned' = returned /\ swallowed' = swallowed \cup ((b + 1)..e)
  <2>1. CASE d > 0
    <3>1. /\ pos' = b + s + d
          /\ returned' = Append(returned, SubSeq(stdin, b + 1, pos')) /\ swallowed' = swallowed
      BY <1>3, <1>4, <1>6, <2>1 DEF I!xy_grab_i32
    <3>2. b + s + d \in b..n
      BY <1>2, <1>3, <1>5, <1>6
    <3>3. ASSUME NEW k \in (b + 1)..(b + s + d) PROVE stdin[k] # "blank"
      <4>1. k \in (b + 1)..(b + s) \/ k \in (b + s + 1)..(b + s + d)
        BY <1>2, <1>3, <1>5, <1>6
      <4> QED BY <1>5, <1>6, <4>1
    <3> QED BY <3>1, <3>2, <3>3
  <2>2. CASE d = 0
    <3>1. /\ pos' = b + s
          /\ returned' = returned /\ swallowed' = swallowed \cup ((b + 1)..pos')
      BY <1>3, <1>4, <1>6, <2>2 DEF I!xy_grab_i32
    <3> QED BY <1>5, <3>1
  <2> QED BY <1>6, <2>1, <2>2
<1>9. I!InOrder' /\ returned' \in Seq(Seq(Chars)) /\ swallowed' \subseteq 1..e
  BY <1>1, <1>2, <1>3, <1>7, <1>8, InOrderKept
<1>10. I!TypeOK'
  BY <1>1, <1>2, <1>3, <1>7, <1>8, <1>9 DEF I!TypeOK
<1>11. I!NewestIntact'
  BY <1>1, <1>7 DEF I!NewestIntact
<1> QED BY <1>9, <1>10, <1>11 DEF I!InputSound

\* A word, as much of it as fits.
LEMMA WordRead == ASSUME I!InputSound, NEW t \in Threads, I!xy_grab_str(t) PROVE I!InputSound'
<1>1. I!TypeOK /\ I!InOrder /\ I!NewestIntact
  BY DEF I!InputSound
<1>2. PICK n \in Nat : n = Len(stdin) /\ pos \in 0..n
  BY <1>1 DEF I!TypeOK
<1>3. PICK b \in pos..n : b = I!Begin /\ \A k \in (pos + 1)..b : stdin[k] = "blank"
  BY <1>1, <1>2, BeginIs
<1> DEFINE run == I!Run(b, Chars \ {"blank"})
<1>4. /\ run \in 0..(n - b)
      /\ \A k \in (b + 1)..(b + run) : stdin[k] \in Chars \ {"blank"}
  <2>1. b \in 0..n
    BY <1>2, <1>3
  <2> QED BY <1>1, <1>2, <2>1, RunIs
<1>5. PICK w \in 0..run : w = I!Least(run, BufferSize - 1) /\ w < BufferSize
  BY <1>2, <1>3, <1>4, InputAssumption DEF I!Least
<1>0. b \in Nat /\ w \in Nat /\ b + w <= n /\ \A k \in (b + 1)..(b + w) : k \in (b + 1)..(b + run)
  <2>1. b \in Nat /\ run \in 0..(n - b)
    BY <1>2, <1>3, <1>4
  <2> HIDE DEF run
  <2> QED BY <1>2, <1>5, <2>1
<1> DEFINE text == SubSeq(stdin, b + 1, b + w)
<1>6. /\ b + w \in b..n /\ stdin' = stdin /\ pos' = b + w /\ swallowed' = swallowed
      /\ \/ /\ w > 0 /\ buffer' = text
            /\ held' = [held EXCEPT ![t] = text] /\ holding' = [holding EXCEPT ![t] = TRUE]
            /\ newest' = {t} /\ returned' = Append(returned, text)
         \/ /\ w = 0 /\ holding' = [holding EXCEPT ![t] = FALSE]
            /\ UNCHANGED <<buffer, held, newest, returned>>
  <2>1. b + w \in b..n
    BY <1>2, <1>3, <1>4, <1>5
  <2> HIDE DEF run
  <2> QED BY <1>3, <1>5, <2>1 DEF I!xy_grab_str, run
<1>7. text \in Seq(Chars) /\ Len(text) < BufferSize
  <2>1. \A k \in (b + 1)..(b + w) : stdin[k] \in Chars
    BY <1>0, <1>4
  <2>2. b + 1 \in Int /\ b + w \in Int /\ w \in Nat
    BY <1>2, <1>3, <1>4, <1>5
  <2>3. text \in Seq(Chars) /\ Len(text) = IF b + 1 <= b + w THEN (b + w) - (b + 1) + 1 ELSE 0
    BY <2>1, <2>2, SubSeqProperties
  <2> HIDE DEF text
  <2> QED BY <1>2, <1>3, <1>5, <2>2, <2>3, InputAssumption
<1>8. \A k \in (b + 1)..(b + w) : stdin[k] # "blank"
  BY <1>0, <1>4
<1> HIDE DEF run
<1>9. I!InOrder' /\ returned' \in Seq(Seq(Chars)) /\ swallowed' \subseteq 1..(b + w)
  <2>1. \/ returned' = Append(returned, SubSeq(stdin, b + 1, b + w)) /\ swallowed' = swallowed
        \/ /\ \A k \in (b + 1)..(b + w) : stdin[k] = "-"
           /\ returned' = returned /\ swallowed' = swallowed \cup ((b + 1)..(b + w))
    <3>1. CASE w > 0
      BY <1>6, <3>1
    <3>2. CASE w = 0
      <4>1. (b + 1)..(b + w) = {}
        BY <1>2, <1>3, <3>2
      <4> QED BY <1>6, <3>2, <4>1
    <3> QED BY <1>4, <1>5, <3>1, <3>2
  <2> QED BY <1>1, <1>2, <1>3, <1>6, <1>8, <2>1, InOrderKept
<1> HIDE DEF text
<1>10. I!TypeOK'
  <2>1. pos' \in 0..Len(stdin)'
    BY <1>2, <1>3, <1>6
  <2> QED BY <1>1, <1>6, <1>7, <1>9, <2>1 DEF I!TypeOK
<1>11. I!NewestIntact'
  <2>1. CASE w > 0
    BY <1>1, <1>6, <2>1 DEF I!NewestIntact, I!TypeOK
  <2>2. CASE w = 0
    BY <1>1, <1>6, <2>2 DEF I!NewestIntact, I!TypeOK
  <2> QED BY <1>5, <2>1, <2>2
<1> QED BY <1>9, <1>10, <1>11 DEF I!InputSound

LEMMA InputNext == ASSUME I!InputSound, I!Next \/ UNCHANGED input PROVE I!InputSound'
<1>1. CASE UNCHANGED input
  BY <1>1 DEF input, I!InputSound, I!TypeOK, I!InOrder, I!NewestIntact
<1> QED BY <1>1, NumberRead, WordRead DEF I!Next

-----------------------------------------------------------------------------
(* The library, whose parts these are *)

PartsInv == ArraysInv /\ SignaturesInv /\ ClockInv /\ FilesInv /\ I!InputSound

LEMMA StartInv == ASSUME Start PROVE PartsInv
  BY ArraysInit, SignaturesInit, ClockInit, FilesInit, InputInit DEF Start, PartsInv

LibraryNext == ArrayStep \/ SignatureStep \/ ClockStep \/ FileStep \/ InputStep \/ ProgramEnds

LEMMA LibraryStep == ASSUME PartsInv, [LibraryNext]_all PROVE PartsInv'
  <1>1. C!Next \/ UNCHANGED clock
    BY DEF LibraryNext, ArrayStep, SignatureStep, ClockStep, FileStep, InputStep, ProgramEnds, all
  <1>2. F!Next \/ UNCHANGED file
    BY DEF LibraryNext, ArrayStep, SignatureStep, ClockStep, FileStep, InputStep, ProgramEnds, all
  <1>3. L!Next \/ UNCHANGED signatures
    BY DEF LibraryNext, ArrayStep, SignatureStep, ClockStep, FileStep, InputStep, ProgramEnds, all
  <1>4. [Next]_vars
    BY DEF LibraryNext, ArrayStep, SignatureStep, ClockStep, FileStep, InputStep, ProgramEnds, all
  <1>5. I!Next \/ UNCHANGED input
    BY DEF LibraryNext, ArrayStep, SignatureStep, ClockStep, FileStep, InputStep, ProgramEnds, all
  <1> QED
    BY <1>1, <1>2, <1>3, <1>4, <1>5, ArraysNext, SignaturesNext, ClockNext, FilesNext, InputNext
    DEF PartsInv

\* The invariants of the parts, at every step of the library.
THEOREM Invariant == Calling => []PartsInv
  <1>1. Start => PartsInv
    BY StartInv
  <1>2. PartsInv /\ [LibraryNext]_all => PartsInv'
    BY LibraryStep
  <1> QED BY <1>1, <1>2, PTL DEF Calling, LibraryNext

(* min and max return the extreme of the whole array and 0 for none, sum the   *)
(* sum if the sums on the way are ints, fill and copy write the cells they     *)
(* were asked to and no function writes another, for memories of any size,     *)
(* ints of any width and ranges anywhere in the memory (array.c:4-41).         *)
THEOREM ResultsHoldHolds == Calling => []ResultsHold
  <1>1. PartsInv => ResultsHold
    BY ExtremesCorrect, WritesCorrect, SumCorrect DEF PartsInv, ArraysInv, LoopsInv, ResultsHold
  <1> QED BY <1>1, Invariant, PTL

(* For any imports and any names that a program gives its functions, in any    *)
(* order and as often as it likes: what the analyzer knows the generator can   *)
(* call, and a call that is bound to the library passes and takes what the C   *)
(* function does (ModuleRegistry.cpp:13-66, CodeGenerator.cpp:98-231).         *)
THEOREM SignaturesAgreeHolds == Calling => []SignaturesAgree
  <1>1. PartsInv => SignaturesAgree
    BY DEF PartsInv, SignaturesInv, SignaturesAgree, L!SignaturesAgree, L!OfferedIsDeclared
  <1> QED BY <1>1, Invariant, PTL

(* For clocks of any resolution, ints of any width and programs of any length, *)
(* a difference of two readings is what passed, but for less than a unit and a *)
(* clock that was set, and a sleep is no shorter than asked, as long as its    *)
(* microseconds fit an int (time.c:11-73).                                     *)
THEOREM TimesHoldHolds == Calling => []TimesHold
  <1>1. PartsInv => TimesHold
    BY DEF PartsInv, ClockInv, TimesHold, C!TimesHold
  <1> QED BY <1>1, Invariant, PTL

(* For files of any length, any users of them and any failures, what xy_file_  *)
(* read_all writes stays in its block, it closes what it opened, and who reads *)
(* in pieces gets the bytes in order while others write (file.c:5-46).         *)
THEOREM FilesSoundHolds == Calling => []FilesSound
  <1>1. PartsInv => FilesSound
    BY FilesTyped DEF PartsInv, FilesSound
  <1> QED BY <1>1, Invariant, PTL

(* For inputs of any length, read by any number of threads in any order and    *)
(* whichever conversions fail: the calls return the input in order, without    *)
(* the blanks and the signs that begin no number, and the buffer holds what    *)
(* was returned last (io.c:39-77).                                             *)
THEOREM InputSoundHolds == Calling => []InputSound
  <1>1. PartsInv => InputSound
    BY DEF PartsInv, InputSound
  <1> QED BY <1>1, Invariant, PTL

\* What the call that returns has read is the file, when none of the two things
\* happened that it does not notice.
LEMMA Whole ==
    ASSUME FilesInv, FilesInv', [F!Next]_(F!vars),
           stage' = "returned", stage = "allocated", kind = "regular", ~failed', ~shortened
    PROVE  block' = SubSeq(disk, 1, size) \o <<"nul">>
  <1>1. F!Fill
    BY DEF F!Next, F!vars, F!readAll, F!users, F!OpenAll, F!Measure, F!Allocate, F!OpenReader, F!Read,
           F!CloseReader, F!OpenWriter, F!Write, F!Flush, F!CloseWriter, F!Finished
  <1>2. /\ disk \in Seq(Bytes) /\ Len(disk) \in Nat /\ size \in 0..Len(disk)
        /\ Len(block) = size + 1
    BY DEF FilesInv, UsersInv, ReadInv
  <1>3. block' = [k \in 1..(size + 1) |->
                     IF k = size + 1 THEN "nul" ELSE IF k <= size THEN disk[k] ELSE block[k]]
    BY <1>1, <1>2, FillIs
  <1> DEFINE All == Bytes \cup {"nul"}
             first == SubSeq(disk, 1, size)
             after == first \o <<"nul">>
  <1>4. /\ first \in Seq(All) /\ Len(first) = size
        /\ \A k \in 1..size : first[k] = disk[k]
    <2>1. \A k \in 1..size : disk[k] \in All
      BY <1>2
    <2>2. 1 \in Int /\ size \in Int /\ size - 1 + 1 = size
      BY <1>2
    <2>3. /\ first \in Seq(All) /\ Len(first) = IF 1 <= size THEN size - 1 + 1 ELSE 0
          /\ \A k \in 1..(size - 1 + 1) : first[k] = disk[1 + k - 1]
      BY <2>1, <2>2, SubSeqProperties
    <2> HIDE DEF first
    <2> QED BY <1>2, <2>3
  <1> HIDE DEF first
  <1>5. <<"nul">> \in Seq(All) /\ Len(<<"nul">>) = 1 /\ <<"nul">>[1] = "nul"
    OBVIOUS
  <1>6. /\ after \in Seq(All) /\ Len(after) = size + 1
        /\ \A k \in 1..(size + 1) : after[k] = IF k <= size THEN first[k] ELSE <<"nul">>[k - size]
    BY <1>4, <1>5, ConcatProperties
  <1> HIDE DEF after, All
  <1>7. \A k \in 1..(size + 1) : after[k] = IF k = size + 1 THEN "nul" ELSE disk[k]
    BY <1>2, <1>4, <1>5, <1>6
  <1>8. after = [k \in 1..(size + 1) |-> after[k]]
    BY <1>6
  <1> QED BY <1>2, <1>3, <1>7, <1>8 DEF after, first

\* What was counted and not lost is in the file that is closed.
LEMMA Kept == ASSUME FilesInv, F!CloseWriter, ~lost' PROVE disk' = put
  <1>1. put = disk \o writer.kept
    BY DEF FilesInv, UsersInv, F!CloseWriter
  <1>2. disk' = disk \o writer.kept
    BY DEF F!CloseWriter
  <1> QED BY <1>1, <1>2

(* Whoever uses the file meanwhile: what xy_file_read_all returns is the whole *)
(* file, unless its fread fails or another user empties the file before it     *)
(* reads; and what xy_file_write counted is in the file that is closed, unless *)
(* the last flush failed (file.c:10-46).                                       *)
THEOREM NothingLostHolds == Calling => NothingLost
  <1> DEFINE Read == stage' = "returned" /\ stage = "allocated" /\ kind = "regular" /\ ~failed' /\ ~shortened
                        => block' = SubSeq(disk, 1, size) \o <<"nul">>
             Written == F!CloseWriter /\ ~lost' => disk' = put
  <1>1. ASSUME PartsInv, PartsInv', [LibraryNext]_all PROVE [Read]_(F!vars) /\ [Written]_(F!vars)
    <2>1. [F!Next]_(F!vars)
      BY <1>1 DEF LibraryNext, ArrayStep, SignatureStep, ClockStep, FileStep, InputStep, ProgramEnds,
                  all, file, F!vars, F!readAll, F!users
    <2>2. Read
      BY <1>1, <2>1, Whole DEF PartsInv
    <2>3. Written
      BY <1>1, Kept DEF PartsInv
    <2> QED BY <2>2, <2>3
  <1> QED
    BY <1>1, Invariant, PTL
    DEF Calling, LibraryNext, NothingLost, F!NothingLost, F!WholeFile, F!WrittenIsKept

=============================================================================
