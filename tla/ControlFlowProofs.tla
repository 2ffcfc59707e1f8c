------------------------- MODULE ControlFlowProofs -------------------------
(***************************************************************************)
(* Theorems about ControlFlow, for every bound.                            *)
(***************************************************************************)
EXTENDS ControlFlow, SequenceTheorems, TLAPS

USE DEF NoBlock, NoFunc, Blocks, Funcs

-----------------------------------------------------------------------------
(* Blocks and the stack of visits *)

\* Appending an instruction yields a block, and changes no owner.
LEMMA EmittedType ==
    ASSUME NEW blk \in Block, NEW instr \in {"op", "br", "condbr", "ret"},
           NEW targets \in SUBSET Blocks
    PROVE  /\ Emitted(blk, instr, targets) \in Block
           /\ Emitted(blk, instr, targets).owner = blk.owner
           /\ Emitted(blk, instr, targets).last = instr
           /\ Emitted(blk, instr, targets).succ = blk.succ \cup targets
           /\ Emitted(blk, instr, targets).malformed <=> (blk.malformed \/ Sealed(blk))
BY DEF Emitted, Block, Sealed, Terminators

\* What a fall-through, a default return and an alloca do to a block.
LEMMA EndingType ==
    ASSUME NEW blk \in Block, NEW target \in Blocks
    PROVE  /\ FallThrough(blk, target) \in Block
           /\ FallThrough(blk, target).owner = blk.owner
           /\ DefaultReturn(blk) \in Block
           /\ DefaultReturn(blk).owner = blk.owner
           /\ WithAlloca(blk) \in Block
           /\ WithAlloca(blk).owner = blk.owner
<1>1. FallThrough(blk, target) \in Block /\ FallThrough(blk, target).owner = blk.owner
  <2>1. {target} \in SUBSET Blocks  OBVIOUS
  <2>. QED  BY <2>1, EmittedType DEF FallThrough
<1>2. DefaultReturn(blk) \in Block /\ DefaultReturn(blk).owner = blk.owner
  BY EmittedType DEF DefaultReturn
<1>3. WithAlloca(blk) \in Block /\ WithAlloca(blk).owner = blk.owner
  BY DEF WithAlloca, Block, Terminators
<1>. QED  BY <1>1, <1>2, <1>3

\* What pushing, replacing the last element of and popping a sequence do.
LEMMA PushSeq ==
    ASSUME NEW S, NEW seq \in Seq(S), NEW e \in S
    PROVE  /\ Append(seq, e) \in Seq(S) /\ Append(seq, e) # <<>>
           /\ Len(Append(seq, e)) = Len(seq) + 1
           /\ Append(seq, e)[Len(seq) + 1] = e
           /\ \A i \in 1..Len(seq) : Append(seq, e)[i] = seq[i]
BY AppendProperties

LEMMA PopSeq ==
    ASSUME NEW S, NEW seq \in Seq(S), seq # <<>>
    PROVE  /\ Len(seq) \in Nat /\ Len(seq) >= 1 /\ seq[Len(seq)] \in S
           /\ SubSeq(seq, 1, Len(seq) - 1) \in Seq(S)
           /\ Len(SubSeq(seq, 1, Len(seq) - 1)) = Len(seq) - 1
           /\ \A i \in 1..(Len(seq) - 1) : SubSeq(seq, 1, Len(seq) - 1)[i] = seq[i]
<1>1. Len(seq) \in Nat \ {0} /\ \A i \in 1..Len(seq) : seq[i] \in S
  BY EmptySeq, ElementOfSeq
<1>. DEFINE n == Len(seq) - 1
           sub == SubSeq(seq, 1, n)
<1>2. n \in Nat /\ \A i \in 1..n : seq[i] \in S
  BY <1>1
<1>3. sub \in Seq(S) /\ Len(sub) = (IF 1 <= n THEN n - 1 + 1 ELSE 0)
      /\ \A i \in 1..(n - 1 + 1) : sub[i] = seq[1 + i - 1]
  BY <1>2, SubSeqProperties
<1>4. Len(sub) = n /\ \A i \in 1..n : sub[i] = seq[i]
  <2>. HIDE DEF sub, n
  <2>. QED  BY <1>2, <1>3
<1>. QED  BY <1>1, <1>3, <1>4

\* The visit in progress, and the stack below it.
LEMMA StackTop ==
    ASSUME stack \in Seq(Frame), stack # <<>>
    PROVE  /\ Len(stack) \in Nat /\ Len(stack) >= 1
           /\ Top \in Frame
           /\ Popped \in Seq(Frame) /\ Len(Popped) = Len(stack) - 1
           /\ \A i \in 1..(Len(stack) - 1) : Popped[i] = stack[i]
BY PopSeq DEF Top, Popped

\* The end of a visit leaves the frames below as they were, but for live.
LEMMA BackWithType ==
    ASSUME stack \in Seq(Frame), stack # <<>>, NEW live \in BOOLEAN
    PROVE  /\ BackWith(live) \in Seq(Frame)
           /\ Len(BackWith(live)) = Len(stack) - 1
           /\ \A i \in 1..(Len(stack) - 1) :
                BackWith(live)[i] = IF i = Len(stack) - 1
                                    THEN [stack[i] EXCEPT !.live = live] ELSE stack[i]
<1>1. CASE Len(stack) = 1
  BY <1>1, EmptySeq DEF BackWith
<1>2. CASE Len(stack) # 1
  <2>1. Popped \in Seq(Frame) /\ Len(Popped) = Len(stack) - 1
        /\ Len(stack) \in Nat /\ Len(stack) >= 2
        /\ \A i \in 1..(Len(stack) - 1) : Popped[i] = stack[i] /\ Popped[i] \in Frame
    BY <1>2, StackTop, ElementOfSeq
  <2>2. DEFINE fr == [Popped[Len(stack) - 1] EXCEPT !.live = live]
  <2>3. fr \in Frame
    <3>1. Len(stack) - 1 \in 1..(Len(stack) - 1)
      BY <2>1
    <3>. DEFINE under == Popped[Len(stack) - 1]
    <3>2. under \in Frame
      BY <2>1, <3>1
    <3>. HIDE DEF under
    <3>3. [under EXCEPT !.live = live] \in Frame
      BY <3>2 DEF Frame
    <3>. QED  BY <3>3 DEF under
  <2>4. BackWith(live) = [Popped EXCEPT ![Len(stack) - 1] = fr]
    BY <1>2 DEF BackWith
  <2>5. Len(stack) - 1 \in 1..Len(Popped)
    BY <2>1
  <2>. HIDE DEF fr
  <2>6. /\ BackWith(live) \in Seq(Frame)
        /\ Len(BackWith(live)) = Len(Popped)
        /\ \A j \in 1..Len(Popped) :
             BackWith(live)[j] = IF j = Len(stack) - 1 THEN fr ELSE Popped[j]
    BY <2>1, <2>3, <2>4, <2>5, ExceptSeq
  <2>7. ASSUME NEW i \in 1..(Len(stack) - 1)
        PROVE  BackWith(live)[i] = IF i = Len(stack) - 1
                                   THEN [stack[i] EXCEPT !.live = live] ELSE stack[i]
    <3>1. i \in 1..Len(Popped) /\ Popped[i] = stack[i]
      BY <2>1
    <3>2. CASE i = Len(stack) - 1
      BY <3>1, <3>2, <2>6 DEF fr
    <3>3. CASE i # Len(stack) - 1
      BY <3>1, <3>3, <2>6
    <3>. QED  BY <3>2, <3>3
  <2>. QED  BY <2>1, <2>6, <2>7
<1>. QED  BY <1>1, <1>2

-----------------------------------------------------------------------------
(* Type correctness, for programs of every shape *)

\* Only the frame of a function has no block to continue at.
TypeInv ==
    /\ TypeOK
    /\ \A i \in 1..Len(stack) : stack[i].kind # "func" =>
          stack[i].join # NoBlock /\ (stack[i].kind = "loop" => stack[i].header # NoBlock)

\* The frame of a new visit is a frame.
LEMMA FrameOfType ==
    ASSUME TypeOK, insertBlock \in Blocks, NEW kind \in {"then", "loop"},
           NEW header \in Blocks \cup {NoBlock}, NEW other \in Blocks \cup {NoBlock},
           NEW join \in Blocks
    PROVE  FrameOf(kind, header, other, join) \in Frame
<1>1. Lex \in Funcs \cup {NoFunc}
  <2>1. CASE stack = <<>>
    BY <2>1 DEF Lex
  <2>2. CASE stack # <<>>
    <3>1. Top \in Frame
      BY <2>2, StackTop DEF TypeOK
    <3>. QED  BY <2>2, <3>1 DEF Lex, Frame
  <2>. QED  BY <2>1, <2>2
<1>2. stack # <<>> => Top.live \in BOOLEAN
  <2>. SUFFICES ASSUME stack # <<>> PROVE Top.live \in BOOLEAN
    OBVIOUS
  <2>1. Top \in Frame
    BY StackTop DEF TypeOK
  <2>. QED  BY <2>1 DEF Frame
<1>3. blocks[insertBlock].owner \in Funcs \cup {NoFunc}
  BY DEF TypeOK, Block
<1>4. (stack = <<>> \/ Top.live) \in BOOLEAN
  BY <1>2
<1>. DEFINE lv == stack = <<>> \/ Top.live
<1>. HIDE DEF lv
<1>5. FrameOf(kind, header, other, join) =
        [kind |-> kind, lex |-> Lex, fn |-> blocks[insertBlock].owner,
         header |-> header, other |-> other, join |-> join, returned |-> FALSE,
         live |-> lv, outLive |-> FALSE]
  BY DEF FrameOf, lv
<1>6. lv \in BOOLEAN
  BY <1>4 DEF lv
<1>. QED  BY <1>1, <1>3, <1>5, <1>6 DEF Frame

\* Inserting a block in a function, and replacing a block by another.
LEMMA InsertedType ==
    ASSUME NEW bs \in [Blocks -> Block], NEW b, NEW f \in Funcs \cup {NoFunc}
    PROVE  Inserted(bs, b, f) \in [Blocks -> Block]
<1>1. b \in Blocks => [bs[b] EXCEPT !.owner = f] \in Block
  BY DEF Block
<1>. QED  BY <1>1 DEF Inserted

LEMMA ReplacedType ==
    ASSUME NEW bs \in [Blocks -> Block], NEW b, NEW e \in Block
    PROVE  [bs EXCEPT ![b] = e] \in [Blocks -> Block]
OBVIOUS

LEMMA TypeInit == Init => TypeInv
<1>. SUFFICES ASSUME Init PROVE TypeInv
  OBVIOUS
<1>1. FreshBlock \in Block
  BY DEF FreshBlock, Block
<1>2. stack \in Seq(Frame) /\ Len(stack) = 0
  BY EmptySeq DEF Init
<1>3. TypeOK
  <2>1. blocks \in [Blocks -> Block] /\ entry \in [Funcs -> Blocks \cup {NoBlock}]
    BY <1>1 DEF Init
  <2>2. created \in 0..MaxBlocks /\ declared \in 0..MaxFuncs /\ Len(stack) <= MaxDepth
    BY <1>2, BoundsAssumption DEF Init
  <2>. QED  BY <1>2, <2>1, <2>2 DEF Init, TypeOK
<1>. QED  BY <1>2, <1>3 DEF TypeInv

\* The astray set is one of the sets of strays.
LEMMA AstrayType ==
    ASSUME TypeOK PROVE Astray \subseteq {"nowhere", "elsewhere", "skipped"}
BY DEF TypeOK, Astray

\* Statements that emit into blocks and leave the stack alone.
LEMMA TypeStatements ==
    ASSUME TypeInv,
           \/ SimpleStmt \/ SkippedIf
           \/ \E constant \in BOOLEAN : GlobalDecl(constant)
           \/ \E init \in BOOLEAN : LocalDecl(init)
    PROVE  TypeInv'
<1>. USE DEF TypeInv
<1>1. CASE SimpleStmt
  <2>1. blocks' \in [Blocks -> Block]
    BY <1>1, EmittedType, ReplacedType DEF SimpleStmt, TypeOK
  <2>. QED  BY <1>1, <2>1, AstrayType
         DEF SimpleStmt, TypeOK, unchangedFuncs, unchangedSema
<1>2. CASE \E constant \in BOOLEAN : GlobalDecl(constant)
  BY <1>2 DEF GlobalDecl, TypeOK, unchangedFuncs, unchangedSema
<1>3. CASE SkippedIf
  <2>1. blocks' \in [Blocks -> Block]
    BY <1>3, EmittedType, ReplacedType DEF SkippedIf, TypeOK
  <2>. QED  BY <1>3, <2>1, AstrayType
         DEF SkippedIf, TypeOK, unchangedFuncs, unchangedSema
<1>4. ASSUME NEW init \in BOOLEAN, LocalDecl(init)
      PROVE  TypeInv'
  <2>. DEFINE allocated == [blocks EXCEPT ![entry[currentFunction]] = WithAlloca(@)]
              stored(blk) == [Emitted(blk, "op", {}) EXCEPT
                                 !.malformed = @ \/ blk.owner # currentFunction]
  <2>1. allocated \in [Blocks -> Block]
    <3>1. \A b \in Blocks : WithAlloca(blocks[b]) \in Block
      <4>1. \A blk \in Block : WithAlloca(blk) \in Block
        BY DEF WithAlloca, Block, Terminators
      <4>. QED  BY <4>1 DEF TypeOK
    <3>2. CASE entry[currentFunction] \in Blocks
      BY <3>1, <3>2 DEF TypeOK
    <3>3. CASE entry[currentFunction] \notin Blocks
      BY <3>3 DEF TypeOK
    <3>. QED  BY <3>2, <3>3
  <2>2. \A blk \in Block : stored(blk) \in Block
    <3>. SUFFICES ASSUME NEW blk \in Block PROVE stored(blk) \in Block
      OBVIOUS
    <3>1. Emitted(blk, "op", {}) \in Block
      BY EmittedType
    <3>. QED  BY <3>1 DEF Block
  <2>3. blocks' = IF init THEN [allocated EXCEPT ![insertBlock] = stored(@)] ELSE allocated
    BY <1>4 DEF LocalDecl
  <2>. HIDE DEF allocated, stored
  <2>4. blocks' \in [Blocks -> Block]
    BY <2>1, <2>2, <2>3
  <2>. QED  BY <1>4, <2>4, AstrayType
         DEF LocalDecl, TypeOK, unchangedFuncs, unchangedSema
<1>. QED  BY <1>1, <1>2, <1>3, <1>4

LEMMA TypeReturn ==
    ASSUME TypeInv, ReturnStmt
    PROVE  TypeInv'
<1>. USE DEF TypeInv
<1>1. blocks' \in [Blocks -> Block]
  <2>1. blocks[insertBlock] \in Block /\ {} \in SUBSET Blocks
    BY DEF ReturnStmt, Positioned, TypeOK
  <2>2. Emitted(blocks[insertBlock], "ret", {}) \in Block
    BY <2>1, EmittedType
  <2>. QED  BY <2>2, ReplacedType DEF ReturnStmt, TypeOK
<1>. DEFINE fr == [Top EXCEPT !.returned = TRUE, !.live = FALSE]
<1>2. Top \in Frame /\ Len(stack) \in 1..Len(stack)
  BY StackTop DEF ReturnStmt, TypeOK
<1>3. fr \in Frame /\ fr.kind = Top.kind /\ fr.join = Top.join /\ fr.header = Top.header
  BY <1>2 DEF Frame
<1>4. stack' = [stack EXCEPT ![Len(stack)] = fr]
  BY DEF ReturnStmt, Top
<1>. HIDE DEF fr
<1>5. /\ stack' \in Seq(Frame) /\ Len(stack') = Len(stack)
      /\ \A j \in 1..Len(stack) : stack'[j] = IF j = Len(stack) THEN fr ELSE stack[j]
  BY <1>2, <1>3, <1>4, ExceptSeq DEF TypeOK
<1>6. TypeOK'
  BY <1>1, <1>5, AstrayType DEF ReturnStmt, TypeOK, unchangedFuncs, unchangedSema
<1>. QED  BY <1>3, <1>5, <1>6 DEF Top

\* Pushing a frame that knows where to continue, and popping one.
LEMMA Pushed ==
    ASSUME TypeInv, NEW fr \in Frame, Len(stack) < MaxDepth,
           fr.kind # "func" => fr.join # NoBlock /\ (fr.kind = "loop" => fr.header # NoBlock),
           stack' = Append(stack, fr)
    PROVE  /\ stack' \in Seq(Frame) /\ Len(stack') <= MaxDepth
           /\ Len(stack) \in Nat /\ Len(stack') = Len(stack) + 1
           /\ stack' # <<>>
           /\ stack'[Len(stack) + 1] = fr
           /\ \A i \in 1..Len(stack) : stack'[i] = stack[i]
           /\ TypeOK' => TypeInv'
<1>1. stack \in Seq(Frame) /\ Len(stack) \in Nat
  BY LenProperties DEF TypeInv, TypeOK
<1>2. /\ stack' \in Seq(Frame) /\ Len(stack') = Len(stack) + 1 /\ stack' # <<>>
      /\ stack'[Len(stack) + 1] = fr
      /\ \A i \in 1..Len(stack) : stack'[i] = stack[i]
  BY <1>1, PushSeq
<1>3. Len(stack') <= MaxDepth
  BY <1>1, <1>2, BoundsAssumption
<1>4. ASSUME NEW i \in 1..Len(stack'), stack'[i].kind # "func"
      PROVE  stack'[i].join # NoBlock /\ (stack'[i].kind = "loop" => stack'[i].header # NoBlock)
  <2>1. CASE i = Len(stack) + 1
    BY <1>2, <1>4, <2>1
  <2>2. CASE i # Len(stack) + 1
    <3>1. i \in 1..Len(stack)
      BY <1>1, <1>2, <2>2
    <3>. QED  BY <1>2, <1>4, <3>1 DEF TypeInv
  <2>. QED  BY <2>1, <2>2
<1>. QED  BY <1>1, <1>2, <1>3, <1>4 DEF TypeInv

LEMMA PoppedWith ==
    ASSUME TypeInv, stack # <<>>,
           \/ stack' = Popped
           \/ \E live \in BOOLEAN : stack' = BackWith(live)
    PROVE  /\ stack' \in Seq(Frame) /\ Len(stack') <= MaxDepth
           /\ Len(stack) \in Nat /\ Len(stack) >= 1 /\ Len(stack') = Len(stack) - 1
           /\ \A i \in 1..Len(stack') :
                /\ stack[i] \in Frame /\ i \in 1..Len(stack)
                /\ \E live \in BOOLEAN : stack'[i] = [stack[i] EXCEPT !.live = live]
           /\ TypeOK' => TypeInv'
<1>1. stack \in Seq(Frame) /\ Len(stack) \in Nat /\ Len(stack) >= 1
  BY StackTop DEF TypeInv, TypeOK
<1>2. \A i \in 1..Len(stack) : stack[i] \in Frame
  BY <1>1, ElementOfSeq
<1>3. \A fr \in Frame : fr = [fr EXCEPT !.live = fr.live] /\ fr.live \in BOOLEAN
  BY DEF Frame
<1>. DEFINE Below == /\ stack' \in Seq(Frame) /\ Len(stack') = Len(stack) - 1
                     /\ \A i \in 1..(Len(stack) - 1) :
                          \E live \in BOOLEAN : stack'[i] = [stack[i] EXCEPT !.live = live]
<1>4. Below
  <2>1. CASE stack' = Popped
    <3>1. /\ stack' \in Seq(Frame) /\ Len(stack') = Len(stack) - 1
          /\ \A i \in 1..(Len(stack) - 1) : stack'[i] = stack[i]
      BY <1>1, <2>1, StackTop
    <3>2. ASSUME NEW i \in 1..(Len(stack) - 1)
          PROVE  \E live \in BOOLEAN : stack'[i] = [stack[i] EXCEPT !.live = live]
      <4>1. stack[i] \in Frame /\ stack'[i] = stack[i]
        BY <1>1, <1>2, <3>1
      <4>. QED  BY <4>1, <1>3
    <3>. QED  BY <3>1, <3>2
  <2>2. ASSUME NEW live \in BOOLEAN, stack' = BackWith(live)
        PROVE  Below
    <3>1. /\ stack' \in Seq(Frame) /\ Len(stack') = Len(stack) - 1
          /\ \A i \in 1..(Len(stack) - 1) :
               stack'[i] = IF i = Len(stack) - 1
                           THEN [stack[i] EXCEPT !.live = live] ELSE stack[i]
      BY <1>1, <2>2, BackWithType
    <3>2. ASSUME NEW i \in 1..(Len(stack) - 1)
          PROVE  \E l \in BOOLEAN : stack'[i] = [stack[i] EXCEPT !.live = l]
      <4>1. stack[i] \in Frame
        BY <1>1, <1>2
      <4>2. CASE i = Len(stack) - 1
        BY <3>1, <4>2
      <4>3. CASE i # Len(stack) - 1
        <5>1. stack'[i] = stack[i]
          BY <3>1, <4>3
        <5>. QED  BY <4>1, <5>1, <1>3
      <4>. QED  BY <4>2, <4>3
    <3>. QED  BY <3>1, <3>2
  <2>. HIDE DEF Below
  <2>. QED  BY <2>1, <2>2
<1>5. \A fr \in Frame : \A live \in BOOLEAN :
        LET changed == [fr EXCEPT !.live = live]
        IN changed.kind = fr.kind /\ changed.join = fr.join /\ changed.header = fr.header
  BY DEF Frame
<1>6. Len(stack') <= MaxDepth
  BY <1>1, <1>4, BoundsAssumption DEF TypeInv, TypeOK
<1>7. \A i \in 1..Len(stack') : i \in 1..Len(stack) /\ i \in 1..(Len(stack) - 1)
  BY <1>1, <1>4
<1>8. ASSUME NEW i \in 1..Len(stack'), stack'[i].kind # "func"
      PROVE  stack'[i].join # NoBlock /\ (stack'[i].kind = "loop" => stack'[i].header # NoBlock)
  <2>1. i \in 1..Len(stack) /\ i \in 1..(Len(stack) - 1) /\ stack[i] \in Frame
    BY <1>2, <1>7
  <2>2. PICK live \in BOOLEAN : stack'[i] = [stack[i] EXCEPT !.live = live]
    BY <1>4, <2>1
  <2>3. /\ stack'[i].kind = stack[i].kind /\ stack'[i].join = stack[i].join
        /\ stack'[i].header = stack[i].header
    BY <1>5, <2>1, <2>2
  <2>. QED  BY <1>8, <2>1, <2>3 DEF TypeInv
<1>. QED  BY <1>1, <1>2, <1>4, <1>6, <1>7, <1>8 DEF TypeInv

\* A visit that begins: its frame is pushed on those in progress.
LEMMA TypeBeginIf ==
    ASSUME TypeInv, NEW hasElse \in BOOLEAN, BeginIf(hasElse)
    PROVE  TypeInv'
<1>. USE DEF TypeInv
<1>. DEFINE other == created + 2
            join == created + 3
            fr == FrameOf("then", NoBlock, IF hasElse THEN other ELSE NoBlock, join)
            target == FalseTarget(hasElse, other, join)
            sealed == Emitted(blocks[insertBlock], "condbr", {created + 1, target})
            owner == blocks[insertBlock].owner
<1>1. /\ created + 1 \in Blocks /\ other \in Blocks /\ join \in Blocks /\ target \in Blocks
      /\ insertBlock \in Blocks /\ stack \in Seq(Frame) /\ created' \in 0..MaxBlocks
  BY BoundsAssumption DEF BeginIf, TypeOK, Positioned, FalseTarget
<1>2. fr \in Frame /\ fr.join = join /\ fr.kind = "then"
  BY <1>1, FrameOfType DEF FrameOf
<1>3. sealed \in Block /\ owner \in Funcs \cup {NoFunc}
  <2>1. {created + 1, target} \in SUBSET Blocks
    BY <1>1
  <2>2. blocks[insertBlock] \in Block
    BY <1>1 DEF TypeOK
  <2>3. sealed \in Block
    BY <2>1, <2>2, EmittedType
  <2>. QED  BY <2>2, <2>3 DEF Block
<1>4. /\ blocks' = Inserted([blocks EXCEPT ![insertBlock] = sealed], created + 1, owner)
      /\ stack' = Append(stack, fr)
  BY DEF BeginIf
<1>. HIDE DEF fr, sealed, owner
<1>5. blocks' \in [Blocks -> Block]
  BY <1>3, <1>4, ReplacedType, InsertedType DEF TypeOK
<1>6. stack' \in Seq(Frame) /\ Len(stack') <= MaxDepth /\ (TypeOK' => TypeInv')
  BY <1>1, <1>2, <1>4, Pushed DEF BeginIf, MayNest
<1>7. TypeOK'
  BY <1>1, <1>5, <1>6, AstrayType
     DEF BeginIf, TypeOK, unchangedFuncs, unchangedSema
<1>. QED  BY <1>6, <1>7

\* The condition block of a loop is a block.
LEMMA LoopCondType ==
    ASSUME NEW f \in Funcs \cup {NoFunc}, NEW valued \in BOOLEAN,
           NEW body \in Blocks, NEW after \in Blocks
    PROVE  LoopCond(f, valued, body, after) =
             [owner |-> f, last |-> IF valued THEN "condbr" ELSE "op",
              malformed |-> FALSE, succ |-> IF valued THEN {body, after} ELSE {}]
BY DEF LoopCond, Emitted, FreshBlock, Sealed, Terminators

LEMMA TypeBeginLoop ==
    ASSUME TypeInv, NEW valued \in BOOLEAN, BeginLoop(valued)
    PROVE  TypeInv'
<1>. USE DEF TypeInv
<1>. DEFINE cond == created + 1
            body == created + 2
            after == created + 3
            fn == blocks[insertBlock].owner
            fr == FrameOf("loop", cond, NoBlock, after)
            sealed == Emitted(blocks[insertBlock], "br", {cond})
            tested == LoopCond(fn, valued, body, after)
            bs == [blocks EXCEPT ![insertBlock] = sealed, ![cond] = tested]
<1>1. /\ cond \in Blocks /\ body \in Blocks /\ after \in Blocks
      /\ insertBlock \in Blocks /\ stack \in Seq(Frame) /\ created' \in 0..MaxBlocks
  BY BoundsAssumption DEF BeginLoop, TypeOK, Positioned
<1>2. fr \in Frame /\ fr.join = after /\ fr.header = cond
  BY <1>1, FrameOfType DEF FrameOf
<1>3. fn \in Funcs \cup {NoFunc} /\ blocks[insertBlock] \in Block
  BY <1>1 DEF TypeOK, Block
<1>4. blocks' = Inserted(bs, body, fn) /\ stack' = Append(stack, fr)
  BY DEF BeginLoop
<1>5. sealed \in Block
  <2>1. {cond} \in SUBSET Blocks
    BY <1>1
  <2>. QED  BY <1>3, <2>1, EmittedType
<1>6. tested \in Block
  <2>1. {body, after} \in SUBSET Blocks
    BY <1>1
  <2>2. tested = [owner |-> fn, last |-> IF valued THEN "condbr" ELSE "op",
                  malformed |-> FALSE, succ |-> IF valued THEN {body, after} ELSE {}]
    BY <1>1, <1>3, LoopCondType, ZenonT(60)
  <2>. HIDE DEF tested, fn
  <2>. QED  BY <1>3, <2>1, <2>2 DEF Block, Terminators
<1>. HIDE DEF fr, fn, tested, sealed
<1>7. bs \in [Blocks -> Block]
  BY <1>5, <1>6 DEF TypeOK
<1>. HIDE DEF bs
<1>8. blocks' \in [Blocks -> Block]
  BY <1>3, <1>4, <1>7, InsertedType
<1>9. stack' \in Seq(Frame) /\ Len(stack') <= MaxDepth /\ (TypeOK' => TypeInv')
  BY <1>1, <1>2, <1>4, Pushed DEF BeginLoop, MayNest
<1>10. TypeOK'
  BY <1>1, <1>8, <1>9, AstrayType
     DEF BeginLoop, TypeOK, unchangedFuncs, unchangedSema
<1>. QED  BY <1>9, <1>10

LEMMA TypeBeginFunc ==
    ASSUME TypeInv, NEW hasParams \in BOOLEAN, BeginFunc(hasParams)
    PROVE  TypeInv'
<1>. USE DEF TypeInv
<1>. DEFINE f == declared + 1
            bb == created + 1
            fr == [kind |-> "func", lex |-> f, fn |-> f, header |-> NoBlock,
                   other |-> NoBlock, join |-> NoBlock, returned |-> FALSE,
                   live |-> TRUE, outLive |-> FALSE]
            bs == IF hasParams THEN [blocks EXCEPT ![bb] = Emitted(@, "op", {})] ELSE blocks
<1>1. f \in Funcs /\ bb \in Blocks /\ f \in 0..MaxFuncs /\ bb \in 0..MaxBlocks
  <2>1. declared < MaxFuncs /\ created < MaxBlocks
    BY DEF BeginFunc
  <2>2. declared \in 0..MaxFuncs /\ created \in 0..MaxBlocks
    BY DEF TypeOK
  <2>. QED  BY <2>1, <2>2, BoundsAssumption
<1>2. fr \in Frame /\ fr.kind = "func"
  BY <1>1 DEF Frame
<1>3. bs \in [Blocks -> Block]
  <2>1. {} \in SUBSET Blocks /\ blocks[bb] \in Block
    BY <1>1 DEF TypeOK
  <2>2. Emitted(blocks[bb], "op", {}) \in Block
    BY <2>1, EmittedType
  <2>. QED  BY <2>2, ReplacedType DEF TypeOK
<1>4. blocks' = Inserted(bs, bb, f) /\ stack' = Append(stack, fr)
  BY DEF BeginFunc
<1>. HIDE DEF fr, bs
<1>5. blocks' \in [Blocks -> Block]
  BY <1>1, <1>3, <1>4, InsertedType
<1>6. stack' \in Seq(Frame) /\ Len(stack') <= MaxDepth /\ (TypeOK' => TypeInv')
  BY <1>2, <1>4, Pushed DEF BeginFunc
<1>7. TypeOK'
  BY <1>1, <1>5, <1>6 DEF BeginFunc, TypeOK
<1>. QED  BY <1>6, <1>7

\* A branch that ends: the block left falls through to a block of the frame.
LEMMA TypeFallThrough ==
    ASSUME TypeInv, stack # <<>>, insertBlock \in Blocks,
           NEW target \in Blocks, NEW placed
    PROVE  Inserted([blocks EXCEPT ![insertBlock] = FallThrough(@, target)], placed, Top.fn)
             \in [Blocks -> Block]
<1>1. Top.fn \in Funcs \cup {NoFunc}
  <2>1. Top \in Frame
    BY StackTop DEF TypeInv, TypeOK
  <2>. QED  BY <2>1 DEF Frame
<1>2. FallThrough(blocks[insertBlock], target) \in Block
  <2>1. blocks[insertBlock] \in Block
    BY DEF TypeInv, TypeOK
  <2>. QED  BY <2>1, EndingType
<1>. DEFINE bs == [blocks EXCEPT ![insertBlock] = FallThrough(@, target)]
<1>3. bs \in [Blocks -> Block]
  BY <1>2, ReplacedType DEF TypeInv, TypeOK
<1>. HIDE DEF bs
<1>4. Inserted(bs, placed, Top.fn) \in [Blocks -> Block]
  BY <1>1, <1>3, InsertedType
<1>. QED  BY <1>4 DEF bs

LEMMA TypeBeginElse ==
    ASSUME TypeInv, BeginElse
    PROVE  TypeInv'
<1>. USE DEF TypeInv
<1>. DEFINE lv == Len(stack) = 1 \/ stack[Len(stack) - 1].live
            fr == [Top EXCEPT !.kind = "else", !.other = NoBlock, !.returned = FALSE,
                              !.live = lv, !.outLive = Top.live]
<1>1. /\ stack \in Seq(Frame) /\ Top \in Frame /\ Len(stack) \in Nat /\ Len(stack) >= 1
      /\ Top.join \in Blocks /\ insertBlock \in Blocks /\ Top.other \in Blocks
  <2>1. Top \in Frame /\ Len(stack) \in Nat /\ Len(stack) >= 1 /\ stack \in Seq(Frame)
    BY StackTop DEF BeginElse, TypeOK
  <2>2. Top.join # NoBlock
    BY <2>1 DEF BeginElse, Top
  <2>. QED  BY <2>1, <2>2 DEF BeginElse, TypeOK, Positioned, Frame
<1>2. lv \in BOOLEAN
  <2>1. CASE Len(stack) # 1
    <3>1. Len(stack) - 1 \in 1..Len(stack)
      <4>1. \A n \in Nat : n >= 1 /\ n # 1 => n - 1 \in 1..n
        OBVIOUS
      <4>. QED  BY <1>1, <2>1, <4>1
    <3>2. stack[Len(stack) - 1] \in Frame
      BY <1>1, <3>1, ElementOfSeq
    <3>. QED  BY <3>2 DEF Frame
  <2>. QED  BY <2>1
<1>3. blocks' \in [Blocks -> Block]
  BY <1>1, TypeFallThrough DEF BeginElse
<1>4. stack' = [stack EXCEPT ![Len(stack)] = fr]
  BY DEF BeginElse, Top
<1>. HIDE DEF lv
<1>5. fr \in Frame /\ fr.kind = "else" /\ fr.join = Top.join
  BY <1>1, <1>2 DEF Frame
<1>. HIDE DEF fr
<1>6. /\ stack' \in Seq(Frame) /\ Len(stack') = Len(stack)
      /\ \A j \in 1..Len(stack) : stack'[j] = IF j = Len(stack) THEN fr ELSE stack[j]
  <2>1. Len(stack) \in 1..Len(stack)
    BY <1>1
  <2>. QED  BY <1>1, <1>4, <1>5, <2>1, ExceptSeq
<1>7. TypeOK'
  BY <1>1, <1>3, <1>6 DEF BeginElse, TypeOK, unchangedFuncs, unchangedSema
<1>. QED  BY <1>1, <1>5, <1>6, <1>7

\* The end of an `if` or of a loop.
LEMMA TypeEnd ==
    ASSUME TypeInv, EndIf \/ EndLoop
    PROVE  TypeInv'
<1>. USE DEF TypeInv
<1>1. /\ stack \in Seq(Frame) /\ Top \in Frame /\ Top.join \in Blocks
      /\ insertBlock \in Blocks /\ (EndLoop => Top.header \in Blocks)
  <2>1. Top \in Frame /\ Len(stack) \in Nat /\ Len(stack) >= 1 /\ stack \in Seq(Frame)
    BY StackTop DEF EndIf, EndLoop, TypeOK
  <2>2. Len(stack) \in 1..Len(stack) /\ Top = stack[Len(stack)]
    BY <2>1 DEF Top
  <2>3. /\ Top.kind # "func" => Top.join # NoBlock
        /\ Top.kind = "loop" => Top.join # NoBlock /\ Top.header # NoBlock
    BY <2>2
  <2>4. Top.kind \in {"then", "else", "loop"} /\ (EndLoop => Top.kind = "loop")
    BY DEF EndIf, EndLoop
  <2>5. insertBlock \in Blocks
    BY DEF EndIf, EndLoop, TypeOK, Positioned
  <2>6. Top.join \in Blocks \cup {NoBlock} /\ Top.header \in Blocks \cup {NoBlock}
    BY <2>1 DEF Frame
  <2>. QED  BY <2>1, <2>3, <2>4, <2>5, <2>6
<1>2. blocks' \in [Blocks -> Block]
  BY <1>1, TypeFallThrough DEF EndIf, EndLoop
<1>3. stack # <<>> /\ \E live \in BOOLEAN : stack' = BackWith(live)
  <2>2. Top.live \in BOOLEAN /\ Top.outLive \in BOOLEAN
    BY <1>1 DEF Frame
  <2>. DEFINE below == Len(stack) > 1 /\ stack[Len(stack) - 1].live
  <2>3. below \in BOOLEAN
    OBVIOUS
  <2>4. CASE EndIf
    <3>. DEFINE live == \/ Top.live
                        \/ Top.kind = "else" /\ Top.outLive
                        \/ Top.kind = "then" /\ below
    <3>1. live \in BOOLEAN
      BY <2>2
    <3>2. stack' = BackWith(live) /\ stack # <<>>
      BY <2>4, Zenon DEF EndIf
    <3>. QED  BY <3>1, <3>2
  <2>5. CASE EndLoop
    <3>1. stack' = BackWith(below) /\ stack # <<>>
      BY <2>5 DEF EndLoop
    <3>. QED  BY <2>3, <3>1
  <2>. QED  BY <2>4, <2>5
<1>4. stack' \in Seq(Frame) /\ Len(stack') <= MaxDepth /\ (TypeOK' => TypeInv')
  BY <1>3, PoppedWith
<1>5. TypeOK'
  BY <1>1, <1>2, <1>4
     DEF EndIf, EndLoop, Resume, TypeOK, unchangedFuncs, unchangedSema
<1>. QED  BY <1>4, <1>5

LEMMA TypeEndFunc ==
    ASSUME TypeInv, EndFunc
    PROVE  TypeInv'
<1>. USE DEF TypeInv
<1>. DEFINE finished == [blocks EXCEPT ![insertBlock] = DefaultReturn(@)]
            verified == FunctionOK(finished, Top.lex)
<1>1. insertBlock \in Blocks /\ blocks[insertBlock] \in Block
  BY DEF EndFunc, Positioned, TypeOK
<1>2. finished \in [Blocks -> Block]
  <2>1. DefaultReturn(blocks[insertBlock]) \in Block
    BY <1>1, EmittedType DEF DefaultReturn
  <2>. QED  BY <2>1, ReplacedType DEF TypeOK
<1>3. /\ blocks' = finished
      /\ status' = [status EXCEPT ![Top.lex] = IF verified THEN "kept" ELSE "erased"]
      /\ hasErrors' = (hasErrors \/ ~verified)
      /\ stack # <<>> /\ stack' = Popped
  BY DEF EndFunc
<1>. HIDE DEF finished, verified
<1>4. stack' \in Seq(Frame) /\ Len(stack') <= MaxDepth /\ (TypeOK' => TypeInv')
  BY <1>3, PoppedWith
<1>5. hasErrors' \in BOOLEAN /\ status' \in [Funcs -> {"absent", "open", "kept", "erased"}]
  BY <1>3 DEF TypeOK
<1>6. TypeOK'
  BY <1>2, <1>3, <1>4, <1>5 DEF EndFunc, TypeOK
<1>. QED  BY <1>4, <1>6

\* Every step keeps the type invariant.
LEMMA TypeStep == TypeInv /\ [Next]_vars => TypeInv'
<1>. SUFFICES ASSUME TypeInv, [Next]_vars PROVE TypeInv'
  OBVIOUS
<1>1. CASE \/ SimpleStmt \/ SkippedIf
          \/ \E constant \in BOOLEAN : GlobalDecl(constant)
          \/ \E init \in BOOLEAN : LocalDecl(init)
  BY <1>1, TypeStatements
<1>2. CASE ReturnStmt
  BY <1>2, TypeReturn
<1>3. CASE \E hasElse \in BOOLEAN : BeginIf(hasElse)
  BY <1>3, TypeBeginIf
<1>4. CASE BeginElse
  BY <1>4, TypeBeginElse
<1>5. CASE EndIf \/ EndLoop
  BY <1>5, TypeEnd
<1>6. CASE \E valued \in BOOLEAN : BeginLoop(valued)
  BY <1>6, TypeBeginLoop
<1>7. CASE \E hasParams \in BOOLEAN : BeginFunc(hasParams)
  BY <1>7, TypeBeginFunc
<1>8. CASE EndFunc
  BY <1>8, TypeEndFunc
<1>9. CASE Finish
  <2>1. hasErrors' \in BOOLEAN /\ walk' \in {"accepted", "rejected"}
    BY <1>9 DEF Finish, TypeInv, TypeOK
  <2>. QED  BY <1>9, <2>1 DEF Finish, TypeInv, TypeOK, unchangedFuncs
<1>10. CASE UndefinedUse
  BY <1>10 DEF UndefinedUse, TypeInv, TypeOK, unchangedFuncs, unchangedSema
<1>11. CASE Ended \/ UNCHANGED vars
  BY <1>11 DEF Ended, vars, TypeInv, TypeOK
<1>. QED  BY <1>1, <1>2, <1>3, <1>4, <1>5, <1>6, <1>7, <1>8, <1>9, <1>10, <1>11 DEF Next

\* Type correctness, with what the joins and headers of open visits are.
LEMMA TypeInvariant == Spec => []TypeInv
BY TypeInit, TypeStep, PTL DEF Spec

\* The type invariant holds for programs of every shape and size.
THEOREM TypeCorrect == Spec => []TypeOK
<1>1. TypeInv => TypeOK
  BY DEF TypeInv
<1>. QED  BY <1>1, TypeInvariant, PTL

-----------------------------------------------------------------------------
(* Programs without the unusual shapes: the verifier is silent *)

LEMMA PlainInit == Init => PlainInv
<1>. SUFFICES ASSUME Init PROVE PlainInv
  OBVIOUS
<1>1. stack = <<>> /\ Len(stack) = 0 /\ 1..Len(stack) = {}
  BY EmptySeq DEF Init
<1>2. Awaited /\ AwaitedInOrder /\ InsertionSound
  BY <1>1 DEF Awaited, AwaitedInOrder, InsertionSound
<1>3. BlocksSound
  <2>. SUFFICES ASSUME NEW b \in Blocks
                PROVE  blocks[b] = FreshBlock /\ FreshBlock.owner = NoFunc
                       /\ FreshBlock.succ = {} /\ ~FreshBlock.malformed
    BY DEF Init, BlocksSound
  <2>. QED  BY DEF Init, FreshBlock
<1>. QED  BY <1>2, <1>3 DEF Init, PlainInv

\* What the invariant says while a body is visited.
LEMMA PlainBody ==
    ASSUME TypeInv, PlainInv, stack # <<>>
    PROVE  /\ stack \in Seq(Frame) /\ Len(stack) \in Nat /\ Len(stack) >= 1
           /\ Top \in Frame /\ Top = stack[Len(stack)]
           /\ Lex = currentFunction /\ Top.fn = currentFunction /\ Top.lex = currentFunction
           /\ currentFunction \in Funcs /\ insertBlock \in Blocks
           /\ blocks[insertBlock] \in Block
           /\ blocks[insertBlock].owner = currentFunction
           /\ ~blocks[insertBlock].malformed
           /\ insertBlock <= created
           /\ ~Dangling /\ Positioned
           /\ Astray = {}
<1>1. stack \in Seq(Frame) /\ Len(stack) \in Nat /\ Len(stack) >= 1
      /\ Top \in Frame /\ Top = stack[Len(stack)]
  BY StackTop DEF TypeInv, TypeOK, Top
<1>2. Len(stack) \in 1..Len(stack)
  BY <1>1
<1>3. Top.fn = currentFunction /\ Top.lex = currentFunction /\ Lex = currentFunction
  BY <1>1, <1>2 DEF PlainInv, Awaited, FrameSound, Lex
<1>4. /\ currentFunction \in Funcs /\ insertBlock \in Blocks
      /\ blocks[insertBlock].owner = currentFunction
      /\ blocks[insertBlock] \in Block
  BY DEF PlainInv, InsertionSound, TypeInv, TypeOK
<1>5. ~blocks[insertBlock].malformed /\ insertBlock <= created
  <2>1. ~(insertBlock > created) /\ ~blocks[insertBlock].malformed
    BY <1>4 DEF PlainInv, BlocksSound
  <2>. QED  BY <1>4, <2>1 DEF TypeInv, TypeOK
<1>6. ~Dangling /\ Positioned
  BY <1>4 DEF Dangling, Positioned, PlainInv
<1>7. Astray = {}
  BY <1>3, <1>4 DEF Astray, PlainInv
<1>. QED  BY <1>1, <1>3, <1>4, <1>5, <1>6, <1>7

\* A statement that only appends to the insertion point.
LEMMA PlainExtend ==
    ASSUME TypeInv, PlainInv, stack # <<>>,
           NEW e \in Block, blocks' = [blocks EXCEPT ![insertBlock] = e],
           e.owner = currentFunction, ~e.malformed, e.succ = blocks[insertBlock].succ,
           Len(stack') = Len(stack), stack' # <<>>,
           \A i \in 1..Len(stack) :
              /\ stack'[i].kind = stack[i].kind /\ stack'[i].fn = stack[i].fn
              /\ stack'[i].lex = stack[i].lex /\ stack'[i].header = stack[i].header
              /\ stack'[i].join = stack[i].join /\ stack'[i].other = stack[i].other,
           ~Top'.returned => ~Sealed(e),
           UNCHANGED <<created, insertBlock, status, entry, declared, currentFunction,
                       hasErrors, strays, walk>>
    PROVE  PlainInv'
<1>. DEFINE n == Len(stack)
<1>1. insertBlock \in Blocks /\ blocks[insertBlock].owner = currentFunction
      /\ currentFunction # NoFunc
  BY PlainBody
<1>2. blocks'[insertBlock] = e /\ \A b \in Blocks : b # insertBlock => blocks'[b] = blocks[b]
  BY <1>1 DEF TypeInv, TypeOK
<1>3. \A b \in Blocks \cup {NoBlock} : blocks'[b].owner = blocks[b].owner
  BY <1>1, <1>2 DEF TypeInv, TypeOK
<1>4. Awaited'
  <2>. SUFFICES ASSUME NEW i \in 1..Len(stack)
                PROVE  FrameSound(stack[i])' /\ (stack'[i].kind = "func" <=> i = 1)
    BY DEF Awaited
  <2>1. FrameSound(stack[i]) /\ (stack[i].kind = "func" <=> i = 1)
    BY DEF PlainInv, Awaited
  <2>2. stack[i] \in Frame
    BY ElementOfSeq, PlainBody
  <2>3. /\ stack[i].join \in Blocks \cup {NoBlock} /\ stack[i].other \in Blocks \cup {NoBlock}
        /\ stack[i].kind = "loop" => stack[i].header \in Blocks
    BY <2>2 DEF Frame, TypeInv
  <2>. QED  BY <1>3, <2>1, <2>3 DEF FrameSound
<1>5. AwaitedInOrder'
  BY DEF PlainInv, AwaitedInOrder
<1>6. BlocksSound'
  <2>. SUFFICES ASSUME NEW b \in Blocks
                PROVE  /\ ~blocks'[b].malformed
                       /\ b > created' => blocks'[b].owner = NoFunc
                       /\ blocks'[b].owner = NoFunc => blocks'[b] = FreshBlock
                       /\ blocks'[b].owner <= declared'
                       /\ blocks'[b].owner # NoFunc /\ (stack' = <<>> \/ b # insertBlock')
                             => Sealed(blocks'[b])
                       /\ \A c \in blocks'[b].succ : TargetSound(b, c)'
    BY DEF BlocksSound, Sealed
  <2>1. \A c \in blocks'[b].succ : TargetSound(b, c)'
    <3>. SUFFICES ASSUME NEW c \in blocks'[b].succ PROVE TargetSound(b, c)'
      OBVIOUS
    <3>1. c \in blocks[b].succ /\ c \in Blocks
      BY <1>1, <1>2 DEF TypeInv, TypeOK, Block
    <3>2. TargetSound(b, c)
      BY <3>1 DEF PlainInv, BlocksSound
    <3>. QED  BY <1>3, <3>1, <3>2 DEF TargetSound
  <2>2. CASE b = insertBlock
    BY <1>1, <1>2, <2>1, <2>2 DEF PlainInv, BlocksSound
  <2>3. CASE b # insertBlock
    BY <1>2, <2>1, <2>3 DEF PlainInv, BlocksSound
  <2>. QED  BY <2>2, <2>3
<1>7. InsertionSound'
  BY <1>1, <1>2, <1>3 DEF PlainInv, InsertionSound, TypeInv, TypeOK
<1>. QED  BY <1>4, <1>5, <1>6, <1>7 DEF PlainInv

\* What is appended to an open block, and what ends it.
LEMMA Appended ==
    ASSUME NEW blk \in Block, ~blk.malformed, ~Sealed(blk),
           NEW instr \in {"op", "br", "condbr", "ret"}
    PROVE  /\ Emitted(blk, instr, {}) \in Block
           /\ Emitted(blk, instr, {}).owner = blk.owner
           /\ ~Emitted(blk, instr, {}).malformed
           /\ Emitted(blk, instr, {}).succ = blk.succ
           /\ Sealed(Emitted(blk, instr, {})) <=> instr # "op"
<1>1. {} \in SUBSET Blocks /\ blk.succ \cup {} = blk.succ
  OBVIOUS
<1>. DEFINE e == Emitted(blk, instr, {})
<1>2. /\ e \in Block /\ e.owner = blk.owner /\ e.last = instr
      /\ e.succ = blk.succ \cup {} /\ (e.malformed <=> (blk.malformed \/ Sealed(blk)))
  BY <1>1 DEF Emitted, Block, Sealed, Terminators
<1>3. ~e.malformed
  BY <1>2
<1>4. Sealed(e) <=> instr # "op"
  BY <1>2 DEF Sealed, Terminators
<1>. QED  BY <1>1, <1>2, <1>3, <1>4

\* A step that ends the insertion point with a terminator and goes on in a
\* block that nothing was appended to, inserted by this step.
LEMMA PlainAdvance ==
    ASSUME TypeInv, TypeInv', PlainInv, stack # <<>>, stack' # <<>>,
           NEW next \in Blocks, insertBlock' = next,
           blocks[next].owner = NoFunc,
           blocks'[next] = [FreshBlock EXCEPT !.owner = currentFunction],
           \A b \in Blocks \ {next} :
              \/ blocks'[b] = blocks[b]
              \/ /\ blocks'[b].owner = currentFunction
                 /\ Sealed(blocks'[b]) /\ ~blocks'[b].malformed
                 /\ blocks[b].owner \in {NoFunc, currentFunction}
                 /\ \A c \in blocks'[b].succ : c \in blocks[b].succ \/ TargetSound(b, c)',
           Sealed(blocks'[insertBlock]),
           \A b \in Blocks : b > created' => blocks'[b].owner = NoFunc,
           Awaited', AwaitedInOrder',
           \A i \in 1..Len(stack) : \A c \in Blocks :
              c \in {stack[i].join, stack[i].other} =>
                 \/ blocks'[c].owner = currentFunction
                 \/ \E j \in 1..Len(stack') : c \in {stack'[j].join, stack'[j].other},
           strays' = strays,
           UNCHANGED <<status, entry, declared, currentFunction, hasErrors, walk>>
    PROVE  PlainInv'
<1>1. /\ insertBlock \in Blocks /\ blocks[insertBlock].owner = currentFunction
      /\ currentFunction # NoFunc /\ currentFunction = declared
  BY PlainBody DEF PlainInv
<1>2. FreshBlock.owner = NoFunc /\ FreshBlock.last = "none" /\ FreshBlock.succ = {}
      /\ ~FreshBlock.malformed
  BY DEF FreshBlock
<1>3. /\ blocks'[next].owner = currentFunction /\ blocks'[next].succ = {}
      /\ ~blocks'[next].malformed /\ ~Sealed(blocks'[next])
  BY <1>2 DEF FreshBlock, Sealed, Terminators
<1>4. \A b \in Blocks : blocks[b].owner # NoFunc => blocks'[b].owner = blocks[b].owner
  BY <1>1
<1>5. BlocksSound'
  <2>. SUFFICES ASSUME NEW b \in Blocks
                PROVE  /\ ~blocks'[b].malformed
                       /\ b > created' => blocks'[b].owner = NoFunc
                       /\ blocks'[b].owner = NoFunc => blocks'[b] = FreshBlock
                       /\ blocks'[b].owner <= declared'
                       /\ blocks'[b].owner # NoFunc /\ (stack' = <<>> \/ b # insertBlock')
                             => Sealed(blocks'[b])
                       /\ \A c \in blocks'[b].succ : TargetSound(b, c)'
    BY DEF BlocksSound, Sealed
  <2>0. declared' = declared /\ declared <= declared
    BY DEF TypeInv, TypeOK
  <2>1. CASE b = next
    BY <1>1, <1>3, <2>0, <2>1
  <2>2. ASSUME b # next, NEW c \in blocks[b].succ
        PROVE  TargetSound(b, c)'
    <3>1. TargetSound(b, c) /\ c \in Blocks /\ blocks[b].owner # NoFunc
      BY <1>2, <2>2 DEF PlainInv, BlocksSound, TypeInv, TypeOK, Block
    <3>2. CASE blocks[c].owner = blocks[b].owner
      BY <1>4, <3>1, <3>2 DEF TargetSound
    <3>3. CASE blocks[c].owner # blocks[b].owner
      BY <1>4, <3>1, <3>3 DEF TargetSound
    <3>. QED  BY <3>2, <3>3
  <2>3. CASE b # next /\ blocks'[b] = blocks[b]
    BY <1>1, <2>2, <2>3 DEF PlainInv, BlocksSound
  <2>4. CASE b # next /\ blocks'[b] # blocks[b]
    <3>1. /\ blocks'[b].owner = currentFunction
          /\ Sealed(blocks'[b]) /\ ~blocks'[b].malformed
          /\ \A c \in blocks'[b].succ : c \in blocks[b].succ \/ TargetSound(b, c)'
      BY <2>4
    <3>2. declared' = declared /\ declared \in Nat /\ currentFunction <= declared
      BY <1>1 DEF TypeInv, TypeOK
    <3>3. \A c \in blocks'[b].succ : TargetSound(b, c)'
      BY <2>2, <2>4, <3>1
    <3>4. blocks'[b].owner <= declared' /\ blocks'[b].owner # NoFunc
      BY <1>1, <3>1, <3>2
    <3>5. b > created' => blocks'[b].owner = NoFunc
      OBVIOUS
    <3>. QED  BY <3>1, <3>3, <3>4, <3>5, Zenon
  <2>. QED  BY <2>1, <2>3, <2>4
<1>6. InsertionSound'
  <2>1. entry[currentFunction] # NoBlock /\ entry[currentFunction] \in Blocks
        /\ blocks[entry[currentFunction]].owner = currentFunction
        /\ status[currentFunction] = "open"
    BY <1>1 DEF PlainInv, InsertionSound, TypeInv, TypeOK
  <2>. QED  BY <1>1, <1>3, <1>4, <2>1 DEF InsertionSound, Sealed
<1>. QED  BY <1>5, <1>6 DEF PlainInv

LEMMA PlainStatements ==
    ASSUME TypeInv, TypeInv', PlainInv, Shapes = {},
           \/ SimpleStmt \/ SkippedIf
           \/ \E init \in BOOLEAN : LocalDecl(init)
    PROVE  PlainInv'
<1>1. walk = "walking" /\ stack # <<>> /\ ~Top.returned
  BY DEF SimpleStmt, SkippedIf, LocalDecl, MayState
<1>2. /\ insertBlock \in Blocks /\ blocks[insertBlock] \in Block /\ insertBlock # NoBlock
      /\ blocks[insertBlock].owner = currentFunction /\ currentFunction # NoFunc
      /\ ~blocks[insertBlock].malformed /\ Astray = {} /\ strays = {}
      /\ ~Sealed(blocks[insertBlock])
  BY <1>1, PlainBody DEF PlainInv, InsertionSound
<1>3. ~SkippedIf
  BY DEF SkippedIf
<1>4. UNCHANGED <<created, insertBlock, status, entry, declared, currentFunction,
                  hasErrors, strays, walk, stack>>
  BY <1>2, <1>3 DEF SimpleStmt, LocalDecl, unchangedFuncs, unchangedSema
<1>. DEFINE op == Emitted(blocks[insertBlock], "op", {})
<1>5. /\ op \in Block /\ op.owner = currentFunction /\ ~op.malformed
      /\ op.succ = blocks[insertBlock].succ /\ ~Sealed(op)
  BY <1>2, Appended
<1>. HIDE DEF op
<1>6. ASSUME NEW e \in Block, blocks' = [blocks EXCEPT ![insertBlock] = e],
             e.owner = currentFunction, ~e.malformed, e.succ = blocks[insertBlock].succ,
             ~Sealed(e)
      PROVE  PlainInv'
  <2>1. /\ Len(stack') = Len(stack) /\ stack' # <<>>
        /\ \A i \in 1..Len(stack) : stack'[i] = stack[i]
    BY <1>1, <1>4
  <2>. QED  BY <1>1, <1>4, <1>6, <2>1, PlainExtend
<1>7. CASE SimpleStmt
  <2>1. blocks' = [blocks EXCEPT ![insertBlock] = op]
    BY <1>2, <1>7 DEF SimpleStmt, op
  <2>. QED  BY <1>5, <1>6, <2>1
<1>8. ASSUME NEW init \in BOOLEAN, LocalDecl(init)
      PROVE  PlainInv'
  <2>. DEFINE en == entry[currentFunction]
              stored(blk) == [Emitted(blk, "op", {}) EXCEPT
                                 !.malformed = @ \/ blk.owner # currentFunction]
              held == IF en = insertBlock THEN WithAlloca(blocks[insertBlock])
                                          ELSE blocks[insertBlock]
              e == IF init THEN stored(held) ELSE held
              allocated == [blocks EXCEPT ![en] = WithAlloca(@)]
  <2>1. en \in Blocks /\ blocks[en].owner = currentFunction
    BY <1>1, <1>2 DEF PlainInv, InsertionSound, TypeInv, TypeOK
  <2>2. allocated = [blocks EXCEPT ![insertBlock] = held]
    <3>1. CASE en = insertBlock
      BY <3>1 DEF TypeInv, TypeOK
    <3>2. CASE en # insertBlock
      <4>1. Sealed(blocks[en])
        BY <1>2, <2>1, <3>2 DEF PlainInv, BlocksSound
      <4>2. WithAlloca(blocks[en]) = blocks[en]
        BY <4>1 DEF WithAlloca, Sealed, Terminators
      <4>. QED  BY <3>2, <4>2, <1>2 DEF TypeInv, TypeOK
    <3>. QED  BY <3>1, <3>2
  <2>3. /\ held \in Block /\ held.owner = currentFunction /\ ~held.malformed
        /\ held.succ = blocks[insertBlock].succ /\ ~Sealed(held)
    BY <1>2 DEF WithAlloca, Block, Sealed, Terminators
  <2>4. blocks' = IF init THEN [allocated EXCEPT ![insertBlock] = stored(@)] ELSE allocated
    BY <1>8 DEF LocalDecl
  <2>. HIDE DEF held, allocated
  <2>5. /\ stored(held) \in Block /\ stored(held).owner = currentFunction
        /\ ~stored(held).malformed /\ stored(held).succ = held.succ /\ ~Sealed(stored(held))
    <3>1. /\ Emitted(held, "op", {}) \in Block /\ Emitted(held, "op", {}).owner = held.owner
          /\ ~Emitted(held, "op", {}).malformed /\ Emitted(held, "op", {}).succ = held.succ
          /\ ~Sealed(Emitted(held, "op", {}))
      BY <2>3, Appended
    <3>. QED  BY <2>3, <3>1 DEF Block, Sealed, stored
  <2>. HIDE DEF stored
  <2>6. blocks' = [blocks EXCEPT ![insertBlock] = e]
    BY <1>2, <2>2, <2>4 DEF TypeInv, TypeOK
  <2>7. e \in Block /\ e.owner = currentFunction /\ ~e.malformed
        /\ e.succ = blocks[insertBlock].succ /\ ~Sealed(e)
    BY <2>3, <2>5
  <2>. QED  BY <1>6, <2>6, <2>7
<1>. QED  BY <1>3, <1>7, <1>8

LEMMA PlainReturn ==
    ASSUME TypeInv, TypeInv', PlainInv, Shapes = {}, ReturnStmt
    PROVE  PlainInv'
<1>1. stack # <<>> /\ ~Top.returned
  BY DEF ReturnStmt, MayState
<1>2. /\ insertBlock \in Blocks /\ blocks[insertBlock] \in Block
      /\ blocks[insertBlock].owner = currentFunction
      /\ ~blocks[insertBlock].malformed /\ Astray = {} /\ strays = {}
      /\ ~Sealed(blocks[insertBlock])
      /\ stack \in Seq(Frame) /\ Len(stack) \in Nat /\ Len(stack) >= 1
      /\ Top \in Frame /\ Top = stack[Len(stack)]
  BY <1>1, PlainBody DEF PlainInv, InsertionSound
<1>. DEFINE e == Emitted(blocks[insertBlock], "ret", {})
            fr == [Top EXCEPT !.returned = TRUE, !.live = FALSE]
<1>3. e \in Block /\ e.owner = currentFunction /\ ~e.malformed
      /\ e.succ = blocks[insertBlock].succ
  BY <1>2, Appended
<1>4. blocks' = [blocks EXCEPT ![insertBlock] = e] /\ stack' = [stack EXCEPT ![Len(stack)] = fr]
  BY DEF ReturnStmt, Top
<1>5. /\ fr \in Frame /\ fr.kind = Top.kind /\ fr.fn = Top.fn /\ fr.lex = Top.lex
      /\ fr.header = Top.header /\ fr.join = Top.join /\ fr.other = Top.other
      /\ fr.returned
  BY <1>2 DEF Frame
<1>. HIDE DEF e, fr
<1>6. /\ stack' \in Seq(Frame) /\ Len(stack') = Len(stack)
      /\ \A j \in 1..Len(stack) : stack'[j] = IF j = Len(stack) THEN fr ELSE stack[j]
  <2>1. Len(stack) \in 1..Len(stack)
    BY <1>2
  <2>. QED  BY <1>2, <1>4, <1>5, <2>1, ExceptSeq
<1>7. stack' # <<>>
  BY <1>2, <1>6, EmptySeq
<1>8. Top'.returned
  BY <1>2, <1>5, <1>6 DEF Top
<1>9. \A i \in 1..Len(stack) :
         /\ stack'[i].kind = stack[i].kind /\ stack'[i].fn = stack[i].fn
         /\ stack'[i].lex = stack[i].lex /\ stack'[i].header = stack[i].header
         /\ stack'[i].join = stack[i].join /\ stack'[i].other = stack[i].other
  BY <1>2, <1>5, <1>6
<1>10. UNCHANGED <<created, insertBlock, status, entry, declared, currentFunction,
                   hasErrors, strays, walk>>
  BY <1>2 DEF ReturnStmt, unchangedFuncs, unchangedSema
<1>. QED  BY <1>1, <1>3, <1>4, <1>6, <1>7, <1>8, <1>9, <1>10, PlainExtend

\* A frame stays sound when blocks it does not await are inserted.
LEMMA FrameKept ==
    ASSUME TypeInv, PlainInv, stack # <<>>, NEW fr \in Frame, FrameSound(fr),
           fr.kind = "loop" => fr.header # NoBlock,
           NEW inserted \in SUBSET Blocks,
           \A b \in inserted : blocks[b].owner = NoFunc,
           \A b \in Blocks \ inserted : blocks'[b].owner = blocks[b].owner,
           fr.join \notin inserted, fr.other \notin inserted,
           created' >= created, created' \in Int, currentFunction' = currentFunction
    PROVE  FrameSound(fr)'
<1>1. /\ fr.join \in Blocks \cup {NoBlock} /\ fr.other \in Blocks \cup {NoBlock}
      /\ fr.kind = "loop" => fr.header \in Blocks
  BY DEF Frame
<1>2. created \in Int /\ \A n \in Int : n <= created => n <= created'
  BY DEF TypeInv, TypeOK
<1>3. currentFunction # NoFunc
  BY DEF PlainInv, InsertionSound
<1>4. fr.join # NoBlock => fr.join <= created' /\ blocks'[fr.join].owner = NoFunc
  BY <1>1, <1>2 DEF FrameSound
<1>5. fr.other # NoBlock => fr.other < fr.join /\ blocks'[fr.other].owner = NoFunc
  BY <1>1 DEF FrameSound
<1>6. fr.kind = "loop" => blocks'[fr.header].owner = currentFunction
  BY <1>1, <1>3 DEF FrameSound
<1>. QED  BY <1>4, <1>5, <1>6 DEF FrameSound

\* A visit that begins awaits the two blocks that it creates last.
LEMMA PlainPush ==
    ASSUME TypeInv, TypeInv', PlainInv, stack # <<>>, NEW fr \in Frame,
           stack' = Append(stack, fr), Len(stack) < MaxDepth,
           created' = created + 3, created' <= MaxBlocks,
           fr.kind \in {"then", "loop"}, fr.fn = currentFunction, fr.lex = currentFunction,
           fr.join = created + 3, fr.other \in {NoBlock, created + 2},
           fr.kind = "loop" => fr.other = NoBlock /\ fr.header = created + 1,
           NEW inserted \in SUBSET {created + 1, created + 2}, fr.other \notin inserted,
           fr.kind = "loop" => blocks'[created + 1].owner = currentFunction,
           \A b \in Blocks \ inserted : blocks'[b].owner = blocks[b].owner,
           currentFunction' = currentFunction
    PROVE  /\ Awaited' /\ AwaitedInOrder' /\ stack' # <<>>
           /\ \A b \in Blocks : b > created' => blocks'[b].owner = NoFunc
           /\ \A i \in 1..Len(stack) : \A c \in Blocks :
                c \in {stack[i].join, stack[i].other} =>
                   \E j \in 1..Len(stack') : c \in {stack'[j].join, stack'[j].other}
           /\ \E j \in 1..Len(stack') : stack'[j] = fr
<1>1. /\ created \in Nat /\ created + 1 \in Blocks /\ created + 2 \in Blocks
      /\ created + 3 \in Blocks
  BY BoundsAssumption DEF TypeInv, TypeOK
<1>2. \A b \in Blocks : b > created => blocks[b].owner = NoFunc
  BY DEF PlainInv, BlocksSound
<1>3. /\ stack \in Seq(Frame) /\ Len(stack) \in Nat /\ Len(stack) >= 1
      /\ \A i \in 1..Len(stack) : stack[i] \in Frame
  BY PlainBody, ElementOfSeq
<1>4. /\ Len(stack') = Len(stack) + 1 /\ stack'[Len(stack) + 1] = fr /\ stack' # <<>>
      /\ \A i \in 1..Len(stack) : stack'[i] = stack[i]
  BY <1>3, PushSeq
<1>5. ASSUME NEW i \in 1..Len(stack)
      PROVE  /\ FrameSound(stack[i])' /\ (stack[i].kind = "func" <=> i = 1)
             /\ stack[i].join <= created /\ stack[i].other <= created
  <2>1. /\ FrameSound(stack[i]) /\ (stack[i].kind = "func" <=> i = 1) /\ stack[i] \in Frame
        /\ stack[i].kind = "loop" => stack[i].header # NoBlock
    BY <1>3 DEF PlainInv, Awaited, TypeInv
  <2>2. /\ stack[i].join \in Blocks \cup {NoBlock} /\ stack[i].other \in Blocks \cup {NoBlock}
    BY <2>1 DEF Frame
  <2>3. stack[i].join <= created /\ stack[i].other <= created
    BY <1>1, <2>1, <2>2 DEF FrameSound
  <2>4. stack[i].join \notin inserted /\ stack[i].other \notin inserted
    <3>1. \A x \in Int : x <= created => x # created + 1 /\ x # created + 2
      BY <1>1
    <3>2. stack[i].join \in Int /\ stack[i].other \in Int
      BY <2>2
    <3>. QED  BY <2>3, <3>1, <3>2
  <2>5. inserted \in SUBSET Blocks /\ \A b \in inserted : blocks[b].owner = NoFunc
    <3>1. \A b \in inserted : b = created + 1 \/ b = created + 2
      OBVIOUS
    <3>2. created + 1 > created /\ created + 2 > created
      BY <1>1
    <3>3. \A b \in inserted : b \in Blocks /\ b > created
      BY <1>1, <3>1, <3>2
    <3>. QED  BY <1>2, <3>3
  <2>6. created' >= created /\ created' \in Int
    BY <1>1
  <2>7. FrameSound(stack[i])'
    <3>1. PICK old \in Frame : old = stack[i]
      BY <2>1
    <3>2. stack'[i] = old
      BY <1>4, <3>1
    <3>3. FrameSound(old)'
      <4>1. FrameSound(old)
        BY <2>1, <3>1 DEF FrameSound
      <4>. QED  BY <2>1, <2>4, <2>5, <2>6, <3>1, <4>1, FrameKept
    <3>. QED  BY <3>2, <3>3 DEF FrameSound
  <2>. QED  BY <2>1, <2>3, <2>7
<1>6. FrameSound(fr)'
  <2>1. blocks'[created + 3].owner = NoFunc
    <3>1. created + 3 \notin inserted /\ created + 3 > created
      BY <1>1
    <3>. QED  BY <1>1, <1>2, <3>1
  <2>2. fr.other # NoBlock => blocks'[fr.other].owner = NoFunc /\ fr.other < fr.join
    BY <1>1, <1>2
  <2>. QED  BY <1>1, <2>1, <2>2 DEF FrameSound
<1>7. Awaited'
  <2>. SUFFICES ASSUME NEW i \in 1..Len(stack')
                PROVE  FrameSound(stack[i])' /\ (stack'[i].kind = "func" <=> i = 1)
    BY DEF Awaited
  <2>1. CASE i \in 1..Len(stack)
    BY <1>4, <1>5, <2>1
  <2>2. CASE i = Len(stack) + 1
    <3>1. stack'[i] = fr
      BY <1>4, <2>2
    <3>2. FrameSound(stack[i])'
      BY <1>6, <3>1 DEF FrameSound
    <3>. QED  BY <1>3, <2>2, <3>1, <3>2
  <2>. QED  BY <1>3, <1>4, <2>1, <2>2
<1>8. AwaitedInOrder'
  <2>. SUFFICES ASSUME NEW i \in 1..Len(stack'), NEW j \in 1..Len(stack'), i < j
                PROVE  /\ stack'[i].join < stack'[j].join
                       /\ stack'[j].other # NoBlock => stack'[i].join < stack'[j].other
    BY DEF AwaitedInOrder
  <2>1. i \in 1..Len(stack) /\ stack'[i] = stack[i] /\ stack[i].join <= created
        /\ stack[i].join \in Int
    <3>1. i \in 1..Len(stack) /\ stack[i] \in Frame
      BY <1>3, <1>4
    <3>2. stack[i].join \in Int
      BY <3>1 DEF Frame
    <3>. QED  BY <1>4, <1>5, <3>1, <3>2
  <2>2. CASE j \in 1..Len(stack)
    BY <1>4, <2>1, <2>2 DEF PlainInv, AwaitedInOrder
  <2>3. CASE j = Len(stack) + 1
    BY <1>1, <1>4, <2>1, <2>3
  <2>. QED  BY <1>3, <1>4, <2>2, <2>3
<1>9. \A b \in Blocks : b > created' => blocks'[b].owner = NoFunc
  <2>. SUFFICES ASSUME NEW b \in Blocks, b > created' PROVE blocks'[b].owner = NoFunc
    OBVIOUS
  <2>1. b > created /\ b \notin inserted
    BY <1>1
  <2>. QED  BY <1>2, <2>1
<1>10. \A i \in 1..Len(stack) : i \in 1..Len(stack') /\ stack'[i] = stack[i]
  BY <1>3, <1>4
<1>11. Len(stack) + 1 \in 1..Len(stack')
  BY <1>3, <1>4
<1>. QED  BY <1>4, <1>7, <1>8, <1>9, <1>10, <1>11

LEMMA PlainBeginIf ==
    ASSUME TypeInv, TypeInv', PlainInv, Shapes = {},
           NEW hasElse \in BOOLEAN, BeginIf(hasElse)
    PROVE  PlainInv'
<1>1. stack # <<>> /\ ~Top.returned /\ Len(stack) < MaxDepth
  BY DEF BeginIf, MayNest, MayState
<1>2. /\ insertBlock \in Blocks /\ blocks[insertBlock] \in Block
      /\ blocks[insertBlock].owner = currentFunction /\ currentFunction # NoFunc
      /\ currentFunction \in Funcs
      /\ ~blocks[insertBlock].malformed /\ Astray = {} /\ strays = {}
      /\ ~Sealed(blocks[insertBlock]) /\ Lex = currentFunction
      /\ insertBlock <= created
  BY <1>1, PlainBody DEF PlainInv, InsertionSound
<1>3. /\ created \in Nat /\ created + 1 \in Blocks /\ created + 2 \in Blocks
      /\ created + 3 \in Blocks /\ created' = created + 3 /\ created' <= MaxBlocks
      /\ insertBlock # created + 1
  BY <1>2, BoundsAssumption DEF BeginIf, TypeInv, TypeOK
<1>4. /\ blocks[created + 1] = FreshBlock /\ blocks[created + 1].owner = NoFunc
  BY <1>3 DEF PlainInv, BlocksSound, FreshBlock
<1>. DEFINE other == IF hasElse THEN created + 2 ELSE NoBlock
            fr == FrameOf("then", NoBlock, other, created + 3)
            target == FalseTarget(hasElse, created + 2, created + 3)
            e == Emitted(blocks[insertBlock], "condbr", {created + 1, target})
            bs == [blocks EXCEPT ![insertBlock] = e]
<1>5. target \in {other, created + 3} /\ target \in Blocks
  BY <1>3 DEF FalseTarget
<1>6. /\ e \in Block /\ e.owner = currentFunction /\ ~e.malformed /\ Sealed(e)
      /\ e.succ = blocks[insertBlock].succ \cup {created + 1, target}
  <2>1. {created + 1, target} \in SUBSET Blocks
    BY <1>3, <1>5
  <2>2. /\ e \in Block /\ e.owner = currentFunction /\ e.last = "condbr"
        /\ (e.malformed <=> (blocks[insertBlock].malformed \/ Sealed(blocks[insertBlock])))
        /\ e.succ = blocks[insertBlock].succ \cup {created + 1, target}
    BY <1>2, <2>1, EmittedType
  <2>. QED  BY <1>2, <2>2 DEF Sealed, Terminators
<1>7. /\ fr \in Frame /\ fr.kind = "then" /\ fr.fn = currentFunction
      /\ fr.lex = currentFunction /\ fr.join = created + 3 /\ fr.other = other
  <2>1. fr \in Frame
    BY <1>2, <1>3, FrameOfType DEF TypeInv
  <2>. QED  BY <1>2, <2>1 DEF FrameOf
<1>8. /\ blocks' = Inserted(bs, created + 1, currentFunction)
      /\ stack' = Append(stack, fr) /\ insertBlock' = created + 1
      /\ strays' = strays
      /\ UNCHANGED <<status, entry, declared, currentFunction, hasErrors, walk>>
  BY <1>2 DEF BeginIf, unchangedFuncs, unchangedSema
<1>. HIDE DEF fr, e
<1>9. /\ blocks'[created + 1] = [FreshBlock EXCEPT !.owner = currentFunction]
      /\ blocks'[insertBlock] = e
      /\ \A b \in Blocks : b \notin {created + 1, insertBlock} => blocks'[b] = blocks[b]
  BY <1>2, <1>3, <1>4, <1>8 DEF Inserted, TypeInv, TypeOK
<1>10. \A b \in Blocks \ {created + 1} : blocks'[b].owner = blocks[b].owner
  BY <1>2, <1>6, <1>9
<1>11. /\ Awaited' /\ AwaitedInOrder' /\ stack' # <<>>
       /\ \A b \in Blocks : b > created' => blocks'[b].owner = NoFunc
       /\ \A i \in 1..Len(stack) : \A c \in Blocks :
            c \in {stack[i].join, stack[i].other} =>
               \E j \in 1..Len(stack') : c \in {stack'[j].join, stack'[j].other}
       /\ \E j \in 1..Len(stack') : stack'[j] = fr
  <2>. DEFINE inserted == {created + 1}
  <2>1. /\ inserted \in SUBSET {created + 1, created + 2} /\ fr.other \notin inserted
        /\ fr.other \in {NoBlock, created + 2}
        /\ \A b \in Blocks \ inserted : blocks'[b].owner = blocks[b].owner
    BY <1>3, <1>7, <1>10
  <2>. QED  BY <1>1, <1>3, <1>7, <1>8, <2>1, PlainPush
<1>12. PICK here \in Blocks : here = insertBlock
  BY <1>2
<1>13. ASSUME NEW c \in e.succ
       PROVE  c \in blocks[here].succ \/ TargetSound(here, c)'
  <2>1. blocks'[here].owner = currentFunction /\ currentFunction' = currentFunction
    BY <1>6, <1>8, <1>9, <1>12
  <2>2. CASE c = created + 1
    <3>1. blocks'[c].owner = currentFunction
      BY <1>9, <2>2 DEF FreshBlock
    <3>. QED  BY <2>1, <3>1 DEF TargetSound
  <2>3. CASE c = target
    <3>1. c = fr.join \/ c = fr.other
      BY <1>5, <1>7, <2>3
    <3>. QED  BY <1>11, <2>1, <3>1 DEF TargetSound
  <2>. QED  BY <1>6, <1>12, <2>2, <2>3
<1>14. PICK next \in Blocks : next = created + 1
  BY <1>3
<1>15. \A b \in Blocks \ {next} :
         \/ blocks'[b] = blocks[b]
         \/ /\ blocks'[b].owner = currentFunction
            /\ Sealed(blocks'[b]) /\ ~blocks'[b].malformed
            /\ blocks[b].owner \in {NoFunc, currentFunction}
            /\ \A c \in blocks'[b].succ : c \in blocks[b].succ \/ TargetSound(b, c)'
  <2>. SUFFICES ASSUME NEW b \in Blocks, b # next, blocks'[b] # blocks[b]
                PROVE  /\ blocks'[b].owner = currentFunction
                       /\ Sealed(blocks'[b]) /\ ~blocks'[b].malformed
                       /\ blocks[b].owner \in {NoFunc, currentFunction}
                       /\ \A c \in blocks'[b].succ : c \in blocks[b].succ \/ TargetSound(b, c)'
    OBVIOUS
  <2>1. b = here /\ blocks'[b] = e
    BY <1>9, <1>12, <1>14
  <2>. QED  BY <1>2, <1>6, <1>12, <1>13, <2>1
<1>16. Sealed(blocks'[insertBlock])
  BY <1>6, <1>9
<1>. QED  BY <1>1, <1>4, <1>8, <1>9, <1>11, <1>14, <1>15, <1>16, PlainAdvance

LEMMA PlainBeginLoop ==
    ASSUME TypeInv, TypeInv', PlainInv, Shapes = {},
           NEW valued \in BOOLEAN, BeginLoop(valued)
    PROVE  PlainInv'
<1>1. stack # <<>> /\ ~Top.returned /\ Len(stack) < MaxDepth /\ valued = TRUE
  BY DEF BeginLoop, MayNest, MayState
<1>2. /\ insertBlock \in Blocks /\ blocks[insertBlock] \in Block
      /\ blocks[insertBlock].owner = currentFunction /\ currentFunction # NoFunc
      /\ currentFunction \in Funcs
      /\ ~blocks[insertBlock].malformed /\ Astray = {} /\ strays = {}
      /\ ~Sealed(blocks[insertBlock]) /\ Lex = currentFunction
      /\ insertBlock <= created
  BY <1>1, PlainBody DEF PlainInv, InsertionSound
<1>3. /\ created \in Nat /\ created + 1 \in Blocks /\ created + 2 \in Blocks
      /\ created + 3 \in Blocks /\ created' = created + 3 /\ created' <= MaxBlocks
      /\ insertBlock # created + 1 /\ insertBlock # created + 2
  BY <1>2, BoundsAssumption DEF BeginLoop, TypeInv, TypeOK
<1>4. \A b \in {created + 1, created + 2} : blocks[b] = FreshBlock /\ blocks[b].owner = NoFunc
  BY <1>3 DEF PlainInv, BlocksSound, FreshBlock
<1>. DEFINE cond == created + 1
            body == created + 2
            fr == FrameOf("loop", cond, NoBlock, created + 3)
            e == Emitted(blocks[insertBlock], "br", {cond})
            test == LoopCond(currentFunction, valued, body, created + 3)
            bs == [blocks EXCEPT ![insertBlock] = e, ![cond] = test]
<1>5. /\ e \in Block /\ e.owner = currentFunction /\ ~e.malformed /\ Sealed(e)
      /\ e.succ = blocks[insertBlock].succ \cup {cond}
  <2>1. {cond} \in SUBSET Blocks
    BY <1>3
  <2>2. /\ e \in Block /\ e.owner = currentFunction /\ e.last = "br"
        /\ (e.malformed <=> (blocks[insertBlock].malformed \/ Sealed(blocks[insertBlock])))
        /\ e.succ = blocks[insertBlock].succ \cup {cond}
    BY <1>2, <2>1, EmittedType
  <2>. QED  BY <1>2, <2>2 DEF Sealed, Terminators
<1>6. /\ test.owner = currentFunction /\ ~test.malformed /\ Sealed(test)
      /\ test.succ = {body, created + 3}
  <2>1. test = [owner |-> currentFunction, last |-> IF valued THEN "condbr" ELSE "op",
                malformed |-> FALSE, succ |-> IF valued THEN {body, created + 3} ELSE {}]
    BY <1>2, <1>3, LoopCondType
  <2>. HIDE DEF test
  <2>. QED  BY <1>1, <2>1 DEF Sealed, Terminators
<1>7. /\ fr \in Frame /\ fr.kind = "loop" /\ fr.fn = currentFunction
      /\ fr.lex = currentFunction /\ fr.join = created + 3 /\ fr.other = NoBlock
      /\ fr.header = created + 1
  <2>1. fr \in Frame
    BY <1>2, <1>3, FrameOfType DEF TypeInv
  <2>. QED  BY <1>2, <2>1 DEF FrameOf
<1>8. /\ blocks' = Inserted(bs, body, currentFunction)
      /\ stack' = Append(stack, fr) /\ insertBlock' = body
      /\ strays' = strays
      /\ UNCHANGED <<status, entry, declared, currentFunction, hasErrors, walk>>
  BY <1>2 DEF BeginLoop, unchangedFuncs, unchangedSema
<1>. HIDE DEF fr, e, test
<1>9. /\ blocks'[body] = [FreshBlock EXCEPT !.owner = currentFunction]
      /\ blocks'[cond] = test
      /\ blocks'[insertBlock] = e
      /\ \A b \in Blocks : b \notin {body, cond, insertBlock} => blocks'[b] = blocks[b]
  <2>1. /\ DOMAIN bs = Blocks /\ bs[cond] = test /\ bs[insertBlock] = e
        /\ bs[body] = FreshBlock
        /\ \A b \in Blocks : b \notin {cond, insertBlock} => bs[b] = blocks[b]
    <3>1. blocks \in [Blocks -> Block]
      BY DEF TypeInv, TypeOK
    <3>2. /\ insertBlock \in Blocks /\ cond \in Blocks /\ body \in Blocks
          /\ insertBlock # cond /\ insertBlock # body /\ cond # body
          /\ blocks[body] = FreshBlock
      BY <1>2, <1>3, <1>4
    <3>. HIDE DEF cond, body
    <3>. QED  BY <3>1, <3>2
  <2>. HIDE DEF bs
  <2>2. /\ blocks'[body] = [bs[body] EXCEPT !.owner = currentFunction]
        /\ \A b \in Blocks : b # body => blocks'[b] = bs[b]
    BY <1>3, <1>8, <2>1 DEF Inserted
  <2>. QED  BY <1>2, <1>3, <2>1, <2>2
<1>10. \A b \in Blocks \ {cond, body} : blocks'[b].owner = blocks[b].owner
  BY <1>2, <1>5, <1>9
<1>11. /\ Awaited' /\ AwaitedInOrder' /\ stack' # <<>>
       /\ \A b \in Blocks : b > created' => blocks'[b].owner = NoFunc
       /\ \A i \in 1..Len(stack) : \A c \in Blocks :
            c \in {stack[i].join, stack[i].other} =>
               \E j \in 1..Len(stack') : c \in {stack'[j].join, stack'[j].other}
       /\ \E j \in 1..Len(stack') : stack'[j] = fr
  <2>. DEFINE inserted == {cond, body}
  <2>1. /\ inserted \in SUBSET {created + 1, created + 2} /\ fr.other \notin inserted
        /\ fr.other \in {NoBlock, created + 2}
        /\ \A b \in Blocks \ inserted : blocks'[b].owner = blocks[b].owner
        /\ blocks'[created + 1].owner = currentFunction
    BY <1>3, <1>6, <1>7, <1>9, <1>10
  <2>. HIDE DEF inserted
  <2>2. fr.kind \in {"then", "loop"} /\ currentFunction' = currentFunction
        /\ (fr.kind = "loop" => fr.other = NoBlock /\ fr.header = created + 1)
    BY <1>7, <1>8
  <2>3. /\ stack' = Append(stack, fr) /\ created' = created + 3 /\ created' <= MaxBlocks
        /\ fr \in Frame /\ fr.fn = currentFunction /\ fr.lex = currentFunction
        /\ fr.join = created + 3
    BY <1>3, <1>7, <1>8
  <2>. HIDE DEF cond, body, bs
  <2>. QED  BY <1>1, <2>1, <2>2, <2>3, PlainPush
<1>12. PICK here \in Blocks, head \in Blocks, next \in Blocks :
         here = insertBlock /\ head = cond /\ next = body
  BY <1>2, <1>3
<1>13. /\ blocks'[here].owner = currentFunction /\ blocks'[head].owner = currentFunction
       /\ blocks'[next].owner = currentFunction /\ currentFunction' = currentFunction
  BY <1>5, <1>6, <1>8, <1>9, <1>12 DEF FreshBlock
<1>14. ASSUME NEW c \in e.succ
       PROVE  c \in blocks[here].succ \/ TargetSound(here, c)'
  <2>1. c \in blocks[here].succ \/ c = head
    BY <1>5, <1>12
  <2>. QED  BY <1>13, <2>1 DEF TargetSound
<1>15. ASSUME NEW c \in test.succ
       PROVE  TargetSound(head, c)'
  <2>1. c = next \/ c = fr.join
    BY <1>6, <1>7, <1>12
  <2>. QED  BY <1>11, <1>13, <2>1 DEF TargetSound
<1>16. \A b \in Blocks \ {next} :
         \/ blocks'[b] = blocks[b]
         \/ /\ blocks'[b].owner = currentFunction
            /\ Sealed(blocks'[b]) /\ ~blocks'[b].malformed
            /\ blocks[b].owner \in {NoFunc, currentFunction}
            /\ \A c \in blocks'[b].succ : c \in blocks[b].succ \/ TargetSound(b, c)'
  <2>. SUFFICES ASSUME NEW b \in Blocks, b # next, blocks'[b] # blocks[b]
                PROVE  /\ blocks'[b].owner = currentFunction
                       /\ Sealed(blocks'[b]) /\ ~blocks'[b].malformed
                       /\ blocks[b].owner \in {NoFunc, currentFunction}
                       /\ \A c \in blocks'[b].succ : c \in blocks[b].succ \/ TargetSound(b, c)'
    OBVIOUS
  <2>1. CASE b = here
    BY <1>2, <1>5, <1>9, <1>12, <1>14, <2>1
  <2>2. CASE b = head
    BY <1>4, <1>6, <1>9, <1>12, <1>15, <2>2
  <2>. QED  BY <1>9, <1>12, <2>1, <2>2
<1>17. Sealed(blocks'[insertBlock])
  BY <1>5, <1>9
<1>. QED  BY <1>1, <1>4, <1>8, <1>9, <1>11, <1>12, <1>16, <1>17, PlainAdvance

\* The end of a branch: the block left goes to `target`, and what the frame
\* awaited at `placed` becomes the insertion point.
LEMMA PlainFallThrough ==
    ASSUME TypeInv, PlainInv, stack # <<>>, NEW target \in Blocks, NEW placed \in Blocks,
           blocks[placed].owner = NoFunc,
           blocks' = Inserted([blocks EXCEPT ![insertBlock] = FallThrough(@, target)],
                              placed, currentFunction)
    PROVE  /\ blocks'[placed] = [FreshBlock EXCEPT !.owner = currentFunction]
           /\ blocks'[placed].owner = currentFunction
           /\ placed # insertBlock
           /\ \A b \in Blocks \ {placed, insertBlock} : blocks'[b] = blocks[b]
           /\ \A b \in Blocks \ {placed} : blocks'[b].owner = blocks[b].owner
           /\ Sealed(blocks'[insertBlock])
           /\ ~blocks'[insertBlock].malformed
           /\ blocks'[insertBlock].owner = currentFunction
           /\ \A c \in blocks'[insertBlock].succ : c \in blocks[insertBlock].succ \/ c = target
<1>1. /\ insertBlock \in Blocks /\ blocks[insertBlock] \in Block
      /\ blocks[insertBlock].owner = currentFunction /\ currentFunction # NoFunc
      /\ ~blocks[insertBlock].malformed
  BY PlainBody DEF PlainInv, InsertionSound
<1>2. blocks[placed] = FreshBlock /\ placed # insertBlock
  BY <1>1 DEF PlainInv, BlocksSound
<1>. DEFINE e == FallThrough(blocks[insertBlock], target)
<1>3. /\ e.owner = currentFunction /\ ~e.malformed /\ Sealed(e)
      /\ \A c \in e.succ : c \in blocks[insertBlock].succ \/ c = target
  <2>1. CASE Sealed(blocks[insertBlock])
    BY <1>1, <2>1 DEF FallThrough
  <2>2. CASE ~Sealed(blocks[insertBlock])
    <3>. DEFINE br == Emitted(blocks[insertBlock], "br", {target})
    <3>1. {target} \in SUBSET Blocks
      OBVIOUS
    <3>2. /\ br.owner = currentFunction /\ br.last = "br"
          /\ (br.malformed <=> (blocks[insertBlock].malformed \/ Sealed(blocks[insertBlock])))
          /\ br.succ = blocks[insertBlock].succ \cup {target}
      BY <1>1, <3>1, EmittedType
    <3>3. e = br
      BY <2>2 DEF FallThrough
    <3>. HIDE DEF e, br
    <3>. QED  BY <1>1, <2>2, <3>2, <3>3 DEF Sealed, Terminators
  <2>. QED  BY <2>1, <2>2
<1>. HIDE DEF e
<1>4. /\ blocks'[placed] = [FreshBlock EXCEPT !.owner = currentFunction]
      /\ blocks'[insertBlock] = e
      /\ \A b \in Blocks \ {placed, insertBlock} : blocks'[b] = blocks[b]
  BY <1>1, <1>2 DEF Inserted, TypeInv, TypeOK, e
<1>5. blocks'[placed].owner = currentFunction
  BY <1>4 DEF FreshBlock
<1>. QED  BY <1>1, <1>2, <1>3, <1>4, <1>5

\* Of this, what the frames that remain depend on.
LEMMA PlainFallThroughOwners ==
    ASSUME TypeInv, PlainInv, stack # <<>>, NEW target \in Blocks, NEW placed \in Blocks,
           blocks[placed].owner = NoFunc,
           blocks' = Inserted([blocks EXCEPT ![insertBlock] = FallThrough(@, target)],
                              placed, currentFunction)
    PROVE  \A b \in Blocks \ {placed} : blocks'[b].owner = blocks[b].owner
BY PlainFallThrough, ZenonT(60)

\* Blocks after a fall-through meet what PlainAdvance asks of them.
LEMMA PlainGoesOn ==
    ASSUME TypeInv, TypeInv', PlainInv, stack # <<>>, stack' # <<>>,
           NEW target \in Blocks, NEW placed \in Blocks,
           blocks[placed].owner = NoFunc, placed <= created,
           blocks' = Inserted([blocks EXCEPT ![insertBlock] = FallThrough(@, target)],
                              placed, currentFunction),
           insertBlock' = placed, created' = created,
           Awaited', AwaitedInOrder',
           \/ blocks[target].owner = currentFunction \/ placed = target
           \/ \E j \in 1..Len(stack') : target \in {stack'[j].join, stack'[j].other},
           \A i \in 1..Len(stack) : \A c \in Blocks :
              c \in {stack[i].join, stack[i].other} =>
                 c = placed \/ \E j \in 1..Len(stack') : c \in {stack'[j].join, stack'[j].other},
           strays' = strays,
           UNCHANGED <<status, entry, declared, currentFunction, hasErrors, walk>>
    PROVE  PlainInv'
<1>1. /\ blocks'[placed] = [FreshBlock EXCEPT !.owner = currentFunction]
      /\ blocks'[placed].owner = currentFunction
      /\ placed # insertBlock
      /\ \A b \in Blocks \ {placed, insertBlock} : blocks'[b] = blocks[b]
      /\ \A b \in Blocks \ {placed} : blocks'[b].owner = blocks[b].owner
      /\ Sealed(blocks'[insertBlock])
      /\ ~blocks'[insertBlock].malformed
      /\ blocks'[insertBlock].owner = currentFunction
      /\ \A c \in blocks'[insertBlock].succ : c \in blocks[insertBlock].succ \/ c = target
  BY PlainFallThrough
<1>2. PICK here \in Blocks : here = insertBlock /\ blocks[here].owner = currentFunction
  BY PlainBody
<1>3. TargetSound(here, target)'
  <2>1. CASE blocks[target].owner = currentFunction \/ placed = target
    <3>1. blocks'[target].owner = currentFunction
      BY <1>1, <2>1
    <3>. QED  BY <1>1, <1>2, <3>1 DEF TargetSound
  <2>2. CASE \E j \in 1..Len(stack') : target \in {stack'[j].join, stack'[j].other}
    BY <1>1, <1>2, <2>2 DEF TargetSound
  <2>. QED  BY <2>1, <2>2
<1>4. ASSUME NEW b \in Blocks, b # placed, blocks'[b] # blocks[b]
      PROVE  /\ blocks'[b].owner = currentFunction
             /\ Sealed(blocks'[b]) /\ ~blocks'[b].malformed
             /\ blocks[b].owner \in {NoFunc, currentFunction}
             /\ \A c \in blocks'[b].succ : c \in blocks[b].succ \/ TargetSound(b, c)'
  <2>1. b = here
    BY <1>1, <1>2, <1>4
  <2>. QED  BY <1>1, <1>2, <1>3, <2>1
<1>5. \A b \in Blocks : b > created' => blocks'[b].owner = NoFunc
  <2>. SUFFICES ASSUME NEW b \in Blocks, b > created PROVE blocks'[b].owner = NoFunc
    OBVIOUS
  <2>1. blocks[b].owner = NoFunc
    BY DEF PlainInv, BlocksSound
  <2>2. b # placed
    BY DEF TypeInv, TypeOK
  <2>. QED  BY <1>1, <2>1, <2>2
<1>. QED  BY <1>1, <1>4, <1>5, PlainAdvance

\* What the top of the stack awaits while a branch or a loop body is visited.
LEMMA PlainTop ==
    ASSUME TypeInv, PlainInv, stack # <<>>, Top.kind # "func"
    PROVE  /\ Len(stack) \in Nat /\ Len(stack) >= 2 /\ Len(stack) \in 1..Len(stack)
           /\ FrameSound(Top) /\ Top \in Frame
           /\ Top.join \in Blocks /\ blocks[Top.join].owner = NoFunc /\ Top.join <= created
           /\ Top.other # NoBlock => /\ Top.other \in Blocks /\ Top.other < Top.join
                                     /\ blocks[Top.other].owner = NoFunc
           /\ Top.kind = "loop" => /\ Top.header \in Blocks
                                   /\ blocks[Top.header].owner = currentFunction
           /\ \A i \in 1..(Len(stack) - 1) :
                /\ stack[i] \in Frame /\ FrameSound(stack[i])
                /\ stack[i].kind = "func" <=> i = 1
                /\ stack[i].kind = "loop" => stack[i].header # NoBlock
                /\ stack[i].join < Top.join /\ stack[i].other < Top.join
                /\ Top.other # NoBlock =>
                      stack[i].join < Top.other /\ stack[i].other < Top.other
<1>1. /\ stack \in Seq(Frame) /\ Len(stack) \in Nat /\ Len(stack) >= 1
      /\ Top \in Frame /\ Top = stack[Len(stack)]
      /\ Len(stack) \in 1..Len(stack)
  BY PlainBody
<1>2. /\ FrameSound(Top) /\ Len(stack) # 1
      /\ Top.join # NoBlock /\ (Top.kind = "loop" => Top.header # NoBlock)
  <2>1. FrameSound(stack[Len(stack)]) /\ (stack[Len(stack)].kind = "func" <=> Len(stack) = 1)
    BY <1>1 DEF PlainInv, Awaited
  <2>2. FrameSound(Top)
    BY <1>1, <2>1 DEF FrameSound
  <2>. QED  BY <1>1, <2>1, <2>2 DEF TypeInv
<1>3. /\ Top.join \in Blocks \cup {NoBlock} /\ Top.other \in Blocks \cup {NoBlock}
      /\ Top.header \in Blocks \cup {NoBlock}
  BY <1>1 DEF Frame
<1>4. ASSUME NEW i \in 1..(Len(stack) - 1)
      PROVE  /\ stack[i] \in Frame /\ FrameSound(stack[i])
             /\ stack[i].kind = "func" <=> i = 1
             /\ stack[i].kind = "loop" => stack[i].header # NoBlock
             /\ stack[i].join < Top.join /\ stack[i].other < Top.join
             /\ Top.other # NoBlock =>
                   stack[i].join < Top.other /\ stack[i].other < Top.other
  <2>1. i \in 1..Len(stack) /\ i < Len(stack)
    BY <1>1
  <2>2. /\ stack[i] \in Frame /\ FrameSound(stack[i])
        /\ stack[i].kind = "func" <=> i = 1
        /\ stack[i].kind = "loop" => stack[i].header # NoBlock
    BY <1>1, <2>1, ElementOfSeq DEF PlainInv, Awaited, TypeInv
  <2>3. /\ stack[i].join < Top.join
        /\ Top.other # NoBlock => stack[i].join < Top.other
    BY <1>1, <2>1 DEF PlainInv, AwaitedInOrder
  <2>4. /\ stack[i].join \in 0..MaxBlocks /\ stack[i].other \in 0..MaxBlocks
    BY <2>2, BoundsAssumption DEF Frame
  <2>5. stack[i].other <= stack[i].join
    BY <2>2, <2>4 DEF FrameSound
  <2>6. \A x, y, z \in Int : x <= y /\ y < z => x < z
    OBVIOUS
  <2>. QED  BY <1>3, <2>2, <2>3, <2>4, <2>5, <2>6
<1>5. /\ blocks[Top.join].owner = NoFunc /\ Top.join <= created
      /\ Top.other # NoBlock => Top.other < Top.join /\ blocks[Top.other].owner = NoFunc
      /\ Top.kind = "loop" => blocks[Top.header].owner = currentFunction
  BY <1>2 DEF FrameSound
<1>6. Len(stack) >= 2
  <2>1. \A n \in Nat : n >= 1 /\ n # 1 => n >= 2
    OBVIOUS
  <2>. QED  BY <1>1, <1>2, <2>1
<1>7. /\ Top.join \in Blocks /\ (Top.other # NoBlock => Top.other \in Blocks)
      /\ Top.kind = "loop" => Top.header \in Blocks
  BY <1>2, <1>3
<1>. QED  BY <1>1, <1>2, <1>4, <1>5, <1>6, <1>7, Zenon

\* A frame below the top stays sound when the top inserts what it awaited.
LEMMA PlainBelow ==
    ASSUME TypeInv, PlainInv, stack # <<>>, Top.kind # "func",
           NEW placed \in Blocks, placed \in {Top.join, Top.other},
           blocks[placed].owner = NoFunc,
           \A b \in Blocks \ {placed} : blocks'[b].owner = blocks[b].owner,
           created' = created, currentFunction' = currentFunction,
           NEW i \in 1..(Len(stack) - 1), NEW live \in BOOLEAN,
           stack'[i] = [stack[i] EXCEPT !.live = live]
    PROVE  /\ FrameSound(stack[i])' /\ (stack'[i].kind = "func" <=> i = 1)
           /\ stack'[i].join = stack[i].join /\ stack'[i].other = stack[i].other
<1>1. PICK old \in Frame : old = stack[i]
  BY PlainTop
<1>2. /\ FrameSound(old) /\ (old.kind = "loop" => old.header # NoBlock)
      /\ (old.kind = "func" <=> i = 1)
      /\ old.join # placed /\ old.other # placed
  <2>1. /\ FrameSound(stack[i]) /\ (stack[i].kind = "func" <=> i = 1)
        /\ stack[i].kind = "loop" => stack[i].header # NoBlock
        /\ stack[i].join < Top.join /\ stack[i].other < Top.join
        /\ Top.other # NoBlock => stack[i].join < Top.other /\ stack[i].other < Top.other
    BY PlainTop
  <2>2. FrameSound(old)
    BY <1>1, <2>1 DEF FrameSound
  <2>3. old.join \in 0..MaxBlocks /\ old.other \in 0..MaxBlocks /\ placed # NoBlock
    BY BoundsAssumption DEF Frame
  <2>. QED  BY <1>1, <2>1, <2>2, <2>3
<1>3. created' >= created /\ created' \in Int
  BY DEF TypeInv, TypeOK
<1>4. FrameSound(old)'
  <2>. DEFINE inserted == {placed}
  <2>1. inserted \in SUBSET Blocks /\ old.join \notin inserted /\ old.other \notin inserted
        /\ (\A b \in inserted : blocks[b].owner = NoFunc)
        /\ \A b \in Blocks \ inserted : blocks'[b].owner = blocks[b].owner
    BY <1>2
  <2>. HIDE DEF inserted
  <2>. QED  BY <1>2, <1>3, <2>1, FrameKept
<1>5. /\ stack'[i].kind = old.kind /\ stack'[i].fn = old.fn /\ stack'[i].lex = old.lex
      /\ stack'[i].header = old.header /\ stack'[i].join = old.join
      /\ stack'[i].other = old.other
  BY <1>1 DEF Frame
<1>. QED  BY <1>1, <1>2, <1>4, <1>5 DEF FrameSound

LEMMA PlainEnd ==
    ASSUME TypeInv, TypeInv', PlainInv, EndIf \/ EndLoop
    PROVE  PlainInv'
<1>1. stack # <<>> /\ Top.kind \in {"then", "else", "loop"} /\ Top.kind # "func"
      /\ (EndIf => Top.other = NoBlock)
  BY DEF EndIf, EndLoop
<1>2. /\ Len(stack) \in Nat /\ Len(stack) >= 2 /\ FrameSound(Top)
      /\ Top.join \in Blocks /\ blocks[Top.join].owner = NoFunc /\ Top.join <= created
      /\ Top.kind = "loop" => Top.header \in Blocks /\ blocks[Top.header].owner = currentFunction
      /\ Top.kind # "then" => Top.other = NoBlock
      /\ Top.fn = currentFunction
  BY <1>1, PlainTop DEF FrameSound
<1>3. PICK target \in Blocks, placed \in Blocks :
        /\ placed = Top.join
        /\ target = placed \/ blocks[target].owner = currentFunction
        /\ blocks' = Inserted([blocks EXCEPT ![insertBlock] = FallThrough(@, target)],
                              placed, currentFunction)
  <2>1. CASE EndIf
    BY <1>2, <2>1 DEF EndIf
  <2>2. CASE EndLoop
    BY <1>2, <2>2 DEF EndLoop
  <2>. QED  BY <2>1, <2>2
<1>4. /\ insertBlock' = placed /\ created' = created /\ strays' = strays
      /\ UNCHANGED <<status, entry, declared, currentFunction, hasErrors, walk>>
  BY <1>3 DEF EndIf, EndLoop, Resume, unchangedFuncs, unchangedSema
<1>5. \A b \in Blocks \ {placed} : blocks'[b].owner = blocks[b].owner
  <2>1. blocks[placed].owner = NoFunc
    BY <1>2, <1>3
  <2>2. blocks' = Inserted([blocks EXCEPT ![insertBlock] = FallThrough(@, target)],
                           placed, currentFunction)
    BY <1>3
  <2>. QED  BY <1>1, <2>1, <2>2, PlainFallThrough
<1>6. /\ stack' \in Seq(Frame) /\ Len(stack') = Len(stack) - 1
      /\ \A i \in 1..Len(stack') :
           \E live \in BOOLEAN : stack'[i] = [stack[i] EXCEPT !.live = live]
  <2>1. \E live \in BOOLEAN : stack' = BackWith(live)
    <3>1. CASE EndIf
      <4>. DEFINE live == \/ Top.live
                          \/ Top.kind = "else" /\ Top.outLive
                          \/ Top.kind = "then" /\ Len(stack) > 1 /\ stack[Len(stack) - 1].live
      <4>1. stack' = BackWith(live)
        BY <3>1, Zenon DEF EndIf
      <4>2. live \in BOOLEAN
        <5>1. Top.live \in BOOLEAN /\ Top.outLive \in BOOLEAN
          BY <1>1, PlainTop DEF Frame
        <5>. QED  BY <5>1
      <4>. QED  BY <4>1, <4>2
    <3>2. CASE EndLoop
      <4>. DEFINE live == Len(stack) > 1 /\ stack[Len(stack) - 1].live
      <4>1. stack' = BackWith(live) /\ live \in BOOLEAN
        BY <3>2 DEF EndLoop
      <4>. QED  BY <4>1
    <3>. QED  BY <3>1, <3>2
  <2>. QED  BY <1>1, <2>1, PoppedWith
<1>7. ASSUME NEW i \in 1..Len(stack')
      PROVE  /\ FrameSound(stack[i])' /\ (stack'[i].kind = "func" <=> i = 1)
             /\ stack'[i].join = stack[i].join /\ stack'[i].other = stack[i].other
             /\ i \in 1..Len(stack)
  <2>1. i \in 1..(Len(stack) - 1) /\ i \in 1..Len(stack)
    BY <1>2, <1>6
  <2>2. PICK live \in BOOLEAN : stack'[i] = [stack[i] EXCEPT !.live = live]
    BY <1>6
  <2>. QED  BY <1>1, <1>2, <1>3, <1>4, <1>5, <2>1, <2>2, PlainBelow
<1>8. Awaited'
  BY <1>7 DEF Awaited
<1>9. AwaitedInOrder'
  BY <1>7 DEF AwaitedInOrder, PlainInv
<1>10. stack' # <<>>
  BY <1>2, <1>6, EmptySeq
<1>11. ASSUME NEW i \in 1..Len(stack), NEW c \in Blocks, c \in {stack[i].join, stack[i].other}
       PROVE  c = placed \/ \E j \in 1..Len(stack') : c \in {stack'[j].join, stack'[j].other}
  <2>1. CASE i = Len(stack)
    <3>1. Top.other = NoBlock /\ stack[i] = Top
      BY <1>1, <1>2, <2>1 DEF Top, EndIf, EndLoop
    <3>. QED  BY <1>3, <1>11, <3>1
  <2>2. CASE i # Len(stack)
    <3>1. i \in 1..Len(stack')
      BY <1>2, <1>6, <2>2
    <3>. QED  BY <1>7, <1>11, <3>1
  <2>. QED  BY <2>1, <2>2
<1>. QED  BY <1>1, <1>2, <1>3, <1>4, <1>8, <1>9, <1>10, <1>11, PlainGoesOn

LEMMA PlainBeginElse ==
    ASSUME TypeInv, TypeInv', PlainInv, BeginElse
    PROVE  PlainInv'
<1>1. stack # <<>> /\ Top.kind = "then" /\ Top.other # NoBlock /\ Top.kind # "func"
  BY DEF BeginElse
<1>2. /\ Len(stack) \in Nat /\ Len(stack) >= 2 /\ Len(stack) \in 1..Len(stack)
      /\ FrameSound(Top) /\ Top \in Frame /\ stack \in Seq(Frame)
      /\ Top.join \in Blocks /\ blocks[Top.join].owner = NoFunc /\ Top.join <= created
      /\ Top.other \in Blocks /\ Top.other < Top.join /\ blocks[Top.other].owner = NoFunc
      /\ Top.fn = currentFunction /\ Top.lex = currentFunction
  BY <1>1, PlainTop, PlainBody
<1>3. PICK target \in Blocks, placed \in Blocks :
        /\ target = Top.join /\ placed = Top.other
        /\ blocks' = Inserted([blocks EXCEPT ![insertBlock] = FallThrough(@, target)],
                              placed, currentFunction)
  BY <1>2 DEF BeginElse
<1>4. /\ insertBlock' = placed /\ created' = created /\ strays' = strays
      /\ UNCHANGED <<status, entry, declared, currentFunction, hasErrors, walk>>
  BY <1>3 DEF BeginElse, unchangedFuncs, unchangedSema
<1>5. blocks[placed].owner = NoFunc /\ placed <= created /\ placed # target
  <2>1. \A x, y, z \in Int : x < y /\ y <= z => x <= z /\ x # y
    OBVIOUS
  <2>2. Top.other \in Int /\ Top.join \in Int /\ created \in Int
    BY <1>2 DEF TypeInv, TypeOK
  <2>. QED  BY <1>2, <1>3, <2>1, <2>2
<1>6. \A b \in Blocks \ {placed} : blocks'[b].owner = blocks[b].owner
  <2>1. blocks' = Inserted([blocks EXCEPT ![insertBlock] = FallThrough(@, target)],
                           placed, currentFunction)
    BY <1>3
  <2>2. blocks[placed].owner = NoFunc
    BY <1>5
  <2>. QED  BY <1>1, <2>1, <2>2, PlainFallThroughOwners
<1>. DEFINE fr == [Top EXCEPT !.kind = "else", !.other = NoBlock, !.returned = FALSE,
                              !.live = Len(stack) = 1 \/ stack[Len(stack) - 1].live,
                              !.outLive = Top.live]
<1>7. /\ Len(stack') = Len(stack) /\ stack' # <<>> /\ stack'[Len(stack)] = fr
      /\ \A i \in 1..(Len(stack) - 1) : stack'[i] = stack[i]
  <2>1. stack' = [stack EXCEPT ![Len(stack)] = fr]
    BY DEF BeginElse, Top
  <2>2. fr \in Frame
    <3>1. Len(stack) - 1 \in 1..(Len(stack) - 1) /\ Len(stack) # 1
      <4>1. \A n \in Nat : n >= 2 => n - 1 \in 1..(n - 1) /\ n # 1
        OBVIOUS
      <4>. QED  BY <1>2, <4>1
    <3>2. stack[Len(stack) - 1].live \in BOOLEAN
      BY <1>1, <3>1, PlainTop DEF Frame
    <3>3. (Len(stack) = 1 \/ stack[Len(stack) - 1].live) \in BOOLEAN
      BY <3>2
    <3>. QED  BY <1>2, <3>3 DEF Frame
  <2>. HIDE DEF fr
  <2>3. /\ stack' \in Seq(Frame) /\ Len(stack') = Len(stack)
        /\ \A j \in 1..Len(stack) : stack'[j] = IF j = Len(stack) THEN fr ELSE stack[j]
    BY <1>2, <2>1, <2>2, ExceptSeq
  <2>4. \A j \in 1..(Len(stack) - 1) : j \in 1..Len(stack) /\ j # Len(stack)
    BY <1>2
  <2>5. stack' # <<>>
    BY <1>2, <2>3, EmptySeq
  <2>6. stack'[Len(stack)] = fr
    BY <1>2, <2>3
  <2>7. \A i \in 1..(Len(stack) - 1) : stack'[i] = stack[i]
    BY <2>3, <2>4
  <2>. QED  BY <2>3, <2>5, <2>6, <2>7
<1>8. /\ fr.kind = "else" /\ fr.fn = currentFunction /\ fr.lex = currentFunction
      /\ fr.other = NoBlock /\ fr.join = target /\ fr.join # NoBlock
  BY <1>2, <1>3 DEF Frame
<1>. HIDE DEF fr
<1>9. ASSUME NEW i \in 1..(Len(stack) - 1)
      PROVE  /\ FrameSound(stack[i])' /\ (stack'[i].kind = "func" <=> i = 1)
             /\ stack'[i].join = stack[i].join /\ stack'[i].other = stack[i].other
  <2>1. stack[i] \in Frame /\ stack'[i] = stack[i]
    BY <1>1, <1>7, PlainTop
  <2>2. stack'[i] = [stack[i] EXCEPT !.live = stack[i].live] /\ stack[i].live \in BOOLEAN
    BY <2>1 DEF Frame
  <2>. QED  BY <1>1, <1>3, <1>4, <1>5, <1>6, <2>2, PlainBelow
<1>10. FrameSound(stack[Len(stack)])'
  <2>1. Len(stack)' = Len(stack) /\ stack'[Len(stack)'] = fr
    BY <1>7
  <2>2. blocks'[target].owner = NoFunc /\ target <= created
    BY <1>2, <1>3, <1>5, <1>6
  <2>. QED  BY <1>4, <1>8, <2>1, <2>2 DEF FrameSound
<1>11. Awaited'
  <2>. SUFFICES ASSUME NEW i \in 1..Len(stack')
                PROVE  FrameSound(stack[i])' /\ (stack'[i].kind = "func" <=> i = 1)
    BY DEF Awaited
  <2>1. CASE i = Len(stack')
    <3>1. FrameSound(stack[i])'
      BY <1>7, <1>10, <2>1
    <3>. QED  BY <1>2, <1>7, <1>8, <2>1, <3>1
  <2>2. CASE i # Len(stack')
    <3>1. i \in 1..(Len(stack) - 1)
      BY <1>2, <1>7, <2>2
    <3>. QED  BY <1>9, <3>1
  <2>. QED  BY <2>1, <2>2
<1>12. \A i \in 1..Len(stack) : /\ stack'[i].join = stack[i].join
                               /\ stack'[i].other \in {stack[i].other, NoBlock}
  <2>. SUFFICES ASSUME NEW i \in 1..Len(stack)
                PROVE  /\ stack'[i].join = stack[i].join
                       /\ stack'[i].other \in {stack[i].other, NoBlock}
    OBVIOUS
  <2>1. CASE i = Len(stack)
    BY <1>3, <1>7, <1>8, <2>1 DEF Top
  <2>2. CASE i # Len(stack)
    <3>1. i \in 1..(Len(stack) - 1)
      BY <1>2, <2>2
    <3>. QED  BY <1>9, <3>1
  <2>. QED  BY <2>1, <2>2
<1>13. AwaitedInOrder'
  BY <1>7, <1>12 DEF AwaitedInOrder, PlainInv
<1>14. ASSUME NEW i \in 1..Len(stack), NEW c \in Blocks, c \in {stack[i].join, stack[i].other}
       PROVE  c = placed \/ \E j \in 1..Len(stack') : c \in {stack'[j].join, stack'[j].other}
  <2>1. CASE i = Len(stack)
    BY <1>2, <1>3, <1>7, <1>8, <1>14, <2>1 DEF Top
  <2>2. CASE i # Len(stack)
    <3>1. i \in 1..(Len(stack) - 1) /\ i \in 1..Len(stack')
      BY <1>2, <1>7, <2>2
    <3>. QED  BY <1>9, <1>14, <3>1
  <2>. QED  BY <2>1, <2>2
<1>15. \E j \in 1..Len(stack') : target \in {stack'[j].join, stack'[j].other}
  BY <1>2, <1>7, <1>8
<1>16. blocks' = Inserted([blocks EXCEPT ![insertBlock] = FallThrough(@, target)],
                          placed, currentFunction)
  BY <1>3
<1>. QED  BY <1>1, <1>4, <1>5, <1>7, <1>11, <1>13, <1>14, <1>15, <1>16, PlainGoesOn

\* Between functions nothing is awaited: branches stay in their function.
LEMMA PlainTopLevel ==
    ASSUME TypeInv, PlainInv, stack = <<>> \/ Top.kind = "func"
    PROVE  /\ stack # <<>> => Len(stack) = 1
           /\ \A b \in Blocks : \A c \in blocks[b].succ :
                 c \in Blocks /\ blocks[c].owner = blocks[b].owner /\ blocks[b].owner # NoFunc
<1>1. /\ stack # <<>> => Len(stack) = 1
      /\ \A i \in 1..Len(stack) : stack[i].join = NoBlock /\ stack[i].other = NoBlock
  <2>1. CASE stack = <<>>
    BY <2>1, EmptySeq
  <2>2. CASE stack # <<>>
    <3>1. Len(stack) \in Nat /\ Len(stack) >= 1 /\ Top = stack[Len(stack)]
          /\ Len(stack) \in 1..Len(stack)
      BY <2>2, PlainBody
    <3>2. Len(stack) = 1
      BY <2>2, <3>1 DEF PlainInv, Awaited
    <3>3. FrameSound(stack[1]) /\ stack[1].kind = "func"
      BY <3>1, <3>2 DEF PlainInv, Awaited
    <3>. QED  BY <3>2, <3>3 DEF FrameSound
  <2>. QED  BY <2>1, <2>2
<1>2. ASSUME NEW b \in Blocks, NEW c \in blocks[b].succ
      PROVE  c \in Blocks /\ blocks[c].owner = blocks[b].owner /\ blocks[b].owner # NoFunc
  <2>1. c \in Blocks /\ c # NoBlock
    BY DEF TypeInv, TypeOK, Block
  <2>2. TargetSound(b, c)
    BY DEF PlainInv, BlocksSound
  <2>3. blocks[b].owner # NoFunc
    BY DEF PlainInv, BlocksSound, FreshBlock
  <2>. QED  BY <1>1, <2>1, <2>2, <2>3 DEF TargetSound
<1>. QED  BY <1>1, <1>2

LEMMA PlainBeginFunc ==
    ASSUME TypeInv, TypeInv', PlainInv, Shapes = {},
           NEW hasParams \in BOOLEAN, BeginFunc(hasParams)
    PROVE  PlainInv'
<1>1. stack = <<>>
  BY DEF BeginFunc
<1>. DEFINE f == declared + 1
            bb == created + 1
            bs == IF hasParams THEN [blocks EXCEPT ![bb] = Emitted(@, "op", {})] ELSE blocks
            fr == [kind |-> "func", lex |-> f, fn |-> f, header |-> NoBlock,
                   other |-> NoBlock, join |-> NoBlock, returned |-> FALSE,
                   live |-> TRUE, outLive |-> FALSE]
<1>2. /\ declared \in Nat /\ created \in Nat /\ f \in Funcs /\ bb \in Blocks
      /\ declared < f /\ created < bb /\ bb > created
  <2>1. declared < MaxFuncs /\ created < MaxBlocks
    BY DEF BeginFunc
  <2>2. declared \in 0..MaxFuncs /\ created \in 0..MaxBlocks
    BY DEF TypeInv, TypeOK
  <2>. QED  BY <2>1, <2>2, BoundsAssumption
<1>3. blocks[bb] = FreshBlock /\ blocks[bb].owner = NoFunc
  BY <1>2 DEF PlainInv, BlocksSound
<1>4. /\ fr.kind = "func" /\ fr.lex = f /\ fr.fn = f /\ fr.join = NoBlock
      /\ fr.other = NoBlock /\ ~fr.returned
  OBVIOUS
<1>5. /\ blocks' = Inserted(bs, bb, f) /\ insertBlock' = bb /\ currentFunction' = f
      /\ declared' = f /\ created' = bb /\ stack' = Append(stack, fr)
      /\ status' = [status EXCEPT ![f] = "open"] /\ entry' = [entry EXCEPT ![f] = bb]
      /\ UNCHANGED <<hasErrors, strays, walk>>
  BY DEF BeginFunc
<1>. DEFINE e == IF hasParams THEN Emitted(FreshBlock, "op", {}) ELSE FreshBlock
<1>6. /\ e \in Block /\ ~e.malformed /\ e.succ = {} /\ ~Sealed(e)
  <2>1. FreshBlock \in Block /\ ~FreshBlock.malformed /\ ~Sealed(FreshBlock)
        /\ FreshBlock.succ = {}
    <3>1. {} \in SUBSET Blocks
      OBVIOUS
    <3>. QED  BY <3>1 DEF FreshBlock, Block, Sealed, Terminators
  <2>. QED  BY <2>1, Appended
<1>7. bs \in [Blocks -> Block] /\ bs[bb] = e /\ \A b \in Blocks : b # bb => bs[b] = blocks[b]
  <2>1. blocks \in [Blocks -> Block]
    BY DEF TypeInv, TypeOK
  <2>. QED  BY <1>2, <1>3, <1>6, <2>1
<1>. HIDE DEF e, bs, fr
<1>8. /\ blocks'[bb] = [e EXCEPT !.owner = f]
      /\ \A b \in Blocks : b # bb => blocks'[b] = blocks[b]
  BY <1>2, <1>5, <1>7 DEF Inserted
<1>9. /\ blocks'[bb].owner = f /\ ~blocks'[bb].malformed /\ blocks'[bb].succ = {}
      /\ ~Sealed(blocks'[bb])
  BY <1>6, <1>8 DEF Block, Sealed
<1>10. Len(stack') = 1 /\ stack'[1] = fr /\ stack' # <<>> /\ Top' = fr
  <2>1. Append(<<>>, fr) = <<fr>>
    OBVIOUS
  <2>. QED  BY <1>1, <1>5, <2>1 DEF Top
<1>11. Awaited' /\ AwaitedInOrder'
  <2>1. \A i \in 1..Len(stack') : i = 1
    BY <1>10
  <2>2. FrameSound(stack[1])' /\ stack'[1].kind = "func"
    BY <1>4, <1>5, <1>10 DEF FrameSound
  <2>. QED  BY <2>1, <2>2 DEF Awaited, AwaitedInOrder
<1>12. BlocksSound'
  <2>. SUFFICES ASSUME NEW b \in Blocks
                PROVE  /\ ~blocks'[b].malformed
                       /\ b > created' => blocks'[b].owner = NoFunc
                       /\ blocks'[b].owner = NoFunc => blocks'[b] = FreshBlock
                       /\ blocks'[b].owner <= declared'
                       /\ blocks'[b].owner # NoFunc /\ (stack' = <<>> \/ b # insertBlock')
                             => Sealed(blocks'[b])
                       /\ \A c \in blocks'[b].succ : TargetSound(b, c)'
    BY DEF BlocksSound, Sealed
  <2>1. CASE b = bb
    BY <1>2, <1>5, <1>9, <2>1
  <2>2. CASE b # bb
    <3>1. blocks'[b] = blocks[b] /\ blocks[b] \in Block
      BY <1>8, <2>2 DEF TypeInv, TypeOK
    <3>2. ASSUME NEW c \in blocks[b].succ PROVE TargetSound(b, c)'
      <4>1. c \in Blocks /\ blocks[c].owner = blocks[b].owner /\ blocks[b].owner # NoFunc
        BY <1>1, PlainTopLevel
      <4>2. blocks'[c] = blocks[c]
        BY <1>3, <1>8, <4>1
      <4>. QED  BY <3>1, <4>1, <4>2 DEF TargetSound
    <3>3. b > bb => b > created
      BY <1>2
    <3>4. blocks[b].owner <= declared => blocks[b].owner <= f
      <4>1. blocks[b].owner \in Int
        BY <3>1 DEF Block
      <4>. QED  BY <1>2, <4>1
    <3>5. /\ ~blocks[b].malformed
          /\ b > created => blocks[b].owner = NoFunc
          /\ blocks[b].owner = NoFunc => blocks[b] = FreshBlock
          /\ blocks[b].owner <= declared
          /\ blocks[b].owner # NoFunc => Sealed(blocks[b])
      BY <1>1 DEF PlainInv, BlocksSound
    <3>. QED  BY <1>5, <3>1, <3>2, <3>3, <3>4, <3>5
  <2>. QED  BY <2>1, <2>2
<1>13. InsertionSound'
  <2>1. status'[f] = "open" /\ entry'[f] = bb /\ f # NoFunc /\ bb # NoBlock
    BY <1>2, <1>5 DEF TypeInv, TypeOK
  <2>. QED  BY <1>4, <1>5, <1>9, <1>10, <2>1 DEF InsertionSound, Sealed
<1>14. \A g \in Funcs : status'[g] # "erased"
  BY <1>2, <1>5 DEF PlainInv, TypeInv, TypeOK
<1>. QED  BY <1>5, <1>11, <1>12, <1>13, <1>14 DEF PlainInv

\* The end of a function finds all of its blocks as the verifier wants them.
LEMMA PlainEndFunc ==
    ASSUME TypeInv, TypeInv', PlainInv, EndFunc
    PROVE  PlainInv'
<1>1. stack # <<>> /\ Top.kind = "func" /\ Len(stack) = 1
  BY PlainTopLevel DEF EndFunc
<1>2. /\ insertBlock \in Blocks /\ blocks[insertBlock] \in Block
      /\ blocks[insertBlock].owner = currentFunction
      /\ ~blocks[insertBlock].malformed
      /\ currentFunction \in Funcs /\ currentFunction # NoFunc /\ Top.lex = currentFunction
  BY <1>1, PlainBody DEF PlainInv, InsertionSound
<1>3. PICK here \in Blocks : here = insertBlock
  BY <1>2
<1>. DEFINE e == DefaultReturn(blocks[here])
            finished == [blocks EXCEPT ![here] = e]
            verified == FunctionOK(finished, currentFunction)
<1>4. e.owner = currentFunction /\ ~e.malformed /\ Sealed(e) /\ e.succ = blocks[here].succ
  <2>1. CASE Sealed(blocks[here])
    BY <1>2, <1>3, <2>1 DEF DefaultReturn
  <2>2. CASE ~Sealed(blocks[here])
    <3>1. e = Emitted(blocks[here], "ret", {})
      BY <2>2 DEF DefaultReturn
    <3>. QED  BY <1>2, <1>3, <2>2, <3>1, Appended
  <2>. QED  BY <2>1, <2>2
<1>5. /\ blocks' = finished
      /\ status' = [status EXCEPT ![currentFunction] = IF verified THEN "kept" ELSE "erased"]
      /\ hasErrors' = (hasErrors \/ ~verified)
      /\ stack' = Popped
      /\ UNCHANGED <<created, entry, declared, insertBlock, currentFunction, strays, walk>>
  BY <1>2, <1>3 DEF EndFunc
<1>. HIDE DEF e
<1>6. finished[here] = e /\ \A b \in Blocks : b # here => finished[b] = blocks[b]
  BY DEF TypeInv, TypeOK
<1>7. \A b \in Blocks : /\ finished[b].owner = blocks[b].owner
                        /\ finished[b].succ = blocks[b].succ
                        /\ ~finished[b].malformed
                        /\ blocks[b].owner # NoFunc => Sealed(finished[b])
  <2>. SUFFICES ASSUME NEW b \in Blocks
                PROVE  /\ finished[b].owner = blocks[b].owner
                       /\ finished[b].succ = blocks[b].succ
                       /\ ~finished[b].malformed
                       /\ blocks[b].owner # NoFunc => Sealed(finished[b])
    OBVIOUS
  <2>. HIDE DEF finished
  <2>1. CASE b = here
    BY <1>2, <1>3, <1>4, <1>6, <2>1
  <2>2. CASE b # here
    BY <1>3, <1>6, <2>2 DEF PlainInv, BlocksSound
  <2>. QED  BY <2>1, <2>2
<1>8. \A b \in Blocks : \A c \in finished[b].succ :
         c \in Blocks /\ finished[c].owner = finished[b].owner
  <2>. HIDE DEF finished
  <2>. QED  BY <1>1, <1>7, PlainTopLevel
<1>9. verified
  <2>. HIDE DEF finished
  <2>. QED  BY <1>2, <1>7, <1>8 DEF FunctionOK
<1>. HIDE DEF finished, verified
<1>10. stack' = <<>> /\ Len(stack') = 0
  <2>1. stack' \in Seq(Frame) /\ Len(stack') = 0
    <3>1. stack \in Seq(Frame)
      BY <1>1, PlainBody
    <3>. QED  BY <1>1, <1>5, <3>1, PopSeq DEF Popped
  <2>. QED  BY <2>1, EmptySeq
<1>11. Awaited' /\ AwaitedInOrder' /\ InsertionSound'
  <2>1. 1..Len(stack') = {}
    BY <1>10
  <2>. QED  BY <1>10, <2>1 DEF Awaited, AwaitedInOrder, InsertionSound
<1>12. BlocksSound'
  <2>. SUFFICES ASSUME NEW b \in Blocks
                PROVE  /\ ~blocks'[b].malformed
                       /\ b > created' => blocks'[b].owner = NoFunc
                       /\ blocks'[b].owner = NoFunc => blocks'[b] = FreshBlock
                       /\ blocks'[b].owner <= declared'
                       /\ blocks'[b].owner # NoFunc => Sealed(blocks'[b])
                       /\ \A c \in blocks'[b].succ : TargetSound(b, c)'
    BY DEF BlocksSound, Sealed
  <2>1. /\ b > created => blocks[b].owner = NoFunc
        /\ blocks[b].owner = NoFunc => blocks[b] = FreshBlock
        /\ blocks[b].owner <= declared
    BY DEF PlainInv, BlocksSound
  <2>2. blocks'[b].owner = NoFunc => blocks'[b] = FreshBlock
    BY <1>2, <1>3, <1>5, <1>6, <1>7, <2>1
  <2>3. \A c \in blocks'[b].succ : TargetSound(b, c)'
    BY <1>5, <1>8 DEF TargetSound
  <2>. QED  BY <1>5, <1>7, <2>1, <2>2, <2>3
<1>13. hasErrors' = FALSE /\ \A f \in Funcs : status'[f] # "erased"
  BY <1>2, <1>5, <1>9 DEF PlainInv, TypeInv, TypeOK
<1>. QED  BY <1>5, <1>11, <1>12, <1>13 DEF PlainInv

\* The verification of the module finds nothing either.
LEMMA PlainFinish ==
    ASSUME TypeInv, TypeInv', PlainInv, Finish
    PROVE  PlainInv'
<1>1. stack = <<>>
  BY DEF Finish
<1>2. \A f \in Funcs : FunctionOK(blocks, f)
  <2>. SUFFICES ASSUME NEW f \in Funcs, NEW b \in Blocks, blocks[b].owner = f
                PROVE  /\ Sealed(blocks[b]) /\ ~blocks[b].malformed
                       /\ \A c \in blocks[b].succ : blocks[c].owner = f
    BY DEF FunctionOK
  <2>1. Sealed(blocks[b]) /\ ~blocks[b].malformed
    BY <1>1 DEF PlainInv, BlocksSound
  <2>. QED  BY <1>1, <2>1, PlainTopLevel
<1>3. ~hasErrors' /\ walk' = "accepted"
  BY <1>2 DEF Finish, PlainInv
<1>4. UNCHANGED <<blocks, created, status, entry, declared, insertBlock, currentFunction,
                  stack, strays>>
  BY DEF Finish, unchangedFuncs
<1>5. Awaited' /\ AwaitedInOrder' /\ InsertionSound'
  BY <1>4 DEF PlainInv, Awaited, AwaitedInOrder, InsertionSound, FrameSound, Top
<1>6. BlocksSound'
  BY <1>4 DEF PlainInv, BlocksSound, TargetSound
<1>. QED  BY <1>3, <1>4, <1>5, <1>6 DEF PlainInv

\* No visit of such a program meets a block or a function that was erased.
LEMMA PlainDefined ==
    ASSUME TypeInv, PlainInv, Shapes = {}
    PROVE  ~UndefinedUse
<1>1. CASE stack = <<>>
  BY <1>1 DEF UndefinedUse, MayState, MayNest
<1>2. CASE stack # <<>>
  BY <1>2, PlainBody DEF UndefinedUse, PlainInv
<1>. QED  BY <1>1, <1>2

\* A global with a constant initialiser emits no code, and a plain program
\* has no other.
LEMMA PlainGlobal ==
    ASSUME PlainInv, Shapes = {}, NEW constant \in BOOLEAN, GlobalDecl(constant)
    PROVE  UNCHANGED vars
<1>1. stack = <<>>
  BY DEF GlobalDecl, PlainInv, InsertionSound
<1>2. constant
  BY <1>1 DEF GlobalDecl, MayState
<1>. QED  BY <1>2 DEF GlobalDecl, vars, unchangedFuncs, unchangedSema

LEMMA PlainStep ==
    ASSUME TypeInv, TypeInv', PlainInv, Shapes = {}, [Next]_vars
    PROVE  PlainInv'
<1>1. CASE SimpleStmt \/ SkippedIf \/ \E init \in BOOLEAN : LocalDecl(init)
  BY <1>1, PlainStatements
<1>2. CASE ReturnStmt
  BY <1>2, PlainReturn
<1>3. CASE \E hasElse \in BOOLEAN : BeginIf(hasElse)
  BY <1>3, PlainBeginIf
<1>4. CASE BeginElse
  BY <1>4, PlainBeginElse
<1>5. CASE EndIf \/ EndLoop
  BY <1>5, PlainEnd
<1>6. CASE \E valued \in BOOLEAN : BeginLoop(valued)
  BY <1>6, PlainBeginLoop
<1>7. CASE \E hasParams \in BOOLEAN : BeginFunc(hasParams)
  BY <1>7, PlainBeginFunc
<1>8. CASE EndFunc
  BY <1>8, PlainEndFunc
<1>9. CASE Finish
  BY <1>9, PlainFinish
<1>10. CASE UndefinedUse
  BY <1>10, PlainDefined
<1>11. CASE Ended \/ UNCHANGED vars \/ \E constant \in BOOLEAN : GlobalDecl(constant)
  <2>1. UNCHANGED vars
    BY <1>11, PlainGlobal DEF Ended
  <2>. QED  BY <2>1 DEF vars, PlainInv, Awaited, AwaitedInOrder, InsertionSound, FrameSound,
                        Top, BlocksSound, TargetSound, Sealed
<1>. QED  BY <1>1, <1>2, <1>3, <1>4, <1>5, <1>6, <1>7, <1>8, <1>9, <1>10, <1>11 DEF Next

\* The inductive invariant: every program without the unusual shapes, of any
\* size, is built in the way that BlocksSound and Awaited describe.
THEOREM PlainSound == Shapes = {} => (Spec => []PlainInv)
<1>. SUFFICES ASSUME Shapes = {} PROVE Spec => []PlainInv
  OBVIOUS
<1>1. Init => TypeInv /\ PlainInv
  BY TypeInit, PlainInit
<1>2. TypeInv /\ PlainInv /\ [Next]_vars => (TypeInv /\ PlainInv)'
  <2>1. TypeInv /\ [Next]_vars => TypeInv'
    BY TypeStep
  <2>. QED  BY <2>1, PlainStep
<1>. QED  BY <1>1, <1>2, PTL DEF Spec

\* LLVM's verifier never objects to what the generator builds for such a
\* program (CodeGenerator.cpp:25, 779).
THEOREM VerifierIsSilent == Shapes = {} => (Spec => []VerifierSilent)
<1>1. PlainInv => VerifierSilent
  BY DEF PlainInv, VerifierSilent
<1>. QED  BY <1>1, PlainSound, PTL

\* Throughout a body the insertion point and currentFunction_ are those of the
\* function the source text is in (CodeGenerator.cpp:586-615, 620-648).
THEOREM InsertPointKept == Shapes = {} => (Spec => []InsertPointAtHome)
<1>1. TypeInv /\ PlainInv => InsertPointAtHome
  BY PlainBody DEF InsertPointAtHome
<1>. QED  BY <1>1, PlainSound, TypeInvariant, PTL

-----------------------------------------------------------------------------
(* Terminated blocks *)

\* A terminated block is inserted, so no visit awaits it or will create it;
\* where a statement may come next it is not the insertion point either.
LEMMA SealedPlace ==
    ASSUME TypeInv, PlainInv, Shapes = {}, NEW b \in Blocks, Sealed(blocks[b])
    PROVE  /\ blocks[b].owner # NoFunc /\ b <= created
           /\ MayState => stack # <<>> /\ insertBlock \in Blocks /\ b # insertBlock
           /\ WithAlloca(blocks[b]) = blocks[b]
<1>1. blocks[b].owner # NoFunc
  <2>1. ~Sealed(FreshBlock)
    BY DEF FreshBlock, Sealed, Terminators
  <2>. QED  BY <2>1 DEF PlainInv, BlocksSound
<1>2. b <= created
  <2>1. ~(b > created)
    BY <1>1 DEF PlainInv, BlocksSound
  <2>. QED  BY <2>1 DEF TypeInv, TypeOK
<1>3. MayState => stack # <<>> /\ insertBlock \in Blocks /\ b # insertBlock
  <2>. SUFFICES ASSUME MayState
                PROVE  stack # <<>> /\ insertBlock \in Blocks /\ b # insertBlock
    OBVIOUS
  <2>1. stack # <<>> /\ ~Top.returned
    BY DEF MayState
  <2>2. ~Sealed(blocks[insertBlock])
    BY <2>1 DEF PlainInv, InsertionSound
  <2>. QED  BY <2>1, <2>2, PlainBody
<1>4. WithAlloca(blocks[b]) = blocks[b]
  BY DEF WithAlloca, Sealed, Terminators
<1>. QED  BY <1>1, <1>2, <1>3, <1>4

\* Replacing one block, and inserting one, leave the others alone.
LEMMA OthersKept ==
    ASSUME NEW bs, NEW b \in DOMAIN bs, NEW c, NEW e, NEW f, b # c
    PROVE  /\ b \in DOMAIN [bs EXCEPT ![c] = e] /\ [bs EXCEPT ![c] = e][b] = bs[b]
           /\ Inserted(bs, c, f)[b] = bs[b]
BY DEF Inserted

\* A visit that begins ends the block it is in, which was open, and places
\* blocks that are new.
LEMMA SealedBegins ==
    ASSUME TypeInv, PlainInv, Shapes = {}, NEW b \in Blocks, Sealed(blocks[b]),
           \/ \E hasElse \in BOOLEAN : BeginIf(hasElse)
           \/ \E valued \in BOOLEAN : BeginLoop(valued)
           \/ \E hasParams \in BOOLEAN : BeginFunc(hasParams)
    PROVE  blocks'[b] = blocks[b]
<1>1. b <= created /\ b \in DOMAIN blocks /\ b # created + 1 /\ b # created + 2
  BY SealedPlace DEF TypeInv, TypeOK
<1>2. ASSUME NEW hasElse \in BOOLEAN, BeginIf(hasElse)
      PROVE  blocks'[b] = blocks[b]
  <2>. DEFINE e == Emitted(blocks[insertBlock], "condbr",
                           {created + 1, FalseTarget(hasElse, created + 2, created + 3)})
              bs == [blocks EXCEPT ![insertBlock] = e]
  <2>1. b # insertBlock
    BY <1>2, SealedPlace DEF BeginIf, MayNest
  <2>2. blocks' = Inserted(bs, created + 1, blocks[insertBlock].owner)
    BY <1>2 DEF BeginIf
  <2>. HIDE DEF e
  <2>3. b \in DOMAIN bs /\ bs[b] = blocks[b]
    BY <1>1, <2>1, OthersKept
  <2>. HIDE DEF bs
  <2>. QED  BY <1>1, <2>2, <2>3, OthersKept
<1>3. ASSUME NEW valued \in BOOLEAN, BeginLoop(valued)
      PROVE  blocks'[b] = blocks[b]
  <2>. DEFINE e == Emitted(blocks[insertBlock], "br", {created + 1})
              fn == blocks[insertBlock].owner
              tested == LoopCond(fn, valued, created + 2, created + 3)
              ended == [blocks EXCEPT ![insertBlock] = e]
              bs == [ended EXCEPT ![created + 1] = tested]
  <2>1. b # insertBlock
    BY <1>3, SealedPlace DEF BeginLoop, MayNest
  <2>2. blocks' = Inserted(bs, created + 2, fn)
    BY <1>3 DEF BeginLoop
  <2>. HIDE DEF e, tested, fn
  <2>3. b \in DOMAIN ended /\ ended[b] = blocks[b]
    BY <1>1, <2>1, OthersKept
  <2>. HIDE DEF ended
  <2>4. b \in DOMAIN bs /\ bs[b] = blocks[b]
    BY <1>1, <2>3, OthersKept
  <2>. HIDE DEF bs
  <2>. QED  BY <1>1, <2>2, <2>4, OthersKept
<1>4. ASSUME NEW hasParams \in BOOLEAN, BeginFunc(hasParams)
      PROVE  blocks'[b] = blocks[b]
  <2>. DEFINE e == Emitted(blocks[created + 1], "op", {})
              bs == IF hasParams THEN [blocks EXCEPT ![created + 1] = e] ELSE blocks
  <2>1. blocks' = Inserted(bs, created + 1, declared + 1)
    BY <1>4 DEF BeginFunc
  <2>. HIDE DEF e
  <2>2. b \in DOMAIN bs /\ bs[b] = blocks[b]
    BY <1>1, OthersKept
  <2>. HIDE DEF bs
  <2>. QED  BY <1>1, <2>1, <2>2, OthersKept
<1>. QED  BY <1>2, <1>3, <1>4

\* A visit that ends adds a branch or a return to the block it is in only if
\* that is open, and places a block that was awaited.
LEMMA SealedEnds ==
    ASSUME TypeInv, PlainInv, NEW b \in Blocks, Sealed(blocks[b]), blocks[b].owner # NoFunc,
           BeginElse \/ EndIf \/ EndLoop \/ EndFunc
    PROVE  blocks'[b] = blocks[b]
<1>1. stack # <<>> /\ b \in DOMAIN blocks
  BY DEF BeginElse, EndIf, EndLoop, EndFunc, TypeInv, TypeOK
<1>2. /\ Len(stack) \in 1..Len(stack) /\ Top = stack[Len(stack)] /\ insertBlock \in Blocks
      /\ FrameSound(Top)
  <2>1. Len(stack) \in 1..Len(stack) /\ Top = stack[Len(stack)] /\ insertBlock \in Blocks
    BY <1>1, PlainBody
  <2>. QED  BY <2>1 DEF PlainInv, Awaited, FrameSound
<1>3. \A target : FallThrough(blocks[b], target) = blocks[b]
  BY DEF FallThrough
<1>4. DefaultReturn(blocks[b]) = blocks[b]
  BY DEF DefaultReturn
<1>5. ASSUME NEW target, NEW placed, placed # b,
             blocks' = Inserted([blocks EXCEPT ![insertBlock] = FallThrough(@, target)],
                                placed, Top.fn)
      PROVE  blocks'[b] = blocks[b]
  <2>. DEFINE e == FallThrough(blocks[insertBlock], target)
              bs == [blocks EXCEPT ![insertBlock] = e]
  <2>1. b = insertBlock => e = blocks[b]
    BY <1>3
  <2>. HIDE DEF e
  <2>2. b \in DOMAIN bs /\ bs[b] = blocks[b]
    BY <1>1, <2>1
  <2>3. blocks' = Inserted(bs, placed, Top.fn)
    BY <1>5 DEF e
  <2>. HIDE DEF bs
  <2>. QED  BY <1>5, <2>2, <2>3, OthersKept
<1>6. CASE BeginElse
  <2>1. Top.other # b
    BY <1>2, <1>6 DEF BeginElse, FrameSound
  <2>2. blocks' = Inserted([blocks EXCEPT ![insertBlock] = FallThrough(@, Top.join)],
                           Top.other, Top.fn)
    BY <1>6 DEF BeginElse
  <2>. QED  BY <1>5, <2>1, <2>2
<1>7. CASE EndIf \/ EndLoop
  <2>1. Top.join # b
    BY <1>2 DEF FrameSound
  <2>2. PICK target : blocks' = Inserted([blocks EXCEPT ![insertBlock] = FallThrough(@, target)],
                                         Top.join, Top.fn)
    BY <1>7 DEF EndIf, EndLoop
  <2>. QED  BY <1>5, <2>1, <2>2
<1>8. CASE EndFunc
  <2>1. blocks' = [blocks EXCEPT ![insertBlock] = DefaultReturn(@)]
    BY <1>8 DEF EndFunc
  <2>. QED  BY <1>1, <1>4, <2>1
<1>. QED  BY <1>6, <1>7, <1>8

LEMMA SealedStep ==
    ASSUME TypeInv, PlainInv, Shapes = {}, [Next]_vars, NEW b \in Blocks, Sealed(blocks[b])
    PROVE  blocks'[b] = blocks[b]
<1>1. /\ blocks[b].owner # NoFunc /\ b \in DOMAIN blocks
      /\ MayState => b # insertBlock
      /\ WithAlloca(blocks[b]) = blocks[b]
  BY SealedPlace DEF TypeInv, TypeOK
<1>2. CASE SimpleStmt \/ SkippedIf \/ ReturnStmt
  BY <1>1, <1>2 DEF SimpleStmt, SkippedIf, ReturnStmt
<1>3. ASSUME NEW init \in BOOLEAN, LocalDecl(init)
      PROVE  blocks'[b] = blocks[b]
  <2>. DEFINE en == entry[currentFunction]
              e == WithAlloca(blocks[en])
              allocated == [blocks EXCEPT ![en] = e]
              st == [Emitted(allocated[insertBlock], "op", {}) EXCEPT
                        !.malformed = @ \/ allocated[insertBlock].owner # currentFunction]
  <2>1. blocks' = IF init THEN [allocated EXCEPT ![insertBlock] = st] ELSE allocated
    BY <1>3 DEF LocalDecl
  <2>2. b = en => e = blocks[b]
    BY <1>1
  <2>. HIDE DEF e
  <2>3. b \in DOMAIN allocated /\ allocated[b] = blocks[b]
    BY <1>1, <2>2
  <2>4. b # insertBlock
    BY <1>1, <1>3 DEF LocalDecl
  <2>. HIDE DEF allocated, st
  <2>. QED  BY <2>1, <2>3, <2>4
<1>4. CASE (\E hasElse \in BOOLEAN : BeginIf(hasElse))
           \/ (\E valued \in BOOLEAN : BeginLoop(valued))
           \/ (\E hasParams \in BOOLEAN : BeginFunc(hasParams))
  BY <1>4, SealedBegins
<1>5. CASE BeginElse \/ EndIf \/ EndLoop \/ EndFunc
  BY <1>1, <1>5, SealedEnds
<1>6. CASE Finish \/ UndefinedUse \/ Ended \/ UNCHANGED vars
           \/ (\E constant \in BOOLEAN : GlobalDecl(constant))
  BY <1>6 DEF Finish, UndefinedUse, Ended, GlobalDecl, vars
<1>. QED  BY <1>2, <1>3, <1>4, <1>5, <1>6 DEF Next

\* No step of the generator changes a block that has its terminator, in a
\* program without the unusual shapes: nothing is appended behind a branch or
\* a return (CodeGenerator.cpp:600, 609, 643, 771).
THEOREM SealedFrozen == Shapes = {} => (Spec => SealedBlocksFrozen)
<1>. SUFFICES ASSUME Shapes = {} PROVE Spec => SealedBlocksFrozen
  OBVIOUS
<1>1. TypeInv /\ PlainInv /\ [Next]_vars
        => [\A b \in Blocks : Sealed(blocks[b]) => blocks'[b] = blocks[b]]_vars
  BY SealedStep
<1>. QED  BY <1>1, PlainSound, TypeInvariant, PTL DEF Spec, SealedBlocksFrozen

-----------------------------------------------------------------------------
(* Programs of every shape: what is misplaced is rejected *)

\* A block of some function that the verifier objects to.
Found == \E b \in Blocks : blocks[b].malformed /\ blocks[b].owner # NoFunc

\* A block belongs to a function visited already, once it exists.
WholeBlocks ==
    \A b \in Blocks :
        /\ blocks[b].owner <= declared
        /\ b > created => blocks[b].owner = NoFunc

\* An insertion point that is not in the function of the source text cannot be
\* appended to unnoticed: it is sealed, or the verifier objects already.
WholeInsert ==
    insertBlock # NoBlock =>
        /\ insertBlock <= created
        /\ blocks[insertBlock].owner # NoFunc
        /\ \/ blocks[insertBlock].owner = Lex
           \/ Sealed(blocks[insertBlock])
           \/ Found

\* A branch or a loop is in the function the visit around it is in, and
\* continues in the function that its source text is in or the verifier objects.
WholeFrame(i) ==
    /\ stack[i].fn # NoFunc /\ stack[i].fn <= declared
    /\ stack[i].join <= created /\ stack[i].other <= created
    /\ stack[i].fn = stack[i].lex \/ Found
    /\ stack[i].kind # "func" =>
          stack[i].lex = IF i = 1 THEN NoFunc ELSE stack[i - 1].lex

\* A function declared is open while it is visited, and then kept or erased.
WholeStatus ==
    \A f \in Funcs :
        /\ f <= declared => status[f] # "absent"
        /\ status[f] = "erased" => hasErrors
        /\ status[f] = "open" =>
              \E i \in 1..Len(stack) : stack[i].kind = "func" /\ stack[i].lex = f

WholeInv ==
    /\ TypeInv
    /\ WholeBlocks /\ WholeInsert /\ WholeStatus
    /\ \A i \in 1..Len(stack) : WholeFrame(i)
    /\ "elsewhere" \in strays => Found
    /\ MisplacedIsRejected

\* What the changes to a frame between the two ends of its visit leave alone.
SameVisit(fr, gr) ==
    /\ gr.fn = fr.fn /\ gr.lex = fr.lex /\ gr.join = fr.join
    /\ gr.kind = "func" <=> fr.kind = "func"
    /\ gr.other \in {fr.other, NoBlock}

LEMMA WholeInit == Init => WholeInv
<1>. SUFFICES ASSUME Init PROVE WholeInv
  OBVIOUS
<1>1. TypeInv
  BY TypeInit
<1>2. Len(stack) = 0 /\ 1..Len(stack) = {}
  BY EmptySeq DEF Init
<1>3. WholeBlocks
  BY BoundsAssumption DEF Init, WholeBlocks, FreshBlock
<1>4. WholeInsert /\ WholeStatus
  BY DEF Init, WholeInsert, WholeStatus
<1>. QED  BY <1>1, <1>2, <1>3, <1>4 DEF Init, WholeInv, MisplacedIsRejected

\* The function the source text is in, from the length of the stack.
LEMMA LexTop ==
    /\ stack \in Seq(Frame) =>
          Lex = IF Len(stack) = 0 THEN NoFunc ELSE stack[Len(stack)].lex
    /\ stack' \in Seq(Frame) =>
          Lex' = IF Len(stack') = 0 THEN NoFunc ELSE stack'[Len(stack')].lex
BY EmptySeq DEF Lex, Top

\* The verifier's objection does not go away.
LEMMA FoundStays ==
    ASSUME WholeInv, Found,
           \A b \in Blocks : b <= created =>
              /\ blocks[b].malformed => blocks'[b].malformed
              /\ blocks[b].owner # NoFunc => blocks'[b].owner # NoFunc
    PROVE  Found'
<1>1. PICK b \in Blocks : blocks[b].malformed /\ blocks[b].owner # NoFunc
  BY DEF Found
<1>2. b <= created
  <2>1. created \in Int
    BY DEF WholeInv, TypeInv, TypeOK
  <2>. QED  BY <1>1, <2>1 DEF WholeInv, WholeBlocks
<1>. QED  BY <1>1, <1>2 DEF Found

\* Endings of a block keep the objections to it; the default return seals it.
LEMMA EndingKeeps ==
    ASSUME NEW blk \in Block, NEW target \in Blocks
    PROVE  /\ blk.malformed => FallThrough(blk, target).malformed
           /\ blk.malformed => DefaultReturn(blk).malformed
           /\ WithAlloca(blk).malformed = blk.malformed
           /\ Sealed(DefaultReturn(blk))
           /\ Sealed(WithAlloca(blk)) <=> Sealed(blk)
<1>1. blk.malformed => FallThrough(blk, target).malformed
  <2>1. {target} \in SUBSET Blocks  OBVIOUS
  <2>. QED  BY <2>1, EmittedType DEF FallThrough
<1>2. /\ blk.malformed => DefaultReturn(blk).malformed
      /\ Sealed(DefaultReturn(blk))
  BY EmittedType DEF DefaultReturn, Sealed, Terminators
<1>3. /\ WithAlloca(blk).malformed = blk.malformed
      /\ Sealed(WithAlloca(blk)) <=> Sealed(blk)
  BY DEF WithAlloca, Block, Sealed, Terminators
<1>. QED  BY <1>1, <1>2, <1>3

\* Visits that go on through a step keep what the invariant says of them.
LEMMA WholeKept ==
    ASSUME WholeInv, NEW n \in Nat, n <= Len(stack),
           \A i \in 1..n : SameVisit(stack[i], stack'[i]),
           declared <= declared', created <= created', TypeOK', Found => Found'
    PROVE  /\ \A i \in 1..n : WholeFrame(i)'
           /\ \A i \in 1..n : \A f \in Funcs :
                stack[i].kind = "func" /\ stack[i].lex = f =>
                    stack'[i].kind = "func" /\ stack'[i].lex = f
<1>1. Len(stack) \in Nat /\ stack \in Seq(Frame)
  BY LenProperties DEF WholeInv, TypeInv, TypeOK
<1>2. ASSUME NEW i \in 1..n
      PROVE  WholeFrame(i)'
  <2>1. i \in 1..Len(stack) /\ stack[i] \in Frame /\ WholeFrame(i)
    BY <1>1, ElementOfSeq DEF WholeInv
  <2>2. SameVisit(stack[i], stack'[i])
    OBVIOUS
  <2>3. /\ stack[i].fn \in Int /\ stack[i].join \in Int /\ stack[i].other \in Int
        /\ created \in Int /\ created' \in Int /\ declared \in Int /\ declared' \in Int
        /\ 0 <= created
    BY <2>1 DEF Frame, TypeOK, WholeInv, TypeInv
  <2>4. /\ stack'[i].fn # NoFunc /\ stack'[i].fn <= declared'
        /\ stack'[i].join <= created' /\ stack'[i].other <= created'
    BY <2>1, <2>2, <2>3 DEF WholeFrame, SameVisit
  <2>5. stack'[i].fn = stack'[i].lex \/ Found'
    BY <2>1, <2>2 DEF WholeFrame, SameVisit
  <2>6. ASSUME stack'[i].kind # "func"
        PROVE  stack'[i].lex = IF i = 1 THEN NoFunc ELSE stack'[i - 1].lex
    <3>1. stack[i].lex = IF i = 1 THEN NoFunc ELSE stack[i - 1].lex
      BY <2>1, <2>2, <2>6 DEF WholeFrame, SameVisit
    <3>2. CASE i = 1
      BY <2>2, <3>1, <3>2 DEF SameVisit
    <3>3. CASE i # 1
      <4>1. i - 1 \in 1..n
        BY <3>3
      <4>2. stack'[i - 1].lex = stack[i - 1].lex
        BY <4>1 DEF SameVisit
      <4>. QED  BY <2>2, <3>1, <3>3, <4>2 DEF SameVisit
    <3>. QED  BY <3>2, <3>3
  <2>. QED  BY <2>4, <2>5, <2>6 DEF WholeFrame
<1>3. ASSUME NEW i \in 1..n, NEW f \in Funcs, stack[i].kind = "func" /\ stack[i].lex = f
      PROVE  stack'[i].kind = "func" /\ stack'[i].lex = f
  BY <1>3 DEF SameVisit
<1>. QED  BY <1>2, <1>3

\* What is appended to the insertion point is at home, or it is noticed.
LEMMA HomeOrFound ==
    ASSUME WholeInv, insertBlock \in Blocks,
           Found => Found',
           blocks'[insertBlock].owner = blocks[insertBlock].owner,
           Sealed(blocks[insertBlock]) => blocks'[insertBlock].malformed
    PROVE  /\ blocks[insertBlock].owner # NoFunc
           /\ blocks[insertBlock].owner = Lex \/ Found'
<1>1. /\ blocks[insertBlock].owner # NoFunc
      /\ \/ blocks[insertBlock].owner = Lex
         \/ Sealed(blocks[insertBlock])
         \/ Found
  BY DEF WholeInv, WholeInsert
<1>2. CASE Sealed(blocks[insertBlock])
  BY <1>1, <1>2 DEF Found
<1>. QED  BY <1>1, <1>2

\* A statement that stays in the insertion point.
LEMMA WholeInPlace ==
    ASSUME WholeInv, TypeInv', walk' = "walking",
           UNCHANGED <<created, declared, status, insertBlock, hasErrors>>,
           \A b \in Blocks :
              /\ blocks'[b].owner = blocks[b].owner
              /\ blocks[b].malformed => blocks'[b].malformed,
           insertBlock \in Blocks /\ Sealed(blocks[insertBlock]) =>
              Sealed(blocks'[insertBlock]) \/ blocks'[insertBlock].malformed,
           Len(stack') = Len(stack),
           \A i \in 1..Len(stack) : SameVisit(stack[i], stack'[i]),
           \/ "elsewhere" \notin strays'
           \/ "elsewhere" \in strays
           \/ /\ insertBlock \in Blocks /\ blocks[insertBlock].owner # Lex
              /\ Sealed(blocks[insertBlock]) => blocks'[insertBlock].malformed
    PROVE  WholeInv'
<1>1. /\ stack \in Seq(Frame) /\ stack' \in Seq(Frame) /\ Len(stack) \in Nat
      /\ insertBlock \in Blocks \cup {NoBlock} /\ TypeOK' /\ created \in Int /\ declared \in Int
  BY LenProperties DEF WholeInv, TypeInv, TypeOK
<1>2. Found => Found'
  BY FoundStays
<1>3. WholeBlocks'
  BY DEF WholeInv, WholeBlocks
<1>4. /\ \A i \in 1..Len(stack) : WholeFrame(i)'
      /\ \A i \in 1..Len(stack) : \A f \in Funcs :
           stack[i].kind = "func" /\ stack[i].lex = f =>
               stack'[i].kind = "func" /\ stack'[i].lex = f
  BY <1>1, <1>2, WholeKept
<1>5. Lex' = Lex
  <2>1. CASE Len(stack) = 0
    BY <1>1, <2>1, LexTop
  <2>2. CASE Len(stack) # 0
    <3>1. Len(stack) \in 1..Len(stack)
      BY <1>1, <2>2
    <3>2. stack'[Len(stack)].lex = stack[Len(stack)].lex
      BY <3>1 DEF SameVisit
    <3>. QED  BY <1>1, <2>2, <3>2, LexTop
  <2>. QED  BY <2>1, <2>2
<1>6. WholeInsert'
  <2>. SUFFICES ASSUME insertBlock # NoBlock
                PROVE  /\ insertBlock <= created
                       /\ blocks'[insertBlock].owner # NoFunc
                       /\ \/ blocks'[insertBlock].owner = Lex
                          \/ Sealed(blocks'[insertBlock])
                          \/ Found'
    BY <1>5 DEF WholeInsert, Sealed
  <2>1. /\ insertBlock \in Blocks /\ insertBlock <= created
        /\ blocks[insertBlock].owner # NoFunc
        /\ \/ blocks[insertBlock].owner = Lex
           \/ Sealed(blocks[insertBlock])
           \/ Found
    BY <1>1 DEF WholeInv, WholeInsert
  <2>2. blocks'[insertBlock].malformed => Found'
    BY <2>1 DEF Found
  <2>. QED  BY <1>2, <2>1, <2>2
<1>7. WholeStatus'
  BY <1>4 DEF WholeInv, WholeStatus
<1>8. "elsewhere" \in strays' => Found'
  BY <1>2, HomeOrFound DEF WholeInv
<1>. QED  BY <1>3, <1>4, <1>6, <1>7, <1>8 DEF WholeInv, MisplacedIsRejected

\* What replacing the insertion point by a block of the same function gives.
LEMMA InsertPointReplaced ==
    ASSUME TypeOK, insertBlock \in Blocks, NEW e, e.owner = blocks[insertBlock].owner,
           blocks[insertBlock].malformed => e.malformed,
           blocks' = [blocks EXCEPT ![insertBlock] = e]
    PROVE  /\ blocks'[insertBlock] = e
           /\ \A b \in Blocks : /\ blocks'[b].owner = blocks[b].owner
                                /\ blocks[b].malformed => blocks'[b].malformed
BY DEF TypeOK

\* Appending an instruction at the insertion point, if there is one.
LEMMA WholeAppended ==
    ASSUME TypeOK, insertBlock \in Blocks, NEW instr \in {"op", "ret"},
           blocks' = [blocks EXCEPT ![insertBlock] = Emitted(@, instr, {})]
    PROVE  /\ \A b \in Blocks : /\ blocks'[b].owner = blocks[b].owner
                                /\ blocks[b].malformed => blocks'[b].malformed
           /\ Sealed(blocks[insertBlock]) => blocks'[insertBlock].malformed
<1>. DEFINE e == Emitted(blocks[insertBlock], instr, {})
<1>1. blocks[insertBlock] \in Block /\ {} \in SUBSET Blocks
  BY DEF TypeOK
<1>2. /\ e.owner = blocks[insertBlock].owner
      /\ e.malformed <=> (blocks[insertBlock].malformed \/ Sealed(blocks[insertBlock]))
  BY <1>1, EmittedType
<1>3. blocks' = [blocks EXCEPT ![insertBlock] = e]
  OBVIOUS
<1>. HIDE DEF e
<1>. QED  BY <1>2, <1>3, InsertPointReplaced

\* Every visit goes on as it was.
LEMMA SameStack ==
    ASSUME UNCHANGED stack
    PROVE  /\ Len(stack') = Len(stack)
           /\ \A i \in 1..Len(stack) : SameVisit(stack[i], stack'[i])
BY DEF SameVisit

LEMMA WholeStatements ==
    ASSUME WholeInv, TypeInv',
           \/ SimpleStmt \/ SkippedIf
           \/ \E constant \in BOOLEAN : GlobalDecl(constant)
    PROVE  WholeInv'
<1>. USE DEF unchangedFuncs, unchangedSema
<1>1. TypeOK /\ insertBlock \in Blocks \cup {NoBlock}
  BY DEF WholeInv, TypeInv, TypeOK
<1>2. /\ walk' = "walking"
      /\ UNCHANGED <<created, declared, status, insertBlock, hasErrors, stack>>
  BY DEF SimpleStmt, SkippedIf, GlobalDecl, MayState
<1>3. CASE \E constant \in BOOLEAN : GlobalDecl(constant)
  <2>1. UNCHANGED blocks /\ ("elsewhere" \in strays' => "elsewhere" \in strays)
    BY <1>3 DEF GlobalDecl
  <2>. QED  BY <1>2, <2>1, SameStack, WholeInPlace
<1>4. CASE SimpleStmt \/ SkippedIf
  <2>1. blocks' = IF insertBlock = NoBlock THEN blocks
                  ELSE [blocks EXCEPT ![insertBlock] = Emitted(@, "op", {})]
    BY <1>4 DEF SimpleStmt, SkippedIf
  <2>2. "elsewhere" \in strays' => \/ "elsewhere" \in strays
                                   \/ insertBlock \in Blocks /\ blocks[insertBlock].owner # Lex
    BY <1>1, <1>4 DEF SimpleStmt, SkippedIf, Astray
  <2>3. CASE insertBlock = NoBlock
    <3>1. UNCHANGED blocks /\ ("elsewhere" \in strays' => "elsewhere" \in strays)
      BY <2>1, <2>2, <2>3
    <3>. QED  BY <1>2, <3>1, SameStack, WholeInPlace
  <2>4. CASE insertBlock # NoBlock
    <3>1. /\ \A b \in Blocks : /\ blocks'[b].owner = blocks[b].owner
                               /\ blocks[b].malformed => blocks'[b].malformed
          /\ Sealed(blocks[insertBlock]) => blocks'[insertBlock].malformed
      BY <1>1, <2>1, <2>4, WholeAppended
    <3>. QED  BY <1>2, <2>2, <3>1, SameStack, WholeInPlace
  <2>. QED  BY <2>3, <2>4
<1>. QED  BY <1>3, <1>4

LEMMA WholeLocalDecl ==
    ASSUME WholeInv, TypeInv', NEW init \in BOOLEAN, LocalDecl(init)
    PROVE  WholeInv'
<1>. USE DEF unchangedFuncs, unchangedSema
<1>. DEFINE allocated == [blocks EXCEPT ![entry[currentFunction]] = WithAlloca(@)]
            Stored(blk) == [Emitted(blk, "op", {}) EXCEPT
                               !.malformed = @ \/ blk.owner # currentFunction]
<1>1. TypeOK /\ insertBlock \in Blocks \cup {NoBlock} /\ \A b \in Blocks : blocks[b] \in Block
  BY DEF WholeInv, TypeInv, TypeOK
<1>2. /\ walk' = "walking"
      /\ UNCHANGED <<created, declared, status, insertBlock, hasErrors, stack>>
      /\ blocks' = IF init THEN [allocated EXCEPT ![insertBlock] = Stored(@)] ELSE allocated
      /\ strays' = IF init THEN Astray ELSE strays
  BY DEF LocalDecl, MayState
<1>3. DOMAIN allocated = Blocks
      /\ \A b \in Blocks : /\ allocated[b] \in Block
                           /\ allocated[b].owner = blocks[b].owner
                           /\ allocated[b].malformed = blocks[b].malformed
                           /\ Sealed(allocated[b]) <=> Sealed(blocks[b])
  <2>1. ASSUME NEW b \in Blocks
        PROVE  /\ WithAlloca(blocks[b]) \in Block
               /\ WithAlloca(blocks[b]).owner = blocks[b].owner
               /\ WithAlloca(blocks[b]).malformed = blocks[b].malformed
               /\ Sealed(WithAlloca(blocks[b])) <=> Sealed(blocks[b])
    BY <1>1, EndingType, EndingKeeps
  <2>2. DOMAIN allocated = Blocks
    BY <1>1 DEF TypeOK
  <2>3. ASSUME NEW b \in Blocks
        PROVE  allocated[b] \in {blocks[b], WithAlloca(blocks[b])}
    BY <1>1 DEF TypeOK
  <2>. HIDE DEF allocated
  <2>. QED  BY <1>1, <2>1, <2>2, <2>3
<1>4. ASSUME NEW b \in Blocks
      PROVE  /\ Stored(allocated[b]).owner = blocks[b].owner
             /\ blocks[b].malformed \/ Sealed(blocks[b]) => Stored(allocated[b]).malformed
  <2>. DEFINE blk == allocated[b]
              e == Emitted(blk, "op", {})
  <2>1. blk \in Block /\ {} \in SUBSET Blocks
    BY <1>3
  <2>. HIDE DEF blk
  <2>2. e \in Block /\ e.owner = blk.owner /\ (e.malformed <=> (blk.malformed \/ Sealed(blk)))
    BY <2>1, EmittedType
  <2>3. [e EXCEPT !.malformed = @ \/ blk.owner # currentFunction].owner = e.owner
        /\ (e.malformed => [e EXCEPT !.malformed = @ \/ blk.owner # currentFunction].malformed)
    <3>. HIDE DEF e
    <3>. QED  BY <2>2 DEF Block
  <2>. QED  BY <1>3, <2>2, <2>3 DEF blk
<1>. HIDE DEF allocated, Stored
<1>5. CASE ~init
  <2>1. blocks' = allocated /\ strays' = strays
    BY <1>2, <1>5
  <2>. QED  BY <1>2, <1>3, <2>1, SameStack, WholeInPlace
<1>6. CASE init
  <2>1. blocks' = [allocated EXCEPT ![insertBlock] = Stored(@)] /\ strays' = Astray
    BY <1>2, <1>6
  <2>2. "elsewhere" \in strays' => \/ "elsewhere" \in strays
                                   \/ insertBlock \in Blocks /\ blocks[insertBlock].owner # Lex
    BY <1>1, <2>1 DEF Astray
  <2>3. ASSUME NEW b \in Blocks
        PROVE  /\ blocks'[b].owner = blocks[b].owner
               /\ blocks[b].malformed => blocks'[b].malformed
    BY <1>3, <1>4, <2>1
  <2>4. insertBlock \in Blocks /\ Sealed(blocks[insertBlock]) => blocks'[insertBlock].malformed
    BY <1>3, <1>4, <2>1
  <2>. QED  BY <1>2, <2>2, <2>3, <2>4, SameStack, WholeInPlace
<1>. QED  BY <1>5, <1>6

LEMMA WholeReturn ==
    ASSUME WholeInv, TypeInv', ReturnStmt
    PROVE  WholeInv'
<1>. USE DEF unchangedFuncs, unchangedSema
<1>1. TypeOK /\ insertBlock \in Blocks /\ stack \in Seq(Frame) /\ Len(stack) \in Nat
  BY LenProperties DEF WholeInv, TypeInv, TypeOK, ReturnStmt, Positioned
<1>2. /\ walk' = "walking"
      /\ UNCHANGED <<created, declared, status, insertBlock, hasErrors>>
      /\ blocks' = [blocks EXCEPT ![insertBlock] = Emitted(@, "ret", {})]
      /\ strays' = Astray
  BY DEF ReturnStmt, MayState
<1>3. /\ \A b \in Blocks : /\ blocks'[b].owner = blocks[b].owner
                           /\ blocks[b].malformed => blocks'[b].malformed
      /\ Sealed(blocks[insertBlock]) => blocks'[insertBlock].malformed
  BY <1>1, <1>2, WholeAppended
<1>4. "elsewhere" \in strays' => \/ "elsewhere" \in strays
                                 \/ insertBlock \in Blocks /\ blocks[insertBlock].owner # Lex
  BY <1>1, <1>2 DEF Astray
<1>5. Len(stack') = Len(stack) /\ \A i \in 1..Len(stack) : SameVisit(stack[i], stack'[i])
  <2>. DEFINE fr == [Top EXCEPT !.returned = TRUE, !.live = FALSE]
  <2>1. Top \in Frame /\ Len(stack) \in 1..Len(stack) /\ Top = stack[Len(stack)]
    BY <1>1, StackTop DEF ReturnStmt, Top
  <2>2. fr \in Frame /\ SameVisit(Top, fr)
    BY <2>1 DEF Frame, SameVisit
  <2>3. stack' = [stack EXCEPT ![Len(stack)] = fr]
    BY DEF ReturnStmt, Top
  <2>. HIDE DEF fr
  <2>4. /\ Len(stack') = Len(stack)
        /\ \A j \in 1..Len(stack) : stack'[j] = IF j = Len(stack) THEN fr ELSE stack[j]
    BY <1>1, <2>1, <2>2, <2>3, ExceptSeq
  <2>. QED  BY <2>1, <2>2, <2>4 DEF SameVisit
<1>. QED  BY <1>2, <1>3, <1>4, <1>5, WholeInPlace

\* A branch or a loop begins: its block belongs to the insertion point's function.
LEMMA WholeBegins ==
    ASSUME WholeInv, TypeInv', insertBlock \in Blocks, walk' = "walking",
           NEW fr \in Frame, fr.lex = Lex, fr.fn = blocks[insertBlock].owner, fr.kind # "func",
           stack' = Append(stack, fr),
           blocks'[insertBlock].owner = blocks[insertBlock].owner,
           blocks[insertBlock].malformed \/ Sealed(blocks[insertBlock]) =>
              blocks'[insertBlock].malformed,
           created <= created', fr.other <= created', fr.join <= created',
           UNCHANGED <<declared, status, hasErrors>>,
           \A b \in Blocks :
              /\ b <= created /\ b # insertBlock => blocks'[b] = blocks[b]
              /\ b > created => blocks'[b].owner \in {NoFunc, blocks[insertBlock].owner}
              /\ b > created' => blocks'[b].owner = NoFunc,
           insertBlock' \in Blocks, insertBlock' <= created',
           blocks'[insertBlock'].owner = blocks[insertBlock].owner,
           strays' = Astray
    PROVE  WholeInv'
<1>. DEFINE fn == blocks[insertBlock].owner
<1>0. PICK n \in Nat : n = Len(stack)
  BY LenProperties DEF WholeInv, TypeInv, TypeOK
<1>1. /\ stack \in Seq(Frame) /\ stack' \in Seq(Frame)
      /\ TypeOK /\ TypeOK' /\ created \in Int /\ created' \in Int /\ declared \in Nat
      /\ blocks[insertBlock] \in Block /\ fn \in Nat
      /\ \A b \in Blocks : blocks[b].owner \in Int
  <2>1. TypeOK /\ TypeOK'
    BY DEF WholeInv, TypeInv
  <2>2. /\ stack \in Seq(Frame) /\ stack' \in Seq(Frame)
        /\ created \in Int /\ created' \in Int /\ declared \in Nat
        /\ \A b \in Blocks : blocks[b] \in Block
    BY <2>1 DEF TypeOK
  <2>3. \A blk \in Block : blk.owner \in Nat
    BY DEF Block
  <2>. QED  BY <2>1, <2>2, <2>3
<1>2. fn # NoFunc /\ fn <= declared /\ insertBlock <= created
  BY DEF WholeInv, WholeInsert, WholeBlocks
<1>4. Found => Found'
  <2>1. \A b \in Blocks : b <= created =>
          /\ blocks[b].malformed => blocks'[b].malformed
          /\ blocks[b].owner # NoFunc => blocks'[b].owner # NoFunc
    OBVIOUS
  <2>. QED  BY <2>1, FoundStays
<1>5. fn = Lex \/ Found'
  BY <1>4, HomeOrFound
<1>6. WholeBlocks'
  <2>1. ASSUME NEW b \in Blocks
        PROVE  blocks'[b].owner <= declared
    <3>1. CASE b <= created
      BY <1>2, <3>1 DEF WholeInv, WholeBlocks
    <3>2. CASE b > created
      BY <1>1, <1>2, <3>2
    <3>. QED  BY <1>1, <3>1, <3>2
  <2>. QED  BY <2>1 DEF WholeBlocks
<1>. HIDE DEF fn
<1>8. /\ Len(stack') = n + 1 /\ stack'[n + 1] = fr
      /\ \A i \in 1..n : stack'[i] = stack[i]
  BY <1>0, <1>1, PushSeq
<1>9. /\ \A i \in 1..n : WholeFrame(i)'
      /\ \A i \in 1..n : \A f \in Funcs :
           stack[i].kind = "func" /\ stack[i].lex = f =>
               stack'[i].kind = "func" /\ stack'[i].lex = f
  <2>1. \A i \in 1..n : SameVisit(stack[i], stack'[i])
    BY <1>8 DEF SameVisit
  <2>. QED  BY <1>0, <1>1, <1>4, <2>1, WholeKept
<1>10. WholeFrame(n + 1)'
  <2>1. fr.lex = IF n + 1 = 1 THEN NoFunc ELSE stack'[n + 1 - 1].lex
    <3>1. CASE n = 0
      BY <1>0, <1>1, <3>1, LexTop
    <3>2. CASE n # 0
      <4>1. n + 1 - 1 = n /\ n \in 1..n
        BY <1>1, <3>2
      <4>2. stack'[n] = stack[n] /\ Lex = stack[n].lex
        BY <1>0, <1>1, <1>8, <3>2, <4>1, LexTop
      <4>3. fr.lex = stack'[n].lex
        BY <4>2
      <4>4. n + 1 # 1
        BY <3>2
      <4>. QED  BY <4>1, <4>3, <4>4
    <3>. QED  BY <3>1, <3>2
  <2>. QED  BY <1>2, <1>5, <1>8, <2>1 DEF WholeFrame, fn
<1>11. \A i \in 1..Len(stack') : WholeFrame(i)'
  <2>1. \A i \in 1..(n + 1) : i = n + 1 \/ i \in 1..n
    BY <1>1
  <2>. QED  BY <1>8, <1>9, <1>10, <2>1
<1>12. Lex' = Lex
  BY <1>0, <1>1, <1>8, LexTop
<1>13. WholeInsert'
  BY <1>2, <1>5, <1>12 DEF WholeInsert, fn
<1>14. WholeStatus'
  <2>1. \A i \in 1..n : i \in 1..Len(stack')
    BY <1>1, <1>8
  <2>. QED  BY <1>0, <1>9, <2>1 DEF WholeInv, WholeStatus
<1>15. "elsewhere" \in strays' => Found'
  <2>1. "elsewhere" \in strays' => "elsewhere" \in strays \/ fn # Lex
    BY DEF Astray, fn
  <2>. QED  BY <1>4, <1>5, <2>1 DEF WholeInv
<1>. QED  BY <1>6, <1>11, <1>13, <1>14, <1>15 DEF WholeInv, MisplacedIsRejected

LEMMA WholeBeginIf ==
    ASSUME WholeInv, TypeInv', NEW hasElse \in BOOLEAN, BeginIf(hasElse)
    PROVE  WholeInv'
<1>. USE DEF unchangedFuncs, unchangedSema
<1>. DEFINE then == created + 1
            other == created + 2
            join == created + 3
            target == FalseTarget(hasElse, other, join)
            e == Emitted(blocks[insertBlock], "condbr", {then, target})
            fn == blocks[insertBlock].owner
            held == IF hasElse THEN other ELSE NoBlock
            fr == FrameOf("then", NoBlock, held, join)
<1>1. /\ created \in Nat /\ insertBlock \in Blocks /\ then \in Blocks /\ other \in Blocks
      /\ join \in Blocks /\ target \in Blocks /\ blocks[insertBlock] \in Block
      /\ blocks \in [Blocks -> Block] /\ held \in Blocks \cup {NoBlock}
      /\ held <= created + 3
  BY BoundsAssumption
     DEF BeginIf, WholeInv, TypeInv, TypeOK, Positioned, FalseTarget
<1>2. /\ e.owner = fn
      /\ e.malformed <=> (blocks[insertBlock].malformed \/ Sealed(blocks[insertBlock]))
  <2>1. {then, target} \in SUBSET Blocks
    BY <1>1
  <2>. QED  BY <1>1, <2>1, EmittedType
<1>3. /\ blocks' = Inserted([blocks EXCEPT ![insertBlock] = e], then, fn)
      /\ stack' = Append(stack, fr)
      /\ insertBlock' = then /\ created' = created + 3 /\ strays' = Astray
      /\ walk' = "walking"
      /\ UNCHANGED <<declared, status, hasErrors>>
  BY DEF BeginIf, MayNest, MayState
<1>4. insertBlock <= created
  BY <1>1 DEF WholeInv, WholeInsert
<1>. HIDE DEF e, target, held
<1>5. ASSUME NEW b \in Blocks
      PROVE  /\ b <= created /\ b # insertBlock => blocks'[b] = blocks[b]
             /\ b = insertBlock => blocks'[b] = e
             /\ b > created => blocks'[b].owner \in {NoFunc, fn}
             /\ b > created' => blocks'[b].owner = NoFunc
             /\ b = then => blocks'[b].owner = fn
  <2>1. b > created => blocks[b].owner = NoFunc
    BY DEF WholeInv, WholeBlocks
  <2>2. CASE b = then
    <3>1. blocks'[b].owner = fn
      <4>1. blocks[b] \in Block
        BY <1>1
      <4>. QED  BY <1>1, <1>3, <1>4, <2>2, <4>1 DEF Inserted, Block
    <3>. QED  BY <1>1, <1>3, <1>4, <2>2, <3>1
  <2>3. CASE b # then
    <3>1. blocks'[b] = IF b = insertBlock THEN e ELSE blocks[b]
      BY <1>1, <1>3, <2>3 DEF Inserted
    <3>2. b > created => blocks'[b] = blocks[b]
      BY <1>1, <1>4, <3>1
    <3>3. b > created' => b > created
      BY <1>1, <1>3
    <3>. QED  BY <2>1, <2>3, <3>1, <3>2, <3>3
  <2>. QED  BY <2>2, <2>3
<1>6. /\ created <= created' /\ held <= created' /\ join <= created'
      /\ insertBlock' \in Blocks /\ insertBlock' <= created'
      /\ blocks'[insertBlock'].owner = fn
  <2>1. insertBlock' = then /\ created' = created + 3
    BY <1>3
  <2>2. blocks'[then].owner = fn
    BY <1>1, <1>5
  <2>3. created <= created' /\ held <= created' /\ join <= created' /\ then <= created'
    BY <1>1, <2>1
  <2>. HIDE DEF then
  <2>. QED  BY <1>1, <2>1, <2>2, <2>3
<1>7. fr \in Frame /\ fr.lex = Lex /\ fr.fn = fn /\ fr.kind = "then"
      /\ fr.other = held /\ fr.join = join
  BY <1>1, FrameOfType DEF FrameOf, WholeInv, TypeInv
<1>. HIDE DEF fr, then, join, other
<1>. QED  BY <1>1, <1>2, <1>3, <1>5, <1>6, <1>7, WholeBegins

LEMMA WholeBeginLoop ==
    ASSUME WholeInv, TypeInv', NEW valued \in BOOLEAN, BeginLoop(valued)
    PROVE  WholeInv'
<1>. USE DEF unchangedFuncs, unchangedSema
<1>. DEFINE cond == created + 1
            body == created + 2
            after == created + 3
            e == Emitted(blocks[insertBlock], "br", {cond})
            fn == blocks[insertBlock].owner
            tested == LoopCond(fn, valued, body, after)
            fr == FrameOf("loop", cond, NoBlock, after)
<1>1. /\ created \in Nat /\ insertBlock \in Blocks /\ cond \in Blocks /\ body \in Blocks
      /\ after \in Blocks /\ blocks[insertBlock] \in Block /\ blocks \in [Blocks -> Block]
      /\ fn \in Funcs \cup {NoFunc}
  <2>1. /\ created \in Nat /\ insertBlock \in Blocks /\ created + 3 <= MaxBlocks
        /\ blocks \in [Blocks -> Block]
    BY DEF BeginLoop, WholeInv, TypeInv, TypeOK, Positioned
  <2>2. blocks[insertBlock] \in Block
    BY <2>1
  <2>. QED  BY <2>1, <2>2, BoundsAssumption DEF Block
<1>2. /\ e.owner = fn
      /\ e.malformed <=> (blocks[insertBlock].malformed \/ Sealed(blocks[insertBlock]))
  <2>1. {cond} \in SUBSET Blocks
    BY <1>1
  <2>. QED  BY <1>1, <2>1, EmittedType
<1>3. tested.owner = fn
  <2>1. tested = [owner |-> fn, last |-> IF valued THEN "condbr" ELSE "op",
                  malformed |-> FALSE, succ |-> IF valued THEN {body, after} ELSE {}]
    BY <1>1, LoopCondType, ZenonT(60)
  <2>. QED  BY <2>1
<1>4. /\ blocks' = Inserted([blocks EXCEPT ![insertBlock] = e, ![cond] = tested], body, fn)
      /\ stack' = Append(stack, fr)
      /\ insertBlock' = body /\ created' = created + 3 /\ strays' = Astray
      /\ walk' = "walking"
      /\ UNCHANGED <<declared, status, hasErrors>>
  BY DEF BeginLoop, MayNest, MayState
<1>5. insertBlock <= created
  BY <1>1 DEF WholeInv, WholeInsert
<1>. HIDE DEF e, tested
<1>6. ASSUME NEW b \in Blocks
      PROVE  /\ b <= created /\ b # insertBlock => blocks'[b] = blocks[b]
             /\ b = insertBlock => blocks'[b] = e
             /\ b > created => blocks'[b].owner \in {NoFunc, fn}
             /\ b > created' => blocks'[b].owner = NoFunc
             /\ b = body => blocks'[b].owner = fn
  <2>1. b > created => blocks[b].owner = NoFunc
    BY DEF WholeInv, WholeBlocks
  <2>2. CASE b = body
    <3>1. blocks'[b].owner = fn
      <4>1. blocks[b] \in Block
        BY <1>1
      <4>. QED  BY <1>1, <1>4, <1>5, <2>2, <4>1 DEF Inserted, Block
    <3>. QED  BY <1>1, <1>4, <1>5, <2>2, <3>1
  <2>3. CASE b = cond
    <3>1. blocks'[b] = tested
      BY <1>1, <1>4, <2>3 DEF Inserted
    <3>. QED  BY <1>1, <1>3, <1>4, <1>5, <2>3, <3>1
  <2>4. CASE b # body /\ b # cond
    <3>1. blocks'[b] = IF b = insertBlock THEN e ELSE blocks[b]
      BY <1>1, <1>4, <2>4 DEF Inserted
    <3>2. b > created => blocks'[b] = blocks[b]
      BY <1>1, <1>5, <3>1
    <3>3. b > created' => b > created
      BY <1>1, <1>4
    <3>. QED  BY <2>1, <2>4, <3>1, <3>2, <3>3
  <2>. QED  BY <2>2, <2>3, <2>4
<1>7. /\ created <= created' /\ NoBlock <= created' /\ after <= created'
      /\ insertBlock' \in Blocks /\ insertBlock' <= created'
      /\ blocks'[insertBlock'].owner = fn
  <2>1. insertBlock' = body /\ created' = created + 3
    BY <1>4
  <2>2. blocks'[body].owner = fn
    BY <1>1, <1>6
  <2>3. created <= created' /\ NoBlock <= created' /\ after <= created' /\ body <= created'
    BY <1>1, <2>1
  <2>. HIDE DEF body
  <2>. QED  BY <1>1, <2>1, <2>2, <2>3
<1>8. fr \in Frame /\ fr.lex = Lex /\ fr.fn = fn /\ fr.kind = "loop"
      /\ fr.other = NoBlock /\ fr.join = after
  BY <1>1, FrameOfType DEF FrameOf, WholeInv, TypeInv
<1>. HIDE DEF fr, cond, body, after
<1>. QED  BY <1>1, <1>2, <1>4, <1>6, <1>7, <1>8, WholeBegins

\* A branch or a loop ends in a block that falls through, and another block of
\* the function of its visit becomes the insertion point.
LEMMA WholeGoesOn ==
    ASSUME WholeInv, stack # <<>>, insertBlock \in Blocks,
           NEW target \in Blocks, NEW placed \in Blocks, placed <= created,
           blocks' = Inserted([blocks EXCEPT ![insertBlock] = FallThrough(@, target)],
                              placed, Top.fn),
           UNCHANGED <<created, declared>>
    PROVE  /\ Found => Found'
           /\ WholeBlocks'
           /\ blocks'[placed].owner = Top.fn /\ Top.fn # NoFunc
           /\ Top.fn = Top.lex \/ Found'
<1>. DEFINE e == FallThrough(blocks[insertBlock], target)
            fn == Top.fn
<1>1. /\ TypeOK /\ blocks \in [Blocks -> Block] /\ blocks[insertBlock] \in Block
      /\ stack \in Seq(Frame) /\ Len(stack) \in 1..Len(stack) /\ Top = stack[Len(stack)]
  <2>1. TypeOK /\ blocks \in [Blocks -> Block] /\ stack \in Seq(Frame)
    BY DEF WholeInv, TypeInv, TypeOK
  <2>2. Len(stack) \in Nat /\ Len(stack) >= 1
    BY <2>1, StackTop
  <2>. QED  BY <2>1, <2>2 DEF Top
<1>2. fn # NoFunc /\ fn <= declared /\ (fn = Top.lex \/ Found)
  BY <1>1 DEF WholeInv, WholeFrame
<1>3. e \in Block /\ e.owner = blocks[insertBlock].owner
      /\ (blocks[insertBlock].malformed => e.malformed)
  BY <1>1, EndingType, EndingKeeps
<1>4. blocks' = Inserted([blocks EXCEPT ![insertBlock] = e], placed, fn)
  OBVIOUS
<1>. HIDE DEF e, fn
<1>5. ASSUME NEW b \in Blocks
      PROVE  /\ blocks'[b].owner = IF b = placed THEN fn ELSE blocks[b].owner
             /\ blocks[b].malformed => blocks'[b].malformed
  <2>. DEFINE bs == [blocks EXCEPT ![insertBlock] = e]
  <2>1. bs \in [Blocks -> Block]
    BY <1>1, <1>3
  <2>2. bs[b].owner = blocks[b].owner /\ (blocks[b].malformed => bs[b].malformed)
    BY <1>1, <1>3
  <2>3. blocks' = Inserted(bs, placed, fn) /\ bs[b] \in Block
    BY <1>4, <2>1
  <2>. HIDE DEF bs
  <2>4. CASE b = placed
    <3>1. blocks'[b] = [bs[b] EXCEPT !.owner = fn]
      BY <2>1, <2>3, <2>4 DEF Inserted
    <3>. QED  BY <2>2, <2>3, <2>4, <3>1 DEF Block
  <2>5. CASE b # placed
    BY <2>1, <2>2, <2>3, <2>5 DEF Inserted
  <2>. QED  BY <2>4, <2>5
<1>6. Found => Found'
  <2>1. \A b \in Blocks : b <= created =>
          /\ blocks[b].malformed => blocks'[b].malformed
          /\ blocks[b].owner # NoFunc => blocks'[b].owner # NoFunc
    BY <1>2, <1>5
  <2>. QED  BY <2>1, FoundStays
<1>7. WholeBlocks'
  <2>. SUFFICES ASSUME NEW b \in Blocks
                PROVE  /\ blocks'[b].owner <= declared
                       /\ b > created => blocks'[b].owner = NoFunc
    BY DEF WholeBlocks
  <2>1. created \in Int
    BY <1>1 DEF TypeOK
  <2>2. blocks[b].owner <= declared /\ (b > created => blocks[b].owner = NoFunc)
    BY DEF WholeInv, WholeBlocks
  <2>3. CASE b = placed
    <3>1. blocks'[b].owner = fn
      BY <1>5, <2>3
    <3>2. ~(b > created)
      BY <2>1, <2>3
    <3>. QED  BY <1>2, <3>1, <3>2
  <2>4. CASE b # placed
    <3>1. blocks'[b].owner = blocks[b].owner
      BY <1>5, <2>4
    <3>. QED  BY <2>2, <3>1
  <2>. QED  BY <2>3, <2>4
<1>. QED  BY <1>2, <1>5, <1>6, <1>7 DEF fn

LEMMA WholeBeginElse ==
    ASSUME WholeInv, TypeInv', BeginElse
    PROVE  WholeInv'
<1>. USE DEF unchangedFuncs, unchangedSema
<1>0. PICK n \in Nat : n = Len(stack)
  BY LenProperties DEF WholeInv, TypeInv, TypeOK
<1>1. /\ stack \in Seq(Frame) /\ Top \in Frame /\ n \in 1..n /\ Top = stack[n]
      /\ stack # <<>> /\ TypeOK /\ TypeOK' /\ stack' \in Seq(Frame)
      /\ insertBlock \in Blocks /\ created \in Int /\ declared \in Int
  <2>1. TypeOK /\ TypeOK' /\ stack # <<>>
    BY DEF WholeInv, TypeInv, BeginElse
  <2>2. /\ stack \in Seq(Frame) /\ stack' \in Seq(Frame)
        /\ insertBlock \in Blocks /\ created \in Int /\ declared \in Int
    BY <2>1 DEF TypeOK, BeginElse, Positioned
  <2>3. Len(stack) >= 1 /\ Top \in Frame
    BY <2>1, <2>2, StackTop
  <2>. QED  BY <1>0, <2>1, <2>2, <2>3 DEF Top
<1>2. Top.other \in Blocks /\ Top.join \in Blocks /\ Top.other <= created
  <2>1. Top.other \in Blocks \cup {NoBlock} /\ Top.join \in Blocks \cup {NoBlock}
    BY <1>1 DEF Frame
  <2>2. Top.other # NoBlock /\ Top.kind = "then"
    BY DEF BeginElse
  <2>3. Top.join # NoBlock /\ Top.other <= created
    BY <1>0, <1>1, <2>2 DEF WholeInv, TypeInv, WholeFrame
  <2>. QED  BY <2>1, <2>2, <2>3
<1>. DEFINE fr == [Top EXCEPT !.kind = "else", !.other = NoBlock, !.returned = FALSE,
                              !.live = Len(stack) = 1 \/ stack[Len(stack) - 1].live,
                              !.outLive = Top.live]
<1>3. SameVisit(Top, fr)
  BY <1>1 DEF Frame, SameVisit, BeginElse
<1>4. /\ blocks' = Inserted([blocks EXCEPT ![insertBlock] = FallThrough(@, Top.join)],
                            Top.other, Top.fn)
      /\ insertBlock' = Top.other
      /\ stack' = [stack EXCEPT ![n] = fr]
      /\ walk' = "walking"
      /\ UNCHANGED <<created, declared, status, hasErrors, strays>>
  BY <1>0 DEF BeginElse, Top
<1>. HIDE DEF fr
<1>5. Len(stack') = n /\ \A i \in 1..n : SameVisit(stack[i], stack'[i])
  <2>1. /\ Len(stack') = n
        /\ \A j \in 1..n : stack'[j] = IF j = n THEN fr ELSE stack[j]
    BY <1>0, <1>1, <1>4, ExceptSeq
  <2>. QED  BY <1>1, <1>3, <2>1 DEF SameVisit
<1>6. /\ Found => Found'
      /\ WholeBlocks'
      /\ blocks'[Top.other].owner = Top.fn /\ Top.fn # NoFunc
      /\ Top.fn = Top.lex \/ Found'
  BY <1>1, <1>2, <1>4, WholeGoesOn
<1>7. /\ \A i \in 1..n : WholeFrame(i)'
      /\ \A i \in 1..n : \A f \in Funcs :
           stack[i].kind = "func" /\ stack[i].lex = f =>
               stack'[i].kind = "func" /\ stack'[i].lex = f
  BY <1>0, <1>1, <1>4, <1>5, <1>6, WholeKept
<1>8. Lex' = Top.lex
  BY <1>1, <1>5, LexTop DEF SameVisit
<1>9. WholeInsert'
  BY <1>2, <1>4, <1>6, <1>8 DEF WholeInsert
<1>10. WholeStatus'
  BY <1>0, <1>4, <1>5, <1>7 DEF WholeInv, WholeStatus
<1>. QED  BY <1>4, <1>5, <1>6, <1>7, <1>9, <1>10 DEF WholeInv, MisplacedIsRejected

LEMMA WholeEnd ==
    ASSUME WholeInv, TypeInv', EndIf \/ EndLoop
    PROVE  WholeInv'
<1>. USE DEF unchangedFuncs, unchangedSema
<1>0. PICK n \in Nat : n = Len(stack)
  BY LenProperties DEF WholeInv, TypeInv, TypeOK
<1>1. /\ stack \in Seq(Frame) /\ Top \in Frame /\ n \in 1..n /\ Top = stack[n]
      /\ stack # <<>> /\ TypeOK /\ TypeOK' /\ stack' \in Seq(Frame)
      /\ insertBlock \in Blocks /\ created \in Int /\ declared \in Int
  <2>1. TypeOK /\ TypeOK' /\ stack # <<>>
    BY DEF WholeInv, TypeInv, EndIf, EndLoop
  <2>2. /\ stack \in Seq(Frame) /\ stack' \in Seq(Frame)
        /\ insertBlock \in Blocks \cup {NoBlock} /\ created \in Int /\ declared \in Int
    BY <2>1 DEF TypeOK
  <2>3. insertBlock # NoBlock
    BY DEF EndIf, EndLoop, Positioned
  <2>4. Len(stack) >= 1 /\ Top \in Frame
    BY <2>1, <2>2, StackTop
  <2>. QED  BY <1>0, <2>1, <2>2, <2>3, <2>4 DEF Top
<1>2. /\ Top.join \in Blocks /\ Top.join <= created /\ Top.kind # "func"
      /\ EndLoop => Top.header \in Blocks
  <2>1. Top.join \in Blocks \cup {NoBlock} /\ Top.header \in Blocks \cup {NoBlock}
    BY <1>1 DEF Frame
  <2>2. Top.kind \in {"then", "else", "loop"} /\ (EndLoop => Top.kind = "loop")
    BY DEF EndIf, EndLoop
  <2>3. /\ Top.join # NoBlock /\ Top.join <= created
        /\ EndLoop => Top.header # NoBlock
    BY <1>0, <1>1, <2>2 DEF WholeInv, TypeInv, WholeFrame
  <2>. QED  BY <2>1, <2>2, <2>3
<1>3. /\ insertBlock' = Top.join /\ walk' = "walking"
      /\ UNCHANGED <<created, declared, status, hasErrors, strays>>
      /\ \E target \in Blocks :
            blocks' = Inserted([blocks EXCEPT ![insertBlock] = FallThrough(@, target)],
                               Top.join, Top.fn)
  BY <1>2 DEF EndIf, EndLoop, Resume
<1>4. \E live \in BOOLEAN : stack' = BackWith(live)
  <2>1. Top.live \in BOOLEAN /\ Top.outLive \in BOOLEAN
    BY <1>1 DEF Frame
  <2>. DEFINE below == Len(stack) > 1 /\ stack[Len(stack) - 1].live
  <2>2. below \in BOOLEAN
    OBVIOUS
  <2>3. CASE EndIf
    <3>. DEFINE live == \/ Top.live
                        \/ Top.kind = "else" /\ Top.outLive
                        \/ Top.kind = "then" /\ below
    <3>1. live \in BOOLEAN
      BY <2>1
    <3>2. stack' = BackWith(live)
      BY <2>3, Zenon DEF EndIf
    <3>. QED  BY <3>1, <3>2
  <2>4. CASE EndLoop
    <3>1. stack' = BackWith(below)
      BY <2>4 DEF EndLoop
    <3>. QED  BY <2>2, <3>1
  <2>. QED  BY <2>3, <2>4
<1>5. PICK m \in Nat : m = n - 1
  BY <1>1
<1>6. Len(stack') = m /\ \A i \in 1..m : SameVisit(stack[i], stack'[i])
  <2>1. /\ Len(stack') = Len(stack) - 1
        /\ \A i \in 1..Len(stack') :
             /\ stack[i] \in Frame /\ i \in 1..Len(stack)
             /\ \E live \in BOOLEAN : stack'[i] = [stack[i] EXCEPT !.live = live]
    BY <1>1, <1>4, PoppedWith DEF WholeInv
  <2>2. ASSUME NEW fr \in Frame, NEW live \in BOOLEAN
        PROVE  SameVisit(fr, [fr EXCEPT !.live = live])
    BY DEF Frame, SameVisit
  <2>3. Len(stack') = m
    BY <1>0, <1>5, <2>1
  <2>4. ASSUME NEW i \in 1..m
        PROVE  SameVisit(stack[i], stack'[i])
    <3>1. PICK live \in BOOLEAN : stack'[i] = [stack[i] EXCEPT !.live = live]
      BY <2>1, <2>3
    <3>2. stack[i] \in Frame
      BY <2>1, <2>3
    <3>3. SameVisit(stack[i], [stack[i] EXCEPT !.live = live])
      BY <2>2, <3>2
    <3>. QED  BY <3>1, <3>3
  <2>. QED  BY <2>3, <2>4
<1>7. /\ Found => Found'
      /\ WholeBlocks'
      /\ blocks'[Top.join].owner = Top.fn /\ Top.fn # NoFunc
      /\ Top.fn = Top.lex \/ Found'
  BY <1>1, <1>2, <1>3, WholeGoesOn
<1>8. /\ \A i \in 1..m : WholeFrame(i)'
      /\ \A i \in 1..m : \A f \in Funcs :
           stack[i].kind = "func" /\ stack[i].lex = f =>
               stack'[i].kind = "func" /\ stack'[i].lex = f
  <2>1. m <= Len(stack) /\ declared <= declared' /\ created <= created'
    BY <1>0, <1>1, <1>3, <1>5
  <2>. QED  BY <1>1, <1>6, <1>7, <2>1, WholeKept
<1>9. Lex' = Top.lex
  <2>1. Top.lex = IF n = 1 THEN NoFunc ELSE stack[n - 1].lex
    BY <1>0, <1>1, <1>2 DEF WholeInv, WholeFrame
  <2>2. CASE m = 0
    BY <1>1, <1>5, <1>6, <2>1, <2>2, LexTop
  <2>3. CASE m # 0
    <3>1. m \in 1..m /\ n # 1
      BY <1>5, <2>3
    <3>2. stack'[m].lex = stack[m].lex
      BY <1>6, <3>1 DEF SameVisit
    <3>. QED  BY <1>1, <1>5, <1>6, <2>1, <2>3, <3>1, <3>2, LexTop
  <2>. QED  BY <2>2, <2>3
<1>10. WholeInsert'
  BY <1>2, <1>3, <1>7, <1>9 DEF WholeInsert
<1>11. WholeStatus'
  <2>. SUFFICES ASSUME NEW f \in Funcs, status[f] = "open"
                PROVE  \E i \in 1..m : stack'[i].kind = "func" /\ stack'[i].lex = f
    BY <1>3, <1>6 DEF WholeInv, WholeStatus
  <2>1. PICK i \in 1..n : stack[i].kind = "func" /\ stack[i].lex = f
    BY <1>0 DEF WholeInv, WholeStatus
  <2>2. i \in 1..m
    <3>1. i # n
      BY <1>1, <1>2, <2>1
    <3>. QED  BY <1>5, <3>1
  <2>. QED  BY <1>8, <2>1, <2>2
<1>. QED  BY <1>3, <1>6, <1>7, <1>8, <1>10, <1>11 DEF WholeInv, MisplacedIsRejected

LEMMA WholeBeginFunc ==
    ASSUME WholeInv, TypeInv', NEW hasParams \in BOOLEAN, BeginFunc(hasParams)
    PROVE  WholeInv'
<1>. DEFINE bs == IF hasParams THEN [blocks EXCEPT ![created + 1] = Emitted(@, "op", {})]
                  ELSE blocks
            fr == [kind |-> "func", lex |-> declared + 1, fn |-> declared + 1,
                   header |-> NoBlock, other |-> NoBlock, join |-> NoBlock,
                   returned |-> FALSE, live |-> TRUE, outLive |-> FALSE]
<1>0. /\ TypeOK /\ TypeOK'
      /\ \E n \in Nat : n = Len(stack)
      /\ \E f \in Funcs : f = declared + 1
      /\ \E bb \in Blocks : bb = created + 1
  <2>1. TypeOK /\ TypeOK'
    BY DEF WholeInv, TypeInv
  <2>2. declared \in Nat /\ created \in Nat /\ Len(stack) \in Nat
    BY <2>1, LenProperties DEF TypeOK
  <2>3. declared < MaxFuncs /\ created < MaxBlocks
    BY DEF BeginFunc
  <2>. QED  BY <2>1, <2>2, <2>3, BoundsAssumption
<1>1. PICK n \in Nat : n = Len(stack)
  BY <1>0
<1>2. PICK f \in Funcs : f = declared + 1
  BY <1>0
<1>3. PICK bb \in Blocks : bb = created + 1
  BY <1>0
<1>4. /\ stack \in Seq(Frame) /\ stack' \in Seq(Frame) /\ blocks \in [Blocks -> Block]
      /\ declared \in Int /\ created \in Int
      /\ status \in [Funcs -> {"absent", "open", "kept", "erased"}]
      /\ \A b \in Blocks : blocks[b].owner \in Int
  <2>1. \A blk \in Block : blk.owner \in Int
    BY DEF Block
  <2>2. blocks \in [Blocks -> Block] /\ stack \in Seq(Frame)
        /\ declared \in Int /\ created \in Int
        /\ status \in [Funcs -> {"absent", "open", "kept", "erased"}]
    BY <1>0 DEF TypeOK
  <2>3. stack' \in Seq(Frame)
    BY <1>0 DEF TypeOK
  <2>. QED  BY <2>1, <2>2, <2>3
<1>5. /\ status' = [status EXCEPT ![f] = "open"]
      /\ blocks' = Inserted(bs, bb, f)
      /\ insertBlock' = bb /\ declared' = f /\ created' = bb
      /\ stack' = Append(stack, fr) /\ walk' = "walking"
      /\ UNCHANGED <<hasErrors, strays>>
  BY <1>2, <1>3 DEF BeginFunc
<1>6. fr \in Frame /\ fr.kind = "func" /\ fr.lex = f /\ fr.fn = f
      /\ fr.other = NoBlock /\ fr.join = NoBlock
  BY <1>2 DEF Frame
<1>7. /\ bs \in [Blocks -> Block]
      /\ \A b \in Blocks : b # bb => bs[b] = blocks[b]
  <2>1. blocks[bb] \in Block /\ {} \in SUBSET Blocks
    BY <1>4
  <2>2. Emitted(blocks[bb], "op", {}) \in Block
    BY <2>1, EmittedType
  <2>. QED  BY <1>3, <1>4, <2>2
<1>. HIDE DEF bs, fr
<1>8. /\ \A b \in Blocks : b # bb => blocks'[b] = blocks[b]
      /\ blocks'[bb].owner = f
  <2>1. bs[bb] \in Block
    BY <1>7
  <2>. QED  BY <1>5, <1>7, <2>1 DEF Inserted, Block
<1>9. Found => Found'
  <2>1. \A b \in Blocks : b <= created => blocks'[b] = blocks[b]
    BY <1>3, <1>4, <1>8
  <2>. QED  BY <2>1, FoundStays
<1>10. WholeBlocks'
  <2>. SUFFICES ASSUME NEW b \in Blocks
                PROVE  blocks'[b].owner <= f /\ (b > bb => blocks'[b].owner = NoFunc)
    BY <1>5 DEF WholeBlocks
  <2>1. CASE b = bb
    BY <1>8, <2>1
  <2>2. CASE b # bb
    <3>1. /\ blocks'[b] = blocks[b] /\ blocks[b].owner <= declared
          /\ b > created => blocks[b].owner = NoFunc
      BY <1>8, <2>2 DEF WholeInv, WholeBlocks
    <3>. QED  BY <1>2, <1>3, <1>4, <3>1
  <2>. QED  BY <2>1, <2>2
<1>11. /\ Len(stack') = n + 1 /\ stack'[n + 1] = fr
       /\ \A i \in 1..n : stack'[i] = stack[i]
  BY <1>1, <1>4, <1>5, <1>6, PushSeq
<1>12. /\ \A i \in 1..n : WholeFrame(i)'
       /\ \A i \in 1..n : \A g \in Funcs :
            stack[i].kind = "func" /\ stack[i].lex = g =>
                stack'[i].kind = "func" /\ stack'[i].lex = g
  <2>1. \A i \in 1..n : SameVisit(stack[i], stack'[i])
    BY <1>11 DEF SameVisit
  <2>2. n <= Len(stack) /\ declared <= declared' /\ created <= created'
    BY <1>1, <1>2, <1>3, <1>4, <1>5
  <2>. QED  BY <1>0, <1>9, <2>1, <2>2, WholeKept
<1>13. \A i \in 1..(n + 1) : WholeFrame(i)'
  <2>1. WholeFrame(n + 1)'
    BY <1>5, <1>6, <1>11 DEF WholeFrame
  <2>2. \A i \in 1..(n + 1) : i = n + 1 \/ i \in 1..n
    OBVIOUS
  <2>. QED  BY <1>12, <2>1, <2>2
<1>14. Lex' = f
  BY <1>4, <1>6, <1>11, LexTop
<1>15. WholeInsert'
  BY <1>5, <1>8, <1>14 DEF WholeInsert
<1>16. WholeStatus'
  <2>. SUFFICES ASSUME NEW g \in Funcs
                PROVE  /\ g <= f => status'[g] # "absent"
                       /\ status'[g] = "erased" => hasErrors
                       /\ status'[g] = "open" =>
                            \E i \in 1..(n + 1) : stack'[i].kind = "func" /\ stack'[i].lex = g
    BY <1>5, <1>11 DEF WholeStatus
  <2>1. CASE g = f
    <3>1. status'[g] = "open" /\ n + 1 \in 1..(n + 1)
      BY <1>4, <1>5, <2>1
    <3>. QED  BY <1>6, <1>11, <2>1, <3>1
  <2>2. CASE g # f
    <3>1. status'[g] = status[g] /\ (g <= f => g <= declared)
      BY <1>2, <1>4, <1>5, <2>2
    <3>2. /\ g <= declared => status[g] # "absent"
          /\ status[g] = "erased" => hasErrors
          /\ status[g] = "open" =>
               \E i \in 1..n : stack[i].kind = "func" /\ stack[i].lex = g
      BY <1>1 DEF WholeInv, WholeStatus
    <3>3. \A i \in 1..n : i \in 1..(n + 1)
      OBVIOUS
    <3>. QED  BY <1>12, <3>1, <3>2, <3>3
  <2>. QED  BY <2>1, <2>2
<1>. QED  BY <1>5, <1>9, <1>10, <1>11, <1>13, <1>15, <1>16 DEF WholeInv, MisplacedIsRejected

LEMMA WholeEndFunc ==
    ASSUME WholeInv, TypeInv', EndFunc
    PROVE  WholeInv'
<1>. DEFINE e == DefaultReturn(blocks[insertBlock])
            finished == [blocks EXCEPT ![insertBlock] = e]
            verified == FunctionOK(finished, Top.lex)
<1>0. PICK n \in Nat : n = Len(stack)
  BY LenProperties DEF WholeInv, TypeInv, TypeOK
<1>1. /\ stack \in Seq(Frame) /\ stack' \in Seq(Frame) /\ stack # <<>>
      /\ TypeOK /\ TypeOK' /\ n \in 1..n /\ Top = stack[n] /\ Top.kind = "func"
      /\ created \in Int /\ declared \in Int
      /\ status \in [Funcs -> {"absent", "open", "kept", "erased"}]
  <2>1. TypeOK /\ TypeOK' /\ stack # <<>> /\ Top.kind = "func"
    BY DEF WholeInv, TypeInv, EndFunc
  <2>2. /\ stack \in Seq(Frame) /\ stack' \in Seq(Frame)
        /\ created \in Int /\ declared \in Int
        /\ status \in [Funcs -> {"absent", "open", "kept", "erased"}]
    BY <2>1 DEF TypeOK
  <2>3. Len(stack) >= 1
    BY <2>1, <2>2, StackTop
  <2>. QED  BY <1>0, <2>1, <2>2, <2>3 DEF Top
<1>2. insertBlock \in Blocks /\ blocks[insertBlock] \in Block
  BY <1>1 DEF EndFunc, Positioned, TypeOK
<1>3. e.owner = blocks[insertBlock].owner /\ Sealed(e)
      /\ (blocks[insertBlock].malformed => e.malformed)
  BY <1>2, EndingType, EndingKeeps
<1>4. /\ blocks' = finished
      /\ status' = [status EXCEPT ![Top.lex] = IF verified THEN "kept" ELSE "erased"]
      /\ hasErrors' = (hasErrors \/ ~verified)
      /\ stack' = Popped /\ walk' = "walking"
      /\ UNCHANGED <<created, declared, insertBlock, strays>>
  BY DEF EndFunc
<1>. HIDE DEF e, verified
<1>5. /\ blocks'[insertBlock] = e
      /\ \A b \in Blocks : /\ blocks'[b].owner = blocks[b].owner
                           /\ blocks[b].malformed => blocks'[b].malformed
  BY <1>1, <1>2, <1>3, <1>4, InsertPointReplaced
<1>. HIDE DEF finished
<1>6. Found => Found'
  BY <1>5, FoundStays
<1>7. WholeBlocks'
  BY <1>4, <1>5 DEF WholeInv, WholeBlocks
<1>8. PICK m \in Nat : m = n - 1
  BY <1>1
<1>9. Len(stack') = m /\ \A i \in 1..m : stack'[i] = stack[i]
  BY <1>0, <1>1, <1>4, <1>8, StackTop
<1>10. /\ \A i \in 1..m : WholeFrame(i)'
       /\ \A i \in 1..m : \A f \in Funcs :
            stack[i].kind = "func" /\ stack[i].lex = f =>
                stack'[i].kind = "func" /\ stack'[i].lex = f
  <2>1. \A i \in 1..m : SameVisit(stack[i], stack'[i])
    BY <1>9 DEF SameVisit
  <2>2. m <= Len(stack) /\ declared <= declared' /\ created <= created'
    BY <1>0, <1>1, <1>4, <1>8
  <2>. QED  BY <1>1, <1>6, <2>1, <2>2, WholeKept
<1>11. WholeInsert'
  <2>1. insertBlock <= created /\ blocks[insertBlock].owner # NoFunc
    BY <1>2 DEF WholeInv, WholeInsert
  <2>2. blocks'[insertBlock'] = e /\ e.owner # NoFunc /\ insertBlock' <= created'
    BY <1>3, <1>4, <1>5, <2>1
  <2>. QED  BY <1>3, <2>2 DEF WholeInsert, Sealed
<1>12. WholeStatus'
  <2>. SUFFICES ASSUME NEW f \in Funcs
                PROVE  /\ f <= declared => status'[f] # "absent"
                       /\ status'[f] = "erased" => hasErrors'
                       /\ status'[f] = "open" =>
                            \E i \in 1..m : stack'[i].kind = "func" /\ stack'[i].lex = f
    BY <1>4, <1>9 DEF WholeStatus
  <2>1. CASE f = Top.lex
    BY <1>1, <1>4, <2>1
  <2>2. CASE f # Top.lex
    <3>1. status'[f] = status[f]
      BY <1>1, <1>4, <2>2
    <3>2. /\ f <= declared => status[f] # "absent"
          /\ status[f] = "erased" => hasErrors
          /\ status[f] = "open" =>
               \E i \in 1..n : stack[i].kind = "func" /\ stack[i].lex = f
      BY <1>0 DEF WholeInv, WholeStatus
    <3>3. ASSUME status'[f] = "open"
          PROVE  \E i \in 1..m : stack'[i].kind = "func" /\ stack'[i].lex = f
      <4>1. PICK i \in 1..n : stack[i].kind = "func" /\ stack[i].lex = f
        BY <3>1, <3>2, <3>3
      <4>2. i \in 1..m
        <5>1. i # n
          BY <1>1, <2>2, <4>1
        <5>. QED  BY <1>8, <5>1
      <4>. QED  BY <1>10, <4>1, <4>2
    <3>. QED  BY <1>4, <3>1, <3>2, <3>3
  <2>. QED  BY <2>1, <2>2
<1>. QED  BY <1>4, <1>6, <1>7, <1>9, <1>10, <1>11, <1>12 DEF WholeInv, MisplacedIsRejected

\* The end of the program: a kept function with an objection is rejected, and
\* one that was erased has left its error.
LEMMA WholeFinish ==
    ASSUME WholeInv, TypeInv', Finish
    PROVE  WholeInv'
<1>. DEFINE verified == \A f \in Funcs : status[f] = "kept" => FunctionOK(blocks, f)
<1>1. /\ stack = <<>> /\ Len(stack) = 0
      /\ UNCHANGED <<blocks, created, insertBlock, stack, strays, status, declared>>
      /\ hasErrors' = (hasErrors \/ ~verified)
      /\ walk' = IF hasErrors' THEN "rejected" ELSE "accepted"
  BY EmptySeq DEF Finish, unchangedFuncs
<1>. HIDE DEF verified
<1>2. TypeOK /\ declared \in 0..MaxFuncs
      /\ status \in [Funcs -> {"absent", "open", "kept", "erased"}]
      /\ \A b \in Blocks : blocks[b] \in Block
  BY DEF WholeInv, TypeInv, TypeOK
<1>3. /\ WholeBlocks' /\ WholeInsert' /\ (Found <=> Found')
      /\ \A i \in 1..Len(stack') : WholeFrame(i)'
  BY <1>1 DEF WholeInv, WholeBlocks, WholeInsert, Found, Lex, Top, Sealed
<1>4. WholeStatus'
  <2>1. UNCHANGED <<status, declared, stack>> /\ (hasErrors => hasErrors')
    BY <1>1
  <2>. QED  BY <2>1 DEF WholeInv, WholeStatus
<1>5. ASSUME walk' = "accepted"
      PROVE  /\ \A f \in 1..declared : status[f] = "kept"
             /\ "elsewhere" \notin strays
  <2>1. ~hasErrors /\ verified
    BY <1>1, <1>5
  <2>2. ASSUME NEW f \in Funcs, f <= declared
        PROVE  status[f] = "kept"
    <3>1. /\ status[f] # "absent" /\ status[f] # "erased"
          /\ status[f] = "open" => \E i \in 1..0 : stack[i].kind = "func"
      BY <1>1, <2>1, <2>2 DEF WholeInv, WholeStatus
    <3>2. status[f] \in {"absent", "open", "kept", "erased"}
      BY <1>2
    <3>. QED  BY <3>1, <3>2
  <2>3. ~Found
    <3>. SUFFICES ASSUME Found PROVE FALSE
      OBVIOUS
    <3>1. PICK b \in Blocks : blocks[b].malformed /\ blocks[b].owner # NoFunc
      BY DEF Found
    <3>2. blocks[b].owner \in Funcs /\ blocks[b].owner <= declared
      <4>1. blocks[b].owner \in Funcs \cup {NoFunc}
        BY <1>2 DEF Block
      <4>. QED  BY <3>1, <4>1 DEF WholeInv, WholeBlocks
    <3>3. FunctionOK(blocks, blocks[b].owner)
      BY <2>1, <2>2, <3>2 DEF verified
    <3>. QED  BY <3>1, <3>3 DEF FunctionOK
  <2>4. \A f \in 1..declared : f \in Funcs /\ f <= declared
    BY <1>2, BoundsAssumption
  <2>. QED  BY <2>2, <2>3, <2>4 DEF WholeInv
<1>6. MisplacedIsRejected'
  BY <1>1, <1>5 DEF MisplacedIsRejected
<1>. QED  BY <1>1, <1>3, <1>4, <1>6 DEF WholeInv

\* Every step keeps the invariant, whatever the shape of the program.
LEMMA WholeStep == WholeInv /\ [Next]_vars => WholeInv'
<1>. SUFFICES ASSUME WholeInv, [Next]_vars PROVE WholeInv'
  OBVIOUS
<1>1. TypeInv'
  BY TypeStep DEF WholeInv
<1>2. CASE \/ SimpleStmt \/ SkippedIf
           \/ \E constant \in BOOLEAN : GlobalDecl(constant)
  BY <1>1, <1>2, WholeStatements
<1>3. CASE \E init \in BOOLEAN : LocalDecl(init)
  BY <1>1, <1>3, WholeLocalDecl
<1>4. CASE ReturnStmt
  BY <1>1, <1>4, WholeReturn
<1>5. CASE \E hasElse \in BOOLEAN : BeginIf(hasElse)
  BY <1>1, <1>5, WholeBeginIf
<1>6. CASE BeginElse
  BY <1>1, <1>6, WholeBeginElse
<1>7. CASE EndIf \/ EndLoop
  BY <1>1, <1>7, WholeEnd
<1>8. CASE \E valued \in BOOLEAN : BeginLoop(valued)
  BY <1>1, <1>8, WholeBeginLoop
<1>9. CASE \E hasParams \in BOOLEAN : BeginFunc(hasParams)
  BY <1>1, <1>9, WholeBeginFunc
<1>10. CASE EndFunc
  BY <1>1, <1>10, WholeEndFunc
<1>11. CASE Finish
  BY <1>1, <1>11, WholeFinish
<1>12. CASE UndefinedUse \/ Ended \/ UNCHANGED vars
  <2>1. /\ UNCHANGED <<blocks, created, insertBlock, stack, strays, status, declared,
                       hasErrors>>
        /\ walk' = "undefined" \/ UNCHANGED walk
    BY <1>12 DEF UndefinedUse, Ended, vars, unchangedFuncs, unchangedSema
  <2>2. WholeBlocks' /\ WholeInsert' /\ WholeStatus' /\ (Found <=> Found')
    BY <2>1 DEF WholeInv, WholeBlocks, WholeInsert, WholeStatus, Found, Lex, Top, Sealed
  <2>3. \A i \in 1..Len(stack') : WholeFrame(i)'
    BY <2>1, <2>2 DEF WholeInv, WholeFrame
  <2>4. MisplacedIsRejected'
    BY <2>1 DEF WholeInv, MisplacedIsRejected
  <2>. QED  BY <1>1, <2>1, <2>2, <2>3, <2>4 DEF WholeInv
<1>. QED  BY <1>2, <1>3, <1>4, <1>5, <1>6, <1>7, <1>8, <1>9, <1>10, <1>11, <1>12 DEF Next

\* Whatever the shape of the program, an accepted module holds every function of
\* the program, and no instruction of one in another.
THEOREM AcceptedWhole == Spec => []AcceptedIsWhole
<1>1. WholeInv => AcceptedIsWhole
  BY DEF WholeInv, TypeInv, AcceptedIsWhole
<1>. QED  BY <1>1, WholeInit, WholeStep, PTL DEF Spec

-----------------------------------------------------------------------------
(* Control: what the source text and the CFG say can be reached *)

\* The blocks among the first n that control reaches from e: the least set that
\* holds e and that no path leads out of.
ReachSet(bs, n, e) ==
    {b \in 1..n : \A S \in SUBSET (1..n) :
                      e \in S /\ (\A x \in S : bs[x].succ \subseteq S) => b \in S}

Reached == ReachSet(blocks, created, entry[currentFunction])

\* What control can reach of a visit in progress, if it can reach the statement
\* exactly when `outer`: the blocks that are awaited are reached through the
\* branches already closed, and no visit brings control back to life.
FrameLive(fr, outer, reached) ==
    /\ fr.live => outer
    /\ fr.outLive => outer
    /\ fr.kind = "then" /\ fr.other # NoBlock =>
           (fr.other \in reached <=> outer) /\ fr.join \notin reached
    /\ fr.kind = "then" /\ fr.other = NoBlock => (fr.join \in reached <=> outer)
    /\ fr.kind = "else" => (fr.join \in reached <=> fr.outLive)
    /\ fr.kind = "loop" =>
           (fr.header \in reached <=> outer) /\ (fr.join \in reached <=> outer)

LiveInv ==
    stack # <<>> =>
        /\ Top.live <=> insertBlock \in Reached /\ ~Sealed(blocks[insertBlock])
        /\ \A i \in 2..Len(stack) : FrameLive(stack[i], stack[i - 1].live, Reached)

\* The blocks reached hold the entry, no path leads out of them, and they are
\* the least such set.
LEMMA ReachLeast ==
    ASSUME NEW bs, NEW n \in Nat, NEW e \in 1..n,
           \A b \in 1..n : bs[b].succ \subseteq 1..n
    PROVE  /\ e \in ReachSet(bs, n, e)
           /\ ReachSet(bs, n, e) \subseteq 1..n
           /\ \A b \in ReachSet(bs, n, e) : bs[b].succ \subseteq ReachSet(bs, n, e)
           /\ \A S \in SUBSET (1..n) :
                 e \in S /\ (\A x \in S : bs[x].succ \subseteq S) => ReachSet(bs, n, e) \subseteq S
<1>1. \A b \in ReachSet(bs, n, e) : bs[b].succ \subseteq ReachSet(bs, n, e)
  <2>. SUFFICES ASSUME NEW b \in ReachSet(bs, n, e), NEW c \in bs[b].succ,
                       NEW S \in SUBSET (1..n), e \in S, \A x \in S : bs[x].succ \subseteq S
                PROVE  c \in S
    BY DEF ReachSet
  <2>1. b \in S
    BY DEF ReachSet
  <2>. QED  BY <2>1
<1>. QED  BY <1>1 DEF ReachSet

\* A visit stays as it is if no block that it refers to becomes reached.
LEMMA FrameLiveKept ==
    ASSUME NEW fr, NEW gr, NEW outer, NEW R, NEW N,
           FrameLive(fr, outer, R),
           gr.kind = fr.kind, gr.other = fr.other, gr.join = fr.join,
           gr.header = fr.header, gr.outLive = fr.outLive,
           gr.live => outer,
           fr.kind # "func" => (fr.join \in N => fr.join \in R),
           fr.other # NoBlock => (fr.other \in N => fr.other \in R),
           fr.kind = "loop" => (fr.header \in N => fr.header \in R)
    PROVE  FrameLive(gr, outer, R \cup N)
BY DEF FrameLive

\* What control can reach while a body is visited.
LEMMA ReachFacts ==
    ASSUME TypeInv, PlainInv, stack # <<>>
    PROVE  /\ created \in Nat /\ created <= MaxBlocks /\ 1..created \subseteq Blocks
           /\ entry[currentFunction] \in 1..created
           /\ insertBlock \in 1..created
           /\ \A b \in 1..created : blocks[b].succ \subseteq 1..created
           /\ \A b \in Blocks : blocks[b].owner = NoFunc => blocks[b].succ = {}
           /\ Reached \subseteq 1..created
           /\ entry[currentFunction] \in Reached
           /\ \A b \in Reached : blocks[b].succ \subseteq Reached
<1>1. /\ created \in Nat /\ created <= MaxBlocks /\ 1..created \subseteq Blocks
  BY BoundsAssumption DEF TypeInv, TypeOK
<1>2. \A b \in Blocks : blocks[b].owner # NoFunc => b \in 1..created
  BY <1>1 DEF PlainInv, BlocksSound
<1>3. /\ currentFunction \in Funcs /\ insertBlock \in Blocks
      /\ blocks[insertBlock].owner = currentFunction
      /\ Len(stack) \in Nat /\ Len(stack) >= 1
  BY PlainBody
<1>4. /\ entry[currentFunction] \in Blocks
      /\ blocks[entry[currentFunction]].owner = currentFunction
  BY <1>3 DEF PlainInv, InsertionSound, TypeInv, TypeOK
<1>5. \A b \in Blocks : blocks[b].owner = NoFunc => blocks[b].succ = {}
  BY DEF PlainInv, BlocksSound, FreshBlock
<1>6. ASSUME NEW b \in Blocks, NEW c \in blocks[b].succ
      PROVE  c \in 1..created
  <2>1. c \in Blocks /\ TargetSound(b, c) /\ blocks[b].owner # NoFunc
    BY <1>5, <1>6 DEF PlainInv, BlocksSound, TypeInv, TypeOK, Block
  <2>2. CASE blocks[c].owner = blocks[b].owner
    BY <1>2, <2>1, <2>2
  <2>3. ASSUME NEW i \in 1..Len(stack), c \in {stack[i].join, stack[i].other}
        PROVE  c \in 1..created
    <3>1. FrameSound(stack[i]) /\ stack[i] \in Frame
      BY ElementOfSeq, PlainBody DEF PlainInv, Awaited
    <3>2. stack[i].join \in 0..MaxBlocks /\ stack[i].other \in 0..MaxBlocks
      BY <3>1, BoundsAssumption DEF Frame
    <3>3. /\ stack[i].join # 0 => stack[i].join <= created
          /\ stack[i].other # 0 => stack[i].other < stack[i].join
      BY <3>1 DEF FrameSound
    <3>. QED  BY <1>1, <2>1, <2>3, <3>2, <3>3
  <2>. QED  BY <2>1, <2>2, <2>3 DEF TargetSound
<1>7. \A b \in 1..created : blocks[b].succ \subseteq 1..created
  BY <1>1, <1>6
<1>8. entry[currentFunction] \in 1..created /\ insertBlock \in 1..created
  BY <1>2, <1>3, <1>4
<1>9. /\ Reached \subseteq 1..created
      /\ entry[currentFunction] \in Reached
      /\ \A b \in Reached : blocks[b].succ \subseteq Reached
  BY <1>1, <1>7, <1>8, ReachLeast DEF Reached
<1>. QED  BY <1>1, <1>5, <1>7, <1>8, <1>9

\* A step that only adds edges between blocks reached, or from them to the
\* blocks of N, makes exactly those of N reached.
LEMMA ReachedGrows ==
    ASSUME TypeInv, PlainInv, stack # <<>>,
           UNCHANGED <<entry, currentFunction>>,
           created' \in Nat, created <= created',
           NEW N \in SUBSET (1..created'),
           \A b \in Reached : blocks[b].succ \subseteq blocks'[b].succ,
           \A b \in Reached \cup N : blocks'[b].succ \subseteq Reached \cup N,
           \A S \in SUBSET (1..created') :
              Reached \subseteq S /\ (\A x \in S : blocks'[x].succ \subseteq S) => N \subseteq S
    PROVE  Reached' = Reached \cup N
<1>. DEFINE bt == blocks'
            m == created'
            e == entry[currentFunction]
            R == Reached
<1>1. /\ created \in Nat /\ e \in 1..created
      /\ \A b \in 1..created : blocks[b].succ \subseteq 1..created
      /\ R = ReachSet(blocks, created, e)
  BY ReachFacts DEF Reached
<1>2. Reached' = ReachSet(bt, m, e)
  BY DEF Reached
<1>3. /\ m \in Nat /\ created <= m /\ N \in SUBSET (1..m)
      /\ \A b \in R : blocks[b].succ \subseteq bt[b].succ
      /\ \A b \in R \cup N : bt[b].succ \subseteq R \cup N
      /\ \A S \in SUBSET (1..m) :
            R \subseteq S /\ (\A x \in S : bt[x].succ \subseteq S) => N \subseteq S
  OBVIOUS
<1>. HIDE DEF bt, m, e, R
<1>4. /\ e \in R /\ R \subseteq 1..created
      /\ \A b \in R : blocks[b].succ \subseteq R
      /\ \A S \in SUBSET (1..created) :
            e \in S /\ (\A x \in S : blocks[x].succ \subseteq S) => R \subseteq S
  BY <1>1, ReachLeast
<1>5. R \cup N \in SUBSET (1..m) /\ e \in R \cup N
  <2>1. 1..created \subseteq 1..m
    BY <1>1, <1>3
  <2>. QED  BY <1>3, <1>4, <2>1
<1>6. ReachSet(bt, m, e) \subseteq R \cup N
  BY <1>3, <1>5 DEF ReachSet
<1>7. ASSUME NEW S \in SUBSET (1..m), e \in S, \A x \in S : bt[x].succ \subseteq S
      PROVE  R \cup N \subseteq S
  <2>1. S \cap R \in SUBSET (1..created) /\ e \in S \cap R
    BY <1>4, <1>7
  <2>2. \A x \in S \cap R : blocks[x].succ \subseteq S \cap R
    BY <1>3, <1>4, <1>7
  <2>3. R \subseteq S
    BY <1>4, <2>1, <2>2
  <2>4. N \subseteq S
    BY <1>3, <1>7, <2>3
  <2>. QED  BY <2>3, <2>4
<1>8. R \cup N \subseteq ReachSet(bt, m, e)
  <2>. SUFFICES ASSUME NEW b \in R \cup N PROVE b \in ReachSet(bt, m, e)
    OBVIOUS
  <2>1. b \in 1..m
    BY <1>5
  <2>. QED  BY <1>7, <2>1 DEF ReachSet
<1>. QED  BY <1>2, <1>6, <1>8 DEF R

\* A step that adds no edge reaches nothing more.
LEMMA ReachedSame ==
    ASSUME TypeInv, PlainInv, stack # <<>>,
           \A b \in Blocks : blocks'[b].succ = blocks[b].succ,
           UNCHANGED <<created, entry, currentFunction>>
    PROVE  Reached' = Reached
<1>. DEFINE none == {}
<1>1. /\ created \in Nat /\ Reached \subseteq Blocks
      /\ \A b \in Reached : blocks[b].succ \subseteq Reached
  BY ReachFacts
<1>2. \A b \in Reached : blocks'[b].succ = blocks[b].succ
  BY <1>1
<1>3. none \in SUBSET (1..created') /\ Reached \cup none = Reached
      /\ created' \in Nat /\ created <= created'
  BY <1>1
<1>4. /\ \A b \in Reached : blocks[b].succ \subseteq blocks'[b].succ
      /\ \A b \in Reached \cup none : blocks'[b].succ \subseteq Reached \cup none
      /\ \A S \in SUBSET (1..created') :
            Reached \subseteq S /\ (\A x \in S : blocks'[x].succ \subseteq S) => none \subseteq S
  BY <1>1, <1>2
<1>. HIDE DEF none
<1>. QED  BY <1>3, <1>4, ReachedGrows, Zenon

\* A statement without branches: control goes on unless the statement ends the
\* block.
LEMMA LiveInPlace ==
    ASSUME TypeInv, PlainInv, LiveInv, stack # <<>>,
           \A b \in Blocks : blocks'[b].succ = blocks[b].succ,
           UNCHANGED <<created, entry, currentFunction, insertBlock>>,
           Len(stack') = Len(stack),
           \A i \in 1..Len(stack) :
              /\ stack'[i].kind = stack[i].kind /\ stack'[i].header = stack[i].header
              /\ stack'[i].join = stack[i].join /\ stack'[i].other = stack[i].other
              /\ stack'[i].outLive = stack[i].outLive
              /\ stack'[i].live => stack[i].live
              /\ i # Len(stack) => stack'[i].live = stack[i].live,
           Top'.live <=> Top.live /\ ~Sealed(blocks'[insertBlock]),
           Sealed(blocks[insertBlock]) => Sealed(blocks'[insertBlock])
    PROVE  LiveInv'
<1>1. Reached' = Reached
  BY ReachedSame
<1>2. PICK n \in Nat : n = Len(stack)
  BY PlainBody
<1>3. Top'.live <=> insertBlock' \in Reached' /\ ~Sealed(blocks[insertBlock])'
  BY <1>1 DEF LiveInv, Sealed
<1>4. ASSUME NEW i \in 2..n
      PROVE  FrameLive(stack'[i], stack'[i - 1].live, Reached')
  <2>1. i \in 1..n /\ i - 1 \in 1..n /\ i - 1 # n
    BY <1>2
  <2>2. FrameLive(stack[i], stack[i - 1].live, Reached)
    BY <1>2 DEF LiveInv
  <2>3. stack'[i - 1].live = stack[i - 1].live
    BY <1>2, <2>1
  <2>4. /\ stack'[i].kind = stack[i].kind /\ stack'[i].header = stack[i].header
        /\ stack'[i].join = stack[i].join /\ stack'[i].other = stack[i].other
        /\ stack'[i].outLive = stack[i].outLive /\ (stack'[i].live => stack[i].live)
    BY <1>2, <2>1
  <2>5. FrameLive(stack'[i], stack[i - 1].live, Reached)
    BY <2>2, <2>4 DEF FrameLive
  <2>. QED  BY <1>1, <2>3, <2>5
<1>5. Len(stack') = n
  BY <1>2
<1>. QED  BY <1>3, <1>4, <1>5 DEF LiveInv

LEMMA LiveStatements ==
    ASSUME TypeInv, PlainInv, PlainInv', LiveInv, Shapes = {},
           \/ SimpleStmt \/ SkippedIf
           \/ \E init \in BOOLEAN : LocalDecl(init)
    PROVE  LiveInv'
<1>1. walk = "walking" /\ stack # <<>> /\ ~Top.returned /\ ~SkippedIf
  BY DEF SimpleStmt, SkippedIf, LocalDecl, MayState
<1>2. /\ insertBlock \in Blocks /\ blocks[insertBlock] \in Block
      /\ stack \in Seq(Frame) /\ Top \in Frame /\ ~Sealed(blocks[insertBlock])
  BY <1>1, PlainBody DEF PlainInv, InsertionSound
<1>3. UNCHANGED <<created, insertBlock, entry, currentFunction, stack>>
  BY <1>1, <1>2 DEF SimpleStmt, LocalDecl, unchangedFuncs, unchangedSema
<1>4. ~Sealed(blocks'[insertBlock])
  <2>1. InsertionSound' /\ stack' # <<>>
    BY <1>1, <1>3 DEF PlainInv
  <2>2. Top' = Top
    BY <1>3 DEF Top
  <2>. QED  BY <1>1, <1>3, <2>1, <2>2 DEF InsertionSound, Sealed
<1>5. \A b \in Blocks : blocks'[b].succ = blocks[b].succ
  <2>1. \A blk \in Block : Emitted(blk, "op", {}).succ = blk.succ /\ WithAlloca(blk).succ = blk.succ
                           /\ WithAlloca(blk) \in Block
    BY DEF Emitted, WithAlloca, Block, Terminators
  <2>2. blocks \in [Blocks -> Block]
    BY DEF TypeInv, TypeOK
  <2>3. CASE SimpleStmt
    BY <1>2, <2>1, <2>2, <2>3 DEF SimpleStmt
  <2>4. ASSUME NEW init \in BOOLEAN, LocalDecl(init)
        PROVE  \A b \in Blocks : blocks'[b].succ = blocks[b].succ
    <3>. DEFINE en == entry[currentFunction]
                allocated == [blocks EXCEPT ![en] = WithAlloca(@)]
                stored(blk) == [Emitted(blk, "op", {}) EXCEPT
                                   !.malformed = @ \/ blk.owner # currentFunction]
    <3>1. /\ allocated \in [Blocks -> Block]
          /\ \A b \in Blocks : allocated[b].succ = blocks[b].succ
      BY <2>1, <2>2
    <3>2. \A blk \in Block : stored(blk).succ = blk.succ
      BY DEF Emitted, Block
    <3>3. blocks' = IF init THEN [allocated EXCEPT ![insertBlock] = stored(@)] ELSE allocated
      BY <2>4 DEF LocalDecl
    <3>. HIDE DEF allocated, stored
    <3>. QED  BY <1>2, <3>1, <3>2, <3>3
  <2>. QED  BY <1>1, <2>3, <2>4
<1>6. Top'.live <=> Top.live /\ ~Sealed(blocks'[insertBlock])
  BY <1>3, <1>4 DEF Top
<1>. QED  BY <1>1, <1>2, <1>3, <1>4, <1>5, <1>6, LiveInPlace

LEMMA LiveReturn ==
    ASSUME TypeInv, PlainInv, LiveInv, Shapes = {}, ReturnStmt
    PROVE  LiveInv'
<1>1. stack # <<>> /\ ~Top.returned
  BY DEF ReturnStmt, MayState
<1>2. /\ insertBlock \in Blocks /\ blocks[insertBlock] \in Block
      /\ stack \in Seq(Frame) /\ Len(stack) \in Nat /\ Len(stack) >= 1
      /\ Top \in Frame /\ Top = stack[Len(stack)]
  BY <1>1, PlainBody
<1>. DEFINE e == Emitted(blocks[insertBlock], "ret", {})
            fr == [Top EXCEPT !.returned = TRUE, !.live = FALSE]
<1>3. e.succ = blocks[insertBlock].succ /\ Sealed(e)
  BY <1>2 DEF Emitted, Block, Sealed, Terminators
<1>4. blocks' = [blocks EXCEPT ![insertBlock] = e] /\ stack' = [stack EXCEPT ![Len(stack)] = fr]
  BY DEF ReturnStmt, Top
<1>5. /\ fr \in Frame /\ fr.kind = Top.kind /\ fr.outLive = Top.outLive
      /\ fr.header = Top.header /\ fr.join = Top.join /\ fr.other = Top.other
      /\ ~fr.live
  BY <1>2 DEF Frame
<1>. HIDE DEF e, fr
<1>6. /\ stack' \in Seq(Frame) /\ Len(stack') = Len(stack)
      /\ \A j \in 1..Len(stack) : stack'[j] = IF j = Len(stack) THEN fr ELSE stack[j]
  <2>1. Len(stack) \in 1..Len(stack)
    BY <1>2
  <2>. QED  BY <1>2, <1>4, <1>5, <2>1, ExceptSeq
<1>7. ~Top'.live
  BY <1>2, <1>5, <1>6 DEF Top
<1>8. \A i \in 1..Len(stack) :
         /\ stack'[i].kind = stack[i].kind /\ stack'[i].header = stack[i].header
         /\ stack'[i].join = stack[i].join /\ stack'[i].other = stack[i].other
         /\ stack'[i].outLive = stack[i].outLive
         /\ stack'[i].live => stack[i].live
         /\ i # Len(stack) => stack'[i].live = stack[i].live
  BY <1>2, <1>5, <1>6
<1>9. UNCHANGED <<created, insertBlock, entry, currentFunction>>
  BY DEF ReturnStmt, unchangedFuncs
<1>10. Sealed(blocks'[insertBlock]) /\ \A b \in Blocks : blocks'[b].succ = blocks[b].succ
  BY <1>2, <1>3, <1>4 DEF TypeInv, TypeOK
<1>. QED  BY <1>1, <1>6, <1>7, <1>8, <1>9, <1>10, LiveInPlace

\* The blocks that a visit in progress refers to exist.
LEMMA FrameCreated ==
    ASSUME TypeInv, PlainInv, stack # <<>>, NEW i \in 1..Len(stack)
    PROVE  /\ stack[i] \in Frame
           /\ stack[i].join # NoBlock => stack[i].join \in 1..created
           /\ stack[i].other # NoBlock => stack[i].other \in 1..created
           /\ stack[i].kind = "loop" => stack[i].header \in 1..created
<1>1. FrameSound(stack[i]) /\ stack[i] \in Frame
  BY ElementOfSeq, PlainBody DEF PlainInv, Awaited
<1>2. /\ stack[i].join \in 0..MaxBlocks /\ stack[i].other \in 0..MaxBlocks
      /\ stack[i].kind = "loop" => stack[i].header \in Blocks
  BY <1>1, BoundsAssumption DEF Frame, TypeInv
<1>3. /\ stack[i].join # 0 => stack[i].join <= created
      /\ stack[i].other # 0 => stack[i].other < stack[i].join
      /\ stack[i].kind = "loop" => blocks[stack[i].header].owner = currentFunction
  BY <1>1 DEF FrameSound
<1>4. created \in Nat /\ currentFunction # NoFunc
  BY ReachFacts DEF PlainInv, InsertionSound
<1>5. \A b \in Blocks : blocks[b].owner # NoFunc => b \in 1..created
  BY <1>4 DEF PlainInv, BlocksSound
<1>. QED  BY <1>1, <1>2, <1>3, <1>4, <1>5

\* A visit that begins where control can get: nothing that the visits below
\* await is reached by it.
LEMMA LivePush ==
    ASSUME TypeInv, PlainInv, LiveInv, stack # <<>>, Len(stack) < MaxDepth,
           NEW fr \in Frame, fr.join # NoBlock, fr.kind = "loop" => fr.header # NoBlock,
           stack' = Append(stack, fr), fr.live = Top.live,
           NEW N, \A b \in N : b > created,
           Reached' = Reached \cup N,
           FrameLive(fr, Top.live, Reached'),
           insertBlock' \in Reached' <=> Top.live,
           ~Sealed(blocks'[insertBlock'])
    PROVE  LiveInv'
<1>1. /\ stack' # <<>> /\ Len(stack') = Len(stack) + 1
      /\ stack'[Len(stack) + 1] = fr
      /\ \A i \in 1..Len(stack) : stack'[i] = stack[i]
  BY Pushed
<1>2. PICK n \in Nat : n = Len(stack) /\ n >= 1 /\ Top = stack[n]
  BY PlainBody
<1>3. Top' = fr
  BY <1>1, <1>2 DEF Top
<1>4. ASSUME NEW i \in 2..(n + 1)
      PROVE  FrameLive(stack'[i], stack'[i - 1].live, Reached')
  <2>1. CASE i = n + 1
    <3>1. i - 1 = n /\ n \in 1..n
      BY <1>2, <2>1
    <3>. QED  BY <1>1, <1>2, <2>1, <3>1
  <2>2. CASE i # n + 1
    <3>1. i \in 2..n /\ i \in 1..n /\ i - 1 \in 1..n
      BY <2>2
    <3>2. FrameLive(stack[i], stack[i - 1].live, Reached)
      BY <1>2, <3>1 DEF LiveInv
    <3>3. \A b \in 1..created : b \notin N
      BY ReachFacts
    <3>4. /\ stack[i].join # NoBlock => stack[i].join \in 1..created
          /\ stack[i].other # NoBlock => stack[i].other \in 1..created
          /\ stack[i].kind = "loop" => stack[i].header \in 1..created
          /\ stack[i].kind # "func" => stack[i].join # NoBlock
      BY <1>2, <3>1, FrameCreated DEF TypeInv
    <3>5. stack[i].live => stack[i - 1].live
      BY <3>2 DEF FrameLive
    <3>6. FrameLive(stack[i], stack[i - 1].live, Reached \cup N)
      BY <3>2, <3>3, <3>4, <3>5, FrameLiveKept
    <3>. QED  BY <1>1, <1>2, <3>1, <3>6
  <2>. QED  BY <2>1, <2>2
<1>5. Top'.live <=> insertBlock' \in Reached' /\ ~Sealed(blocks[insertBlock])'
  BY <1>3 DEF Sealed
<1>6. Len(stack') = n + 1
  BY <1>1, <1>2
<1>. QED  BY <1>4, <1>5, <1>6 DEF LiveInv

\* Edges out of the insertion point alone: the blocks they lead to are reached
\* if the insertion point is.
LEMMA ReachedFrom ==
    ASSUME TypeInv, PlainInv, stack # <<>>,
           UNCHANGED <<entry, currentFunction>>,
           created' \in Nat, created <= created',
           NEW T \in SUBSET (1..created'), NEW N \in SUBSET (1..created'),
           \A b \in 1..created : b # insertBlock => blocks'[b].succ = blocks[b].succ,
           blocks'[insertBlock].succ = blocks[insertBlock].succ \cup T,
           T \subseteq N,
           \A b \in N : b # insertBlock /\ blocks'[b].succ \subseteq Reached \cup N,
           \A S \in SUBSET (1..created') :
              T \subseteq S /\ (\A x \in S : blocks'[x].succ \subseteq S) => N \subseteq S
    PROVE  Reached' = Reached \cup IF insertBlock \in Reached THEN N ELSE {}
<1>1. /\ Reached \subseteq 1..created
      /\ \A b \in Reached : blocks[b].succ \subseteq Reached
  BY ReachFacts
<1>. DEFINE M == IF insertBlock \in Reached THEN N ELSE {}
<1>2. M \in SUBSET (1..created')
  OBVIOUS
<1>3. \A b \in Reached : blocks[b].succ \subseteq blocks'[b].succ
  BY <1>1
<1>4. \A b \in Reached \cup M : blocks'[b].succ \subseteq Reached \cup M
  BY <1>1
<1>5. ASSUME NEW S \in SUBSET (1..created'), Reached \subseteq S,
             \A x \in S : blocks'[x].succ \subseteq S
      PROVE  M \subseteq S
  <2>1. CASE insertBlock \in Reached
    <3>1. T \subseteq S
      BY <1>5, <2>1
    <3>. QED  BY <1>5, <2>1, <3>1
  <2>2. CASE insertBlock \notin Reached
    BY <2>2
  <2>. QED  BY <2>1, <2>2
<1>6. \A S \in SUBSET (1..created') :
         Reached \subseteq S /\ (\A x \in S : blocks'[x].succ \subseteq S) => M \subseteq S
  BY <1>5
<1>. HIDE DEF M
<1>7. Reached' = Reached \cup M
  BY <1>2, <1>3, <1>4, <1>6, ReachedGrows, Zenon
<1>. QED  BY <1>7 DEF M

\* Where a visit may begin, control gets to the insertion point if the source
\* text says so.
LEMMA LiveHere ==
    ASSUME TypeInv, PlainInv, LiveInv, stack # <<>>, ~Top.returned
    PROVE  /\ insertBlock \in Reached <=> Top.live
           /\ Top.live \in BOOLEAN
<1>1. ~Sealed(blocks[insertBlock])
  BY DEF PlainInv, InsertionSound
<1>2. Top.live \in BOOLEAN
  BY PlainBody DEF Frame
<1>. QED  BY <1>1, <1>2 DEF LiveInv

LEMMA LiveBeginIf ==
    ASSUME TypeInv, PlainInv, LiveInv, Shapes = {},
           NEW hasElse \in BOOLEAN, BeginIf(hasElse)
    PROVE  LiveInv'
<1>1. stack # <<>> /\ ~Top.returned /\ Len(stack) < MaxDepth
  BY DEF BeginIf, MayNest, MayState
<1>2. /\ insertBlock \in Blocks /\ blocks[insertBlock] \in Block /\ insertBlock \in 1..created
      /\ blocks[insertBlock].owner = currentFunction
      /\ (insertBlock \in Reached <=> Top.live) /\ Top.live \in BOOLEAN
  BY <1>1, PlainBody, ReachFacts, LiveHere
<1>3. /\ created \in Nat /\ created + 1 \in Blocks /\ created + 2 \in Blocks
      /\ created + 3 \in Blocks /\ created' = created + 3 /\ created' \in Nat
      /\ created <= created' /\ insertBlock # created + 1
      /\ \A b \in 1..created : b # created + 1 /\ b # created + 2 /\ b # created + 3
      /\ insertBlock # created + 2 /\ insertBlock # created + 3
  <2>1. created \in Nat /\ created' = created + 3 /\ created + 3 <= MaxBlocks /\ MaxBlocks \in Nat
    BY BoundsAssumption DEF BeginIf, TypeInv, TypeOK
  <2>2. \A b \in 1..created : b # created + 1 /\ b # created + 2 /\ b # created + 3
    BY <2>1
  <2>. QED  BY <1>2, <2>1, <2>2
<1>4. \A b \in {created + 1, created + 2, created + 3} : blocks[b] = FreshBlock
  BY <1>3 DEF PlainInv, BlocksSound
<1>5. FreshBlock.succ = {} /\ ~Sealed(FreshBlock)
  BY DEF FreshBlock, Sealed, Terminators
<1>. DEFINE then == created + 1
            join == created + 3
            other == IF hasElse THEN created + 2 ELSE NoBlock
            fr == FrameOf("then", NoBlock, other, join)
            target == FalseTarget(hasElse, created + 2, join)
            T == {then, target}
            N == IF Top.live THEN T ELSE {}
<1>6. target = (IF hasElse THEN created + 2 ELSE created + 3) /\ target \in Blocks
  BY <1>3 DEF FalseTarget
<1>7. /\ fr \in Frame /\ fr.kind = "then" /\ fr.join = join /\ fr.other = other
      /\ fr.live = Top.live /\ fr.outLive = FALSE
  <2>1. fr \in Frame
    BY <1>2, <1>3, FrameOfType DEF TypeInv
  <2>2. fr.live = (stack = <<>> \/ Top.live)
    BY DEF FrameOf
  <2>. QED  BY <1>1, <1>2, <2>1, <2>2 DEF FrameOf
<1>8. /\ blocks'[then].succ = {} /\ ~Sealed(blocks'[then])
      /\ blocks'[insertBlock].succ = blocks[insertBlock].succ \cup T
      /\ \A b \in Blocks : b \notin {then, insertBlock} => blocks'[b] = blocks[b]
  <2>. DEFINE e == Emitted(blocks[insertBlock], "condbr", T)
              bs == [blocks EXCEPT ![insertBlock] = e]
  <2>1. e.succ = blocks[insertBlock].succ \cup T
    BY <1>2 DEF Emitted, Block
  <2>2. blocks' = Inserted(bs, then, currentFunction)
    BY <1>2 DEF BeginIf
  <2>3. blocks \in [Blocks -> Block]
    BY DEF TypeInv, TypeOK
  <2>. HIDE DEF e, T
  <2>4. /\ blocks'[then] = [FreshBlock EXCEPT !.owner = currentFunction]
        /\ blocks'[insertBlock] = e
        /\ \A b \in Blocks : b \notin {then, insertBlock} => blocks'[b] = blocks[b]
    BY <1>2, <1>3, <1>4, <2>2, <2>3 DEF Inserted
  <2>5. blocks'[then].succ = {} /\ ~Sealed(blocks'[then])
    BY <2>4 DEF FreshBlock, Sealed, Terminators
  <2>. QED  BY <2>1, <2>4, <2>5
<1>9. /\ stack' = Append(stack, fr) /\ insertBlock' = then
      /\ UNCHANGED <<entry, currentFunction>>
  BY <1>2 DEF BeginIf, unchangedFuncs
<1>10. Reached' = Reached \cup N
  <2>1. T \in SUBSET (1..created')
    BY <1>3, <1>6
  <2>2. \A b \in 1..created : b # insertBlock => blocks'[b].succ = blocks[b].succ
    <3>1. \A b \in 1..created : b \in Blocks /\ b # then
      BY <1>1, <1>3, ReachFacts
    <3>. QED  BY <1>8, <3>1
  <2>3. \A b \in T : b # insertBlock /\ blocks'[b].succ \subseteq Reached \cup T
    BY <1>3, <1>4, <1>5, <1>6, <1>8
  <2>4. \A S \in SUBSET (1..created') :
           T \subseteq S /\ (\A x \in S : blocks'[x].succ \subseteq S) => T \subseteq S
    OBVIOUS
  <2>5. blocks'[insertBlock].succ = blocks[insertBlock].succ \cup T /\ T \subseteq T
    BY <1>8
  <2>. HIDE DEF T
  <2>6. Reached' = Reached \cup IF insertBlock \in Reached THEN T ELSE {}
    BY <1>1, <1>3, <1>9, <2>1, <2>2, <2>3, <2>4, <2>5, ReachedFrom, Zenon
  <2>. QED  BY <1>2, <2>6
<1>11. \A b \in N : b > created
  BY <1>3, <1>6
<1>12. FrameLive(fr, Top.live, Reached')
  <2>1. \A b \in Reached : b # then /\ b # created + 2 /\ b # created + 3
    BY <1>1, <1>3, ReachFacts
  <2>2. then # join /\ created + 2 # created + 3 /\ NoBlock # created + 2
    BY <1>3
  <2>3. hasElse => (fr.other \in Reached' <=> Top.live) /\ fr.join \notin Reached'
    BY <1>6, <1>7, <1>10, <2>1, <2>2
  <2>4. ~hasElse => (fr.join \in Reached' <=> Top.live) /\ fr.other = NoBlock
    BY <1>6, <1>7, <1>10, <2>1, <2>2
  <2>5. hasElse => fr.other # NoBlock
    BY <1>7, <2>2
  <2>. HIDE DEF fr
  <2>. QED  BY <1>7, <2>3, <2>4, <2>5 DEF FrameLive
<1>13. insertBlock' \in Reached' <=> Top.live
  <2>1. then \notin Reached
    BY <1>1, <1>3, ReachFacts
  <2>. QED  BY <1>9, <1>10, <2>1
<1>14. fr.join # NoBlock /\ (fr.kind = "loop" => fr.header # NoBlock)
  BY <1>3, <1>7
<1>. HIDE DEF fr, N
<1>. QED  BY <1>1, <1>7, <1>8, <1>9, <1>10, <1>11, <1>12, <1>13, <1>14, LivePush

LEMMA LiveBeginLoop ==
    ASSUME TypeInv, PlainInv, LiveInv, Shapes = {},
           NEW valued \in BOOLEAN, BeginLoop(valued)
    PROVE  LiveInv'
<1>1. stack # <<>> /\ ~Top.returned /\ Len(stack) < MaxDepth /\ valued = TRUE
  BY DEF BeginLoop, MayNest, MayState
<1>2. /\ insertBlock \in Blocks /\ blocks[insertBlock] \in Block /\ insertBlock \in 1..created
      /\ blocks[insertBlock].owner = currentFunction /\ currentFunction \in Funcs
      /\ (insertBlock \in Reached <=> Top.live) /\ Top.live \in BOOLEAN
  BY <1>1, PlainBody, ReachFacts, LiveHere
<1>3. /\ created \in Nat /\ created + 1 \in Blocks /\ created + 2 \in Blocks
      /\ created + 3 \in Blocks /\ created' = created + 3 /\ created' \in Nat
      /\ created <= created' /\ insertBlock # created + 1
      /\ \A b \in 1..created : b # created + 1 /\ b # created + 2 /\ b # created + 3
      /\ insertBlock # created + 2 /\ insertBlock # created + 3
  <2>1. created \in Nat /\ created' = created + 3 /\ created + 3 <= MaxBlocks /\ MaxBlocks \in Nat
    BY BoundsAssumption DEF BeginLoop, TypeInv, TypeOK
  <2>2. \A b \in 1..created : b # created + 1 /\ b # created + 2 /\ b # created + 3
    BY <2>1
  <2>. QED  BY <1>2, <2>1, <2>2
<1>4. \A b \in {created + 1, created + 2, created + 3} : blocks[b] = FreshBlock
  BY <1>3 DEF PlainInv, BlocksSound
<1>5. FreshBlock.succ = {}
  BY DEF FreshBlock
<1>. DEFINE cond == created + 1
            body == created + 2
            after == created + 3
            fr == FrameOf("loop", cond, NoBlock, after)
            T == {cond}
            reach == {cond, body, after}
            N == IF Top.live THEN reach ELSE {}
<1>6. /\ fr \in Frame /\ fr.kind = "loop" /\ fr.join = after /\ fr.other = NoBlock
      /\ fr.header = cond /\ fr.live = Top.live /\ fr.outLive = FALSE
  <2>1. fr \in Frame
    BY <1>2, <1>3, FrameOfType DEF TypeInv
  <2>2. fr.live = (stack = <<>> \/ Top.live)
    BY DEF FrameOf
  <2>. QED  BY <1>1, <1>2, <2>1, <2>2 DEF FrameOf
<1>7. /\ stack' = Append(stack, fr) /\ insertBlock' = body
      /\ UNCHANGED <<entry, currentFunction>>
  BY <1>2 DEF BeginLoop, unchangedFuncs
<1>8. /\ blocks'[body].succ = {} /\ ~Sealed(blocks'[body])
      /\ blocks'[cond].succ = {body, after}
      /\ blocks'[insertBlock].succ = blocks[insertBlock].succ \cup T
      /\ \A b \in Blocks : b \notin {cond, body, insertBlock} => blocks'[b] = blocks[b]
  <2>. DEFINE e == Emitted(blocks[insertBlock], "br", T)
              test == LoopCond(currentFunction, valued, body, after)
              bs == [blocks EXCEPT ![insertBlock] = e, ![cond] = test]
  <2>1. e.succ = blocks[insertBlock].succ \cup T
    BY <1>2 DEF Emitted, Block
  <2>2. test.succ = {body, after}
    <3>1. test = [owner |-> currentFunction, last |-> IF valued THEN "condbr" ELSE "op",
                  malformed |-> FALSE, succ |-> IF valued THEN {body, after} ELSE {}]
      <4>1. currentFunction \in Funcs \cup {NoFunc} /\ body \in Blocks /\ after \in Blocks
        BY <1>2, <1>3
      <4>. HIDE DEF body, after
      <4>. QED  BY <4>1, LoopCondType
    <3>. HIDE DEF test
    <3>. QED  BY <1>1, <3>1
  <2>3. blocks' = Inserted(bs, body, currentFunction)
    BY <1>2 DEF BeginLoop
  <2>. HIDE DEF e, test, T
  <2>4. /\ DOMAIN bs = Blocks /\ bs[cond] = test /\ bs[insertBlock] = e
        /\ bs[body] = FreshBlock
        /\ \A b \in Blocks : b \notin {cond, insertBlock} => bs[b] = blocks[b]
    <3>1. blocks \in [Blocks -> Block]
      BY DEF TypeInv, TypeOK
    <3>2. /\ insertBlock \in Blocks /\ cond \in Blocks /\ body \in Blocks
          /\ insertBlock # cond /\ insertBlock # body /\ cond # body
          /\ blocks[body] = FreshBlock
      BY <1>2, <1>3, <1>4
    <3>. HIDE DEF cond, body
    <3>. QED  BY <3>1, <3>2
  <2>. HIDE DEF bs
  <2>5. /\ blocks'[body] = [FreshBlock EXCEPT !.owner = currentFunction]
        /\ \A b \in Blocks : b # body => blocks'[b] = bs[b]
    BY <1>3, <2>3, <2>4 DEF Inserted
  <2>6. blocks'[body].succ = {} /\ ~Sealed(blocks'[body])
    BY <2>5 DEF FreshBlock, Sealed, Terminators
  <2>. QED  BY <1>2, <1>3, <2>1, <2>2, <2>4, <2>5, <2>6
<1>9. \A b \in Reached : b # cond /\ b # body /\ b # after
  BY <1>1, <1>3, ReachFacts
<1>10. Reached' = Reached \cup N
  <2>1. T \in SUBSET (1..created') /\ reach \in SUBSET (1..created') /\ T \subseteq reach
    BY <1>3
  <2>2. \A b \in 1..created : b # insertBlock => blocks'[b].succ = blocks[b].succ
    <3>1. \A b \in 1..created : b \in Blocks /\ b # cond /\ b # body
      BY <1>1, <1>3, ReachFacts
    <3>. QED  BY <1>8, <3>1
  <2>3. blocks'[after].succ = {}
    BY <1>3, <1>4, <1>5, <1>8
  <2>4. \A b \in reach : b # insertBlock /\ blocks'[b].succ \subseteq Reached \cup reach
    BY <1>3, <1>8, <2>3
  <2>5. \A S \in SUBSET (1..created') :
           T \subseteq S /\ (\A x \in S : blocks'[x].succ \subseteq S) => reach \subseteq S
    BY <1>8
  <2>6. blocks'[insertBlock].succ = blocks[insertBlock].succ \cup T
    BY <1>8
  <2>. HIDE DEF T, reach
  <2>7. Reached' = Reached \cup IF insertBlock \in Reached THEN reach ELSE {}
    BY <1>1, <1>3, <1>7, <2>1, <2>2, <2>4, <2>5, <2>6, ReachedFrom, Zenon
  <2>. QED  BY <1>2, <2>7
<1>11. \A b \in N : b > created
  BY <1>3
<1>12. FrameLive(fr, Top.live, Reached')
  <2>1. (cond \in Reached' <=> Top.live) /\ (after \in Reached' <=> Top.live)
    BY <1>9, <1>10
  <2>. HIDE DEF fr, cond, after
  <2>. QED  BY <1>6, <2>1 DEF FrameLive
<1>13. insertBlock' \in Reached' <=> Top.live
  BY <1>7, <1>9, <1>10
<1>14. fr.join # NoBlock /\ (fr.kind = "loop" => fr.header # NoBlock)
  BY <1>3, <1>6
<1>15. ~Sealed(blocks'[insertBlock'])
  BY <1>7, <1>8
<1>. HIDE DEF fr, N
<1>. QED  BY <1>1, <1>6, <1>7, <1>10, <1>11, <1>12, <1>13, <1>14, <1>15, LivePush

\* The end of a branch or of a loop body: its block may branch to `target`.
LEMMA FallSucc ==
    ASSUME TypeInv, PlainInv, stack # <<>>, NEW target \in Blocks, NEW placed \in Blocks,
           blocks[placed].owner = NoFunc,
           blocks' = Inserted([blocks EXCEPT ![insertBlock] = FallThrough(@, target)],
                              placed, currentFunction)
    PROVE  /\ insertBlock \in Blocks
           /\ blocks[insertBlock].owner # NoFunc
           /\ ~Sealed(blocks'[placed])
           /\ \A b \in Blocks : b # insertBlock => blocks'[b].succ = blocks[b].succ
           /\ blocks'[insertBlock].succ =
                blocks[insertBlock].succ \cup
                   IF Sealed(blocks[insertBlock]) THEN {} ELSE {target}
<1>1. /\ insertBlock \in Blocks /\ blocks[insertBlock] \in Block
      /\ blocks[insertBlock].owner = currentFunction /\ currentFunction # NoFunc
  BY PlainBody DEF PlainInv, InsertionSound
<1>2. blocks[placed] = FreshBlock /\ placed # insertBlock
  BY <1>1 DEF PlainInv, BlocksSound
<1>. DEFINE e == FallThrough(blocks[insertBlock], target)
<1>3. e.succ = blocks[insertBlock].succ \cup
                  IF Sealed(blocks[insertBlock]) THEN {} ELSE {target}
  <2>1. CASE Sealed(blocks[insertBlock])
    BY <2>1 DEF FallThrough
  <2>2. CASE ~Sealed(blocks[insertBlock])
    BY <1>1, <2>2 DEF FallThrough, Emitted, Block
  <2>. QED  BY <2>1, <2>2
<1>. HIDE DEF e
<1>4. /\ blocks'[placed] = [FreshBlock EXCEPT !.owner = currentFunction]
      /\ blocks'[insertBlock] = e
      /\ \A b \in Blocks : b \notin {placed, insertBlock} => blocks'[b] = blocks[b]
  BY <1>1, <1>2 DEF Inserted, TypeInv, TypeOK, e
<1>5. /\ ~Sealed(blocks'[placed]) /\ blocks'[placed].succ = blocks[placed].succ
  BY <1>2, <1>4 DEF FreshBlock, Sealed, Terminators
<1>. QED  BY <1>1, <1>3, <1>4, <1>5

\* To a block awaited, which control then reaches if it can get here.
LEMMA ReachedAhead ==
    ASSUME TypeInv, PlainInv, LiveInv, stack # <<>>,
           NEW target \in 1..created, NEW placed \in Blocks,
           blocks[placed].owner = NoFunc, blocks[target].owner = NoFunc,
           blocks' = Inserted([blocks EXCEPT ![insertBlock] = FallThrough(@, target)],
                              placed, currentFunction),
           UNCHANGED <<created, entry, currentFunction>>
    PROVE  Reached' = Reached \cup IF Top.live THEN {target} ELSE {}
<1>1. /\ created \in Nat /\ created <= created /\ 1..created \subseteq Blocks
      /\ \A b \in Blocks : blocks[b].owner = NoFunc => blocks[b].succ = {}
  BY ReachFacts
<1>2. /\ insertBlock \in Blocks /\ blocks[insertBlock].owner # NoFunc
      /\ \A b \in Blocks : b # insertBlock => blocks'[b].succ = blocks[b].succ
      /\ blocks'[insertBlock].succ =
           blocks[insertBlock].succ \cup
              IF Sealed(blocks[insertBlock]) THEN {} ELSE {target}
  BY <1>1, FallSucc
<1>3. target # insertBlock /\ blocks'[target].succ = {}
  BY <1>1, <1>2
<1>4. Top.live <=> insertBlock \in Reached /\ ~Sealed(blocks[insertBlock])
  BY DEF LiveInv
<1>5. CASE Sealed(blocks[insertBlock])
  <2>1. \A b \in Blocks : blocks'[b].succ = blocks[b].succ
    BY <1>2, <1>5
  <2>2. Reached' = Reached
    BY <2>1, ReachedSame
  <2>. QED  BY <1>4, <1>5, <2>2
<1>6. CASE ~Sealed(blocks[insertBlock])
  <2>. DEFINE T == {target}
  <2>1. /\ T \in SUBSET (1..created') /\ T \subseteq T
        /\ blocks'[insertBlock].succ = blocks[insertBlock].succ \cup T
        /\ created' \in Nat /\ created <= created'
    BY <1>1, <1>2, <1>6
  <2>2. \A b \in 1..created : b # insertBlock => blocks'[b].succ = blocks[b].succ
    BY <1>1, <1>2
  <2>3. \A b \in T : b # insertBlock /\ blocks'[b].succ \subseteq Reached \cup T
    BY <1>3
  <2>4. \A S \in SUBSET (1..created') :
           T \subseteq S /\ (\A x \in S : blocks'[x].succ \subseteq S) => T \subseteq S
    OBVIOUS
  <2>5. UNCHANGED <<entry, currentFunction>>
    OBVIOUS
  <2>. HIDE DEF T
  <2>6. Reached' = Reached \cup IF insertBlock \in Reached THEN T ELSE {}
    BY <2>1, <2>2, <2>3, <2>4, <2>5, ReachedFrom, Zenon
  <2>. QED  BY <1>4, <1>6, <2>6 DEF T
<1>. QED  BY <1>5, <1>6

\* Back to the condition of a loop, which control has reached if it gets here.
LEMMA ReachedBack ==
    ASSUME TypeInv, PlainInv, LiveInv, stack # <<>>,
           NEW target \in Blocks, NEW placed \in Blocks,
           blocks[placed].owner = NoFunc, Top.live => target \in Reached,
           blocks' = Inserted([blocks EXCEPT ![insertBlock] = FallThrough(@, target)],
                              placed, currentFunction),
           UNCHANGED <<created, entry, currentFunction>>
    PROVE  Reached' = Reached
<1>. DEFINE none == {}
<1>1. /\ created \in Nat /\ created <= created /\ Reached \subseteq Blocks
      /\ \A b \in Reached : blocks[b].succ \subseteq Reached
  BY ReachFacts
<1>2. /\ \A b \in Blocks : b # insertBlock => blocks'[b].succ = blocks[b].succ
      /\ blocks'[insertBlock].succ =
           blocks[insertBlock].succ \cup
              IF Sealed(blocks[insertBlock]) THEN {} ELSE {target}
  BY FallSucc
<1>3. Top.live <=> insertBlock \in Reached /\ ~Sealed(blocks[insertBlock])
  BY DEF LiveInv
<1>4. none \in SUBSET (1..created') /\ Reached \cup none = Reached
      /\ created' \in Nat /\ created <= created'
  BY <1>1
<1>5. \A b \in Reached : blocks[b].succ \subseteq blocks'[b].succ
  BY <1>1, <1>2
<1>6. \A b \in Reached \cup none : blocks'[b].succ \subseteq Reached \cup none
  <2>. SUFFICES ASSUME NEW b \in Reached PROVE blocks'[b].succ \subseteq Reached
    BY <1>4
  <2>1. b \in Blocks /\ blocks[b].succ \subseteq Reached
    BY <1>1
  <2>2. CASE b = insertBlock
    <3>1. CASE Sealed(blocks[insertBlock])
      BY <1>2, <2>1, <2>2, <3>1
    <3>2. CASE ~Sealed(blocks[insertBlock])
      <4>1. target \in Reached
        BY <1>3, <2>2, <3>2
      <4>. QED  BY <1>2, <2>1, <2>2, <3>2, <4>1
    <3>. QED  BY <3>1, <3>2
  <2>3. CASE b # insertBlock
    BY <1>2, <2>1, <2>3
  <2>. QED  BY <2>2, <2>3
<1>7. \A S \in SUBSET (1..created') :
         Reached \subseteq S /\ (\A x \in S : blocks'[x].succ \subseteq S) => none \subseteq S
  OBVIOUS
<1>8. UNCHANGED <<entry, currentFunction>>
  OBVIOUS
<1>. HIDE DEF none
<1>. QED  BY <1>4, <1>5, <1>6, <1>7, <1>8, ReachedGrows, Zenon

\* What the visits below the top refer to is not what the top awaits.
LEMMA BelowAwaits ==
    ASSUME TypeInv, PlainInv, stack # <<>>, Top.kind # "func",
           NEW i \in 2..(Len(stack) - 1)
    PROVE  /\ stack[i] \in Frame
           /\ stack[i].join # Top.join /\ stack[i].other # Top.join
           /\ stack[i].kind = "loop" => stack[i].header # Top.join
<1>1. i \in 1..(Len(stack) - 1) /\ i \in 1..Len(stack)
  BY PlainTop
<1>2. /\ stack[i] \in Frame /\ FrameSound(stack[i])
      /\ stack[i].join < Top.join /\ stack[i].other < Top.join
      /\ Top.join \in Blocks /\ blocks[Top.join].owner = NoFunc
  BY <1>1, PlainTop
<1>3. stack[i].join \in 0..MaxBlocks /\ stack[i].other \in 0..MaxBlocks
  BY <1>2, BoundsAssumption DEF Frame
<1>4. \A x, y \in Int : x < y => x # y
  OBVIOUS
<1>5. stack[i].kind = "loop" => stack[i].header # Top.join
  BY <1>2 DEF FrameSound, PlainInv, InsertionSound
<1>. QED  BY <1>2, <1>3, <1>4, <1>5

\* A visit that ends: the visits below know as before what is reached.
LEMMA LiveBack ==
    ASSUME TypeInv, PlainInv, LiveInv, stack # <<>>, Top.kind # "func",
           NEW live \in BOOLEAN, stack' = BackWith(live),
           live => stack[Len(stack) - 1].live,
           insertBlock' = Top.join, ~Sealed(blocks'[Top.join]),
           NEW N \in SUBSET {Top.join}, Reached' = Reached \cup N,
           Top.join \in Reached' <=> live
    PROVE  LiveInv'
<1>1. PICK n \in Nat : n = Len(stack) /\ n >= 2 /\ n - 1 \in 1..(n - 1) /\ n - 1 \in Nat
  <2>1. Len(stack) \in Nat /\ Len(stack) >= 2
    BY PlainTop
  <2>. QED  BY <2>1
<1>2. /\ stack \in Seq(Frame) /\ Len(stack') = n - 1 /\ stack' \in Seq(Frame)
      /\ \A i \in 1..(n - 1) :
           stack'[i] = IF i = n - 1 THEN [stack[i] EXCEPT !.live = live] ELSE stack[i]
  <2>1. stack \in Seq(Frame)
    BY PlainBody
  <2>. QED  BY <1>1, <2>1, BackWithType
<1>3. \A fr \in Frame : /\ [fr EXCEPT !.live = live].live = live
                        /\ [fr EXCEPT !.live = live].kind = fr.kind
                        /\ [fr EXCEPT !.live = live].other = fr.other
                        /\ [fr EXCEPT !.live = live].join = fr.join
                        /\ [fr EXCEPT !.live = live].header = fr.header
                        /\ [fr EXCEPT !.live = live].outLive = fr.outLive
  BY DEF Frame
<1>4. \A i \in 1..(n - 1) : stack[i] \in Frame
  BY <1>1, <1>2, ElementOfSeq
<1>5. Top' = stack'[n - 1] /\ stack'[n - 1].live = live
  <2>1. stack'[n - 1] = [stack[n - 1] EXCEPT !.live = live] /\ stack[n - 1] \in Frame
    BY <1>1, <1>2, <1>4
  <2>2. stack'[n - 1].live = live
    BY <1>3, <2>1
  <2>. QED  BY <1>2, <2>2 DEF Top
<1>6. Top'.live <=> insertBlock' \in Reached' /\ ~Sealed(blocks[insertBlock])'
  BY <1>5 DEF Sealed
<1>7. ASSUME NEW i \in 2..(n - 1)
      PROVE  FrameLive(stack'[i], stack'[i - 1].live, Reached')
  <2>1. i \in 1..(n - 1) /\ i - 1 \in 1..(n - 1) /\ i - 1 # n - 1 /\ i \in 2..n
    BY <1>1
  <2>2. FrameLive(stack[i], stack[i - 1].live, Reached)
    BY <1>1, <2>1 DEF LiveInv
  <2>3. /\ stack[i] \in Frame
        /\ stack[i].join # Top.join /\ stack[i].other # Top.join
        /\ stack[i].kind = "loop" => stack[i].header # Top.join
    BY <1>1, BelowAwaits
  <2>4. stack'[i - 1].live = stack[i - 1].live
    BY <1>2, <2>1
  <2>5. /\ stack'[i].kind = stack[i].kind /\ stack'[i].header = stack[i].header
        /\ stack'[i].join = stack[i].join /\ stack'[i].other = stack[i].other
        /\ stack'[i].outLive = stack[i].outLive
    BY <1>2, <1>3, <2>1, <2>3
  <2>6. stack'[i].live => stack[i - 1].live
    <3>1. stack[i].live => stack[i - 1].live
      BY <2>2 DEF FrameLive
    <3>2. CASE i = n - 1
      BY <1>1, <1>5, <3>1, <3>2
    <3>3. CASE i # n - 1
      BY <1>2, <2>1, <3>1, <3>3
    <3>. QED  BY <3>2, <3>3
  <2>7. FrameLive(stack'[i], stack[i - 1].live, Reached \cup N)
    BY <2>2, <2>3, <2>5, <2>6, FrameLiveKept
  <2>. QED  BY <2>4, <2>7
<1>. QED  BY <1>2, <1>6, <1>7 DEF LiveInv

LEMMA LiveEnd ==
    ASSUME TypeInv, PlainInv, LiveInv, EndIf \/ EndLoop
    PROVE  LiveInv'
<1>1. stack # <<>> /\ Top.kind \in {"then", "else", "loop"} /\ Top.kind # "func"
      /\ (EndIf => Top.other = NoBlock)
  BY DEF EndIf, EndLoop
<1>2. PICK n \in Nat : n = Len(stack) /\ n >= 2 /\ n > 1 /\ n \in 2..n /\ Top = stack[n]
  <2>1. Len(stack) \in Nat /\ Len(stack) >= 2
    BY <1>1, PlainTop
  <2>. QED  BY <2>1 DEF Top
<1>3. /\ Top \in Frame /\ Top.join \in Blocks /\ blocks[Top.join].owner = NoFunc
      /\ Top.join \in 1..created /\ Top.fn = currentFunction
      /\ Top.kind = "loop" => Top.header \in Blocks
  <2>1. created \in Nat
    BY <1>1, ReachFacts
  <2>2. Top.join <= created /\ Top.join \in Blocks
    BY <1>1, PlainTop
  <2>. QED  BY <1>1, <2>1, <2>2, PlainTop DEF FrameSound
<1>4. FrameLive(Top, stack[n - 1].live, Reached)
  BY <1>1, <1>2 DEF LiveInv
<1>5. Top.live \in BOOLEAN /\ Top.outLive \in BOOLEAN /\ stack[n - 1].live \in BOOLEAN
  <2>1. n - 1 \in 1..(Len(stack) - 1)
    BY <1>2
  <2>2. stack[n - 1] \in Frame
    BY <1>1, <2>1, PlainTop
  <2>. QED  BY <1>3, <2>2 DEF Frame
<1>6. CASE EndIf
  <2>. DEFINE live == \/ Top.live
                      \/ Top.kind = "else" /\ Top.outLive
                      \/ Top.kind = "then" /\ Len(stack) > 1 /\ stack[Len(stack) - 1].live
              N == IF Top.live THEN {Top.join} ELSE {}
  <2>1. /\ blocks' = Inserted([blocks EXCEPT ![insertBlock] = FallThrough(@, Top.join)],
                              Top.join, currentFunction)
        /\ insertBlock' = Top.join
        /\ UNCHANGED <<created, entry, currentFunction>>
    BY <1>3, <1>6 DEF EndIf, Resume, unchangedFuncs
  <2>2. stack' = BackWith(live)
    BY <1>6, Zenon DEF EndIf
  <2>3. live \in BOOLEAN
    BY <1>5
  <2>4. live => stack[Len(stack) - 1].live
    BY <1>2, <1>4, <1>5 DEF FrameLive
  <2>5. Reached' = Reached \cup N
    BY <1>1, <1>3, <2>1, ReachedAhead
  <2>6. Top.join \in Reached' <=> live
    <3>1. Top.kind = "then" => (Top.join \in Reached <=> stack[Len(stack) - 1].live)
      BY <1>1, <1>2, <1>4, <1>6 DEF FrameLive
    <3>2. Top.kind = "else" => (Top.join \in Reached <=> Top.outLive)
      BY <1>4 DEF FrameLive
    <3>3. Top.kind \in {"then", "else"} /\ Len(stack) > 1
      BY <1>2, <1>6 DEF EndIf
    <3>. QED  BY <2>5, <3>1, <3>2, <3>3
  <2>7. ~Sealed(blocks'[Top.join])
    BY <1>1, <1>3, <2>1, FallSucc
  <2>8. N \in SUBSET {Top.join}
    OBVIOUS
  <2>. HIDE DEF live, N
  <2>. QED  BY <1>1, <2>1, <2>2, <2>3, <2>4, <2>5, <2>6, <2>7, <2>8, LiveBack
<1>7. CASE EndLoop
  <2>. DEFINE live == Len(stack) > 1 /\ stack[Len(stack) - 1].live
              N == {}
  <2>1. /\ blocks' = Inserted([blocks EXCEPT ![insertBlock] = FallThrough(@, Top.header)],
                              Top.join, currentFunction)
        /\ insertBlock' = Top.join
        /\ UNCHANGED <<created, entry, currentFunction>>
        /\ Top.kind = "loop"
    BY <1>3, <1>7 DEF EndLoop, Resume, unchangedFuncs
  <2>2. stack' = BackWith(live)
    BY <1>7 DEF EndLoop
  <2>3. live \in BOOLEAN /\ (live <=> stack[n - 1].live)
    BY <1>2, <1>5
  <2>4. /\ Top.live => Top.header \in Reached
        /\ Top.join \in Reached <=> live
    BY <1>4, <2>1, <2>3 DEF FrameLive
  <2>5. Reached' = Reached
    BY <1>1, <1>3, <2>1, <2>4, ReachedBack
  <2>6. ~Sealed(blocks'[Top.join])
    BY <1>1, <1>3, <2>1, FallSucc
  <2>7. N \in SUBSET {Top.join} /\ Reached' = Reached \cup N
    BY <2>5
  <2>8. live => stack[Len(stack) - 1].live
    OBVIOUS
  <2>9. Top.join \in Reached' <=> live
    BY <2>4, <2>5
  <2>. HIDE DEF live, N
  <2>. QED  BY <1>1, <2>1, <2>2, <2>3, <2>6, <2>7, <2>8, <2>9, LiveBack
<1>. QED  BY <1>6, <1>7

LEMMA LiveBeginElse ==
    ASSUME TypeInv, PlainInv, LiveInv, BeginElse
    PROVE  LiveInv'
<1>1. stack # <<>> /\ Top.kind = "then" /\ Top.other # NoBlock /\ Top.kind # "func"
  BY DEF BeginElse
<1>2. PICK n \in Nat : /\ n = Len(stack) /\ n >= 2 /\ n > 1 /\ n \in 2..n /\ n \in 1..n
                       /\ n - 1 \in 1..(n - 1) /\ n # 1 /\ Top = stack[n]
  <2>1. Len(stack) \in Nat /\ Len(stack) >= 2
    BY <1>1, PlainTop
  <2>. QED  BY <2>1 DEF Top
<1>3. /\ Top \in Frame /\ Top.join \in Blocks /\ blocks[Top.join].owner = NoFunc
      /\ Top.join \in 1..created /\ Top.fn = currentFunction
      /\ Top.other \in Blocks /\ blocks[Top.other].owner = NoFunc /\ Top.other # Top.join
  <2>1. created \in Nat
    BY <1>1, ReachFacts
  <2>2. Top.join <= created /\ Top.join \in Blocks /\ Top.other \in Blocks /\ Top.other < Top.join
    BY <1>1, PlainTop
  <2>3. \A x, y \in Int : x < y => x # y
    OBVIOUS
  <2>. QED  BY <1>1, <2>1, <2>2, <2>3, PlainTop DEF FrameSound
<1>4. FrameLive(Top, stack[n - 1].live, Reached)
  BY <1>1, <1>2 DEF LiveInv
<1>5. Top.live \in BOOLEAN /\ stack[n - 1].live \in BOOLEAN /\ stack \in Seq(Frame)
  <2>1. stack[n - 1] \in Frame
    BY <1>1, <1>2, PlainTop
  <2>. QED  BY <1>1, <1>3, <2>1, PlainBody DEF Frame
<1>. DEFINE fr == [Top EXCEPT !.kind = "else", !.other = NoBlock, !.returned = FALSE,
                              !.live = Len(stack) = 1 \/ stack[Len(stack) - 1].live,
                              !.outLive = Top.live]
            N == IF Top.live THEN {Top.join} ELSE {}
<1>6. /\ blocks' = Inserted([blocks EXCEPT ![insertBlock] = FallThrough(@, Top.join)],
                            Top.other, currentFunction)
      /\ insertBlock' = Top.other
      /\ UNCHANGED <<created, entry, currentFunction>>
      /\ stack' = [stack EXCEPT ![Len(stack)] = fr]
  BY <1>3 DEF BeginElse, unchangedFuncs, Top
<1>7. /\ fr \in Frame /\ fr.kind = "else" /\ fr.other = NoBlock /\ fr.join = Top.join
      /\ fr.live = stack[n - 1].live /\ fr.outLive = Top.live
  <2>. DEFINE lv == Len(stack) = 1 \/ stack[Len(stack) - 1].live
  <2>1. lv = stack[n - 1].live
    BY <1>2, <1>5
  <2>2. fr = [Top EXCEPT !.kind = "else", !.other = NoBlock, !.returned = FALSE,
                         !.live = lv, !.outLive = Top.live]
    OBVIOUS
  <2>. HIDE DEF lv, fr
  <2>. QED  BY <1>3, <1>5, <2>1, <2>2 DEF Frame
<1>. HIDE DEF fr
<1>8. /\ Len(stack') = n /\ stack'[n] = fr
      /\ \A i \in 1..(n - 1) : stack'[i] = stack[i]
  <2>1. /\ stack' \in Seq(Frame) /\ Len(stack') = Len(stack)
        /\ \A j \in 1..Len(stack) : stack'[j] = IF j = Len(stack) THEN fr ELSE stack[j]
    BY <1>2, <1>5, <1>6, <1>7, ExceptSeq
  <2>2. \A j \in 1..(n - 1) : j \in 1..n /\ j # n
    OBVIOUS
  <2>. QED  BY <1>2, <2>1, <2>2
<1>9. Reached' = Reached \cup N
  BY <1>1, <1>3, <1>6, ReachedAhead
<1>10. /\ Top.other \in Reached <=> stack[n - 1].live
       /\ Top.join \notin Reached
       /\ Top.live => stack[n - 1].live
  BY <1>1, <1>4 DEF FrameLive
<1>11. ~Sealed(blocks'[Top.other])
  BY <1>1, <1>3, <1>6, FallSucc
<1>12. Top'.live <=> insertBlock' \in Reached' /\ ~Sealed(blocks[insertBlock])'
  <2>1. Top' = fr
    BY <1>8 DEF Top
  <2>2. Top.other \in Reached' <=> stack[n - 1].live
    BY <1>3, <1>9, <1>10
  <2>. QED  BY <1>6, <1>7, <1>11, <2>1, <2>2 DEF Sealed
<1>13. ASSUME NEW i \in 2..n
       PROVE  FrameLive(stack'[i], stack'[i - 1].live, Reached')
  <2>1. i \in 1..n /\ i - 1 \in 1..(n - 1) /\ stack'[i - 1] = stack[i - 1]
    BY <1>8
  <2>2. CASE i = n
    <3>1. fr.join \in Reached' <=> fr.outLive
      BY <1>7, <1>9, <1>10
    <3>2. FrameLive(fr, stack[n - 1].live, Reached')
      BY <1>7, <1>10, <3>1 DEF FrameLive
    <3>. QED  BY <1>8, <2>1, <2>2, <3>2
  <2>3. CASE i # n
    <3>1. i \in 2..(n - 1) /\ i \in 1..(n - 1)
      BY <2>3
    <3>2. /\ stack[i].join # Top.join /\ stack[i].other # Top.join
          /\ stack[i].kind = "loop" => stack[i].header # Top.join
      BY <1>1, <1>2, <3>1, BelowAwaits
    <3>3. FrameLive(stack[i], stack[i - 1].live, Reached)
      BY <1>2 DEF LiveInv
    <3>4. stack[i].live => stack[i - 1].live
      BY <3>3 DEF FrameLive
    <3>5. FrameLive(stack[i], stack[i - 1].live, Reached \cup N)
      BY <3>2, <3>3, <3>4, FrameLiveKept
    <3>. QED  BY <1>8, <1>9, <2>1, <3>1, <3>5
  <2>. QED  BY <2>2, <2>3
<1>. QED  BY <1>8, <1>12, <1>13 DEF LiveInv

\* A function begins: its entry block alone is reached.
LEMMA LiveBeginFunc ==
    ASSUME TypeInv, PlainInv, Shapes = {}, NEW hasParams \in BOOLEAN, BeginFunc(hasParams)
    PROVE  LiveInv'
<1>1. stack = <<>>
  BY DEF BeginFunc
<1>. DEFINE f == declared + 1
            bb == created + 1
            bs == IF hasParams THEN [blocks EXCEPT ![bb] = Emitted(@, "op", {})] ELSE blocks
            fr == [kind |-> "func", lex |-> f, fn |-> f, header |-> NoBlock,
                   other |-> NoBlock, join |-> NoBlock, returned |-> FALSE,
                   live |-> TRUE, outLive |-> FALSE]
<1>2. /\ created \in Nat /\ f \in Funcs /\ bb \in Blocks /\ bb > created /\ bb \in 1..bb
  BY BoundsAssumption DEF BeginFunc, TypeInv, TypeOK
<1>3. blocks[bb] = FreshBlock
  BY <1>2 DEF PlainInv, BlocksSound
<1>4. /\ blocks' = Inserted(bs, bb, f) /\ insertBlock' = bb /\ currentFunction' = f
      /\ created' = bb /\ stack' = Append(stack, fr) /\ entry'[f] = bb
  <2>1. entry' = [entry EXCEPT ![f] = bb] /\ entry \in [Funcs -> Blocks \cup {NoBlock}]
    BY DEF BeginFunc, TypeInv, TypeOK
  <2>2. entry'[f] = bb
    BY <1>2, <2>1
  <2>. QED  BY <2>2 DEF BeginFunc
<1>5. blocks'[bb].succ = {} /\ ~Sealed(blocks'[bb])
  <2>1. blocks \in [Blocks -> Block]
    BY DEF TypeInv, TypeOK
  <2>2. DOMAIN bs = Blocks /\ bs[bb].succ = {} /\ ~Sealed(bs[bb])
    BY <1>2, <1>3, <2>1 DEF FreshBlock, Emitted, Sealed, Terminators
  <2>. HIDE DEF bs
  <2>3. blocks'[bb] = [bs[bb] EXCEPT !.owner = f]
    BY <1>2, <1>4, <2>2 DEF Inserted
  <2>. QED  BY <2>2, <2>3 DEF Sealed
<1>6. bb \in Reached'
  <2>1. bb \in ReachSet(blocks', bb, bb)
    BY <1>2 DEF ReachSet
  <2>. QED  BY <1>4, <2>1 DEF Reached
<1>7. Len(stack') = 1 /\ Top' = fr /\ 2..Len(stack') = {}
  <2>1. Append(<<>>, fr) = <<fr>>
    OBVIOUS
  <2>. QED  BY <1>1, <1>4, <2>1 DEF Top
<1>. QED  BY <1>4, <1>5, <1>6, <1>7 DEF LiveInv, Sealed

LEMMA LiveStep ==
    ASSUME TypeInv, PlainInv, PlainInv', LiveInv, Shapes = {}, [Next]_vars
    PROVE  LiveInv'
<1>1. CASE SimpleStmt \/ SkippedIf \/ \E init \in BOOLEAN : LocalDecl(init)
  BY <1>1, LiveStatements
<1>2. CASE ReturnStmt
  BY <1>2, LiveReturn
<1>3. CASE \E hasElse \in BOOLEAN : BeginIf(hasElse)
  BY <1>3, LiveBeginIf
<1>4. CASE BeginElse
  BY <1>4, LiveBeginElse
<1>5. CASE EndIf \/ EndLoop
  BY <1>5, LiveEnd
<1>6. CASE \E valued \in BOOLEAN : BeginLoop(valued)
  BY <1>6, LiveBeginLoop
<1>7. CASE \E hasParams \in BOOLEAN : BeginFunc(hasParams)
  BY <1>7, LiveBeginFunc
<1>8. CASE EndFunc
  <2>1. stack # <<>> /\ Top.kind = "func" /\ stack' = Popped
    BY <1>8 DEF EndFunc
  <2>2. Len(stack) = 1
    BY <2>1, PlainTopLevel
  <2>3. stack' \in Seq(Frame) /\ Len(stack') = 0
    BY <2>1, <2>2, PoppedWith
  <2>4. stack' = <<>>
    BY <2>3, EmptySeq
  <2>. QED  BY <2>4 DEF LiveInv
<1>9. CASE Finish
  BY <1>9 DEF Finish, LiveInv
<1>10. CASE UndefinedUse
  BY <1>10, PlainDefined
<1>11. CASE Ended \/ UNCHANGED vars \/ \E constant \in BOOLEAN : GlobalDecl(constant)
  <2>1. UNCHANGED vars
    BY <1>11, PlainGlobal DEF Ended
  <2>. QED  BY <2>1 DEF vars, LiveInv, Reached, Top, Sealed
<1>. QED  BY <1>1, <1>2, <1>3, <1>4, <1>5, <1>6, <1>7, <1>8, <1>9, <1>10, <1>11 DEF Next

\* In every program without the unusual shapes, of any size, control reaches the
\* open end of the block that the generator appends to exactly when the source
\* text says that it can (CodeGenerator.cpp:579-655).
THEOREM LiveMatches == Shapes = {} => (Spec => []LiveMatchesCFG)
<1>. SUFFICES ASSUME Shapes = {} PROVE Spec => []LiveMatchesCFG
  OBVIOUS
<1>1. Init => TypeInv /\ PlainInv /\ LiveInv
  BY TypeInit, PlainInit DEF Init, LiveInv
<1>2. TypeInv /\ PlainInv /\ LiveInv /\ [Next]_vars => (TypeInv /\ PlainInv /\ LiveInv)'
  <2>1. TypeInv /\ [Next]_vars => TypeInv'
    BY TypeStep
  <2>2. TypeInv /\ TypeInv' /\ PlainInv /\ [Next]_vars => PlainInv'
    BY PlainStep
  <2>. QED  BY <2>1, <2>2, LiveStep
<1>3. TypeInv /\ PlainInv /\ LiveInv => LiveMatchesCFG
  <2>. SUFFICES ASSUME TypeInv, PlainInv, LiveInv, stack # <<>>
                PROVE  Reaches(Lex, insertBlock) <=> insertBlock \in Reached
    BY DEF LiveMatchesCFG, LiveInv
  <2>1. Lex = currentFunction
    BY PlainBody
  <2>2. insertBlock \in 1..created
    BY ReachFacts
  <2>. QED  BY <2>1, <2>2 DEF Reached, ReachSet, Reaches, Closed
<1>. QED  BY <1>1, <1>2, <1>3, PTL DEF Spec
=============================================================================
