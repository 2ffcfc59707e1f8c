---------------------------- MODULE ControlFlow ----------------------------
(***************************************************************************)
(* Basic-block construction in the code generator (src/codegen/            *)
(* CodeGenerator.cpp).                                                     *)
(*                                                                         *)
(* CodeGenerator visits the AST of a program that the parser and the       *)
(* semantic analyzer accepted, and builds LLVM functions as it goes: every *)
(* visit method appends instructions at the builder's insertion point, and *)
(* the visits of `if`, `while` and `func` create blocks, place them in a   *)
(* function and move the insertion point.  The program is chosen one       *)
(* statement at a time, so the behaviours of this module are the visits of *)
(* every program within the bounds.  An action is one step of a visit      *)
(* between two nested accept() calls; `stack` is the C++ call stack of the *)
(* visits in progress, each frame holding that visit's local variables.    *)
(*                                                                         *)
(* Data is abstracted away: an instruction is a terminator or "op", a      *)
(* condition is a value or void, and the LLVM verifier looks only at the   *)
(* shape of blocks and at who owns what an instruction refers to.          *)
(***************************************************************************)
EXTENDS Integers, Sequences

CONSTANTS
    MaxBlocks,      \* basic blocks created in one run of the generator
    MaxFuncs,       \* function declarations in the program
    MaxDepth,       \* visits nested in one another
    Shapes          \* the unusual program shapes that are explored

\* Program shapes that the grammar allows and ordinary programs avoid:
\* a statement that follows a return in the same block; outside any function a
\* statement, a variable with a computed initial value, or after a function any
\* variable; a function declared in a function; a call of a void function used as
\* a condition.
AllShapes == {"afterReturn", "topLevel", "nestedFunc", "voidCond"}

ASSUME BoundsAssumption ==
    /\ MaxBlocks \in Nat /\ MaxFuncs \in Nat /\ MaxDepth \in Nat

ASSUME ShapesAssumption == Shapes \subseteq AllShapes

NoBlock == 0
NoFunc  == 0
Blocks  == 1..MaxBlocks
Funcs   == 1..MaxFuncs

\* The last instruction of a block, as BasicBlock::getTerminator sees it.
Terminators == {"br", "condbr", "ret"}
Block == [owner     : Funcs \cup {NoFunc},      \* NoFunc: not inserted yet
          last      : Terminators \cup {"none", "op"},
          malformed : BOOLEAN,                  \* the verifier objects to it
          succ      : SUBSET Blocks]
FreshBlock == [owner |-> NoFunc, last |-> "none", malformed |-> FALSE, succ |-> {}]

\* One visit in progress: the C++ locals (fn, header, other, join), the
\* function the source text is in (lex), and what the source text says of
\* control so far in this visit's statement list.
Frame == [kind     : {"func", "then", "else", "loop"},
          lex      : Funcs \cup {NoFunc},        \* NoFunc: top level
          fn       : Funcs \cup {NoFunc},
          header   : Blocks \cup {NoBlock},     \* loopcond
          other    : Blocks \cup {NoBlock},     \* else, not inserted yet
          join     : Blocks \cup {NoBlock},     \* ifcont or afterloop
          returned : BOOLEAN,                   \* a return precedes in this list
          live     : BOOLEAN,                   \* control can get here
          outLive  : BOOLEAN]                   \* control can get past the branches left

VARIABLES
    blocks,          \* the basic blocks, by order of creation
    created,         \* how many of them exist
    status,          \* each llvm::Function: absent, open, kept (verified) or erased
    entry,           \* its entry block
    declared,        \* how many function declarations have been visited
    insertBlock,     \* builder_->GetInsertBlock()
    currentFunction, \* CodeGenerator::currentFunction_
    stack,           \* the visits in progress
    returnTypeKnown, \* SemanticAnalyzer::currentReturnType_ is not empty here
    hasErrors,       \* diags_.hasErrors()
    strays,          \* where instructions went that left their source function
    walk             \* walking, accepted, rejected or undefined

vars == <<blocks, created, status, entry, declared, insertBlock,
          currentFunction, stack, returnTypeKnown, hasErrors, strays, walk>>

-----------------------------------------------------------------------------
(* Blocks and the verifier *)

Sealed(blk) == blk.last \in Terminators

\* IRBuilder appends an instruction to a block: no check is made, and an
\* instruction after a terminator is what verifyFunction reports.
Emitted(blk, instr, targets) ==
    [blk EXCEPT !.last = instr,
                !.malformed = @ \/ Sealed(blk),
                !.succ = @ \cup targets]

AlwaysBranch(blk, target) == Emitted(blk, "br", {target})

\* if (!GetInsertBlock()->getTerminator()) CreateBr(target)
FallThrough(blk, target) ==
    IF Sealed(blk) THEN blk ELSE Emitted(blk, "br", {target})

NeverReturn(blk) == blk

\* if (!GetInsertBlock()->getTerminator()) CreateRet...
DefaultReturn(blk) == IF Sealed(blk) THEN blk ELSE Emitted(blk, "ret", {})

\* createEntryBlockAlloca: an alloca in front of what the entry block holds.
WithAlloca(blk) == IF blk.last = "none" THEN [blk EXCEPT !.last = "op"] ELSE blk

IntoFirst(bs, b, f) == [bs EXCEPT ![b].owner = 1]

\* BasicBlock::insertInto: the block becomes one of f's.
Inserted(bs, b, f) == [bs EXCEPT ![b].owner = f]

\* The loopcond block: its terminator is made from the value of the condition,
\* and missing if there is none.
LoopCond(f, valued, body, after) ==
    LET placed == [FreshBlock EXCEPT !.owner = f]
    IN IF valued THEN Emitted(placed, "condbr", {body, after}) ELSE Emitted(placed, "op", {})

TerminatorsOnly(bs, f) == \A b \in Blocks : bs[b].owner = f => Sealed(bs[b])

\* llvm::verifyFunction: every block ends in its only terminator and branches
\* to blocks of the same function.
FunctionOK(bs, f) ==
    \A b \in Blocks : bs[b].owner = f =>
        /\ Sealed(bs[b])
        /\ ~bs[b].malformed
        /\ \A c \in bs[b].succ : bs[c].owner = f

-----------------------------------------------------------------------------
(* The visit in progress *)

Top    == stack[Len(stack)]
Popped == SubSeq(stack, 1, Len(stack) - 1)
Lex    == IF stack = <<>> THEN NoFunc ELSE Top.lex

\* The stack once the visit in progress ends; control gets past the statement
\* only if `live`.
BackWith(live) ==
    IF Len(stack) = 1 THEN <<>> ELSE [Popped EXCEPT ![Len(stack) - 1].live = live]

\* The insertion point was erased with its function.
Dangling == insertBlock # NoBlock /\ status[blocks[insertBlock].owner] = "erased"

\* The builder has a block to append to.
Positioned == insertBlock # NoBlock /\ ~Dangling

\* A statement may come next: in a function body, unless a shape allows more.
MayState ==
    /\ walk = "walking"
    /\ stack = <<>> => "topLevel" \in Shapes
    /\ (stack # <<>> /\ Top.returned) => "afterReturn" \in Shapes

MayNest == MayState /\ Len(stack) < MaxDepth

\* Where the instructions of the statement visited go, if astray.
Astray ==
    strays \cup (IF insertBlock = NoBlock THEN {"nowhere"}
                 ELSE IF blocks[insertBlock].owner # Lex THEN {"elsewhere"} ELSE {})

\* The visit of a statement of the list in progress: its frame once pushed.
FrameOf(kind, header, other, join) ==
    [kind |-> kind, lex |-> Lex, fn |-> blocks[insertBlock].owner,
     header |-> header, other |-> other, join |-> join, returned |-> FALSE,
     live |-> stack = <<>> \/ Top.live, outLive |-> FALSE]

unchangedFuncs == UNCHANGED <<status, entry, declared, currentFunction>>
unchangedSema  == UNCHANGED <<returnTypeKnown, hasErrors>>

-----------------------------------------------------------------------------
Init ==
    /\ blocks = [b \in Blocks |-> FreshBlock]
    /\ created = 0
    /\ status = [f \in Funcs |-> "absent"]
    /\ entry = [f \in Funcs |-> NoBlock]
    /\ declared = 0
    /\ insertBlock = NoBlock
    /\ currentFunction = NoFunc
    /\ stack = <<>>
    /\ returnTypeKnown = FALSE
    /\ hasErrors = FALSE
    /\ strays = {}
    /\ walk = "walking"

\* An expression statement, say or trace, whose instructions are appended at
\* the insertion point; without one the builder drops them.
SimpleStmt ==
    /\ MayState
    /\ ~Dangling
    /\ strays' = Astray
    /\ blocks' = IF insertBlock = NoBlock THEN blocks
                 ELSE [blocks EXCEPT ![insertBlock] = Emitted(@, "op", {})]
    /\ UNCHANGED <<created, insertBlock, stack, walk>>
    /\ unchangedFuncs /\ unchangedSema

\* A declaration visited while currentFunction_ is null makes a global
\* variable; the code of an initialiser that is not a constant is dropped.
GlobalDecl(constant) ==
    /\ walk = "walking"
    /\ currentFunction = NoFunc
    /\ MayState \/ (constant /\ stack = <<>>)
    /\ strays' = IF constant THEN strays ELSE strays \cup {"nowhere"}
    /\ UNCHANGED <<blocks, created, insertBlock, stack, walk>>
    /\ unchangedFuncs /\ unchangedSema

\* Any other declaration is a local of currentFunction_: an alloca in its entry
\* block, and a store at the insertion point if there is an initialiser.  The
\* verifier objects to a store that names the alloca of another function.
LocalDecl(init) ==
    /\ MayState
    /\ currentFunction # NoFunc
    /\ ~Dangling /\ status[currentFunction] # "erased"
    /\ LET Stored(blk) == [Emitted(blk, "op", {}) EXCEPT
                              !.malformed = @ \/ blk.owner # currentFunction]
           allocated == [blocks EXCEPT ![entry[currentFunction]] = WithAlloca(@)]
       IN blocks' = IF init THEN [allocated EXCEPT ![insertBlock] = Stored(@)]
                    ELSE allocated
    /\ strays' = IF init THEN Astray ELSE strays
    /\ UNCHANGED <<created, insertBlock, stack, walk>>
    /\ unchangedFuncs /\ unchangedSema

\* A return: the analyzer accepts one only where it still knows the return
\* type, which the end of any function declaration clears.
ReturnStmt ==
    /\ MayState
    /\ stack # <<>>
    /\ returnTypeKnown
    /\ Positioned
    /\ blocks' = [blocks EXCEPT ![insertBlock] = Emitted(@, "ret", {})]
    /\ strays' = Astray
    /\ stack' = [stack EXCEPT ![Len(stack)].returned = TRUE,
                              ![Len(stack)].live = FALSE]
    /\ UNCHANGED <<created, insertBlock, walk>>
    /\ unchangedFuncs /\ unchangedSema

\* An `if` or its condition, when the condition has no value: the call is
\* emitted, and visit(IfStmt) returns without a visit of either branch.
SkippedIf ==
    /\ MayState
    /\ "voidCond" \in Shapes
    /\ ~Dangling
    /\ strays' = Astray \cup {"skipped"}
    /\ blocks' = IF insertBlock = NoBlock THEN blocks
                 ELSE [blocks EXCEPT ![insertBlock] = Emitted(@, "op", {})]
    /\ UNCHANGED <<created, insertBlock, stack, walk>>
    /\ unchangedFuncs /\ unchangedSema

JoinAlways(hasElse, other, join) == join

\* Where the conditional branch goes when the condition is false.
FalseTarget(hasElse, other, join) == IF hasElse THEN other ELSE join

\* visit(IfStmt) up to the visit of the then branch: the three blocks are
\* created, only the first is placed in the function.
BeginIf(hasElse) ==
    /\ MayNest
    /\ Positioned
    /\ created + 3 <= MaxBlocks
    /\ LET then  == created + 1
           other == created + 2
           join  == created + 3
           targets == {then, FalseTarget(hasElse, other, join)}
       IN /\ blocks' = Inserted([blocks EXCEPT ![insertBlock] = Emitted(@, "condbr", targets)],
                               then, blocks[insertBlock].owner)
          /\ stack' = Append(stack, FrameOf("then", NoBlock,
                                            IF hasElse THEN other ELSE NoBlock, join))
          /\ insertBlock' = then
    /\ created' = created + 3
    /\ strays' = Astray
    /\ UNCHANGED walk
    /\ unchangedFuncs /\ unchangedSema

\* The end of the then branch of an `if` that has an else: the else block is
\* placed and becomes the insertion point.
BeginElse ==
    /\ walk = "walking"
    /\ stack # <<>> /\ Top.kind = "then" /\ Top.other # NoBlock
    /\ Positioned
    /\ blocks' = Inserted([blocks EXCEPT ![insertBlock] = FallThrough(@, Top.join)],
                         Top.other, Top.fn)
    /\ insertBlock' = Top.other
    /\ stack' = [stack EXCEPT ![Len(stack)] =
          [@ EXCEPT !.kind = "else", !.other = NoBlock, !.returned = FALSE,
                    !.live = Len(stack) = 1 \/ stack[Len(stack) - 1].live,
                    !.outLive = Top.live]]
    /\ UNCHANGED <<created, strays, walk>>
    /\ unchangedFuncs /\ unchangedSema

\* The block at which the code after the `if` or the loop continues.
Resume(frame) == frame.join

\* The end of an `if`: control gets past it through either branch.
EndIf ==
    /\ walk = "walking"
    /\ stack # <<>> /\ Top.kind \in {"then", "else"} /\ Top.other = NoBlock
    /\ Positioned
    /\ blocks' = Inserted([blocks EXCEPT ![insertBlock] = FallThrough(@, Top.join)],
                         Top.join, Top.fn)
    /\ insertBlock' = Resume(Top)
    /\ stack' = BackWith(\/ Top.live
                         \/ Top.kind = "else" /\ Top.outLive
                         \/ Top.kind = "then" /\ Len(stack) > 1 /\ stack[Len(stack) - 1].live)
    /\ UNCHANGED <<created, strays, walk>>
    /\ unchangedFuncs /\ unchangedSema

\* visit(LoopwhileStmt) up to the visit of the body.  A condition without a
\* value leaves the loopcond block without a terminator.
BeginLoop(valued) ==
    /\ MayNest
    /\ ~valued => "voidCond" \in Shapes
    /\ Positioned
    /\ created + 3 <= MaxBlocks
    /\ LET cond  == created + 1
           body  == created + 2
           after == created + 3
           fn    == blocks[insertBlock].owner
       IN /\ blocks' = Inserted([blocks EXCEPT
                                  ![insertBlock] = Emitted(@, "br", {cond}),
                                  ![cond] = LoopCond(fn, valued, body, after)], body, fn)
          /\ stack' = Append(stack, FrameOf("loop", cond, NoBlock, after))
          /\ insertBlock' = body
    /\ created' = created + 3
    /\ strays' = Astray
    /\ UNCHANGED walk
    /\ unchangedFuncs /\ unchangedSema

\* The end of a loop body: back to the condition; the code after the loop is
\* reached from the condition, whatever the body does.
EndLoop ==
    /\ walk = "walking"
    /\ stack # <<>> /\ Top.kind = "loop"
    /\ Positioned
    /\ blocks' = Inserted([blocks EXCEPT ![insertBlock] = FallThrough(@, Top.header)],
                         Top.join, Top.fn)
    /\ insertBlock' = Resume(Top)
    /\ stack' = BackWith(Len(stack) > 1 /\ stack[Len(stack) - 1].live)
    /\ UNCHANGED <<created, strays, walk>>
    /\ unchangedFuncs /\ unchangedSema

\* visit(FuncDecl) up to the visit of the body: the visit of a nested function
\* moves the insertion point and currentFunction_ and never moves them back.
BeginFunc(hasParams) ==
    /\ walk = "walking"
    /\ stack # <<>> => /\ "nestedFunc" \in Shapes
                       /\ Top.returned => "afterReturn" \in Shapes
    /\ Len(stack) < MaxDepth
    /\ declared < MaxFuncs /\ created < MaxBlocks
    /\ LET f  == declared + 1
           bb == created + 1
       IN /\ status' = [status EXCEPT ![f] = "open"]
          /\ entry' = [entry EXCEPT ![f] = bb]
          /\ blocks' = Inserted(IF hasParams THEN [blocks EXCEPT ![bb] = Emitted(@, "op", {})]
                                           ELSE blocks, bb, f)
          /\ insertBlock' = bb
          /\ currentFunction' = f
          /\ declared' = f
          /\ created' = bb
          /\ stack' = Append(stack,
                [kind |-> "func", lex |-> f, fn |-> f, header |-> NoBlock,
                 other |-> NoBlock, join |-> NoBlock, returned |-> FALSE,
                 live |-> TRUE, outLive |-> FALSE])
    /\ returnTypeKnown' = TRUE
    /\ UNCHANGED <<hasErrors, strays, walk>>

\* The end of visit(FuncDecl): the default return, then verifyFunction, whose
\* objection erases the function and is reported as an error.
EndFunc ==
    /\ walk = "walking"
    /\ stack # <<>> /\ Top.kind = "func"
    /\ Positioned
    /\ LET finished == [blocks EXCEPT ![insertBlock] = DefaultReturn(@)]
           verified == FunctionOK(finished, Top.lex)
       IN /\ blocks' = finished
          /\ status' = [status EXCEPT ![Top.lex] = IF verified THEN "kept" ELSE "erased"]
          /\ hasErrors' = (hasErrors \/ ~verified)
    /\ stack' = Popped
    /\ returnTypeKnown' = FALSE
    /\ UNCHANGED <<created, entry, declared, insertBlock, currentFunction, strays, walk>>

\* The end of the program: verifyModule visits every function left.
Finish ==
    /\ walk = "walking"
    /\ stack = <<>>
    /\ LET verified == \A f \in Funcs : status[f] = "kept" => FunctionOK(blocks, f)
       IN /\ hasErrors' = (hasErrors \/ ~verified)
          /\ walk' = IF hasErrors' THEN "rejected" ELSE "accepted"
    /\ UNCHANGED <<blocks, created, insertBlock, stack, strays, returnTypeKnown>>
    /\ unchangedFuncs

\* An erased function's block is used, or the function of a null insertion
\* point is asked for: undefined behaviour, and the end of this walk.
UndefinedUse ==
    /\ walk = "walking"
    /\ \/ Dangling /\ (stack # <<>> \/ MayState)
       \/ MayState /\ currentFunction # NoFunc /\ status[currentFunction] = "erased"
       \/ MayNest /\ insertBlock = NoBlock
    /\ walk' = "undefined"
    /\ UNCHANGED <<blocks, created, insertBlock, stack, strays>>
    /\ unchangedFuncs /\ unchangedSema

\* The compiler has ended.
Ended == walk # "walking" /\ UNCHANGED vars

Next ==
    \/ SimpleStmt
    \/ \E constant \in BOOLEAN : GlobalDecl(constant)
    \/ \E init \in BOOLEAN : LocalDecl(init)
    \/ ReturnStmt
    \/ SkippedIf
    \/ \E hasElse \in BOOLEAN : BeginIf(hasElse)
    \/ BeginElse
    \/ EndIf
    \/ \E valued \in BOOLEAN : BeginLoop(valued)
    \/ EndLoop
    \/ \E hasParams \in BOOLEAN : BeginFunc(hasParams)
    \/ EndFunc
    \/ Finish
    \/ UndefinedUse
    \/ Ended

Spec == Init /\ [][Next]_vars

-----------------------------------------------------------------------------
(* What the generator promises *)

\* Type correctness.
TypeOK ==
    /\ blocks \in [Blocks -> Block]
    /\ created \in 0..MaxBlocks
    /\ status \in [Funcs -> {"absent", "open", "kept", "erased"}]
    /\ entry \in [Funcs -> Blocks \cup {NoBlock}]
    /\ declared \in 0..MaxFuncs
    /\ insertBlock \in Blocks \cup {NoBlock}
    /\ currentFunction \in Funcs \cup {NoFunc}
    /\ stack \in Seq(Frame) /\ Len(stack) <= MaxDepth
    /\ returnTypeKnown \in BOOLEAN
    /\ hasErrors \in BOOLEAN
    /\ strays \subseteq {"nowhere", "elsewhere", "skipped"}
    /\ walk \in {"walking", "accepted", "rejected", "undefined"}

\* The generator never builds a function that LLVM's verifier objects to: the
\* error "Function verification failed" (CodeGenerator.cpp:779) is dead code
\* for a program without the unusual shapes.
VerifierSilent == ~hasErrors

\* While a body is visited the insertion point is a block of the function the
\* source text is in, and so is currentFunction_, however the visits of
\* branches and loops have moved it (CodeGenerator.cpp:586-615, 620-648).
InsertPointAtHome ==
    walk = "walking" /\ stack # <<>> =>
        /\ Positioned
        /\ blocks[insertBlock].owner = Lex
        /\ currentFunction = Lex

\* Why the verifier has nothing to say, as an inductive invariant of programs
\* without the unusual shapes.  A block is untouched until it is inserted; the
\* blocks that open visits still have to insert are distinct, in the order in
\* which the visits began.
FrameSound(fr) ==
    /\ fr.fn = currentFunction /\ fr.lex = currentFunction
    /\ fr.kind = "func" => fr.join = NoBlock
    /\ fr.kind # "then" => fr.other = NoBlock
    /\ fr.kind = "loop" => blocks[fr.header].owner = currentFunction
    /\ fr.join # NoBlock => fr.join <= created /\ blocks[fr.join].owner = NoFunc
    /\ fr.other # NoBlock => fr.other < fr.join /\ blocks[fr.other].owner = NoFunc

Awaited ==
    \A i \in 1..Len(stack) : FrameSound(stack[i]) /\ (stack[i].kind = "func" <=> i = 1)

AwaitedInOrder ==
    \A i, j \in 1..Len(stack) : i < j =>
        /\ stack[i].join < stack[j].join
        /\ stack[j].other # NoBlock => stack[i].join < stack[j].other

\* Every inserted block but the insertion point ends in its only terminator,
\* and branches to a block of its function or to one still awaited.
TargetSound(b, c) ==
    \/ blocks[c].owner = blocks[b].owner
    \/ /\ blocks[b].owner = currentFunction
       /\ \E i \in 1..Len(stack) : c \in {stack[i].join, stack[i].other}

BlocksSound ==
    \A b \in Blocks :
        /\ ~blocks[b].malformed
        /\ b > created => blocks[b].owner = NoFunc
        /\ blocks[b].owner = NoFunc => blocks[b] = FreshBlock
        /\ blocks[b].owner <= declared
        /\ blocks[b].owner # NoFunc /\ (stack = <<>> \/ b # insertBlock) => Sealed(blocks[b])
        /\ \A c \in blocks[b].succ : TargetSound(b, c)

\* The insertion point is open unless a return just closed it.
InsertionSound ==
    stack # <<>> =>
        /\ currentFunction # NoFunc /\ status[currentFunction] = "open"
        /\ insertBlock # NoBlock /\ blocks[insertBlock].owner = currentFunction
        /\ ~Top.returned => ~Sealed(blocks[insertBlock])
        /\ entry[currentFunction] # NoBlock
        /\ blocks[entry[currentFunction]].owner = currentFunction

PlainInv ==
    /\ Awaited /\ AwaitedInOrder /\ BlocksSound /\ InsertionSound
    /\ currentFunction = declared
    /\ \A f \in Funcs : status[f] # "erased"
    /\ ~hasErrors
    /\ strays = {}
    /\ walk \in {"walking", "accepted"}

\* Blocks from which no path of the CFG leads out of S.
Closed(S) == \A b \in S : blocks[b].succ \subseteq S

\* Control reaches block b from the entry of f.
Reaches(f, b) ==
    \A S \in SUBSET (1..created) : entry[f] \in S /\ Closed(S) => b \in S

\* The CFG agrees with the source: control can reach the end of the insertion
\* point exactly if it can get past the statements visited so far, where an
\* `if` is passed through either branch and a loop through its condition.
LiveMatchesCFG ==
    walk = "walking" /\ stack # <<>> =>
        (Top.live <=> Reaches(Lex, insertBlock) /\ ~Sealed(blocks[insertBlock]))

\* No step appends to a block that already has its terminator, nor moves it to
\* another function.
SealedBlocksFrozen ==
    [][\A b \in Blocks : Sealed(blocks[b]) => blocks'[b] = blocks[b]]_vars

\* Whatever the shape of the program, an accepted module holds every function
\* of the program and no instruction of one function in another: what the
\* unusual shapes misplace, verifyFunction or verifyModule finds
\* (CodeGenerator.cpp:25, 779).
MisplacedIsRejected ==
    walk = "accepted" =>
        /\ \A f \in 1..declared : status[f] = "kept"
        /\ "elsewhere" \notin strays

\* Both, of programs of any shape: the generator's state is well typed, and what
\* it misplaces is rejected.
AcceptedIsWhole == TypeOK /\ MisplacedIsRejected
=============================================================================
