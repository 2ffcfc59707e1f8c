# Xypher in TLA+

A verification development for the Xypher compiler (`src/src`, `src/include`) and
its standard library (`src/std`): TLA+ modules for the parts with behaviour worth
checking, TLC configurations that check them on small instances, and proofs for
TLAPS. Paths below are relative to the repository; `PROJECT.json` maps every
definition that models code to its lines.

The compiler is one process and one thread, and runs once per file:

    file -> Lexer -> Parser -> AST -> SemanticAnalyzer -> CodeGenerator -> Optimizer -> .o -> clang
                        \______________ DiagnosticEngine ______________/

What is hard is of five kinds:

- *Two phases that must agree.* The analyzer and the code generator walk the same
  tree with separate notions of scopes, types and functions. The generator uses
  nothing that the analyzer computed, and checks very little itself. Whatever the
  analyzer accepts and the generator understands differently is a wrong program
  without a message. The library's signatures are even kept three times.
- *State that outlives a visit.* The generator's insertion point, current function
  and map of locals, the parser's current token, the scanner's position, the number
  of errors: each is changed by nested calls in any order and read afterwards.
- *Pointer structures, loops over memory and failing calls* in the C library: a
  chained table that is resized in place, with an allocation that may fail at
  several points; files and clocks that the system changes underneath.
- *Runs that share files.* Nothing in `main.cpp` is concurrent, but a build starts
  several compilers side by side, and a user interrupts them: object file and
  output are shared by name.
- *Threads that share a buffer.* The library says of itself that it is thread-safe
  (`std/README.md:139`); the input functions have one static buffer.

A test meets a handful of programs; the modules below have *every* program, text,
command line or sequence of calls within their bounds as their behaviours.

## Inventory

| component | state | operations | what makes it correct |
|---|---|---|---|
| **Diagnostics** `src/frontend/Diagnostics.cpp` | count of errors | report, hasErrors | a phase runs only if the one before reported nothing |
| **Lexer** `src/lexer/Lexer.cpp` | position, line, column | nextToken, peekToken | every call advances or is at the end; tokens are the longest match, and where they are said to be |
| **Parser** `src/parser/Parser.cpp` | current and previous token; the C++ stack of methods | parseProgram, one method per construct, synchronize | terminates on any text; a null node never reaches a later phase; what it accepts has the structure it was written with |
| **AST, dumper** `src/ast/*` | the tree | accept, dump | none of its own: data |
| **Symbol table** `src/sema/SymbolTable.cpp` | stack of scopes | enterScope, exitScope, declare, lookup | scopes are left as they were entered; the innermost declaration is found |
| **Semantic analyzer** `src/sema/SemanticAnalyzer.cpp` | symbol table, types of expressions, current return type | one visit per node | accepts only programs that the generator can compile as they are meant |
| **Type checker** `src/sema/TypeChecker.cpp` | none | areTypesCompatible, getCommonType, type of an operation | its types are those of the values that are built |
| **Module registry** `src/sema/ModuleRegistry.cpp` | the library's signatures | lookup by module | agrees with the generator's declarations and with `xystd.h` |
| **Code generator** `src/codegen/CodeGenerator.cpp` | LLVM module, insertion point, current function, maps of locals and globals, imported modules | one visit per node, declareStdFunctions, emitLLVMIR, compileToObject | the module verifies; its CFG, names, types and values are those of the source |
| **LLVM backend** `src/codegen/LLVMBackend.cpp` | none | emitObjectFile, emitLLVMIR, emitAssembly | failures reach the exit code |
| **Optimizer** `src/backend/Optimizer.cpp` | the level | two pipelines | a module that a pass broke is noticed |
| **Driver** `src/main.cpp` | options | parseArguments, readFile, the phases, output, linking | what is announced is there and is the run's own; every run ends with an exit code |
| **Target machine, JIT, FFI** `src/backend/*`, `src/codegen/FFI.cpp` | none of their own | wrappers of LLVM; JIT and FFI are not used by the driver | - |
| **Library: hash map** `std/src/hashmap.c` | buckets, chains, size, threshold | create, insert, get, remove, contains, size, keys, clear, destroy | a dictionary; no dangling pointer; no leak |
| **Library: arrays** `std/src/array.c` | the caller's memory | fill, sum, min, max, copy | ranges of any size and place, and nothing beyond them |
| **Library: files** `std/src/file.c` | streams, one block | open, close, read, write, read_all | no byte lost, no stream left open |
| **Library: input** `std/src/io.c` | one static buffer, stdin | grab_i32, ..., grab_str | the input, in order, whichever calls fail |
| **Library: time** `std/src/time.c` | none | time_*, sleep_ms | differences are what passed |
| **Library: strings, memory, math, debug, runtime** `std/src/*.c` | none | wrappers of C | their signatures |

How they interact: by calls only. `main` calls the phases in turn and asks the
diagnostics for errors between them; the parser pulls tokens from the lexer; the
analyzer and the generator are visitors that the tree calls back, so that the
order of nested `accept()` calls is the order in which their state changes. A
compiled program calls the library; the library calls back nothing. Several runs
of the compiler meet in the file system, several threads of a program in stdin.

`PROJECT.json` lists under "hazards" what is hard to test, at its line, with the
properties that would catch it.

## Modules

| module | models | as |
|---|---|---|
| `ControlFlow` | basic blocks, terminators, the insertion point and the verifier: `CodeGenerator.cpp:498-860` in its control | a walk over every program, one statement at a time |
| `ControlFlowProofs` | - | theorems of `ControlFlow` |
| `Scopes` | names in the analyzer (`SymbolTable`, `SemanticAnalyzer`, imports) and in the generator | both phases in step |
| `ScopesProofs` | - | theorems of `Scopes` |
| `Types` | types in the analyzer (`TypeChecker`, visits of expressions) and of the LLVM values that are built, with stores | both phases in step, over a stack of operands |
| `TypesProofs` | - | theorems of `Types` and `Values`, as the parts of `MCBodies` |
| `Values` | what the instructions compute: `CodeGenerator.cpp:237-511, 546-573, 676-679` over integers and bools | the meaning and the bits in step, over words of a few bits |
| `Lexer` | every method of `Lexer.cpp` | a step per character, over any text |
| `LexerProofs` | - | theorems of `Lexer` |
| `Parser` | every method of `Parser.cpp` and the recovery | small programs of instructions over any stream of tokens |
| `Expressions` | the trees of `Parser.cpp:382-633` | a step per token or return, over any text of expressions |
| `ParserProofs` | - | theorems of `Parser` |
| `Optimizer` | the two pipelines and their verifications | lists of stages |
| `Driver` | `main.cpp` with the writers of `LLVMBackend.cpp` | runs that share a file system, one system call a step; uses `Optimizer` |
| `Library` | the three accounts of the library: registry, generator, `xystd.h` | imports, functions of the program and calls in any order |
| `DriverProofs` | - | theorems of `Driver` |
| `Hashmap` | `hashmap.c`, each iteration of a loop a step, each allocation may fail | pointers and memory |
| `MapSpec` | the promise of `xystd.h:112-123`: a dictionary | the abstract specification that `Hashmap` implements |
| `HashmapProofs` | - | theorems of `Hashmap`, and that it implements `MapSpec` |
| `Arrays` | `array.c`, each iteration a step | a memory of ints |
| `FileIO` | `file.c` on a stdio whose calls fail | three users of one file |
| `Input` | the input functions of `io.c` | threads that share stdin and the buffer |
| `Clock` | `time.c` | a program beside two clocks, one of which is set |
| `LibraryProofs` | - | theorems of `Arrays`, `Library`, `Clock`, `FileIO` and `Input`, as the parts of `MCStandardLibrary` |
| `MC*` | - | the instances that TLC runs; the `.cfg` files have the bounds |

The modules of the compiler are separate because the code is: names, types and control
of the generator do not influence one another. The generator's blocks do not depend on
what a name refers to, the map of locals does not depend on blocks, and types depend on
neither except through the type of a variable, which `Types` has. Each module
therefore walks the same tree with the rest left nondeterministic, which is more
than the tree allows and never less.

`MCParser` runs `Parser` and `Expressions`, and `MCStandardLibrary` runs `Arrays`,
`Library`, `Clock`, `FileIO` and `Input`, as one state space each: a behaviour is one of
a single part, while the variables of the others stay at their start. That loses
nothing, since the parts share no state: they are in different files of `std/src`,
whose only static variable is the buffer of `io.c`.
`MCBodies` runs `Types` and `Values` in the same way: the stack of operands is the same, its
types in one and its bits in the other, and neither depends on the other beyond the width
of a type.

A property that is a conjunction (`TableSound`, `TokensSound`, ...) gathers the type
invariant of its module and the parts that are each stated and explained where they are
defined.

### ControlFlow

`blocks` are the `BasicBlock`s in order of creation: the function they are in,
their last instruction, their successors. `insertBlock`, `currentFunction` and
`hasErrors` are the fields; `stack` is the C++ stack of visits, each frame with
that visit's locals (`elseBB`, `mergeBB`, `condBB`, ...). An action is what a visit
does between two nested `accept()` calls:

| action | code |
|---|---|
| `SimpleStmt`, `LocalDecl`, `GlobalDecl`, `ReturnStmt` | visits of ExprStmt, Say, Trace, VarDecl, ReturnStmt |
| `BeginIf`, `BeginElse`, `EndIf`, `SkippedIf` | visit(IfStmt): up to the branch, between the branches, after them, and its early return |
| `BeginLoop`, `EndLoop` | visit(WhileStmt) |
| `BeginFunc`, `EndFunc` | visit(FunctionDecl) with `verifyFunction` and the erasure of a function that fails |
| `Finish` | the rest of `generate`, with `verifyModule` |
| `UndefinedUse` | a use of a block of an erased function: undefined behaviour, where the walk ends |

LLVM is external: `Emitted` appends without checking, as IRBuilder does, and
`FunctionOK` is the part of the verifier that looks at blocks (one terminator, at
the end; successors and operands of the same function).

### Scopes

`scopes` is `SymbolTable::scopes_`; `namedValues`, `globalValues`, `functions`,
`imported`, `currentFunction` are the generator's. The analyzer runs over the whole
program first and the generator over the same program again; since neither reads
the other's state and the generator only sees programs without errors, one action
is the visit of one construct by both, guarded by the analyzer's checks. `use`
records what the last use of a name meant to either. A declaration has an
identity, so that two variables of the same name and type are told apart.

### Types

`values` is the stack of operands of the expression in progress: each with the
type that the analyzer gave it and the LLVM type of what the generator built.
`malformed` says that the verifier will reject an instruction, `store` is the last
store (a store of a value of the wrong size is not an error to the verifier).
Its operator `Library` has the signatures of library functions as the registry and the
generator have them.

### Values

Next to the bits that an instruction computes stands the integer that the program
means (`Value`); `Instruction` is what LLVM does with the bits, chosen as
`CodeGenerator.cpp:293-401` chooses it, and `Means` what the operator does. Integers
have `W32` and `W64` bits. A program is followed while its integers have a meaning
(`left`); where the generator's signed instructions would take an unsigned integer's
top bit for a sign is part of that and named in `Mistaken`. `Printed` is what `say` may
print: of a bool, whose one bit is passed where `%d` reads an int, any number with that lowest bit.

### Lexer

`source` is the text, `current`, `start`, `line`, `column` the fields, and `mode` the
loop or branch of the scanner that is in progress, so that each step takes one
character or returns a token. `PeekToken` scans ahead in the same steps and puts the
position back (`peeking`). The parser is the caller: it asks for the next token until it
has the end, and peeks at will. What a lexeme is is said once more, without going through
the text from the left, by `IsLexeme`.

### Parser and Expressions

`stack` is the C++ stack of parsing methods. A method is a sequence of
instructions (`Expect`, `Require`, `Call`, `Need`, `Optional`, ...) which read like
the code: `Require(t)` is `if (!consume(t, ...)) return nullptr`, `Expect(t)` a
consume whose answer is ignored. The loops of `parseProgram`, `parseBlockStmt` and
`synchronize` have actions of their own. The lexer is external: the next token is
any token. A behaviour parses one of `Files`: what its tokens may be, how many
there are, and after how many errors the parser gives up (`Parser.cpp:84`: ten).
The nine levels of binary operators are one loop here, since they do not differ in what
is consumed or reported; of the tree `Parser` keeps whether nodes are null.

`Expressions` has the levels: `Ladder` is which method calls which for its operands, and
which operators each takes. A behaviour parses one text over one of the `Alphabets`;
`groups` notes for every node that is made the tokens that it spans and its operator. What
the tree should be is said of the operators in the text, by rows of operators that bind equally
tightly (`GroupedBy`): those of the documented table (`DocumentedRows`), and those in which `&`, `^`,
`|`, `&&` and `||` have a row each (`FinerRows`), which refine it.

### Optimizer and Driver

`Optimizer` has the stages of both pipelines as lists. In `Driver`, `run` is the state
of each run of the compiler: its phase, its options, the file it read, the stage of
the optimizer, what it wrote and announced, its exit. `files` is the file system at the paths
that the driver makes out of names, with one subdirectory that may be missing. `PathOf` is the path of a name
and what is appended to it, and may be a name again: the object of `-o foo` is the output of `-o foo.o`. A step is
what lies between two calls into the system:

| action | code |
|---|---|
| `Begin` | the process starts with its command line |
| `parseArguments`, `CheckOptions` | one argument a step, and the checks of `main` after the last |
| `readFile`, `Parse`, `Analyze`, `Generate` | the phases, each of which may find the program's fault |
| `OptimizeStage`, `Optimized`, `VerifyIR` | the pipeline stage by stage; a pass may break the module |
| `EmitOptimizedIR`, `createDirectoryIfNeeded`, `Emit` | `main.cpp:381-403` in the order that they have there |
| `OpenObject`, `WriteObject` | `emitObjectFile`: the file is emptied, then written |
| `ReadObject`, `linkExecutable`, `Report` | clang reads the object, writes the output; the exit code |
| `Kill` | an interrupt, at any step |

A program is known by its file and the phase that it fails in. `Scenarios` pair what may be
on the command lines with what may go wrong: any line of up to four arguments where nothing does;
every failure with the lines a user writes; two runs side by side, with any
of them killed or its linker failing.

### Library

`Modules` is the registry, `Declared` what the generator declares on an import,
`Exported` the prototypes of `xystd.h`; types are those of LLVM and C by their width. A
program imports modules, defines functions (one of which has the name of a library
function) and calls; a call passes what the generator makes of its arguments and is bound
by its name, as linkers do.

### Hashmap and MapSpec

`heap` holds what is at each address, `frame` the C locals of the call in progress.
`malloc` returns any free address, so that memory that was freed is used again.
`hash_string` is external to the instance: `Hash` is any function of the keys, and
`MCHashmap` takes one in which keys collide at some table sizes and separate at
others. Each operation of `MapSpec` is one step; a removal takes effect when the
entry is unlinked, an insertion when it is linked, `clear` and `destroy` when they begin.

### Arrays, FileIO, Input, Clock

- `Arrays`: `mem` is the caller's memory, `i` and `acc` the locals of a loop; a call is about any
  range of it, null and empty included. A sum of two ints that is no int is undefined in C, and no build file
  asks the compiler for more: it may come out as any int (`Added`).
- `FileIO`: a caller of `xy_file_read_all`, a reader in pieces and a writer use one
  file in any interleaving; `stdio` is external and keeps written bytes back until a
  flush. `Failures` names the calls that may fail. A file that cannot be measured (a
  pipe) is among the `Kinds`.
- `Input`: threads call the number and the word function on any input. `scanf` is
  external: a conversion that fails takes the sign and leaves the rest.
- `Clock`: `mono` only goes on, `wall` may be set at any time. Nanoseconds are taken from the
  first, milliseconds and seconds from the second. The product that `usleep` is given may be anything
  when it does not fit an int (`Microseconds`).

## Ordinary and unusual programs

Several promises hold for the programs that people write and fail for shapes that
the grammar allows. `ControlFlow`, `Scopes` and `Types` name their shapes (`AllShapes`) and take
those to explore as the constant `Shapes`. In `Scopes` and `Types` a history
variable `plain` says that the program so far has none of them; in `ControlFlow`
`Shapes = {}` leaves them out. So one run shows both what holds of every program
that is explored and what holds of plain ones. The properties are about:

| | plain programs | every explored program |
|---|---|---|
| `ControlFlow` | `PlainInv`, `VerifierSilent`, `InsertPointAtHome`, `LiveMatchesCFG`, `SealedBlocksFrozen` | `AcceptedIsWhole` |
| `Scopes` | `NamesAgree`, `UsesAgree` of every use | `UsesAgree` of calls, `NoForeignLocal` |
| `Types` | `TypesAgree`, `AcceptedIsSound` | `ValuesAreSound` |
| `Values` | `IntegersExact`, `SaysInts`, of bodies that `Types` calls plain | |

## Runs

Passing:

| run | shows | states |
|---|---|---|
| `control_flow` | ordinary programs: the verifier never objects, the insertion point is where the source is, the CFG is the source's, a terminated block is never touched again; and the invariant that is proved | 35 000 |
| `control_flow_shapes` | code after a return, top-level code, nested functions, void conditions: an accepted module still has every function, and no instruction in another function than its own | 465 000 |
| `names` | the flat maps mean what the nested scopes mean, and why (`NamesAgree`); with shadowing, calls still agree and no name reaches another function's local | 540 000 |
| `bodies` | the analyzer's types are those of the values, accepted bodies verify, stores fit; however types are mixed, a bool is one bit and a number has a value; integers and bools are computed as their operators mean and integers printed so, within the limits that the properties name | 596 000 |
| `lexer` | the longest match, one token after another, at its place; what was peeked comes; the scan ends | 687 000 |
| `parser` | on every stream of tokens: no null child without an error, no iteration of a block without progress, matching brackets in what is accepted, an end; on every expression: a tree with every operator, grouped as documented where the documented rows tell operators apart and by a row each for `&`, `^`, `\|`, `&&` and `\|\|` where they do not | 977 000 |
| `driver` | rejected programs leave nothing, broken modules are noticed, announced files are there, arguments mean what the usage says, the executable is the run's own, every run ends | 460 000 |
| `hashmap` | chains, count, memory, load factor, the dictionary of `MapSpec`, and that calls return | 81 000 |
| `standard_library` | the array functions, the three accounts of signatures, times and sleeps, files and input; calls return and reading ends | 409 000 |

Each of the following finds a disagreement between the repository's documents and its code
("findings" in `PROJECT.json`):

| run | violated | what happens |
|---|---|---|
| `block_shadowing` | `ReadsInnermost` | a variable of an inner block replaces the outer one of that name for the rest of the function |
| `inferred_f64` | `InferredFits` | `let y = 3.14;` stores eight bytes into four |
| `documented_precedence` | `GroupedAsDocumented` | operators of one documented row are not equally tight: `a \| a & a & a` is grouped neither from the left nor from the right |

The documentation says of no row which way its operators group; `GroupedAsDocumented`
therefore asks only that each row groups one way throughout a text. In `a | a & a & a` it does not: the first two
operators are grouped from the right, the last two from the left.

Every property of a passing run has a mutant in `PROJECT.json`: an operator next to the one
it replaces (`AlwaysBranch` by `FallThrough`, `NotAdvanced` by `match`) that is the code with a plausible
mistake, under which TLC finds the property violated. The modules use them nowhere else.

### Bounds, and why they are enough

- `ControlFlow`: 10 blocks (7 with shapes), 2 functions, 4 nested visits. An `if`
  with `else` takes three blocks, a loop three: 10 blocks hold an entry and three
  constructs, in sequence, in one another, or in two functions; the visits keep
  nothing but their own frame and the insertion point, so a construct in a construct in
  a construct is what could go wrong. The theorems need no bounds.
- `Scopes`: two names, one of them also a library function, 4 declarations, 4
  nested scopes. A clash needs a name and at most: a declaration at top level, a
  function, one in it and one in a block. Two blocks one after the other and in one another fit.
  The theorems need no bounds.
- `Types`: two variables, two waiting operands, the types that differ in what the
  analyzer or LLVM does with them (`u32` for the unsigned, `i64` for the wide, `i8` and `u8` for the small, whose common type is neither), library
  functions that cover each combination of result and parameters. State does not
  accumulate: beyond two operands a value is just below another. The theorems need no bounds, and
  cover the types and calls that the run leaves out.
- `Values`: words of 3 and 5 bits, in which every sign, overflow, shift and extension occurs, one
  variable, two operands and literals up to 4, which no longer fits an i32 of three bits. The theorems need no bounds and hold of 32 and 64 bits.
- `Lexer`: texts of up to 4 characters over ten alphabets, one for each group of branches that can meet
  in a token (numbers; words; strings; characters; comments and arrows; ...): the longest
  tokens of fixed length have two characters, an escape in a character literal four, and what follows an
  unfinished token is seen. One peek, up to one token ahead, at any place. A `size_t`, in which a token's column
  is computed, has 256 values. The theorems need no bounds, except that a text and the column after it fit a `size_t`.
- `Parser`: 29 kinds of token in files of up to 4, giving up after more than 2
  errors, and 8 kinds in files of up to 8, which is a function with a statement in
  its block, or with a block in it, giving up after more than 1, so that giving up occurs with the
  errors that fit. The theorems need no bounds.
- `Expressions`: texts of up to 8 tokens over thirteen alphabets of operators of neighbouring levels, among them the three
  and the two of one documented row, with brackets and arguments: a level is only concerned with the one above and the one below, and
  8 tokens hold four operands and three operators with one unary, or two in a bracket.
- `Driver`: three names of files (a program, another, one in a subdirectory). On any line there is
  an argument of each kind that the driver treats differently; four are a row of two `-o` with
  something before and after it. Two runs, with outputs that may be the same, a source, or the one
  (`output.o`) the object file of the other (`output`), are enough for any conflict of two. The theorems need no bounds.
- `Hashmap`: three keys and three addresses; tables asked for 0 buckets (the default
  of 16), for 1, which grows to 2, 4 and 8 at the first insertions, and for 3, which
  is no power of two. The hashes 1, 5 and 17 put all keys into one chain of four
  buckets and two of them into one of eight: a removal meets the first, a middle and the
  last entry of a chain, and a resize splits a chain and turns another around. One value
  and the null value: what is stored is never looked at. The last answer is forgotten when a
  call begins. The theorems need no bounds.
- `Arrays`: ints of -2..1 in three cells, so that sums leave the ints on both sides, also on the way
  to one that is an int. The theorems need no bounds.
- `Library`: the modules with functions, one function of the program that has the name of a library function, up to three arguments
  of types that the generator treats differently. The theorems need no bounds, nor do those of `Clock` and `FileIO`.
- `Clock`: a millisecond of 2 microseconds, ints of -4..3 (so that the product that `usleep` is
  given overflows), clocks up to 3.
- `FileIO`: two bytes, files of up to 3: a piece before, in and after what a writer adds.
- `Input`: five characters of which a number, a sign, a word and a blank are made, a buffer of 3, that is words of up to 2
  characters, two threads.

### Fairness

All fairness is weak and of what the code runs by itself, never of its caller.

| specification | fair | because |
|---|---|---|
| `Hashmap!FairSpec` | a call in progress goes on | no function of `hashmap.c` blocks |
| `Arrays!Spec`, and in `MCStandardLibrary` | an iteration, a return | the same of `array.c` |
| `MCParser!Parsing` | the parser goes on | one thread that waits for nothing |
| `Lexer!Spec` | a scan goes on, and the next token is asked for | the parser asks until it has the end (`parser` shows that it comes there) |
| `Driver!Spec` | each run that has started goes on | a process that the system schedules; it may also be killed, and when it starts is up to its user |
| `Input!Spec`, and in `MCStandardLibrary` | a word is read | a program that reads until the end of its input |

The other modules state safety only. Deadlock is checked in every run: where a program,
a text or a compiler run ends, a step says so (`Ended`, `Finished`, `Stopped`, `Done`, `ProgramEnds`).

## Proofs

`ControlFlowProofs` proves, for every value of the bounds:

| theorem | says |
|---|---|
| `TypeCorrect` | `Spec => []TypeOK`, for every set of shapes |
| `PlainSound` | `Shapes = {} => (Spec => []PlainInv)` |
| `VerifierIsSilent` | `Shapes = {} => (Spec => []VerifierSilent)` |
| `InsertPointKept` | `Shapes = {} => (Spec => []InsertPointAtHome)` |
| `SealedFrozen` | `Shapes = {} => (Spec => SealedBlocksFrozen)` |
| `LiveMatches` | `Shapes = {} => (Spec => []LiveMatchesCFG)` |
| `AcceptedWhole` | `Spec => []AcceptedIsWhole`, for every set of shapes |

from the assumptions `BoundsAssumption` and `ShapesAssumption` of `ControlFlow`.
`Shapes = {}` is a hypothesis because the conclusion is false without it: code after a return is
appended behind a terminator, and the verifier rejects it.

*Why an inductive invariant is needed.* That the verifier is silent does not
follow from itself: `EndFunc` verifies blocks that were made long ago by visits
that have ended, and a block that is fine now is broken if a visit that is still
open inserts it twice or branches from it a second time. `PlainInv` says what the
open visits rely on: the blocks they still have to insert exist, are untouched,
and are distinct, in order of the nesting (`Awaited`, `AwaitedInOrder`); every inserted
block but the insertion point is terminated exactly once, and its successors are
in its function or still awaited by an open visit of it (`BlocksSound`); the
insertion point is in the open function and is terminated only right after a
`return` (`InsertionSound`). Order is what makes distinctness inductive: a visit
creates its blocks before those of any visit in it, so the numbers of awaited
blocks grow along the stack, and a new block is above all of them.

*How the proof goes.* `TypeInv` first, action by action. Then, for `PlainInv`,
`PlainAdvance` (appending an instruction to the insertion point), `PlainPush` (a new
visit on the stack), `PlainFallThrough` and `PlainGoesOn` (the branch to the block a visit waits for,
and moving there) and `PlainTop`/`PlainBelow` (what remains of the stack when a visit
ends) are the lemmas that the actions share. When a function ends, the stack is
empty, nothing is awaited, so `BlocksSound` reads as `FunctionOK`: this is `PlainEndFunc`, and
`VerifierIsSilent` follows. For `SealedFrozen`, `PlainInv` says that a terminated block is
inserted, so that no visit awaits it or will create it, and that where a statement may
come next the insertion point is still open (`SealedPlace`): an action that writes to the
insertion point, to an awaited block or to a new one leaves the terminated ones alone.

*What control can reach.* `LiveMatches` is about paths. The proof replaces them by the least set of blocks that holds the
entry and that no branch leaves (`ReachSet`, `ReachLeast`); `ReachedFrom` makes this the `Reachable` of the model. `LiveInv`
then says of each open visit what its branches, as far as they are made, let control reach: a `then` with an
`else` ahead has reached the `else` exactly if control came to the `if`, and has not reached the join; an `else` reaches the join exactly if the
`then` did; a loop has reached header and exit exactly if control came to it. Blocks that are awaited have no branches of
their own, so what is reached grows at the insertion point only: by a new block (`ReachedAhead`) or by none,
when a loop goes back to its header (`ReachedBack`).

*Programs of every shape.* `PlainInv` is false for the unusual shapes, so `AcceptedWhole` has an invariant of its
own, `WholeInv`. The generator never puts the insertion point back, and so may stand in a function the source text
has left; what saves it is that it cannot append there unnoticed. `WholeInsert` says so: the insertion point is in
the function of the source text, or it is terminated already, or some function holds a block that the verifier
objects to (`Found`), and nothing takes an objection back (`FoundStays`). At the end of a nested function the
default return is what makes the second case true. A branch or a loop may carry a misplaced insertion point on to new
blocks: it then began with one, so there is an objection (`WholeBegins`, `WholeGoesOn`). At the end of the program every
function is kept or erased (`WholeStatus`); a kept one with an objection fails `verifyModule`, and an erased one has left its error.

`DriverProofs` proves, for any number of runs beside one another, command lines of any length
and any faults and failures, of every scenario, from `ScenariosAssumption`, `PathsAssumption` and the others of
`Driver`. `PathsAssumption` is what appending does: nothing appended leaves a name as it is, paths of one name differ by what is appended, paths with the same
ending by their names, and all paths of a name are in its directory. It leaves open which paths of different names coincide.

| theorem | says |
|---|---|
| `Invariant` | `Spec => []IInv` |
| `RejectedLeavesNothingHolds`, `BrokenIsNoticedHolds`, `AnnouncedIsWrittenHolds`, `DeliveredIsOwnHolds` | the properties of those names |
| `ArgumentsUnderstoodHolds` | `Spec => []ArgumentsUnderstood` |

What a run promises is about its end, so `IInv` has what each phase has settled: what a fault or
a mode has kept it from (`FrontSound`), what the pipelines have made of the module and said of it (`PassesSound`),
what lies in the files that it has announced (`ToldSound`). These speak of one run only. `DeliveredIsOwn` does
not: between the object file's writing and the linker's reading another run may write it. `Delivers` therefore follows the content of
the object file and of the executable along the last phases, for a run that none disturbs
(`Own`): no other has the output or the object file of this one among the paths that it makes of its own output (`Disturbs`). A run that is still reading its command line
has no output yet, so `Own` leaves it out until it has, and `OneRun`, the lemma for a step of any run, needs only that a run
touches paths of its own output, and none before it has one.

For the command line, `Between` says where the parser stands between two arguments: in front of one that is not the operand of
an `-o`, with the options that the arguments behind it ask for (`AskedBy`). The usage tells operands by rows
of `-o`, counted from where the row begins, while the parser skips them one by one; `OperandFollows`
is why the two agree at each step.

`HashmapProofs` proves, for any keys, values, hash and capacities, and any finite memory:

| theorem | says |
|---|---|
| `Invariant` | `Spec => []IInv` |
| `TableSoundHolds` | `Spec => []TableSound` |
| `MemorySafeHolds` | `Spec => []MemorySafe` |
| `KeysStayHolds` | `Spec => KeysStay` |
| `Refinement` | `Spec => ImplementsMap`: the dictionary, step by step |

from `CapacitiesAssumption`, `HashAssumption`, `NullAssumption` and `EntriesAssumption`: memory is finite, without
which a chain would have no length.

*Why an inductive invariant is needed.* That every key is found says nothing of a chain that leads into another one: the
next removal would break it. `IInv` therefore says that what the pointers lead to from different buckets is disjoint, that no
entry leads to itself, and that every live entry is reached (`Forest`). While a table is resized or
freed the buckets are not all there is: what is left of the chain in hand and the old buckets behind it are roots of the
forest too (`HeadsFor`), so that every entry is on exactly one chain at every step. The rest is what calls know on the way:
a table grows only by what fitted the old one (`Tables`), a lookup has passed other keys only and a removal holds the entry before
(`Searching`), the keys collected are those of the entries behind the loop (`Collecting`), and
`clear` has left no bucket with a pointer behind it (`Freeing`).

*How the proof goes.* What is reached from a pointer is the least set closed under `next`, so induction along a chain
is a choice of that set. The lemmas are about a heap before and after one write: an entry popped off a chain (`Popped`), put in front
(`Pushed`), moved (`Moved`), linked past (`Bypassed`), a chain renamed (`Renamed`) or the rest of the memory untouched
(`SameLinks`); each preserves `Forest` and says what is reached afterwards. Every action is one of them and some
counting. For the refinement, `DictIs` reads the dictionary off the entries and each returning action is shown to be
the dictionary's operation; `HeldIs` counts its keys, a bijection with the live entries.

`ScopesProofs` proves, for any names, any number of declarations and nested scopes, from `BoundsAssumption`,
`NamesAssumption` and `ShapesAssumption`:

| theorem | says |
|---|---|
| `Invariant` | `Spec => []IInv` |
| `NamesAgreeHolds` | `Spec => []NamesAgree` |
| `UsesAgreeHolds` | `"hiddenFunc" \notin Shapes => (Spec => []UsesAgree)` |
| `NoForeignLocalHolds` | `Spec => []NoForeignLocal` |

`UsesAgreeHolds` has its hypothesis because a function of the program that has the name of one which only the
generator declares (`printf`) is not what a call of that name reaches.

*Why an inductive invariant is needed.* That names agree now does not say that they agree when a block is left: what its
scope had stays in the flat map, where it must hide nothing. `IInv` says that a plain program's blocks take no name
of the program (`BlocksShadowNothing`) and that a name is in one scope of a function at most (`LocalsAgree`). For calls, a name that the program scope does not have is free in the LLVM module, so that the function declared with
it goes by it and not by a renamed copy (`ModuleAgrees`); this survives a use of an unusual shape, which is why calls agree in every
program. `OwnersSound` is that the flat map is emptied at each function.

*How the proof goes.* `LookupIs` says what the innermost scope with a name is: it exists because every nonempty set of
numbers has a least element (`LeastNumber`). `DeclaredIs`, `PushedIs` and `PoppedIs` say what a stack of scopes
is after each of its operations, name by name; each action preserves each part of `IInv` from these.

`TypesProofs` proves, for any variables, any types that declarations write, expressions of any depth and every set of
shapes, from `ParametersAssumption`:

| theorem | says |
|---|---|
| `Invariant` | `Spec => []IInv` |
| `TypesAgreeHolds` | `SignaturesMatch => (Spec => []TypesAgree)` |
| `AcceptedIsSoundHolds` | `SignaturesMatch => (Spec => []AcceptedIsSound)` |
| `NumbersHaveValuesHolds` | `Spec => []NumbersHaveValues` |
| `ValuesAreSoundHolds` | `"inferred" \notin Shapes => (Spec => []ValuesAreSound)` |

`SignaturesMatch` says that registry and generator agree on what the called functions return; of `create` and `get` they do
not, and a plain program that returns the result of one is malformed. A variable whose type is inferred is an i32 even if the analyzer
calls it a bool, hence the second hypothesis. Both are true of the run's instance.

*Why an inductive invariant is needed.* An assignment stores into the variable that its left operand names, which was
read when the operand was visited, while the analyzer compares the operand's type: `NamesAreLocals` says that no declaration comes between
the two. `PlainAgrees` has to hold of all operands that wait, since each is used later, and of all variables, since each can be read.

*How the proof goes.* `PushInv` (an expression replaces operands by its value) and `EmptyInv` (a statement leaves none) say what
a visit has to show, and the lemma of each action shows it; `IrTypeIs`, `BinaryTypeIs` and `LibraryIs` are what the visits need of
types. The attempt found what the run had missed, whose types had no i8 and u8 at that time: operands of these two have one LLVM
type, yet the analyzer's common type is i32 (see Observations). Such operands are therefore of the shape `mixed`.

The second half of `TypesProofs` proves of `Values`, for words of any width (`W32` at least 2, `W64` more), any literals, variables
and expressions of any depth, from `ValueTypesAssumption`, `WidthsAssumption` and `ParametersAssumption`:

| theorem | says |
|---|---|
| `IntegersExactHolds` | `Computing => []IntegersExact` |
| `SaysIntsHolds` | `Computing => []SaysInts` |

`Computing` is what the run checks: a behaviour of `Types` or one of `Values` (the instance `V` of `MCBodies`), with the
variables of the other at their start. The proofs look at the variables of `Values` only, so they hold of `Values` alone; and
`ComputingIsTypes` is `Computing => Spec`, so the theorems of the first half hold of the run's specification.

*Why an inductive invariant is needed.* An operand that waits is used by an instruction that is chosen by the operator alone, and a variable's by
any later one, so `ValuesInv` has all of them exact at all times: `Holds` says that the integer is one of the type and that the bits are the
integer, wrapped. A value that `say` printed is gone from the stack, so `SaysInts` is a part of `ValuesInv` of its own.

*How the proof goes.* An instruction and its operator need not agree on their operands but only up to multiples of a power
of two (`Congruent`): that survives sums, products and a coarser modulus, and two words, or two integers of a type, that are congruent
are equal (`CongruentEqual`, `WrapIs`, `SignedIs`). So `+`, `-`, `*`, `<<` and negation are right whether the operands are
taken as signed or not (`RingOperators`, `ShiftOperators`), while division, comparison and `>>` need `HoldsSigned`: the signed instructions see the integer
unless it has the top bit of an unsigned one. `==` is right of two unsigned integers all the same, since different words stay different (`SameSigned`). A
word is shifted by what its integer says because `2^(w-1)` is at least `w`, so that a count less than `w` has no top bit (`ShiftCount`). `&`, `|` and `^` on integers of either
sign depend on no bit but the lower ones (`LowBits`, `OnBitsCongruent`), and what a wider word adds is a multiple of the
power (`OnBitsHigher`). The provers know no powers: `Power` and the sums in `OnBits` are recursive functions of `Values`, which
are shown to exist (`PowersExist`, `LowerExists`) by an induction without an induction theorem (`Numbers`, as in `LibraryProofs` below).

`ParserProofs` proves, for any files, tokens and number of errors to give up after, from `FilesAssumption`:

| theorem | says |
|---|---|
| `Invariant` | `Spec => []MethodsInv` |
| `MethodsSoundHolds` | `Spec => []MethodsSound` |
| `AcceptedIsBalancedHolds` | `Spec => []AcceptedIsBalanced` |

The assumption lets a file have any length from one up: the lexer has returned the first token when the parser begins.

*Why an inductive invariant is needed.* That a block's safety net is not needed depends on calls that are long over by the time its
loop comes round. `WaitsFor` relates a method in progress to the one that it waits for: a block that has not moved on
waits for a declaration, that for nothing but an expression statement, and this consumes a token or returns null; after null it
is synchronize that the block waits for, which consumes one. `FrameOK` has an error behind every null pointer on its way up and behind
every recovery.

For the brackets, what the text has open must be compared with what the methods on the stack have still to close (`Balanced`): `Bracket`
says which bracket a method holds at each instruction, and `Agree` that the open brackets are, in order, those held. Only
then is the end of the outermost method the end of all of them. A function's brace is the function's until the block is called, and then
the block's. An error ends the comparison, since nothing is promised of a file that is not accepted.

*How the proof goes.* The methods are a table, so what the proof needs of them is read off it once, instruction by instruction (`Table`): whom an
instruction calls, that consuming a token changes the bracket held in the same way as the text (`Moves`), and that a method ends with none.
Then come the shapes of a step: the innermost method goes on, is replaced, calls or returns (`Replacing`, `Pushing`, `Popping`, and
`Stepping`, `Abandoning`, `Starting`, `Called`, `Returning` from these). Each action is one of them, and again for the
brackets (`SteppedBalanced`, `StartedBalanced`, `EnteredBalanced`, `CallerHolds`). That two sequences agree is a function between their
places, so the lemmas about it (`AppendNone`, `AppendHeld`, `ConsumedHeld`) need no induction.

`LexerProofs` proves, for any texts over the alphabet, of any length, and any number of peeks as far ahead as one likes, from
`AlphabetsAssumption`, `BoundsAssumption` and `SizeAssumption`:

| theorem | says |
|---|---|
| `TokensSoundHolds` | `Spec => []TokensSound` |
| `PeekAgreesHolds` | `Spec => []PeekAgrees` |

`SizeAssumption` lets a `size_t` have more values than the longest text has characters, by two: `makeToken` subtracts the lexeme's length from the column in a `size_t`, and after the last character of a text the column
is one more than its length. The attempt to prove `MadeLocated` showed that this must fit, too. No `std::string` is as long.

*Why an inductive invariant is needed.* `ScanInv` is `PlacesInv /\ TilesInv /\ Located /\ MatchInv`. `TokensSound` speaks of
finished tokens, and whether one is the longest match depends on what was taken, character by character, since it began.
`MatchInv` says that of each mode of the scanner: all of a word so far is a word (`WordSoFar`); which parts of a number are
complete and which has begun (`NumberSoFar`); that no quote before the position ends the string, and whether the character
here is escaped (`StringSoFar`); what stands after an opening quote (`CharacterSoFar`) and in the first half of a pair (`PairSoFar`); and at
the end, that the lexeme about to be returned is one and no longer one begins there. `TilesInv` says where the scan is among
the tokens: that what lies behind the last of them was skipped rightly, in a comment or between two. `PlacesInv` compares line and
column with the newlines before the position, also of the place that a peek will go back to. TLC checked `ScanInv` first, on the run's instance
and on texts of up to 6 characters.

*How the proof goes.* `Classes` separates the alphabet once. `Begins` and `Elsewhere` say that a lexeme's first character decides what kind it is,
so that only one kind has to be compared for length; `WholeBound` and `NumberMake` do that for numbers, where a
point or an `e` that is looked at may belong to the next token. Whether a character of a string is escaped is the parity of
the backslashes before it, a set which one step adds one element to (`Escapes`). Each action has a lemma per part of the invariant.

For `PeekAgrees`, `Turn` says of any place of the scanner where it is after the next character, and `Succ` where the scan is, with
the tokens made up to there; neither looks at what was peeked. A text then has one trace of places (`OnTrace`, `TracesAgree`), on which the
number of tokens only grows, by one at a time (`TraceCounts`, `TraceMakesOne`). The scan, its saved place and the place of a peek are all on it,
so that the token which a peek has seen is the one that the scan makes when it has made as many. That every step of the scanner is `Succ` is shown
branch by branch (`TurnedSkip` to `TurnedFirst`, `HereGoesOn`). That what holds of the trace's start and of the next place holds of all is `Numbers`.

`LibraryProofs` proves of `Calling`, the specification that the run checks, for memories of any size, any imports, names of functions and arguments,
clocks of any resolution, ints of any width, files of any length with any of the C library's calls failing, and inputs of any length
with any threads, from `HalfAssumption`, `CellsAssumption`, `ClockAssumption`, `FileAssumption` and `InputAssumption`:

| theorem | says |
|---|---|
| `Invariant` | `Calling => []PartsInv` |
| `ResultsHoldHolds` | `Calling => []ResultsHold` |
| `SignaturesAgreeHolds` | `Calling => []SignaturesAgree` |
| `TimesHoldHolds` | `Calling => []TimesHold` |
| `FilesSoundHolds` | `Calling => []FilesSound` |
| `NothingLostHolds` | `Calling => NothingLost` |
| `InputSoundHolds` | `Calling => []InputSound` |

*Why an inductive invariant is needed.* Each property speaks of the end of something. `LoopsInv` has what the loops of `array.c` keep on the way:
after `i` iterations `acc` is the extreme of the first `i` ints (`LeastSoFar`, `GreatestSoFar`), the first `i` cells are filled
and no other is changed (`FilledSoFar`, `Copied`, `OthersUntouched`), and where the loop stands (`LoopBounds`); at the return, `i`
is the size. `SumSoFar` says that `acc` is the sum of the first `i` ints as long as none of the sums on the way
was outside of the ints. `SignaturesInv` says which names may be bound to the
library at all: those that a module offers, with the registry's type, and all of a module once it is imported. `ClockInv` says what a time that was noted is
a reading of: the clock of the system as it would be had nobody set it (`NotedHolds`). `FilesInv` says where the writer's bytes
are (in the file, then in stdio's hands, together what was counted), that the reader has not passed the end of a file that nobody empties, and that such a file
is at least as long as `xy_file_read_all` measured it.

*How the proof goes.* The parts share no state, so a step of the library is one of a part or leaves it alone. The tables of
signatures are finite: `Lookup` turns what stands at a name into a row, and `SameSignature`, `ModulesKnown`, `TypesFit` and
`DeclaredTyped` compare the rows. `Rounded` and `DifferenceHolds` are the arithmetic of units. Sequences come with
`SequenceTheorems`: a file that grows keeps what was read of it (`Grown`), pieces that adjoin are one (`ReadInvariant`), and what
`FillIs` leaves in the block is the file and the terminator (`Whole`).

*Recursive functions.* Of the sum that `SumHolds`, a part of `ResultsHold`, compares with, and of `FlattenSeq` in `InOrder`, nothing is known
before a function of that recursion is shown to exist: if for some size there were none there would be a least size, since a set
of numbers has a least element (`LeastNumber`, from the library's theorem that `<` is well-founded), and one more
element makes a function of the one before (`Counting`, `SumsExist`, `JoinsExist`). That is an induction without an induction
theorem. From it come the laws that the input needs: one more sequence adds itself (`FlattenAppend`), empty ones add nothing (`FlattenSkips`),
and characters one by one add the word that they are (`FlattenTakes`). `InOrder` is inductive by these (`InOrderKept`): a call skips blanks
and then returns a run of characters or swallows a sign. That the runs which `scanf` looks for exist is `RunIs`, by the least number again.

Checked by TLC only, because it is out of the prover's reach:

- liveness (`CallsReturn`, `ScansAll`, `Terminates`, `EveryRunEnds`, `Progress`), which needs fairness and ENABLED;
- `TreesByPrecedence` of `Expressions`, although nothing in it is recursive: a proof needs an invariant that relates every
  waiting method to the operators before it and after it in the text, with brackets counted on both sides, and that
  has not been worked out.

## Not modelled, and why

- *Floating-point values*: `Types` has their types and stores; what they hold is IEEE arithmetic,
  which TLC has no numbers for. *Globals' values*: constant folding is LLVM's.
- *Warnings, printing, the AST dumper*: no state that anything depends on. The locations of
  tokens are in `Lexer`; their way into messages is formatting.
- *LLVM*: its passes, its object code and what its verifier asks of anything but blocks, terminators
  and operand types. A pass that breaks a module is a failure in `Driver`.
- *Target machine, JIT, FFI, the AST's type and module classes*: wrappers of LLVM or data that the driver does
  not use. *Runtime.cpp*: empty hooks. *Build scripts*: no behaviour of the program.
- *Strings, memory, math, debug, runtime* of the library: calls of C without state; their signatures and names are in
  `Library`. *Output*, and the input of floats: `printf` and `scanf`.
- *Functions and imports inside of blocks* are left out of `Scopes`, as the grammar of
  the language does not have them; functions in functions are in `ControlFlow`.
- *Windows*: the branches for it in `time.c` and in the search for the library.

## Observations

Met while modelling, each visible at its line. Where a property says how far something
holds, its limit is one of these.

In the compiler:

- A statement at top level, which the grammar has (`LANGUAGE_SPEC.md:253-254`), generates
  instructions that belong to no block and vanish (`CodeGenerator.cpp:517`); after a function it is
  generated into that function, behind its return, and the module is rejected (`CodeGenerator.cpp:522`).
- A statement after a `return` in its block is appended behind the terminator, and the
  verifier rejects the function (`CodeGenerator.cpp:567`).
- A constant can be assigned to (`CodeGenerator.cpp:404`; `LANGUAGE_SPEC.md:105`: "Immutable"). An
  assignment to a variable of the program is "Unknown variable", since only locals are looked for
  (`CodeGenerator.cpp:412`; `LANGUAGE_SPEC.md:104`).
- An `if` whose condition has no value is left out with both of its branches, without a
  message (`CodeGenerator.cpp:580`).
- Division, remainder, comparison and right shift are the signed instructions for unsigned types too
  (`CodeGenerator.cpp:318`; `LANGUAGE_SPEC.md:47`).
- `say` prints an i64 with `%d` (`CodeGenerator.cpp:677`; `examples/time.xyp:37`), and passes a bool as one bit, not extended to
  the int that `%d` reads: of what is printed only the lowest bit is determined. An integer literal beyond 32 bits is
  cut to an i32 (`CodeGenerator.cpp:239`), although the parser reads it with `stoll`.
- The sum of an i8 and a u8, or of an i16 and a u16, is an i32 to the analyzer (`TypeChecker.cpp:49,54`), while the
  generator adds bytes: `let z: i32 = a + b` is accepted and stores one byte into four.
- `&&` and `||` evaluate both operands.
- Compound assignments and character literals are
  scanned and never parsed (`Parser.cpp:389,630`; `LANGUAGE_SPEC.md:39,200,220`). The lexer's own
  `errors_` are read by nobody; the parser reports the unknown token.
- `--emit-llvm` says "Generated" and exits with 0 when the file cannot be opened (`main.cpp:396`). The optimized
  IR is written before the directory of the output is made: the first run into a new directory announces a file that
  is not there (`main.cpp:384`).
- The object file of `-o foo` is `foo.o`, which another run may have for its output (`main.cpp:406`).
- A function of the program that has the name of a C function replaces it for the library: one
  named `pow` is what `xy_pow` calls (`CodeGenerator.cpp:741`, `std/src/math.c:11`).
- The registry types `xy_hashmap_create`, `xy_hashmap_get` and `xy_alloc` as void, so a
  program cannot keep their results (`ModuleRegistry.cpp:49,52,66`; `examples/hashmap.xyp:60`). Functions that
  `STDLIB.md` lists - arrays, files, `xy_realloc`, `xy_strcpy`, `xy_hashmap_keys` - are in no module
  that can be imported.

In the library:

- `xy_grab_str` returns one static buffer: a word is overwritten by the next one, of any thread
  (`io.c:71`; `std/README.md:139`).
- `xy_file_read_all` on what cannot be measured (a pipe) allocates by a negative size
  (`file.c:36`); the result of `fclose` is dropped, and with it a failed flush (`file.c:12`).
- `xy_array_sum_i32` adds ints to an int, which is undefined when a sum on the way leaves the ints (`array.c:20`), as is
  `milliseconds * 1000` (`time.c:71`).
- A clock that is set back makes elapsed milliseconds negative (`time.c:48`).
- `xy_strcmp` and others pass NULL on to C.

## Plan

Done, in this order: `ControlFlow` with its proofs, because every function passes through it
and its errors are silent; `MapSpec` and `Hashmap`; `Scopes`; `Types`; `Parser`; `Driver` with
`Optimizer`; `Lexer`; `Expressions`; `Values`; `Library`; the library's files, input, clocks and
arrays, with the proofs of the last; the proofs of `Driver`, of `Hashmap` with its refinement, of `Scopes`, of `Types`, of
the library's signatures, clocks and files, of `Parser`, of `AcceptedIsWhole` and `LiveMatchesCFG`, of the
library's input, of `Lexer`, and of `Values`.

Every safety property that a passing run checks is proved, except `TreesByPrecedence`, which is what is left to prove.

## Running

    tlc -config ControlFlow_plain.cfg MCControlFlow.tla
    tlapm ControlFlowProofs.tla

Every run in `PROJECT.json` names its module and configuration. The longest takes
about two and a half minutes with two workers; the proofs take under half an hour from nothing.
