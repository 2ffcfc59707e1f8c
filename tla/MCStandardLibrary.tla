-------------------------- MODULE MCStandardLibrary --------------------------
(* The library: its arrays, what the compiler knows of its functions, its     *)
(* clocks, files and input.  The parts share no state - each has variables of *)
(* its own in std/src - so a behaviour is one of a single part, and the others *)
(* stay as they were at the start.                                            *)
EXTENDS Arrays, Sequences

\* What array.c is not about, as in the modules.
CONSTANTS Imports, UserNames, ArgTypes, MaxArgs,
          PerMs, IntHalf, MaxTime, MaxWall,
          Bytes, MaxSize, Kinds, Failures,
          Threads, Chars, MaxInput, BufferSize

ASSUME ClockAssumption ==
    PerMs \in Nat \ {0} /\ IntHalf \in Nat \ {0} /\ MaxTime \in Nat /\ MaxWall \in Nat
ASSUME FileAssumption == MaxSize \in Nat
ASSUME InputAssumption == MaxInput \in Nat /\ BufferSize \in Nat \ {0, 1}

VARIABLES
    part,
    symbols, imported, functions, errors, called,
    mono, wall, noted, elapsed, sleep, asleep,
    kind, disk, stage, size, block, overrun, handles, result, shortened, failed,
    reader, got, writer, put, lost,
    stdin, pos, buffer, held, holding, newest, returned, swallowed

L == INSTANCE Library WITH call <- called
C == INSTANCE Clock
F == INSTANCE FileIO WITH at <- stage
I == INSTANCE Input

signatures == <<symbols, imported, functions, errors, called>>
clock == <<mono, wall, noted, elapsed, sleep, asleep>>
file == <<kind, disk, stage, size, block, overrun, handles, result, shortened, failed,
          reader, got, writer, put, lost>>
input == <<stdin, pos, buffer, held, holding, newest, returned, swallowed>>
all == <<part, vars, signatures, clock, file, input>>

\* The parts begin anywhere when it is their turn, and in one state else.
Start ==
    /\ part \in {"array.c", "signatures", "time.c", "file.c", "io.c"}
    /\ Init /\ (part # "array.c" => mem = [a \in Memory |-> 0])
    /\ L!Init
    /\ C!Init /\ (part # "time.c" => wall = 0)
    /\ F!Init /\ (part # "file.c" => kind = "regular" /\ disk = <<>>)
    /\ I!Init /\ (part # "io.c" => stdin = <<>>)

ArrayStep == part = "array.c" /\ Next /\ UNCHANGED <<part, signatures, clock, file, input>>
SignatureStep == part = "signatures" /\ L!Next /\ UNCHANGED <<part, vars, clock, file, input>>
ClockStep == part = "time.c" /\ C!Next /\ UNCHANGED <<part, vars, signatures, file, input>>
FileStep == part = "file.c" /\ F!Next /\ UNCHANGED <<part, vars, signatures, clock, input>>
InputStep == part = "io.c" /\ I!Next /\ UNCHANGED <<part, vars, signatures, clock, file>>

\* A program may end after any import and any call.
ProgramEnds == part = "signatures" /\ UNCHANGED all

Calling ==
    /\ Start
    /\ [][ArrayStep \/ SignatureStep \/ ClockStep \/ FileStep \/ InputStep \/ ProgramEnds]_all
    /\ WF_vars(part = "array.c" /\ (Fill \/ Sum \/ Least \/ Greatest \/ Copy \/ Return)
               /\ UNCHANGED <<part, signatures, clock, file, input>>)
    /\ WF_input(part = "io.c" /\ (\E t \in Threads : I!xy_grab_str(t))
                /\ UNCHANGED <<part, vars, signatures, clock, file>>)

-----------------------------------------------------------------------------
(* The properties of the parts, where they are explained.  Those of arrays are *)
(* Arrays' own.                                                               *)

(* The signatures that the compiler has are those of the library.             *)
SignaturesAgree == part = "signatures" => L!SignaturesAgree

(* Differences of times and lengths of sleeps.                                *)
TimesHold == part = "time.c" => C!TimesHold

(* The files: what holds at every step, and of a step.                        *)
FilesSound == part = "file.c" => F!FilesSound
NothingLost == F!NothingLost

(* The input: what was read, and what a buffer holds.                         *)
InputSound == part = "io.c" => I!InputSound

(* A call of an array function returns, and reading words comes to the end of *)
(* the input.                                                                 *)
Progress == CallsReturn /\ I!ReadsToTheEnd
=============================================================================
