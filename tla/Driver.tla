------------------------------- MODULE Driver -------------------------------
(***************************************************************************)
(* xypc from its arguments to the executable: main.cpp, with the pipelines *)
(* of Optimizer.cpp and the writers of LLVMBackend.cpp.  Several runs of   *)
(* the compiler share one file system, as in a build that starts them side *)
(* by side; a step of a run is what it does between two system calls that  *)
(* another run can come between.                                           *)
(*                                                                         *)
(* A program is known by the name of its source file and by the phase that *)
(* it fails in.  A behaviour belongs to one of the Scenarios: which runs   *)
(* there are, what their command lines may be, which programs may lie      *)
(* there with which faults, and how the system around the compiler may     *)
(* fail.                                                                   *)
(***************************************************************************)
EXTENDS Integers, Sequences, SequencesExt, Optimizer

CONSTANTS
    Processes,      \* runs of the compiler
    Options,        \* the options that a command line is made of
    FileNames,      \* the names of files that it is made of
    InDirectory,    \* those of them that lie in the one subdirectory
    Sources,        \* those of them that may hold a program at first
    PathOf,         \* the path that a name and a suffix put together are
    Scenarios       \* what is explored together

\* The phase that a program fails in: std::stoll throws on a literal beyond 64
\* bits, a program without main or one that imports the library where it is not
\* found fails in the linker; "empty" is no text at all.
AllFaults == {"none", "empty", "syntax", "literal", "semantic", "generator",
              "noMain", "library"}

\* How the system fails: "library" when findStdLibPath finds none, "pass" when a
\* pass of the optimizer breaks the module, "kill" for an interrupt; the others
\* are the calls that report an error.
AllFailures == {"stat", "mkdir", "open", "write", "target", "passes", "link", "library",
                "pass", "kill"}

\* The level that an option selects.
LevelOf == [a \in {"-O0", "-O1", "-O2", "-O3", "-O9", "-Os", "-Oz", "--size"} |->
    CASE a = "-O0" -> 0 [] a = "-O1" -> 1 [] a = "-O2" -> 2 [] a = "-O3" -> 3
      [] a = "-O9" -> 9 [] a = "-Os" -> 4 [] OTHER -> 5]

Flags == {"--help", "--version", "--emit-llvm", "--emit-opt-ir", "--emit-asm",
          "--check-syntax", "--ast-dump", "--verify-ir", "--legacy-opt"}

\* An option that parseArguments passes over: -O10.
AllOptions == Flags \cup DOMAIN LevelOf \cup {"-o", "-O10"}

ASSUME NamesAssumption ==
    /\ InDirectory \subseteq FileNames /\ Sources \subseteq FileNames
    /\ FileNames \cap AllOptions = {} /\ "" \notin FileNames
    /\ "output" \notin InDirectory
ASSUME OptionsAssumption == Options \subseteq AllOptions

\* A command line is made of any of the arguments.
Lines == Seq(FileNames \cup Options)

ASSUME ScenariosAssumption ==
    \A s \in Scenarios :
        /\ s.runs \subseteq Processes /\ s.sources \subseteq Sources /\ s.lines \subseteq Lines
        /\ s.faults \subseteq AllFaults /\ s.failures \subseteq AllFailures

\* A path is a name with the suffix that the driver appends to it, and may be a name
\* again: the object of "foo" is "foo.o".  -o takes any argument for a name.
Names == FileNames \cup Options \cup {"output"}
Endings == {"", ".o", ".ll", ".opt.ll"}
Paths == {PathOf[path] : path \in Names \X Endings}

ASSUME PathsAssumption ==
    /\ \A name \in Names : PathOf[name, ""] = name
    /\ \A name \in Names : \A s, t \in Endings : PathOf[name, s] = PathOf[name, t] => s = t
    /\ \A m, n \in Names : \A s \in Endings : PathOf[m, s] = PathOf[n, s] => m = n
    /\ \A m, n \in Names : \A s \in Endings :
           PathOf[m, s] = n => (m \in InDirectory <=> n \in InDirectory)

Content == [kind : {"absent", "source", "torn", "object", "exe", "ir"}, of : Names \cup {""}]
Absent == [kind |-> "absent", of |-> ""]

CompilerOptions == [input : FileNames \cup {""}, output : Names, level : Levels,
                    flags : SUBSET Flags]
Defaults == [input |-> "", output |-> "output", level |-> 0, flags |-> {}]

VARIABLES
    files,  \* the file system: what lies at a path
    made,   \* the subdirectory exists
    fault,  \* the fault of each program
    failures, \* how the system may fail
    run     \* the state of each run

vars == <<files, made, fault, failures, run>>

Run == [at        : {"waiting", "options", "readFile", "parse", "analyze", "generate",
                     "optimize", "verifyIR", "optimizedIR", "directory", "emit",
                     "object", "writing", "link", "linking", "report", "exited"},
        args      : Lines,
        arg       : Nat,                \* how many of them have been understood
        options   : CompilerOptions,
        program   : Names \cup {""},    \* what was read
        fault     : AllFaults,          \* and its fault
        stage     : Nat,                \* stages of the optimizer done
        module    : {"sound", "broken"},
        warned    : BOOLEAN,            \* the failed verification is on stderr
        object    : Content,            \* what the linker read
        wrote     : SUBSET (Paths \cup {"/"}),     \* "/" is the directory
        met       : SUBSET Processes,   \* the runs that were there at the same time
        told      : SUBSET {"Optimized IR", "Generated", "Output"},
        delivered : Content,            \* what lay at the output at the end
        exit      : {"none", "success", "failure", "abort", "killed"}]

-----------------------------------------------------------------------------
(* parseArguments, an argument at a time: -o takes the one that follows,      *)
(* whatever it is, and is passed over at the end; of several levels and       *)
(* several inputs the last one counts.                                        *)

Chosen(options, arg) ==
    [options EXCEPT !.flags = @ \cup ({arg} \cap Flags),
                    !.level = IF arg \in DOMAIN LevelOf THEN LevelOf[arg] ELSE @,
                    !.input = IF arg \in FileNames THEN arg ELSE @]

SparesOptions(r, arg) ==
    IF arg = "-o"
    THEN IF r.arg + 1 < Len(r.args) /\ r.args[r.arg + 2] \notin AllOptions
         THEN [r EXCEPT !.options.output = r.args[r.arg + 2], !.arg = @ + 2]
         ELSE [r EXCEPT !.arg = @ + 1]
    ELSE [r EXCEPT !.options = Chosen(@, arg), !.arg = @ + 1]

Understood(r, arg) ==
    IF arg = "-o"
    THEN IF r.arg + 1 < Len(r.args)
         THEN [r EXCEPT !.options.output = r.args[r.arg + 2], !.arg = @ + 2]
         ELSE [r EXCEPT !.arg = @ + 1]
    ELSE [r EXCEPT !.options = Chosen(@, arg), !.arg = @ + 1]

Has(p, flag) == flag \in run[p].options.flags
Source(p) == run[p].options.input
Output(p, suffix) == PathOf[run[p].options.output, suffix]

\* The files of a run can be opened for writing.
Reachable(p) == run[p].options.output \in InDirectory => made

Fails(failure) == failure \in failures
Alive(p) == run[p].at \notin {"waiting", "exited"}

-----------------------------------------------------------------------------
Waiting(args) ==
    [at |-> "waiting", args |-> args, arg |-> 0, options |-> Defaults, program |-> "", fault |-> "none",
     stage |-> 0, module |-> "sound", warned |-> FALSE, object |-> Absent, wrote |-> {},
     met |-> {}, told |-> {}, delivered |-> Absent, exit |-> "none"]

\* A run that the scenario does not have is over before it begins.
Init ==
    \E s \in Scenarios :
        /\ \E present \in SUBSET s.sources :
              /\ files = [path \in Paths |->
                             IF path \in present
                             THEN [kind |-> "source", of |-> path] ELSE Absent]
              /\ \E faulty \in [present -> s.faults] :
                    fault = [x \in Sources |-> IF x \in present THEN faulty[x] ELSE "none"]
        /\ made = FALSE
        /\ failures = s.failures
        /\ \E line \in [s.runs -> s.lines] :
              run = [p \in Processes |-> IF p \in s.runs THEN Waiting(line[p])
                                         ELSE [Waiting(<<>>) EXCEPT !.at = "exited"]]

\* A step that leaves the files alone, and one that goes on or ends the run.
Quiet == UNCHANGED <<files, made, fault, failures>>
Goto(p, at) == run' = [run EXCEPT ![p].at = at]
Exit(p, how) == run' = [run EXCEPT ![p].at = "exited", ![p].exit = how]

Begin(p) ==
    /\ run[p].at = "waiting"
    /\ run' = [q \in Processes |->
                  IF q = p THEN [run[p] EXCEPT !.at = "options",
                                               !.met = {r \in Processes : Alive(r)}]
                  ELSE IF Alive(q) THEN [run[q] EXCEPT !.met = @ \cup {p}]
                  ELSE run[q]]
    /\ Quiet

parseArguments(p) ==
    /\ run[p].at = "options" /\ run[p].arg < Len(run[p].args)
    /\ run' = [run EXCEPT ![p] = Understood(@, run[p].args[run[p].arg + 1])]
    /\ Quiet

CheckOptions(p) ==
    /\ run[p].at = "options" /\ run[p].arg = Len(run[p].args)
    /\ IF Has(p, "--help") \/ Has(p, "--version") THEN Exit(p, "success")
       ELSE IF run[p].options.input = "" THEN Exit(p, "failure")
       ELSE Goto(p, "readFile")
    /\ Quiet

\* What is not a program - an object, an executable - does not parse.
FaultOf(content) == IF content.kind = "source" THEN fault[content.of] ELSE "syntax"

readFile(p) ==
    LET content == files[Source(p)] IN
    /\ run[p].at = "readFile"
    /\ IF content.kind = "absent" \/ FaultOf(content) = "empty" THEN Exit(p, "failure")
       ELSE run' = [run EXCEPT ![p].at = "parse", ![p].program = content.of,
                               ![p].fault = FaultOf(content)]
    /\ Quiet

\* parseProgram, and the modes that stop after it.
Parse(p) ==
    /\ run[p].at = "parse"
    /\ IF run[p].fault = "literal" THEN Exit(p, "abort")
       ELSE IF run[p].fault = "syntax" THEN Exit(p, "failure")
       ELSE IF Has(p, "--check-syntax") \/ Has(p, "--ast-dump") THEN Exit(p, "success")
       ELSE Goto(p, "analyze")
    /\ Quiet

AnalyzeUnread(p) == run[p].at = "analyze" /\ Goto(p, "generate") /\ Quiet

Analyze(p) ==
    /\ run[p].at = "analyze"
    /\ IF run[p].fault = "semantic" THEN Exit(p, "failure") ELSE Goto(p, "generate")
    /\ Quiet

\* generate verifies the module: the one that reaches the optimizer is sound.
Generate(p) ==
    /\ run[p].at = "generate"
    /\ IF run[p].fault = "generator" THEN Exit(p, "failure") ELSE Goto(p, "optimize")
    /\ Quiet

-----------------------------------------------------------------------------
(* The optimizer.  A pass may break the module; one of the pipelines looks at *)
(* it first and last, and goes on with a warning.                             *)

Pipeline(p) == IF Has(p, "--legacy-opt") THEN optimize(run[p].options.level)
               ELSE optimizeWithPipeline(run[p].options.level)

OptimizeStage(p) ==
    LET s == run[p].stage + 1 IN
    /\ run[p].at = "optimize" /\ s <= Len(Pipeline(p))
    /\ \/ /\ Pipeline(p)[s] = "verify"
          /\ run' = [run EXCEPT ![p].stage = s,
                                ![p].warned = @ \/ run[p].module = "broken"]
       \/ /\ Pipeline(p)[s] # "verify"
          /\ \E m \in {run[p].module} \cup (IF Fails("pass") THEN {"broken"} ELSE {}) :
                run' = [run EXCEPT ![p].stage = s, ![p].module = m]
    /\ Quiet

Optimized(p) ==
    /\ run[p].at = "optimize" /\ run[p].stage = Len(Pipeline(p))
    /\ Goto(p, IF run[p].options.level > 0 /\ Has(p, "--verify-ir") THEN "verifyIR"
               ELSE "optimizedIR")
    /\ Quiet

\* verifyModule(fatal) exits.
VerifyIR(p) ==
    /\ run[p].at = "verifyIR"
    /\ IF run[p].module = "broken" THEN Exit(p, "failure") ELSE Goto(p, "optimizedIR")
    /\ Quiet

-----------------------------------------------------------------------------
(* What the run writes *)

\* The file at the path becomes a file of the given kind.
Write(p, path, kind) == files' = [files EXCEPT ![path] = [kind |-> kind, of |-> run[p].program]]

Wrote(p, path) == run[p].wrote \cup {path}

\* emitLLVMIR returns false for a file that it cannot open, and nobody looks; an
\* error while writing ends the process in the destructor of the stream.
emitLLVMIR(p, path, message, at, exit) ==
    LET done == [run[p] EXCEPT !.at = at, !.exit = exit, !.told = @ \cup {message}] IN
    /\ \/ /\ ~Reachable(p) \/ Fails("open")
          /\ run' = [run EXCEPT ![p] = done]
          /\ UNCHANGED files
       \/ /\ Reachable(p)
          /\ Write(p, path, "ir")
          /\ run' = [run EXCEPT ![p] = [done EXCEPT !.wrote = Wrote(p, path)]]
       \/ /\ Reachable(p) /\ Fails("write")
          /\ Write(p, path, "torn")
          /\ run' = [run EXCEPT ![p].at = "exited", ![p].exit = "failure",
                                ![p].wrote = Wrote(p, path)]
    /\ UNCHANGED <<made, fault, failures>>

\* --emit-opt-ir, before the directory is made.
EmitOptimizedIR(p) ==
    /\ run[p].at = "optimizedIR"
    /\ IF Has(p, "--emit-opt-ir")
       THEN emitLLVMIR(p, Output(p, ".opt.ll"), "Optimized IR", "directory", "none")
       ELSE Goto(p, "directory") /\ Quiet

DirectoryAssumed(p) == run[p].at = "directory" /\ Goto(p, "emit") /\ Quiet

\* fs::exists is called outside of the try block: what it throws ends the run.
createDirectoryIfNeeded(p) ==
    /\ run[p].at = "directory"
    /\ \/ /\ Reachable(p)
          /\ Goto(p, "emit") /\ UNCHANGED made
       \/ /\ ~Reachable(p)
          /\ made' = TRUE
          /\ run' = [run EXCEPT ![p].at = "emit",
                                ![p].wrote = Wrote(p, "/")]
       \/ /\ ~Reachable(p) /\ Fails("mkdir")
          /\ Exit(p, "failure") /\ UNCHANGED made
       \/ /\ run[p].options.output \in InDirectory /\ Fails("stat")
          /\ Exit(p, "abort") /\ UNCHANGED made
    /\ UNCHANGED <<files, fault, failures>>

Emit(p) ==
    /\ run[p].at = "emit"
    /\ IF Has(p, "--emit-llvm")
       THEN emitLLVMIR(p, Output(p, ".ll"), "Generated", "exited", "success")
       ELSE /\ IF Has(p, "--emit-asm") THEN Exit(p, "success") ELSE Goto(p, "object")
            /\ Quiet

\* emitObject, up to the opened and emptied file.
OpenObject(p) ==
    /\ run[p].at = "object"
    /\ \/ /\ Reachable(p)
          /\ Write(p, Output(p, ".o"), "torn")
          /\ \/ run' = [run EXCEPT ![p].at = "writing", ![p].wrote = Wrote(p, Output(p, ".o"))]
             \/ /\ Fails("passes")
                /\ run' = [run EXCEPT ![p].at = "exited", ![p].exit = "failure",
                                      ![p].wrote = Wrote(p, Output(p, ".o"))]
       \/ /\ Fails("target") \/ Fails("open")
          /\ Exit(p, "failure") /\ UNCHANGED files
    /\ UNCHANGED <<made, fault, failures>>

\* The passes write the object; when they cannot, the process ends.
WriteObject(p) ==
    /\ run[p].at = "writing"
    /\ \/ Write(p, Output(p, ".o"), "object") /\ Goto(p, "link")
       \/ Fails("write") /\ Exit(p, "failure") /\ UNCHANGED files
    /\ UNCHANGED <<made, fault, failures>>

\* linkExecutable: clang reads the object that lies there, and writes the output.
ReadObject(p) ==
    /\ run[p].at = "link"
    /\ run' = [run EXCEPT ![p].at = "linking", ![p].object = files[Output(p, ".o")]]
    /\ Quiet

\* The linker accepts an object with main, and one that needs the library when
\* there is one.
Links(object) ==
    /\ object.kind = "object"
    /\ fault[object.of] # "noMain" /\ (fault[object.of] = "library" => ~Fails("library"))

StatusIgnored(p) ==
    /\ run[p].at = "linking"
    /\ Goto(p, "report")
    /\ \/ /\ Links(run[p].object)
          /\ files' = [files EXCEPT ![Output(p, "")] = [kind |-> "exe", of |-> run[p].object.of]]
       \/ (~Links(run[p].object) \/ Fails("link")) /\ UNCHANGED files
    /\ UNCHANGED <<made, fault, failures>>

Retried(p) ==
    /\ run[p].at = "linking"
    /\ \/ /\ Links(run[p].object)
          /\ files' = [files EXCEPT ![Output(p, "")] =
                          [kind |-> "exe", of |-> run[p].object.of]]
          /\ Goto(p, "report")
       \/ /\ ~Links(run[p].object) \/ Fails("link")
          /\ Goto(p, "link")
          /\ UNCHANGED files
    /\ UNCHANGED <<made, fault, failures>>

\* A linker that fails leaves the output as it was, or removes it.
linkExecutable(p) ==
    /\ run[p].at = "linking"
    /\ \/ /\ Links(run[p].object)
          /\ files' = [files EXCEPT ![Output(p, "")] =
                          [kind |-> "exe", of |-> run[p].object.of]]
          /\ run' = [run EXCEPT ![p].at = "report", ![p].wrote = Wrote(p, Output(p, ""))]
       \/ /\ ~Links(run[p].object) \/ Fails("link")
          /\ Exit(p, "failure")
          /\ files' \in {files, [files EXCEPT ![Output(p, "")] = Absent]}
    /\ UNCHANGED <<made, fault, failures>>

Report(p) ==
    /\ run[p].at = "report"
    /\ run' = [run EXCEPT ![p].at = "exited", ![p].exit = "success",
                          ![p].told = @ \cup {"Output"},
                          ![p].delivered = files[Output(p, "")]]
    /\ Quiet

\* An interrupt or a shortage of memory, at any step.
Kill(p) ==
    /\ Fails("kill") /\ Alive(p)
    /\ Exit(p, "killed")
    /\ Quiet

Step(p) ==
    \/ Begin(p) \/ parseArguments(p) \/ CheckOptions(p) \/ readFile(p) \/ Parse(p)
    \/ Analyze(p) \/ Generate(p)
    \/ OptimizeStage(p) \/ Optimized(p) \/ VerifyIR(p) \/ EmitOptimizedIR(p)
    \/ createDirectoryIfNeeded(p) \/ Emit(p) \/ OpenObject(p) \/ WriteObject(p)
    \/ ReadObject(p) \/ linkExecutable(p) \/ Report(p)

Finished == (\A p \in Processes : run[p].at = "exited") /\ UNCHANGED vars

Next == (\E p \in Processes : Step(p) \/ Kill(p)) \/ Finished

\* A run of the compiler goes on while it can; when it starts is up to its user.
Spec == Init /\ [][Next]_vars /\ \A p \in Processes : WF_vars(Alive(p) /\ Step(p))

-----------------------------------------------------------------------------
TypeOK ==
    /\ files \in [Paths -> Content]
    /\ made \in BOOLEAN
    /\ fault \in [Sources -> AllFaults]
    /\ failures \subseteq AllFailures
    /\ run \in [Processes -> Run]

Succeeded(p) == run[p].exit = "success"

\* The options that ask for something other than an executable.
Modes == {"--help", "--version", "--emit-llvm", "--emit-asm", "--check-syntax", "--ast-dump"}

\* A run needs its output and its object file; another one may write one of them,
\* as its output or with a suffix that it appends.
Needs(p) == {Output(p, ""), Output(p, ".o")}
Disturbs(q, p) == \E suffix \in Endings : Output(q, suffix) \in Needs(p)

(* A run that is asked for an executable and exits with 0 has left at its     *)
(* output the executable of the program that it read - whatever an earlier or *)
(* a killed run left there, and whatever runs beside it, unless one of those  *)
(* has its output or its object file for one of its own, as a run with "-o    *)
(* foo.o" has the object of one with "-o foo" (main.cpp:406-412).             *)
DeliveredIsOwn ==
    \A p \in Processes :
        (/\ Succeeded(p) /\ run[p].options.flags \cap Modes = {}
         /\ \A q \in run[p].met : ~Disturbs(q, p))
        => run[p].delivered = [kind |-> "exe", of |-> run[p].program]

(* A program that the front end rejects, and a run that only looks at a       *)
(* program, leave no file and no directory behind (main.cpp:323-347).         *)
RejectedLeavesNothing ==
    /\ TypeOK
    /\ \A p \in Processes :
          \/ run[p].fault \in {"syntax", "literal", "semantic", "generator"}
          \/ run[p].options.flags \cap {"--check-syntax", "--ast-dump"} # {}
          => run[p].wrote = {}

(* Of a module that a pass broke, the pipeline of the project itself says so  *)
(* before the executable is announced (Optimizer.cpp:203-205).                *)
BrokenIsReported ==
    \A p \in Processes :
        /\ "Output" \in run[p].told
        /\ run[p].module = "broken" /\ ~Has(p, "--legacy-opt")
        => run[p].warned

(* With --verify-ir nothing is announced that was written from a broken       *)
(* module, whichever pipeline and level (main.cpp:368-373).                   *)
VerifiedWhenAsked ==
    \A p \in Processes :
        Has(p, "--verify-ir") /\ run[p].told # {} => run[p].module = "sound"

(* IR that a run announces lies in a file that it wrote, where files can be    *)
(* opened: before the output is written its directory is made, whatever the    *)
(* options (main.cpp:387-399).  Only the optimized IR comes too early for a    *)
(* directory that is not there (main.cpp:381-385).                             *)
AnnouncedIsWritten ==
    \A p \in Processes :
        ~Fails("open") =>
        /\ "Generated" \in run[p].told => Output(p, ".ll") \in run[p].wrote
        /\ "Optimized IR" \in run[p].told /\ run[p].options.output \notin InDirectory
           => Output(p, ".opt.ll") \in run[p].wrote

(* A module that a pass broke is noticed: by a warning, or by the exit.         *)
BrokenIsNoticed == BrokenIsReported /\ VerifiedWhenAsked

(* What parseArguments makes of a command line, said without going through it *)
(* from the left: an argument is a file name after an odd number of -o in a   *)
(* row, and of the others the last level and the last name that is no option  *)
(* count (main.cpp:81-129, usage in main.cpp:53).                             *)
ArgumentsUnderstood ==
    \A p \in Processes :
        LET args == run[p].args
            Operand(i) == \E j \in 1..(i - 1) :
                              /\ \A k \in j..(i - 1) : args[k] = "-o"
                              /\ j = 1 \/ args[j - 1] # "-o"
                              /\ (i - j) % 2 = 1
            Read == {i \in DOMAIN args : ~Operand(i)}
            Latest(S, of, default) == IF S = {} THEN default ELSE of[CHOOSE i \in S : \A j \in S : j <= i]
            Inputs == {i \in Read : args[i] \in FileNames}
            LevelsOf == {i \in Read : args[i] \in DOMAIN LevelOf}
        IN  run[p].arg = Len(args) =>
            run[p].options =
                [input  |-> Latest(Inputs, args, ""),
                 output |-> Latest(DOMAIN args \ Read, args, "output"),
                 level  |-> LevelOf[Latest(LevelsOf, args, "-O0")],
                 flags  |-> {args[i] : i \in Read} \cap Flags]

(* Every run that was started ends.                                           *)
EveryRunEnds == \A p \in Processes : run[p].at = "options" ~> run[p].at = "exited"

=============================================================================
