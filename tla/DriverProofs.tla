---------------------------- MODULE DriverProofs -----------------------------
(***************************************************************************)
(* For any number of runs of the compiler side by side, any command lines, *)
(* programs and failures.                                                  *)
(***************************************************************************)
EXTENDS Driver, TLAPS

-----------------------------------------------------------------------------
(* The state of one run, by phases *)

Early == {"waiting", "options", "readFile", "parse", "analyze", "generate"}
Optimizing == {"optimize", "verifyIR", "optimizedIR"}
Writing == {"directory", "emit", "object", "writing", "link", "linking", "report"}

Rejected(r) ==
    \/ r.fault \in {"syntax", "literal", "semantic", "generator"}
    \/ r.options.flags \cap {"--check-syntax", "--ast-dump"} # {}

FrontSound(r) ==
    /\ r.at # "exited" => r.exit = "none"
    /\ r.at = "readFile" => r.options.input # ""
    /\ r.at \in Early \cup Optimizing => r.wrote = {} /\ r.told = {}
    /\ r.at \in Early => r.stage = 0 /\ r.module = "sound"
    /\ r.at \in {"analyze", "generate"} \cup Optimizing \cup Writing =>
           /\ r.fault \notin {"syntax", "literal"}
           /\ r.options.flags \cap {"--check-syntax", "--ast-dump"} = {}
    /\ r.at \in {"generate"} \cup Optimizing \cup Writing => r.fault # "semantic"
    /\ r.at \in Optimizing \cup Writing => r.fault # "generator"
    /\ Rejected(r) => r.wrote = {}

Legacy(r) == "--legacy-opt" \in r.options.flags
Checked(r) == "--verify-ir" \in r.options.flags
Stages(r) == IF Legacy(r) THEN optimize(r.options.level) ELSE optimizeWithPipeline(r.options.level)

PassesSound(r) ==
    /\ r.at = "optimize" /\ r.options.level = 0 => r.module = "sound"
    /\ r.at = "optimize" /\ ~Legacy(r) /\ r.stage = Len(Stages(r)) /\ r.module = "broken" => r.warned
    /\ r.at \in {"verifyIR", "optimizedIR"} \cup Writing /\ ~Legacy(r) /\ r.module = "broken"
           => r.warned
    /\ r.at \in {"optimizedIR"} \cup Writing /\ Checked(r) => r.module = "sound"
    /\ Checked(r) /\ r.told # {} => r.module = "sound"
    /\ "Output" \in r.told /\ ~Legacy(r) /\ r.module = "broken" => r.warned

ToldSound(r) ==
    /\ r.at \in Writing \ {"directory"} /\ r.options.output \in InDirectory => made
    /\ "open" \notin failures =>
        /\ "Generated" \in r.told => PathOf[r.options.output, ".ll"] \in r.wrote
        /\ "Optimized IR" \in r.told /\ r.options.output \notin InDirectory
           => PathOf[r.options.output, ".opt.ll"] \in r.wrote

RunSound(r) == FrontSound(r) /\ PassesSound(r) /\ ToldSound(r)

SourcesKnown == \A path \in Paths : files[path].kind = "source" => files[path].of \in Sources

-----------------------------------------------------------------------------
(* The runs and their files *)

\* No run that p met writes what p needs, of those that have read their options.
Own(p) == \A q \in run[p].met : run[q].at = "options" \/ ~Disturbs(q, p)

Delivers(p) ==
    Own(p) =>
        /\ run[p].at = "link" =>
               files[Output(p, ".o")] = [kind |-> "object", of |-> run[p].program]
        /\ run[p].at = "linking" => run[p].object = [kind |-> "object", of |-> run[p].program]
        /\ run[p].at = "report" =>
               files[Output(p, "")] = [kind |-> "exe", of |-> run[p].program]
        /\ (run[p].exit = "success" /\ run[p].options.flags \cap Modes = {}) =>
               run[p].delivered = [kind |-> "exe", of |-> run[p].program]

MetSound(p) ==
    /\ \A q \in Processes : Alive(p) /\ Alive(q) /\ p # q => q \in run[p].met
    /\ \A q \in run[p].met : run[q].at # "waiting"

IInv ==
    /\ TypeOK /\ SourcesKnown
    /\ \A p \in Processes : RunSound(run[p])
    /\ \A p \in Processes : Delivers(p) /\ MetSound(p)

-----------------------------------------------------------------------------
(* The types of what a step makes *)

LEMMA LevelOfType == \A a \in DOMAIN LevelOf : LevelOf[a] \in Levels
BY DEF LevelOf, Levels

LEMMA ChosenType ==
    ASSUME NEW o \in CompilerOptions, NEW arg \in FileNames \cup Options
    PROVE  Chosen(o, arg) \in CompilerOptions
BY LevelOfType DEF Chosen, CompilerOptions

LEMMA UnderstoodType ==
    ASSUME NEW r \in Run, r.arg < Len(r.args)
    PROVE  /\ Understood(r, r.args[r.arg + 1]) \in Run
           /\ \E o \in CompilerOptions, n \in Nat :
                 Understood(r, r.args[r.arg + 1]) = [r EXCEPT !.options = o, !.arg = n]
<1> DEFINE arg == r.args[r.arg + 1]
<1>0. r.args \in Seq(FileNames \cup Options) /\ r.arg \in Nat /\ r.options \in CompilerOptions
  BY DEF Run, Lines
<1>1. arg \in FileNames \cup Options
  BY <1>0
<1>2. ASSUME r.arg + 1 < Len(r.args) PROVE [r.options EXCEPT !.output = r.args[r.arg + 2]] \in CompilerOptions
  <2>1. r.args[r.arg + 2] \in Names
    BY <1>0, <1>2 DEF Names
  <2>2. QED
    BY <1>0, <2>1 DEF CompilerOptions
<1>3. Chosen(r.options, arg) \in CompilerOptions
  BY <1>0, <1>1, ChosenType
<1>4. r.arg + 1 \in Nat /\ r.arg + 2 \in Nat
  BY <1>0
<1> HIDE DEF arg
<1>5. ASSUME NEW o \in CompilerOptions, NEW n \in Nat
      PROVE  [r EXCEPT !.options = o, !.arg = n] \in Run
  BY <1>5 DEF Run
<1>6. [r EXCEPT !.arg = @ + 1] = [r EXCEPT !.options = r.options, !.arg = r.arg + 1]
  BY DEF Run
<1>7. [r EXCEPT !.options.output = r.args[r.arg + 2], !.arg = @ + 2]
      = [r EXCEPT !.options = [r.options EXCEPT !.output = r.args[r.arg + 2]], !.arg = r.arg + 2]
  BY DEF Run
<1>8. QED
  BY <1>0, <1>2, <1>3, <1>4, <1>5, <1>6, <1>7 DEF Understood, arg

LEMMA PipelineEnds ==
    ASSUME NEW r \in Run
    PROVE  /\ Len(Stages(r)) \in Nat
           /\ r.options.level = 0 => Stages(r) = <<>>
           /\ ~Legacy(r) /\ Len(Stages(r)) > 0 => Stages(r)[Len(Stages(r))] = "verify"
<1> DEFINE level == r.options.level
           S == {"verify", "early", "mid", "o2", "loops", "vectorize", "cleanup", "size", "late", "module"}
           front == <<"verify", "early">>
                    \o If(level >= 1, <<"mid">>)
                    \o If(level >= 2, <<"o2">>)
                    \o If(level >= 3, <<"loops", "vectorize", "cleanup">>)
                    \o If(level \in {4, 5}, <<"size">>)
                    \o <<"late">>
                    \o If(level >= 2, <<"module">>)
<1>1. level \in Levels
  BY DEF Run, CompilerOptions
<1>2. front \in Seq(S)
  <2>1. /\ <<"verify", "early">> \in Seq(S) /\ <<"mid">> \in Seq(S) /\ <<"o2">> \in Seq(S)
        /\ <<"loops", "vectorize", "cleanup">> \in Seq(S) /\ <<"size">> \in Seq(S)
        /\ <<"late">> \in Seq(S) /\ <<"module">> \in Seq(S) /\ <<>> \in Seq(S)
    OBVIOUS
  <2> HIDE DEF S
  <2>2. /\ If(level >= 1, <<"mid">>) \in Seq(S) /\ If(level >= 2, <<"o2">>) \in Seq(S)
        /\ If(level >= 3, <<"loops", "vectorize", "cleanup">>) \in Seq(S)
        /\ If(level \in {4, 5}, <<"size">>) \in Seq(S)
        /\ If(level >= 2, <<"module">>) \in Seq(S)
    BY <2>1 DEF If
  <2>3. \A s, t \in Seq(S) : s \o t \in Seq(S)
    OBVIOUS
  <2>4. QED
    BY <2>1, <2>2, <2>3
<1>3. optimizeWithPipeline(level) = IF level = 0 THEN <<>> ELSE front \o <<"verify">>
  BY DEF optimizeWithPipeline, If
<1>4. optimize(level) = IF level \in 1..5 THEN <<"default">> ELSE <<>>
  BY DEF optimize, If
<1> HIDE DEF front
<1>5. /\ Len(front \o <<"verify">>) \in Nat
      /\ (front \o <<"verify">>)[Len(front \o <<"verify">>)] = "verify"
  BY <1>2
<1>6. QED
  BY <1>1, <1>3, <1>4, <1>5 DEF Stages, Legacy

-----------------------------------------------------------------------------
(* Initial states *)

\* A run before it begins, and one that the scenario does not have.
Unstarted(r) ==
    /\ r \in Run /\ r.at \in {"waiting", "exited"} /\ r.met = {} /\ r.exit = "none"
    /\ r.wrote = {} /\ r.told = {} /\ r.module = "sound" /\ r.stage = 0

LEMMA WaitingUnstarted ==
    ASSUME NEW args \in Lines
    PROVE  Unstarted(Waiting(args)) /\ Unstarted([Waiting(args) EXCEPT !.at = "exited"])
<1>1. Defaults \in CompilerOptions /\ Absent \in Content
  BY DEF Defaults, CompilerOptions, Names, Levels, Absent, Content
<1>2. Waiting(args) \in Run /\ [Waiting(args) EXCEPT !.at = "exited"] \in Run
  BY <1>1 DEF Waiting, Run, AllFaults
<1>3. QED
  BY <1>2 DEF Waiting, Unstarted

LEMMA NoArguments == <<>> \in Lines
BY DEF Lines

LEMMA InitInv == ASSUME Init PROVE IInv
<1> PICK s \in Scenarios :
       /\ \E present \in SUBSET s.sources :
              /\ files = [path \in Paths |->
                             IF path \in present
                             THEN [kind |-> "source", of |-> path] ELSE Absent]
              /\ \E faulty \in [present -> s.faults] :
                    fault = [x \in Sources |-> IF x \in present THEN faulty[x] ELSE "none"]
       /\ failures = s.failures
       /\ \E line \in [s.runs -> s.lines] :
              run = [p \in Processes |-> IF p \in s.runs THEN Waiting(line[p])
                                         ELSE [Waiting(<<>>) EXCEPT !.at = "exited"]]
  BY DEF Init
<1>1. /\ s.runs \subseteq Processes /\ s.sources \subseteq Sources /\ s.lines \subseteq Lines
      /\ s.faults \subseteq AllFaults /\ s.failures \subseteq AllFailures
  BY ScenariosAssumption
<1>2. files \in [Paths -> Content] /\ SourcesKnown
  <2> PICK present \in SUBSET s.sources :
          files = [path \in Paths |-> IF path \in present
                                      THEN [kind |-> "source", of |-> path] ELSE Absent]
    OBVIOUS
  <2>1. present \subseteq Sources
    BY <1>1
  <2>2. Sources \subseteq Names
    BY NamesAssumption DEF Names
  <2>3. QED
    BY <2>1, <2>2 DEF Content, Absent, SourcesKnown
<1>3. fault \in [Sources -> AllFaults]
  BY <1>1 DEF AllFaults
<1>4. ASSUME NEW p \in Processes PROVE Unstarted(run[p])
  <2> PICK line \in [s.runs -> s.lines] :
          run = [q \in Processes |-> IF q \in s.runs THEN Waiting(line[q])
                                     ELSE [Waiting(<<>>) EXCEPT !.at = "exited"]]
    OBVIOUS
  <2>1. CASE p \in s.runs
    <3>1. line[p] \in Lines
      BY <1>1, <2>1
    <3>2. run[p] = Waiting(line[p])
      BY <2>1
    <3>3. QED
      BY <3>1, <3>2, WaitingUnstarted
  <2>2. CASE p \notin s.runs
    BY <2>2, NoArguments, WaitingUnstarted
  <2>3. QED
    BY <2>1, <2>2
<1>5. run \in [Processes -> Run]
  <2>1. run = [p \in Processes |-> run[p]]
    OBVIOUS
  <2>2. QED
    BY <2>1, <1>4 DEF Unstarted
<1>6. TypeOK
  BY <1>1, <1>2, <1>3, <1>5 DEF TypeOK, Init
<1>7. ASSUME NEW p \in Processes PROVE RunSound(run[p]) /\ Delivers(p) /\ MetSound(p)
  <2>1. Unstarted(run[p])
    BY <1>4
  <2>2. RunSound(run[p])
    BY <2>1 DEF Unstarted, RunSound, FrontSound, PassesSound, ToldSound, Optimizing, Writing
  <2>3. Delivers(p) /\ MetSound(p)
    BY <2>1 DEF Unstarted, Delivers, MetSound, Alive
  <2>4. QED
    BY <2>2, <2>3
<1>8. QED
  BY <1>2, <1>6, <1>7 DEF IInv

-----------------------------------------------------------------------------
(* A step of one run, and the others *)

LEMMA OutputPath ==
    ASSUME IInv, NEW p \in Processes, NEW suffix \in Endings
    PROVE  Output(p, suffix) \in Paths
<1>1. run[p].options.output \in Names
  BY DEF IInv, TypeOK, Run, CompilerOptions
<1>2. QED
  BY <1>1 DEF Output, Paths

LEMMA DisturbsKept ==
    ASSUME NEW q, NEW p,
           run'[q].options.output = run[q].options.output,
           run'[p].options.output = run[p].options.output
    PROVE  Disturbs(q, p)' <=> Disturbs(q, p)
BY DEF Disturbs, Needs, Output

LEMMA OwnKept ==
    ASSUME IInv, NEW p \in Processes, NEW r \in Run, run' = [run EXCEPT ![p] = r],
           r.met = run[p].met,
           run[p].at = "options" \/ (r.at # "options" /\ r.options = run[p].options),
           NEW q \in Processes, q = p => run[p].at # "options", Own(q)'
    PROVE  Own(q)
<1>1. run \in [Processes -> Run]
  BY DEF IInv, TypeOK
<1>2. run'[q].met = run[q].met /\ run'[q].options.output = run[q].options.output
  BY <1>1
<1>3. run[q].met \subseteq Processes
  BY <1>1 DEF Run
<1>4. ASSUME NEW o \in run[q].met, run[o].at # "options"
      PROVE  run'[o].at # "options" /\ run'[o].options.output = run[o].options.output
  BY <1>1, <1>3, <1>4
<1>5. \A o \in run[q].met : run[o].at = "options" \/ ~Disturbs(o, q)
  BY <1>2, <1>4, DisturbsKept DEF Own
<1>6. QED
  BY <1>5 DEF Own

LEMMA OneRun ==
    ASSUME IInv, NEW p \in Processes, NEW r \in Run, run' = [run EXCEPT ![p] = r],
           Alive(p), r.at # "waiting", r.met = run[p].met,
           run[p].at = "options" \/ (r.at # "options" /\ r.options = run[p].options),
           files' \in [Paths -> Content], SourcesKnown',
           \A path \in Paths :
               run[p].at = "options" \/ path \notin {Output(p, s) : s \in Endings}
                   => files'[path] = files[path],
           made' \in BOOLEAN, made => made', fault' = fault, failures' = failures,
           RunSound(r)', Delivers(p)'
    PROVE  IInv'
<1>1. run \in [Processes -> Run] /\ TypeOK
  BY DEF IInv, TypeOK
<1>2. run' \in [Processes -> Run] /\ run'[p] = r
      /\ \A q \in Processes : q # p => run'[q] = run[q]
  BY <1>1
<1>3. TypeOK'
  BY <1>1, <1>2 DEF TypeOK
<1>4. ASSUME NEW q \in Processes PROVE RunSound(run[q])'
  <2>1. CASE q = p
    BY <2>1, <1>2
  <2>2. CASE q # p
    <3>1. RunSound(run[q]) /\ run'[q] = run[q]
      BY <1>2, <2>2 DEF IInv
    <3>2. FrontSound(run[q])'
      BY <3>1 DEF RunSound, FrontSound, Rejected
    <3>3. PassesSound(run[q])'
      BY <3>1 DEF RunSound, PassesSound, Legacy, Checked, Stages
    <3>4. ToldSound(run[q])'
      BY <3>1 DEF RunSound, ToldSound
    <3>5. QED
      BY <3>2, <3>3, <3>4 DEF RunSound
  <2>3. QED
    BY <2>1, <2>2
<1>5. ASSUME NEW q \in Processes PROVE MetSound(q)'
  <2>1. MetSound(q)
    BY DEF IInv
  <2>2. \A o \in Processes : /\ run'[o].met = run[o].met
                             /\ Alive(o)' => Alive(o)
                             /\ run[o].at # "waiting" => run'[o].at # "waiting"
    BY <1>1, <1>2 DEF Alive
  <2>3. run[q].met \subseteq Processes
    BY <1>1 DEF Run
  <2>4. QED
    BY <2>1, <2>2, <2>3 DEF MetSound
<1>6. ASSUME NEW q \in Processes, q # p PROVE Delivers(q)'
  <2>1. Delivers(q) /\ MetSound(q) /\ run'[q] = run[q]
    BY <1>6, <1>2 DEF IInv
  <2>2. SUFFICES ASSUME Own(q)' PROVE Delivers(q)'
    BY DEF Delivers
  <2>3. Own(q)
    BY <2>2, <1>6, OwnKept
  <2>4. ASSUME Alive(q), NEW suffix \in {"", ".o"}
        PROVE  files'[Output(q, suffix)] = files[Output(q, suffix)]
    <3>1. p \in run[q].met
      BY <2>1, <2>4, <1>6 DEF MetSound
    <3>2. run[p].at = "options" \/ ~Disturbs(p, q)
      BY <2>3, <3>1 DEF Own
    <3>3. run[p].at = "options" \/ Output(q, suffix) \notin {Output(p, s) : s \in Endings}
      BY <3>2 DEF Disturbs, Needs
    <3>4. Output(q, suffix) \in Paths
      BY OutputPath DEF Endings
    <3>5. QED
      BY <3>3, <3>4
  <2>5. Output(q, "")' = Output(q, "") /\ Output(q, ".o")' = Output(q, ".o")
    BY <2>1 DEF Output
  <2>6. QED
    BY <2>1, <2>3, <2>4, <2>5 DEF Delivers, Alive
<1>7. QED
  BY <1>3, <1>4, <1>5, <1>6 DEF IInv

\* A step that leaves the files alone and delivers nothing.
LEMMA QuietRun ==
    ASSUME IInv, NEW p \in Processes, NEW r \in Run, run' = [run EXCEPT ![p] = r], Quiet,
           Alive(p), r.at \notin {"waiting", "link", "linking", "report"}, r.met = run[p].met,
           run[p].at = "options" \/ (r.at # "options" /\ r.options = run[p].options),
           r.exit = "success" => r.options.flags \cap Modes # {},
           RunSound(r)
    PROVE  IInv'
<1>1. run \in [Processes -> Run] /\ files \in [Paths -> Content] /\ SourcesKnown /\ made \in BOOLEAN
  BY DEF IInv, TypeOK
<1>2. run'[p] = r
  BY <1>1
<1>3. RunSound(r)'
  BY DEF Quiet, RunSound, FrontSound, PassesSound, ToldSound, Rejected, Legacy, Checked, Stages
<1>4. Delivers(p)'
  BY <1>2 DEF Delivers
<1>5. SourcesKnown'
  BY <1>1 DEF SourcesKnown, Quiet
<1>6. QED
  BY <1>1, <1>3, <1>4, <1>5, OneRun DEF Quiet

-----------------------------------------------------------------------------
(* The steps *)

\* All but the phase and the runs that were met is the same.
Alike(s, r) ==
    /\ r.options = s.options /\ r.wrote = s.wrote /\ r.told = s.told /\ r.stage = s.stage
    /\ r.module = s.module /\ r.warned = s.warned /\ r.fault = s.fault /\ r.exit = s.exit
    /\ r.program = s.program /\ r.object = s.object /\ r.delivered = s.delivered

LEMMA MetType ==
    ASSUME NEW s \in Run, NEW M \in SUBSET Processes
    PROVE  /\ [s EXCEPT !.met = M] \in Run
           /\ [s EXCEPT !.met = M].met = M /\ [s EXCEPT !.met = M].at = s.at
           /\ Alike(s, [s EXCEPT !.met = M])
           /\ [s EXCEPT !.at = "options", !.met = M] \in Run
           /\ [s EXCEPT !.at = "options", !.met = M].met = M
           /\ [s EXCEPT !.at = "options", !.met = M].at = "options"
           /\ Alike(s, [s EXCEPT !.at = "options", !.met = M])
BY DEF Run, Alike

LEMMA BeginInv == ASSUME IInv, NEW p \in Processes, Begin(p) PROVE IInv'
<1> DEFINE Others == {q \in Processes : Alive(q)}
<1>1. run \in [Processes -> Run] /\ TypeOK
  BY DEF IInv, TypeOK
<1>2. run[p].at = "waiting" /\ ~Alive(p)
  BY DEF Begin, Alive
<1>3. /\ run'[p] = [run[p] EXCEPT !.at = "options", !.met = Others]
      /\ \A q \in Processes : q # p /\ Alive(q) => run'[q] = [run[q] EXCEPT !.met = run[q].met \cup {p}]
      /\ \A q \in Processes : q # p /\ ~Alive(q) => run'[q] = run[q]
      /\ run' = [q \in Processes |-> run'[q]]
  BY DEF Begin
<1>4. /\ run'[p] \in Run /\ run'[p].met = Others /\ run'[p].at = "options" /\ Alike(run[p], run'[p])
  <2>1. Others \in SUBSET Processes
    OBVIOUS
  <2> HIDE DEF Others
  <2>2. run[p] \in Run
    BY <1>1
  <2>3. /\ [run[p] EXCEPT !.at = "options", !.met = Others] \in Run
        /\ [run[p] EXCEPT !.at = "options", !.met = Others].met = Others
        /\ [run[p] EXCEPT !.at = "options", !.met = Others].at = "options"
        /\ Alike(run[p], [run[p] EXCEPT !.at = "options", !.met = Others])
    BY <2>1, <2>2, MetType
  <2>4. QED
    BY <1>3, <2>3, Zenon
<1>5. ASSUME NEW q \in Processes, q # p
      PROVE  /\ run'[q] \in Run /\ run'[q].at = run[q].at /\ Alike(run[q], run'[q])
             /\ run[q].met \subseteq Processes
             /\ run'[q].met = IF Alive(q) THEN run[q].met \cup {p} ELSE run[q].met
  <2>1. run[q] \in Run /\ run[q].met \in SUBSET Processes /\ run[q].met \cup {p} \in SUBSET Processes
    BY <1>1 DEF Run
  <2>2. CASE Alive(q)
    <3> DEFINE M == run[q].met \cup {p}
    <3>1. run'[q] = [run[q] EXCEPT !.met = M]
      BY <1>3, <1>5, <2>2
    <3> HIDE DEF M
    <3>2. /\ [run[q] EXCEPT !.met = M] \in Run
          /\ [run[q] EXCEPT !.met = M].met = M /\ [run[q] EXCEPT !.met = M].at = run[q].at
          /\ Alike(run[q], [run[q] EXCEPT !.met = M])
      BY <2>1, MetType DEF M
    <3>3. run'[q] \in Run /\ run'[q].at = run[q].at /\ Alike(run[q], run'[q]) /\ run'[q].met = M
      BY <3>1, <3>2, Zenon
    <3>4. QED
      BY <2>1, <2>2, <3>3 DEF M
  <2>3. CASE ~Alive(q)
    BY <1>3, <1>5, <2>1, <2>3 DEF Alike
  <2>4. QED
    BY <2>2, <2>3
<1>6. run' \in [Processes -> Run]
  BY <1>3, <1>4, <1>5
<1>7. UNCHANGED <<files, made, fault, failures>>
  BY DEF Begin, Quiet
<1>8. TypeOK' /\ SourcesKnown'
  BY <1>1, <1>6, <1>7 DEF TypeOK, IInv, SourcesKnown
<1> HIDE DEF Others
<1>9. ASSUME NEW q \in Processes PROVE RunSound(run[q])'
  <2>1. RunSound(run[q])
    BY DEF IInv
  <2>2. Alike(run[q], run'[q])
        /\ (run'[q].at = run[q].at \/ (run[q].at = "waiting" /\ run'[q].at = "options"))
    BY <1>2, <1>4, <1>5
  <2>3. FrontSound(run[q])'
    BY <2>1, <2>2 DEF RunSound, FrontSound, Rejected, Alike, Early, Optimizing, Writing
  <2>4. PassesSound(run[q])'
    BY <2>1, <2>2 DEF RunSound, PassesSound, Legacy, Checked, Stages, Alike, Writing
  <2>5. ToldSound(run[q])'
    BY <2>1, <2>2, <1>7 DEF RunSound, ToldSound, Alike, Writing
  <2>6. QED
    BY <2>3, <2>4, <2>5 DEF RunSound
<1>10. ASSUME NEW q \in Processes PROVE MetSound(q)'
  <2>1. MetSound(q)
    BY DEF IInv
  <2>2. CASE q = p
    BY <1>2, <1>4, <1>5, <2>2 DEF MetSound, Alive, Others
  <2>3. CASE q # p
    BY <1>2, <1>4, <1>5, <2>1, <2>3 DEF MetSound, Alive
  <2>4. QED
    BY <2>2, <2>3
<1>11. ASSUME NEW q \in Processes PROVE Delivers(q)'
  <2>1. CASE q = p
    <3>1. run'[q].at = "options" /\ run'[q].exit = "none"
      BY <1>2, <1>4, <2>1 DEF Alike, IInv, RunSound, FrontSound
    <3>2. QED
      BY <3>1 DEF Delivers
  <2>2. CASE q # p
    <3>1. run[q].met \subseteq run'[q].met /\ run[q].met \subseteq Processes
      BY <1>5, <2>2
    <3>2. ASSUME NEW o \in run[q].met
          PROVE  o # p /\ run'[o].at = run[o].at /\ run'[o].options = run[o].options
      <4>1. o \in Processes /\ MetSound(q)
        BY <3>1 DEF IInv
      <4>2. o # p
        BY <4>1, <1>2 DEF MetSound
      <4>3. QED
        BY <4>1, <4>2, <1>5 DEF Alike
    <3>3. Own(q)' => Own(q)
      <4>1. run'[q].options = run[q].options
        BY <1>5, <2>2 DEF Alike
      <4>2. \A o \in run[q].met : Disturbs(o, q)' <=> Disturbs(o, q)
        BY <3>2, <4>1, DisturbsKept
      <4>3. QED
        BY <3>1, <3>2, <4>2 DEF Own
    <3>4. Delivers(q)
      BY DEF IInv
    <3>5. run'[q].at = run[q].at /\ Alike(run[q], run'[q])
      BY <1>5, <2>2
    <3>6. Output(q, "")' = Output(q, "") /\ Output(q, ".o")' = Output(q, ".o")
      BY <3>5 DEF Output, Alike
    <3>7. QED
      BY <3>3, <3>4, <3>5, <3>6, <1>7 DEF Delivers, Alike
  <2>3. QED
    BY <2>1, <2>2
<1>12. QED
  BY <1>8, <1>9, <1>10, <1>11 DEF IInv

\* A run goes on with its next phase and changes nothing else.
LEMMA GotoInv ==
    ASSUME IInv, NEW p \in Processes, Alive(p), Quiet,
           NEW at \in {"readFile", "parse", "analyze", "generate", "optimize", "verifyIR",
                       "optimizedIR", "directory", "emit", "object", "writing"},
           Goto(p, at), RunSound([run[p] EXCEPT !.at = at])
    PROVE  IInv'
<1> DEFINE r == [run[p] EXCEPT !.at = at]
<1>1. run[p] \in Run /\ RunSound(run[p])
  BY DEF IInv, TypeOK
<1>2. r \in Run /\ r.at = at /\ r.met = run[p].met /\ r.options = run[p].options /\ r.exit = run[p].exit
  BY <1>1 DEF Run
<1>3. r.exit = "none"
  BY <1>1, <1>2 DEF RunSound, FrontSound, Alive
<1>4. run' = [run EXCEPT ![p] = r]
  BY DEF Goto
<1>5. RunSound(r)
  OBVIOUS
<1> HIDE DEF r
<1>6. QED
  BY <1>2, <1>3, <1>4, <1>5, QuietRun

\* A run ends and changes nothing else.
LEMMA ExitInv ==
    ASSUME IInv, NEW p \in Processes, Alive(p), Quiet,
           NEW how \in {"success", "failure", "abort", "killed"}, Exit(p, how),
           how = "success" => run[p].options.flags \cap Modes # {}
    PROVE  IInv'
<1> DEFINE r == [run[p] EXCEPT !.at = "exited", !.exit = how]
<1>1. run[p] \in Run /\ RunSound(run[p])
  BY DEF IInv, TypeOK
<1>2. /\ r \in Run /\ r.at = "exited" /\ r.exit = how /\ r.met = run[p].met
      /\ r.options = run[p].options /\ r.wrote = run[p].wrote /\ r.told = run[p].told
      /\ r.module = run[p].module /\ r.warned = run[p].warned /\ r.fault = run[p].fault
  BY <1>1 DEF Run
<1>3. run' = [run EXCEPT ![p] = r]
  BY DEF Exit
<1> HIDE DEF r
<1>4. RunSound(r)
  BY <1>1, <1>2 DEF RunSound, FrontSound, PassesSound, ToldSound, Rejected, Legacy, Checked,
                    Early, Optimizing, Writing
<1>5. QED
  BY <1>2, <1>3, <1>4, QuietRun

LEMMA ParseArgumentsInv == ASSUME IInv, NEW p \in Processes, parseArguments(p) PROVE IInv'
<1> DEFINE r == Understood(run[p], run[p].args[run[p].arg + 1])
<1>1. run[p] \in Run /\ RunSound(run[p])
  BY DEF IInv, TypeOK
<1>2. run[p].at = "options" /\ run[p].arg < Len(run[p].args) /\ Quiet
      /\ run' = [run EXCEPT ![p] = r]
  BY DEF parseArguments
<1>3. r \in Run /\ \E o \in CompilerOptions, n \in Nat : r = [run[p] EXCEPT !.options = o, !.arg = n]
  BY <1>1, <1>2, UnderstoodType
<1> HIDE DEF r
<1>4. /\ r.at = "options" /\ r.exit = run[p].exit /\ r.met = run[p].met /\ r.wrote = run[p].wrote
      /\ r.told = run[p].told /\ r.module = run[p].module /\ r.stage = run[p].stage
  BY <1>1, <1>2, <1>3 DEF Run
<1>5. RunSound(r)
  BY <1>1, <1>2, <1>4 DEF RunSound, FrontSound, PassesSound, ToldSound, Early, Optimizing, Writing
<1>6. r.exit = "none"
  BY <1>1, <1>2, <1>4 DEF RunSound, FrontSound
<1>7. QED
  BY <1>2, <1>3, <1>4, <1>5, <1>6, QuietRun DEF Alive

LEMMA CheckOptionsInv == ASSUME IInv, NEW p \in Processes, CheckOptions(p) PROVE IInv'
<1>1. run[p] \in Run /\ RunSound(run[p])
  BY DEF IInv, TypeOK
<1>2. run[p].at = "options" /\ Alive(p) /\ Quiet
  BY DEF CheckOptions, Alive
<1>3. CASE Exit(p, "success") /\ (Has(p, "--help") \/ Has(p, "--version"))
  BY <1>2, <1>3, ExitInv DEF Has, Modes
<1>4. CASE Exit(p, "failure")
  BY <1>2, <1>4, ExitInv
<1>5. CASE Goto(p, "readFile") /\ run[p].options.input # ""
  <2>1. RunSound([run[p] EXCEPT !.at = "readFile"])
    BY <1>1, <1>2, <1>5 DEF RunSound, FrontSound, PassesSound, ToldSound, Rejected, Legacy, Checked,
                            Run, Early, Optimizing, Writing
  <2>2. QED
    BY <1>2, <1>5, <2>1, GotoInv
<1>6. QED
  BY <1>3, <1>4, <1>5 DEF CheckOptions

LEMMA ReadFileInv == ASSUME IInv, NEW p \in Processes, readFile(p) PROVE IInv'
<1> DEFINE content == files[Source(p)]
           r == [run[p] EXCEPT !.at = "parse", !.program = content.of, !.fault = FaultOf(content)]
<1>1. run[p] \in Run /\ RunSound(run[p]) /\ TypeOK /\ SourcesKnown
  BY DEF IInv, TypeOK
<1>2. run[p].at = "readFile" /\ Alive(p) /\ Quiet
  BY DEF readFile, Alive
<1>3. CASE Exit(p, "failure")
  BY <1>2, <1>3, ExitInv
<1>4. CASE run' = [run EXCEPT ![p] = r]
  <2>1. run[p].options.input \in FileNames
    BY <1>1, <1>2 DEF RunSound, FrontSound, Run, CompilerOptions
  <2>2. Source(p) \in Paths
    <3>1. Source(p) \in Names /\ "" \in Endings
      BY <2>1 DEF Source, Names, Endings
    <3>2. QED
      BY <3>1, PathsAssumption DEF Paths
  <2>3. content \in Content /\ (content.kind = "source" => content.of \in Sources)
    BY <1>1, <2>2 DEF TypeOK, SourcesKnown
  <2> HIDE DEF content
  <2>4. FaultOf(content) \in AllFaults /\ content.of \in Names \cup {""}
    BY <1>1, <2>3 DEF FaultOf, TypeOK, AllFaults, Content
  <2>5. /\ r \in Run /\ r.at = "parse" /\ r.met = run[p].met /\ r.options = run[p].options
        /\ r.exit = run[p].exit /\ r.wrote = run[p].wrote /\ r.told = run[p].told
        /\ r.module = run[p].module /\ r.stage = run[p].stage
    BY <1>1, <2>4 DEF Run
  <2> HIDE DEF r
  <2>6. RunSound(r)
    BY <1>1, <1>2, <2>5 DEF RunSound, FrontSound, PassesSound, ToldSound, Early, Optimizing, Writing
  <2>7. r.exit = "none"
    BY <1>1, <1>2, <2>5 DEF RunSound, FrontSound
  <2>8. QED
    BY <1>2, <1>4, <2>5, <2>6, <2>7, QuietRun
<1>5. QED
  BY <1>2, <1>3, <1>4 DEF readFile

LEMMA ParseInv == ASSUME IInv, NEW p \in Processes, Parse(p) PROVE IInv'
<1>1. run[p] \in Run /\ RunSound(run[p])
  BY DEF IInv, TypeOK
<1>2. run[p].at = "parse" /\ Alive(p) /\ Quiet
  BY DEF Parse, Alive
<1>3. CASE Exit(p, "abort") \/ Exit(p, "failure")
  BY <1>2, <1>3, ExitInv
<1>4. CASE Exit(p, "success") /\ (Has(p, "--check-syntax") \/ Has(p, "--ast-dump"))
  BY <1>2, <1>4, ExitInv DEF Has, Modes
<1>5. CASE /\ Goto(p, "analyze") /\ run[p].fault \notin {"literal", "syntax"}
           /\ ~Has(p, "--check-syntax") /\ ~Has(p, "--ast-dump")
  <2> DEFINE r == [run[p] EXCEPT !.at = "analyze"]
  <2>1. /\ r.at = "analyze" /\ r.exit = run[p].exit /\ r.wrote = run[p].wrote
        /\ r.told = run[p].told /\ r.module = run[p].module /\ r.fault = run[p].fault
        /\ r.options = run[p].options /\ r.stage = run[p].stage
    BY <1>1 DEF Run
  <2> HIDE DEF r
  <2>2. r.options.flags \cap {"--check-syntax", "--ast-dump"} = {}
    BY <1>5, <2>1 DEF Has
  <2>3. RunSound(r)
    BY <1>1, <1>2, <1>5, <2>1, <2>2 DEF RunSound, FrontSound, PassesSound, ToldSound, Rejected,
                                        Early, Optimizing, Writing
  <2>4. QED
    BY <1>2, <1>5, <2>3, GotoInv DEF r
<1>6. QED
  BY <1>3, <1>4, <1>5 DEF Parse

LEMMA AnalyzeInv == ASSUME IInv, NEW p \in Processes, Analyze(p) PROVE IInv'
<1>1. run[p] \in Run /\ RunSound(run[p])
  BY DEF IInv, TypeOK
<1>2. run[p].at = "analyze" /\ Alive(p) /\ Quiet
  BY DEF Analyze, Alive
<1>3. CASE Exit(p, "failure")
  BY <1>2, <1>3, ExitInv
<1>4. CASE Goto(p, "generate") /\ run[p].fault # "semantic"
  <2>1. RunSound([run[p] EXCEPT !.at = "generate"])
    BY <1>1, <1>2, <1>4 DEF RunSound, FrontSound, PassesSound, ToldSound, Rejected, Legacy, Checked,
                            Run, Early, Optimizing, Writing
  <2>2. QED
    BY <1>2, <1>4, <2>1, GotoInv
<1>5. QED
  BY <1>3, <1>4 DEF Analyze

LEMMA GenerateInv == ASSUME IInv, NEW p \in Processes, Generate(p) PROVE IInv'
<1>1. run[p] \in Run /\ RunSound(run[p])
  BY DEF IInv, TypeOK
<1>2. run[p].at = "generate" /\ Alive(p) /\ Quiet
  BY DEF Generate, Alive
<1>3. CASE Exit(p, "failure")
  BY <1>2, <1>3, ExitInv
<1>4. CASE Goto(p, "optimize") /\ run[p].fault # "generator"
  <2> DEFINE r == [run[p] EXCEPT !.at = "optimize"]
  <2>1. /\ r.at = "optimize" /\ r.exit = run[p].exit /\ r.wrote = run[p].wrote
        /\ r.told = run[p].told /\ r.module = run[p].module /\ r.fault = run[p].fault
        /\ r.options = run[p].options
    BY <1>1 DEF Run
  <2> HIDE DEF r
  <2>2. RunSound(r)
    BY <1>1, <1>2, <1>4, <2>1 DEF RunSound, FrontSound, PassesSound, ToldSound, Rejected,
                                  Early, Optimizing, Writing
  <2>3. QED
    BY <1>2, <1>4, <2>2, GotoInv DEF r
<1>5. QED
  BY <1>3, <1>4 DEF Generate

\* A pipeline is the one that PipelineEnds speaks of.
LEMMA PipelineStages == \A p : Pipeline(p) = Stages(run[p])
BY DEF Pipeline, Stages, Legacy, Has

LEMMA OptimizeStageInv == ASSUME IInv, NEW p \in Processes, OptimizeStage(p) PROVE IInv'
<1> DEFINE s == run[p].stage + 1
<1>1. run[p] \in Run /\ RunSound(run[p])
  BY DEF IInv, TypeOK
<1>2. run[p].at = "optimize" /\ Alive(p) /\ Quiet /\ s <= Len(Stages(run[p]))
  BY PipelineStages DEF OptimizeStage, Alive
<1>3. PICK m \in {"sound", "broken"}, w \in BOOLEAN :
          /\ run' = [run EXCEPT ![p] = [run[p] EXCEPT !.stage = s, !.module = m, !.warned = w]]
          /\ Stages(run[p])[s] = "verify" /\ m = "broken" => w
  <2>1. run[p].module \in {"sound", "broken"} /\ run[p].warned \in BOOLEAN
    BY <1>1 DEF Run
  <2>2. CASE /\ Stages(run[p])[s] = "verify"
             /\ run' = [run EXCEPT ![p].stage = s, ![p].warned = @ \/ run[p].module = "broken"]
    <3> DEFINE w == run[p].warned \/ run[p].module = "broken"
    <3>1. [run[p] EXCEPT !.stage = s, !.warned = w]
          = [run[p] EXCEPT !.stage = s, !.module = run[p].module, !.warned = w]
      BY <1>1 DEF Run
    <3>2. QED
      BY <2>1, <2>2, <3>1
  <2>3. ASSUME Stages(run[p])[s] # "verify",
               NEW m \in {run[p].module} \cup (IF Fails("pass") THEN {"broken"} ELSE {}),
               run' = [run EXCEPT ![p].stage = s, ![p].module = m]
        PROVE  \E w \in BOOLEAN :
                  run' = [run EXCEPT ![p] = [run[p] EXCEPT !.stage = s, !.module = m, !.warned = w]]
    <3>1. [run[p] EXCEPT !.stage = s, !.module = m]
          = [run[p] EXCEPT !.stage = s, !.module = m, !.warned = run[p].warned]
      BY <1>1 DEF Run
    <3>2. QED
      BY <2>1, <2>3, <3>1
  <2>4. QED
    BY <2>1, <2>2, <2>3, PipelineStages DEF OptimizeStage
<1> DEFINE r == [run[p] EXCEPT !.stage = s, !.module = m, !.warned = w]
<1>4. run[p].stage \in Nat /\ s \in Nat /\ s > 0
  <2>1. run[p].stage \in Nat
    BY <1>1 DEF Run
  <2>2. QED
    BY <2>1
<1>5. /\ r \in Run /\ r.at = "optimize" /\ r.met = run[p].met /\ r.options = run[p].options
      /\ r.exit = run[p].exit /\ r.wrote = run[p].wrote /\ r.told = run[p].told
      /\ r.fault = run[p].fault /\ r.stage = s /\ r.module = m /\ r.warned = w
  BY <1>1, <1>2, <1>4 DEF Run
<1>6. run' = [run EXCEPT ![p] = r]
  BY <1>3
<1> HIDE DEF r
<1> HIDE DEF s
<1>7. Len(Stages(run[p])) > 0
  <2>1. Len(Stages(run[p])) \in Nat
    BY <1>1, PipelineEnds
  <2>2. QED
    BY <1>2, <1>4, <2>1
<1>8. Stages(r) = Stages(run[p]) /\ (Legacy(r) <=> Legacy(run[p]))
  BY <1>5 DEF Stages, Legacy
<1>9. run[p].options.level # 0
  BY <1>1, <1>7, PipelineEnds
<1>10. ~Legacy(run[p]) /\ s = Len(Stages(run[p])) /\ m = "broken" => w
  BY <1>1, <1>3, <1>7, PipelineEnds
<1>11. RunSound(r)
  BY <1>1, <1>2, <1>5, <1>8, <1>9, <1>10
     DEF RunSound, FrontSound, PassesSound, ToldSound, Rejected, Checked, Early, Optimizing, Writing
<1>12. r.exit = "none"
  BY <1>1, <1>2, <1>5 DEF RunSound, FrontSound
<1>13. QED
  BY <1>2, <1>5, <1>6, <1>11, <1>12, QuietRun

LEMMA OptimizedInv == ASSUME IInv, NEW p \in Processes, Optimized(p) PROVE IInv'
<1> DEFINE at == IF run[p].options.level > 0 /\ Has(p, "--verify-ir") THEN "verifyIR"
                 ELSE "optimizedIR"
           r == [run[p] EXCEPT !.at = at]
<1>1. run[p] \in Run /\ RunSound(run[p])
  BY DEF IInv, TypeOK
<1>2. run[p].at = "optimize" /\ Alive(p) /\ Quiet /\ run[p].stage = Len(Stages(run[p]))
      /\ Goto(p, at)
  BY PipelineStages DEF Optimized, Alive
<1>3. /\ r.at = at /\ r.exit = run[p].exit /\ r.wrote = run[p].wrote /\ r.options = run[p].options
      /\ r.told = run[p].told /\ r.module = run[p].module /\ r.fault = run[p].fault
      /\ r.warned = run[p].warned
  BY <1>1 DEF Run
<1> HIDE DEF r
<1>4. at = "optimizedIR" => run[p].options.level = 0 \/ ~Checked(run[p])
  <2>1. run[p].options.level \in 0..9
    BY <1>1 DEF Run, CompilerOptions, Levels
  <2>2. QED
    BY <2>1 DEF Has, Checked
<1>5. at \in {"verifyIR", "optimizedIR"}
  OBVIOUS
<1> HIDE DEF at
<1>6. RunSound(r)
  BY <1>1, <1>2, <1>3, <1>4, <1>5 DEF RunSound, FrontSound, PassesSound, ToldSound, Rejected,
                                Legacy, Checked, Early, Optimizing, Writing
<1>7. QED
  BY <1>2, <1>5, <1>6, GotoInv DEF r

LEMMA VerifyIRInv == ASSUME IInv, NEW p \in Processes, VerifyIR(p) PROVE IInv'
<1>1. run[p] \in Run /\ RunSound(run[p])
  BY DEF IInv, TypeOK
<1>2. run[p].at = "verifyIR" /\ Alive(p) /\ Quiet
  BY DEF VerifyIR, Alive
<1>3. CASE Exit(p, "failure")
  BY <1>2, <1>3, ExitInv
<1>4. CASE Goto(p, "optimizedIR") /\ run[p].module # "broken"
  <2> DEFINE r == [run[p] EXCEPT !.at = "optimizedIR"]
  <2>1. /\ r.at = "optimizedIR" /\ r.exit = run[p].exit /\ r.wrote = run[p].wrote
        /\ r.told = run[p].told /\ r.module = run[p].module /\ r.fault = run[p].fault
        /\ r.options = run[p].options /\ r.warned = run[p].warned /\ r.module = "sound"
    BY <1>1, <1>4 DEF Run
  <2> HIDE DEF r
  <2>2. RunSound(r)
    BY <1>1, <1>2, <2>1 DEF RunSound, FrontSound, PassesSound, ToldSound, Rejected, Legacy,
                            Early, Optimizing, Writing
  <2>3. QED
    BY <1>2, <1>4, <2>2, GotoInv DEF r
<1>5. QED
  BY <1>3, <1>4 DEF VerifyIR

-----------------------------------------------------------------------------
(* The steps that write *)

\* What a run may have read for its program.
LEMMA OfProgram ==
    ASSUME IInv, NEW p \in Processes, NEW kind \in {"torn", "object", "exe", "ir"}
    PROVE  [kind |-> kind, of |-> run[p].program] \in Content
<1>1. run[p] \in Run
  BY DEF IInv, TypeOK
<1>2. QED
  BY <1>1 DEF Run, Content

\* A step of a run that writes a file of its own, or none.
LEMMA WriteRun ==
    ASSUME IInv, NEW p \in Processes, NEW r \in Run, run' = [run EXCEPT ![p] = r],
           Alive(p), run[p].at # "options", r.at \notin {"waiting", "options"},
           r.met = run[p].met, r.options = run[p].options,
           NEW suffix \in Endings,
           NEW content \in Content, content.kind # "source",
           files' = [files EXCEPT ![Output(p, suffix)] = content] \/ UNCHANGED files,
           made' \in BOOLEAN, made => made', fault' = fault, failures' = failures,
           RunSound(r)', Delivers(p)'
    PROVE  IInv'
<1>1. run[p] \in Run /\ files \in [Paths -> Content] /\ SourcesKnown
  BY DEF IInv, TypeOK
<1>2. Output(p, suffix) \in Paths
  BY OutputPath
<1>3. files' \in [Paths -> Content]
  BY <1>1, <1>2
<1>4. SourcesKnown'
  BY <1>1, <1>2 DEF SourcesKnown
<1>5. \A path \in Paths : path \notin {Output(p, s) : s \in Endings} => files'[path] = files[path]
  BY <1>1, <1>2
<1>6. QED
  BY <1>3, <1>4, <1>5, OneRun

LEMMA EmitLLVMInv ==
    ASSUME IInv, NEW p \in Processes, NEW suffix \in {".ll", ".opt.ll"},
           NEW message \in {"Optimized IR", "Generated"},
           NEW at \in {"directory", "exited"}, NEW exit \in {"none", "success"},
           emitLLVMIR(p, Output(p, suffix), message, at, exit),
           \/ /\ suffix = ".opt.ll" /\ message = "Optimized IR" /\ at = "directory" /\ exit = "none"
              /\ run[p].at = "optimizedIR"
           \/ /\ suffix = ".ll" /\ message = "Generated" /\ at = "exited" /\ exit = "success"
              /\ run[p].at = "emit" /\ Has(p, "--emit-llvm")
    PROVE  IInv'
<1> DEFINE path == Output(p, suffix)
           told == run[p].told \cup {message}
           wrote == run[p].wrote \cup {path}
           done == [run[p] EXCEPT !.at = at, !.exit = exit, !.told = @ \cup {message}]
<1>1. run \in [Processes -> Run] /\ run[p] \in Run /\ RunSound(run[p]) /\ made \in BOOLEAN
  BY DEF IInv, TypeOK
<1>2. Alive(p) /\ run[p].at \in {"optimizedIR", "emit"} /\ UNCHANGED <<made, fault, failures>>
  BY DEF Alive, emitLLVMIR
<1>3. /\ [kind |-> "ir", of |-> run[p].program] \in Content
      /\ [kind |-> "torn", of |-> run[p].program] \in Content
  BY OfProgram
<1>4. /\ done \in Run /\ done.at = at /\ done.exit = exit /\ done.told = told
      /\ done.met = run[p].met /\ done.options = run[p].options /\ done.wrote = run[p].wrote
      /\ done.module = run[p].module /\ done.warned = run[p].warned /\ done.fault = run[p].fault
  BY <1>1 DEF Run
<1>5. wrote \subseteq Paths \cup {"/"}
  <2>1. run[p].wrote \subseteq Paths \cup {"/"}
    BY <1>1 DEF Run
  <2>2. path \in Paths
    BY OutputPath DEF Endings
  <2>3. QED
    BY <2>1, <2>2
<1>6. exit = "success" => run[p].options.flags \cap Modes # {}
  BY DEF Has, Modes
<1> HIDE DEF done
<1>7. CASE /\ ~Reachable(p) \/ Fails("open")
           /\ run' = [run EXCEPT ![p] = done]
           /\ UNCHANGED files
  <2>1. ASSUME "open" \notin failures
        PROVE  suffix = ".opt.ll" /\ run[p].options.output \in InDirectory
    <3>1. ~Reachable(p)
      BY <1>7, <2>1 DEF Fails
    <3>2. run[p].options.output \in InDirectory /\ ~made
      BY <3>1 DEF Reachable
    <3>3. QED
      BY <1>1, <3>2 DEF RunSound, ToldSound, Writing
  <2>2. PICK r \in Run : r = done
    BY <1>4
  <2>3. RunSound(r)'
    BY <1>1, <1>2, <1>4, <2>1, <2>2 DEF RunSound, FrontSound, PassesSound, ToldSound, Rejected,
                                        Legacy, Checked, Early, Optimizing, Writing
  <2>4. Delivers(p)'
    BY <1>1, <1>4, <1>6, <1>7, <2>2 DEF Delivers
  <2>5. QED
    BY <1>2, <1>1, <1>3, <1>4, <1>7, <2>2, <2>3, <2>4, WriteRun DEF Endings
<1>8. CASE /\ Reachable(p) /\ Write(p, path, "ir")
           /\ run' = [run EXCEPT ![p] = [done EXCEPT !.wrote = Wrote(p, path)]]
  <2>1. PICK r \in Run :
            /\ run' = [run EXCEPT ![p] = r]
            /\ r.at = at /\ r.exit = exit /\ r.told = told
            /\ r.met = run[p].met /\ r.options = run[p].options /\ r.wrote = wrote
            /\ r.module = run[p].module /\ r.warned = run[p].warned /\ r.fault = run[p].fault
    <3> DEFINE r == [done EXCEPT !.wrote = wrote]
    <3>1. /\ r \in Run /\ r.at = at /\ r.exit = exit /\ r.told = told
          /\ r.met = run[p].met /\ r.options = run[p].options /\ r.wrote = wrote
          /\ r.module = run[p].module /\ r.warned = run[p].warned /\ r.fault = run[p].fault
      BY <1>4, <1>5 DEF Run
    <3>2. run' = [run EXCEPT ![p] = r]
      BY <1>8 DEF Wrote
    <3>3. QED
      BY <3>1, <3>2
  <2>2. path = PathOf[run[p].options.output, suffix]
    BY DEF Output
  <2>3. RunSound(r)'
    BY <1>1, <1>2, <2>1, <2>2 DEF RunSound, FrontSound, PassesSound, ToldSound, Rejected, Legacy,
                                  Checked, Early, Optimizing, Writing
  <2>4. Delivers(p)'
    BY <1>1, <1>6, <2>1 DEF Delivers
  <2>5. QED
    BY <1>2, <1>1, <1>3, <1>8, <2>1, <2>3, <2>4, WriteRun DEF Write, Endings
<1>9. CASE /\ Reachable(p) /\ Write(p, path, "torn")
           /\ run' = [run EXCEPT ![p].at = "exited", ![p].exit = "failure",
                                 ![p].wrote = Wrote(p, path)]
  <2>1. PICK r \in Run :
            /\ run' = [run EXCEPT ![p] = r]
            /\ r.at = "exited" /\ r.exit = "failure" /\ r.told = run[p].told
            /\ r.met = run[p].met /\ r.options = run[p].options /\ r.wrote = wrote
            /\ r.module = run[p].module /\ r.warned = run[p].warned /\ r.fault = run[p].fault
    <3> DEFINE r == [run[p] EXCEPT !.at = "exited", !.exit = "failure", !.wrote = wrote]
    <3>1. /\ r \in Run /\ r.at = "exited" /\ r.exit = "failure" /\ r.told = run[p].told
          /\ r.met = run[p].met /\ r.options = run[p].options /\ r.wrote = wrote
          /\ r.module = run[p].module /\ r.warned = run[p].warned /\ r.fault = run[p].fault
      BY <1>1, <1>5 DEF Run
    <3>2. run' = [run EXCEPT ![p] = r]
      BY <1>1, <1>9 DEF Wrote
    <3>3. QED
      BY <3>1, <3>2
  <2>3. RunSound(r)'
    BY <1>1, <1>2, <2>1 DEF RunSound, FrontSound, PassesSound, ToldSound, Rejected, Legacy,
                                  Checked, Early, Optimizing, Writing
  <2>4. Delivers(p)'
    BY <1>1, <2>1 DEF Delivers
  <2>5. QED
    BY <1>2, <1>1, <1>3, <1>9, <2>1, <2>3, <2>4, WriteRun DEF Write, Endings
<1>10. QED
  BY <1>7, <1>8, <1>9 DEF emitLLVMIR, done

LEMMA EmitOptimizedIRInv == ASSUME IInv, NEW p \in Processes, EmitOptimizedIR(p) PROVE IInv'
<1>1. run[p] \in Run /\ RunSound(run[p])
  BY DEF IInv, TypeOK
<1>2. run[p].at = "optimizedIR" /\ Alive(p)
  BY DEF EmitOptimizedIR, Alive
<1>3. CASE emitLLVMIR(p, Output(p, ".opt.ll"), "Optimized IR", "directory", "none")
  BY <1>2, <1>3, EmitLLVMInv
<1>4. CASE Goto(p, "directory") /\ Quiet
  <2> DEFINE r == [run[p] EXCEPT !.at = "directory"]
  <2>1. /\ r.at = "directory" /\ r.exit = run[p].exit /\ r.wrote = run[p].wrote
        /\ r.told = run[p].told /\ r.module = run[p].module /\ r.fault = run[p].fault
        /\ r.options = run[p].options /\ r.warned = run[p].warned
    BY <1>1 DEF Run
  <2> HIDE DEF r
  <2>2. RunSound(r)
    BY <1>1, <1>2, <2>1 DEF RunSound, FrontSound, PassesSound, ToldSound, Rejected, Legacy, Checked,
                            Early, Optimizing, Writing
  <2>3. QED
    BY <1>2, <1>4, <2>2, GotoInv DEF r
<1>5. QED
  BY <1>3, <1>4 DEF EmitOptimizedIR

LEMMA EmitInv == ASSUME IInv, NEW p \in Processes, Emit(p) PROVE IInv'
<1>1. run[p] \in Run /\ RunSound(run[p])
  BY DEF IInv, TypeOK
<1>2. run[p].at = "emit" /\ Alive(p)
  BY DEF Emit, Alive
<1>3. CASE Has(p, "--emit-llvm") /\ emitLLVMIR(p, Output(p, ".ll"), "Generated", "exited", "success")
  BY <1>2, <1>3, EmitLLVMInv
<1>4. CASE Has(p, "--emit-asm") /\ Exit(p, "success") /\ Quiet
  BY <1>2, <1>4, ExitInv DEF Has, Modes
<1>5. CASE Goto(p, "object") /\ Quiet
  <2> DEFINE r == [run[p] EXCEPT !.at = "object"]
  <2>1. /\ r.at = "object" /\ r.exit = run[p].exit /\ r.wrote = run[p].wrote
        /\ r.told = run[p].told /\ r.module = run[p].module /\ r.fault = run[p].fault
        /\ r.options = run[p].options /\ r.warned = run[p].warned
    BY <1>1 DEF Run
  <2> HIDE DEF r
  <2>2. RunSound(r)
    BY <1>1, <1>2, <2>1 DEF RunSound, FrontSound, PassesSound, ToldSound, Rejected, Legacy, Checked,
                            Early, Optimizing, Writing
  <2>3. QED
    BY <1>2, <1>5, <2>2, GotoInv DEF r
<1>6. QED
  BY <1>3, <1>4, <1>5 DEF Emit

LEMMA CreateDirectoryInv == ASSUME IInv, NEW p \in Processes, createDirectoryIfNeeded(p) PROVE IInv'
<1>1. run \in [Processes -> Run] /\ run[p] \in Run /\ RunSound(run[p]) /\ made \in BOOLEAN
  BY DEF IInv, TypeOK
<1>2. run[p].at = "directory" /\ Alive(p) /\ UNCHANGED <<files, fault, failures>>
  BY DEF createDirectoryIfNeeded, Alive
<1>3. CASE Exit(p, "failure") /\ UNCHANGED made
  BY <1>2, <1>3, ExitInv DEF Quiet
<1>4. CASE Exit(p, "abort") /\ UNCHANGED made
  BY <1>2, <1>4, ExitInv DEF Quiet
<1>5. CASE Reachable(p) /\ Goto(p, "emit") /\ UNCHANGED made
  <2> DEFINE r == [run[p] EXCEPT !.at = "emit"]
  <2>1. /\ r.at = "emit" /\ r.exit = run[p].exit /\ r.wrote = run[p].wrote
        /\ r.told = run[p].told /\ r.module = run[p].module /\ r.fault = run[p].fault
        /\ r.options = run[p].options /\ r.warned = run[p].warned
    BY <1>1 DEF Run
  <2> HIDE DEF r
  <2>2. run[p].options.output \in InDirectory => made
    BY <1>5 DEF Reachable
  <2>3. RunSound(r)
    BY <1>1, <1>2, <2>1, <2>2 DEF RunSound, FrontSound, PassesSound, ToldSound, Rejected, Legacy,
                                  Checked, Early, Optimizing, Writing
  <2>4. QED
    BY <1>2, <1>5, <2>3, GotoInv DEF r, Quiet
<1>6. CASE /\ made' = TRUE
           /\ run' = [run EXCEPT ![p].at = "emit", ![p].wrote = Wrote(p, "/")]
  <2> DEFINE wrote == run[p].wrote \cup {"/"}
  <2>1. wrote \subseteq Paths \cup {"/"}
    <3>1. run[p].wrote \subseteq Paths \cup {"/"}
      BY <1>1 DEF Run
    <3>2. QED
      BY <3>1
  <2>2. PICK r \in Run :
            /\ run' = [run EXCEPT ![p] = r]
            /\ r.at = "emit" /\ r.exit = run[p].exit /\ r.told = run[p].told
            /\ r.met = run[p].met /\ r.options = run[p].options /\ r.wrote = wrote
            /\ r.module = run[p].module /\ r.warned = run[p].warned /\ r.fault = run[p].fault
    <3> DEFINE r == [run[p] EXCEPT !.at = "emit", !.wrote = wrote]
    <3>1. /\ r \in Run /\ r.at = "emit" /\ r.exit = run[p].exit /\ r.told = run[p].told
          /\ r.met = run[p].met /\ r.options = run[p].options /\ r.wrote = wrote
          /\ r.module = run[p].module /\ r.warned = run[p].warned /\ r.fault = run[p].fault
      BY <1>1, <2>1 DEF Run
    <3>2. run' = [run EXCEPT ![p] = r]
      BY <1>1, <1>6 DEF Wrote
    <3>3. QED
      BY <3>1, <3>2
  <2>3. RunSound(r)'
    BY <1>1, <1>2, <1>6, <2>2 DEF RunSound, FrontSound, PassesSound, ToldSound, Rejected, Legacy,
                                  Checked, Early, Optimizing, Writing
  <2>4. run'[p] = r /\ r.exit = "none"
    BY <1>1, <1>2, <2>2 DEF RunSound, FrontSound
  <2>5. Delivers(p)'
    BY <2>2, <2>4 DEF Delivers
  <2>6. files' = files /\ Absent \in Content /\ Absent.kind # "source"
    BY <1>2 DEF Absent, Content
  <2>7. QED
    BY <1>1, <1>2, <1>6, <2>2, <2>3, <2>5, <2>6, WriteRun DEF Endings
<1>7. QED
  BY <1>3, <1>4, <1>5, <1>6 DEF createDirectoryIfNeeded

LEMMA OpenObjectInv == ASSUME IInv, NEW p \in Processes, OpenObject(p) PROVE IInv'
<1> DEFINE path == Output(p, ".o")
           wrote == run[p].wrote \cup {path}
<1>1. run \in [Processes -> Run] /\ run[p] \in Run /\ RunSound(run[p]) /\ made \in BOOLEAN
  BY DEF IInv, TypeOK
<1>2. run[p].at = "object" /\ Alive(p) /\ UNCHANGED <<made, fault, failures>>
  BY DEF OpenObject, Alive
<1>3. CASE Exit(p, "failure") /\ UNCHANGED files
  BY <1>2, <1>3, ExitInv DEF Quiet
<1>4. wrote \subseteq Paths \cup {"/"}
  <2>1. run[p].wrote \subseteq Paths \cup {"/"}
    BY <1>1 DEF Run
  <2>2. path \in Paths
    BY OutputPath DEF Endings
  <2>3. QED
    BY <2>1, <2>2
<1>5. ASSUME Write(p, path, "torn"), NEW at \in {"writing", "exited"}, NEW exit \in {run[p].exit, "failure"},
             exit = "failure" => at = "exited",
             run' = [run EXCEPT ![p] = [run[p] EXCEPT !.at = at, !.exit = exit, !.wrote = wrote]]
      PROVE  IInv'
  <2>1. run[p].exit = "none"
    BY <1>1, <1>2 DEF RunSound, FrontSound
  <2>2. PICK r \in Run :
            /\ run' = [run EXCEPT ![p] = r]
            /\ r.at = at /\ r.exit = exit /\ r.told = run[p].told
            /\ r.met = run[p].met /\ r.options = run[p].options /\ r.wrote = wrote
            /\ r.module = run[p].module /\ r.warned = run[p].warned /\ r.fault = run[p].fault
    <3> DEFINE r == [run[p] EXCEPT !.at = at, !.exit = exit, !.wrote = wrote]
    <3>1. /\ r \in Run /\ r.at = at /\ r.exit = exit /\ r.told = run[p].told
          /\ r.met = run[p].met /\ r.options = run[p].options /\ r.wrote = wrote
          /\ r.module = run[p].module /\ r.warned = run[p].warned /\ r.fault = run[p].fault
      BY <1>1, <1>4, <2>1 DEF Run
    <3>2. QED
      BY <1>5, <3>1
  <2>3. RunSound(r)'
    BY <1>1, <1>2, <1>5, <2>1, <2>2 DEF RunSound, FrontSound, PassesSound, ToldSound, Rejected,
                                        Legacy, Checked, Early, Optimizing, Writing
  <2>4. run'[p] = r /\ r.exit # "success"
    BY <1>1, <2>1, <2>2
  <2>5. Delivers(p)'
    BY <2>2, <2>4 DEF Delivers
  <2>6. [kind |-> "torn", of |-> run[p].program] \in Content
    BY OfProgram
  <2>7. QED
    BY <1>1, <1>2, <1>5, <2>2, <2>3, <2>5, <2>6, WriteRun DEF Write, Endings
<1>6. CASE /\ Write(p, path, "torn")
           /\ run' = [run EXCEPT ![p].at = "writing", ![p].wrote = Wrote(p, path)]
  <2>1. [run[p] EXCEPT !.at = "writing", !.wrote = wrote]
        = [run[p] EXCEPT !.at = "writing", !.exit = run[p].exit, !.wrote = wrote]
    BY <1>1 DEF Run
  <2>2. run' = [run EXCEPT ![p] = [run[p] EXCEPT !.at = "writing", !.exit = run[p].exit, !.wrote = wrote]]
    BY <1>1, <1>6, <2>1 DEF Wrote
  <2>3. run[p].exit # "failure"
    BY <1>1, <1>2 DEF RunSound, FrontSound
  <2>4. QED
    BY <1>5, <1>6, <2>2, <2>3
<1>7. CASE /\ Write(p, path, "torn")
           /\ run' = [run EXCEPT ![p].at = "exited", ![p].exit = "failure",
                                 ![p].wrote = Wrote(p, path)]
  <2>1. run' = [run EXCEPT ![p] = [run[p] EXCEPT !.at = "exited", !.exit = "failure", !.wrote = wrote]]
    BY <1>1, <1>7 DEF Wrote
  <2>2. QED
    BY <1>5, <1>7, <2>1
<1>8. QED
  BY <1>3, <1>6, <1>7 DEF OpenObject

LEMMA WriteObjectInv == ASSUME IInv, NEW p \in Processes, WriteObject(p) PROVE IInv'
<1>1. /\ run \in [Processes -> Run] /\ run[p] \in Run /\ RunSound(run[p]) /\ made \in BOOLEAN
      /\ files \in [Paths -> Content]
  BY DEF IInv, TypeOK
<1>2. run[p].at = "writing" /\ Alive(p) /\ UNCHANGED <<made, fault, failures>>
  BY DEF WriteObject, Alive
<1>3. CASE Exit(p, "failure") /\ UNCHANGED files
  BY <1>2, <1>3, ExitInv DEF Quiet
<1>4. CASE Write(p, Output(p, ".o"), "object") /\ Goto(p, "link")
  <2>1. PICK r \in Run :
            /\ run' = [run EXCEPT ![p] = r]
            /\ r.at = "link" /\ r.exit = run[p].exit /\ r.told = run[p].told
            /\ r.met = run[p].met /\ r.options = run[p].options /\ r.wrote = run[p].wrote
            /\ r.module = run[p].module /\ r.warned = run[p].warned /\ r.fault = run[p].fault
            /\ r.program = run[p].program
    <3> DEFINE r == [run[p] EXCEPT !.at = "link"]
    <3>1. /\ r \in Run /\ r.at = "link" /\ r.exit = run[p].exit /\ r.told = run[p].told
          /\ r.met = run[p].met /\ r.options = run[p].options /\ r.wrote = run[p].wrote
          /\ r.module = run[p].module /\ r.warned = run[p].warned /\ r.fault = run[p].fault
          /\ r.program = run[p].program
      BY <1>1 DEF Run
    <3>2. QED
      BY <1>4, <3>1 DEF Goto
  <2>2. RunSound(r)'
    BY <1>1, <1>2, <2>1 DEF RunSound, FrontSound, PassesSound, ToldSound, Rejected, Legacy,
                            Checked, Early, Optimizing, Writing
  <2>3. run'[p] = r /\ r.exit # "success"
    BY <1>1, <1>2, <2>1 DEF RunSound, FrontSound
  <2>4. Output(p, ".o") \in Paths /\ Output(p, ".o")' = Output(p, ".o")
    <3>1. Output(p, ".o") \in Paths
      BY OutputPath DEF Endings
    <3>2. QED
      BY <2>1, <2>3, <3>1 DEF Output
  <2>5. files'[Output(p, ".o")] = [kind |-> "object", of |-> run[p].program]
    BY <1>1, <1>4, <2>4 DEF Write
  <2>6. Delivers(p)'
    BY <2>1, <2>3, <2>4, <2>5 DEF Delivers
  <2>7. [kind |-> "object", of |-> run[p].program] \in Content
    BY OfProgram
  <2>8. QED
    BY <1>1, <1>2, <1>4, <2>1, <2>2, <2>6, <2>7, WriteRun DEF Write, Endings
<1>5. QED
  BY <1>3, <1>4 DEF WriteObject

LEMMA ReadObjectInv == ASSUME IInv, NEW p \in Processes, ReadObject(p) PROVE IInv'
<1>1. /\ run \in [Processes -> Run] /\ run[p] \in Run /\ RunSound(run[p]) /\ made \in BOOLEAN
      /\ files \in [Paths -> Content] /\ Delivers(p)
  BY DEF IInv, TypeOK
<1>2. run[p].at = "link" /\ Alive(p) /\ UNCHANGED <<files, made, fault, failures>>
  BY DEF ReadObject, Alive, Quiet
<1>3. Output(p, ".o") \in Paths
  BY OutputPath DEF Endings
<1>4. PICK r \in Run :
          /\ run' = [run EXCEPT ![p] = r]
          /\ r.at = "linking" /\ r.exit = run[p].exit /\ r.told = run[p].told
          /\ r.met = run[p].met /\ r.options = run[p].options /\ r.wrote = run[p].wrote
          /\ r.module = run[p].module /\ r.warned = run[p].warned /\ r.fault = run[p].fault
          /\ r.program = run[p].program /\ r.object = files[Output(p, ".o")]
  <2> DEFINE o == files[Output(p, ".o")]
             r == [run[p] EXCEPT !.at = "linking", !.object = o]
  <2>1. o \in Content
    BY <1>1, <1>3
  <2>2. run' = [run EXCEPT ![p] = r]
    BY DEF ReadObject
  <2> HIDE DEF o
  <2>3. /\ r \in Run /\ r.at = "linking" /\ r.exit = run[p].exit /\ r.told = run[p].told
        /\ r.met = run[p].met /\ r.options = run[p].options /\ r.wrote = run[p].wrote
        /\ r.module = run[p].module /\ r.warned = run[p].warned /\ r.fault = run[p].fault
        /\ r.program = run[p].program /\ r.object = o
    BY <1>1, <2>1 DEF Run
  <2> HIDE DEF r
  <2>4. QED
    BY <2>2, <2>3 DEF o
<1>5. RunSound(r)'
  BY <1>1, <1>2, <1>4 DEF RunSound, FrontSound, PassesSound, ToldSound, Rejected, Legacy,
                          Checked, Early, Optimizing, Writing
<1>6. run'[p] = r /\ r.exit # "success"
  BY <1>1, <1>2, <1>4 DEF RunSound, FrontSound
<1>7. Own(p)' => Own(p)
  BY <1>2, <1>4, OwnKept
<1>8. Delivers(p)'
  BY <1>1, <1>2, <1>4, <1>6, <1>7 DEF Delivers
<1>9. Absent \in Content /\ Absent.kind # "source"
  BY DEF Absent, Content
<1>10. QED
  BY <1>1, <1>2, <1>4, <1>5, <1>8, <1>9, WriteRun DEF Endings

LEMMA LinkExecutableInv == ASSUME IInv, NEW p \in Processes, linkExecutable(p) PROVE IInv'
<1> DEFINE path == Output(p, "")
           wrote == run[p].wrote \cup {path}
           exe == [kind |-> "exe", of |-> run[p].object.of]
<1>1. /\ run \in [Processes -> Run] /\ run[p] \in Run /\ RunSound(run[p]) /\ made \in BOOLEAN
      /\ files \in [Paths -> Content] /\ Delivers(p)
  BY DEF IInv, TypeOK
<1>2. run[p].at = "linking" /\ Alive(p) /\ UNCHANGED <<made, fault, failures>>
  BY DEF linkExecutable, Alive
<1>3. path \in Paths
  BY OutputPath DEF Endings
<1>4. exe \in Content /\ Absent \in Content /\ exe.kind # "source" /\ Absent.kind # "source"
  <2>1. run[p].object.of \in Names \cup {""}
    BY <1>1 DEF Run, Content
  <2>2. QED
    BY <2>1 DEF Content, Absent
<1>5. CASE /\ files' = [files EXCEPT ![path] = exe]
           /\ run' = [run EXCEPT ![p].at = "report", ![p].wrote = Wrote(p, path)]
  <2>1. PICK r \in Run :
            /\ run' = [run EXCEPT ![p] = r]
            /\ r.at = "report" /\ r.exit = run[p].exit /\ r.told = run[p].told
            /\ r.met = run[p].met /\ r.options = run[p].options /\ r.wrote = wrote
            /\ r.module = run[p].module /\ r.warned = run[p].warned /\ r.fault = run[p].fault
            /\ r.program = run[p].program
    <3> DEFINE r == [run[p] EXCEPT !.at = "report", !.wrote = wrote]
    <3>1. path \in Paths
      BY <1>3
    <3>2. wrote \subseteq Paths \cup {"/"}
      BY <1>1, <3>1 DEF Run
    <3>3. run' = [run EXCEPT ![p] = r]
      BY <1>1, <1>5 DEF Wrote
    <3> HIDE DEF wrote
    <3>4. /\ r \in Run /\ r.at = "report" /\ r.exit = run[p].exit /\ r.told = run[p].told
          /\ r.met = run[p].met /\ r.options = run[p].options /\ r.wrote = wrote
          /\ r.module = run[p].module /\ r.warned = run[p].warned /\ r.fault = run[p].fault
          /\ r.program = run[p].program
      BY <1>1, <3>2 DEF Run
    <3>5. QED
      BY <3>3, <3>4
  <2>2. RunSound(r)'
    BY <1>1, <1>2, <2>1 DEF RunSound, FrontSound, PassesSound, ToldSound, Rejected, Legacy,
                            Checked, Early, Optimizing, Writing
  <2>3. run'[p] = r /\ r.exit # "success"
    BY <1>1, <1>2, <2>1 DEF RunSound, FrontSound
  <2>4. Own(p)' => Own(p)
    BY <1>2, <2>1, OwnKept
  <2>5. files'[path] = exe /\ Output(p, "")' = path
    BY <1>1, <1>3, <1>5, <2>1, <2>3 DEF Output
  <2>6. Delivers(p)'
    <3> SUFFICES ASSUME Own(p)' PROVE files'[Output(p, "")'] = [kind |-> "exe", of |-> r.program]
      BY <2>1, <2>3 DEF Delivers
    <3>1. run[p].object = [kind |-> "object", of |-> run[p].program]
      BY <1>1, <1>2, <2>4 DEF Delivers
    <3>2. run[p].object.of = run[p].program /\ r.program = run[p].program
      <4>1. [kind |-> "object", of |-> run[p].program].of = run[p].program
        OBVIOUS
      <4>2. QED
        BY <2>1, <3>1, <4>1, Zenon
    <3>3. exe = [kind |-> "exe", of |-> r.program]
      BY <3>2
    <3> HIDE DEF exe, path
    <3>4. QED
      BY <2>5, <3>3
  <2>7. QED
    BY <1>1, <1>2, <1>4, <1>5, <2>1, <2>2, <2>6, WriteRun DEF Endings
<1>6. CASE /\ Exit(p, "failure")
           /\ files' \in {files, [files EXCEPT ![path] = Absent]}
  <2>1. PICK r \in Run :
            /\ run' = [run EXCEPT ![p] = r]
            /\ r.at = "exited" /\ r.exit = "failure" /\ r.told = run[p].told
            /\ r.met = run[p].met /\ r.options = run[p].options /\ r.wrote = run[p].wrote
            /\ r.module = run[p].module /\ r.warned = run[p].warned /\ r.fault = run[p].fault
    <3> DEFINE r == [run[p] EXCEPT !.at = "exited", !.exit = "failure"]
    <3>1. /\ r \in Run /\ r.at = "exited" /\ r.exit = "failure" /\ r.told = run[p].told
          /\ r.met = run[p].met /\ r.options = run[p].options /\ r.wrote = run[p].wrote
          /\ r.module = run[p].module /\ r.warned = run[p].warned /\ r.fault = run[p].fault
      BY <1>1 DEF Run
    <3>2. QED
      BY <1>6, <3>1 DEF Exit
  <2>2. RunSound(r)'
    BY <1>1, <1>2, <2>1 DEF RunSound, FrontSound, PassesSound, ToldSound, Rejected, Legacy,
                            Checked, Early, Optimizing, Writing
  <2>3. Delivers(p)'
    BY <1>1, <2>1 DEF Delivers
  <2>4. QED
    BY <1>1, <1>2, <1>4, <1>6, <2>1, <2>2, <2>3, WriteRun DEF Endings
<1>7. QED
  BY <1>5, <1>6 DEF linkExecutable

LEMMA ReportInv == ASSUME IInv, NEW p \in Processes, Report(p) PROVE IInv'
<1>1. /\ run \in [Processes -> Run] /\ run[p] \in Run /\ RunSound(run[p]) /\ made \in BOOLEAN
      /\ files \in [Paths -> Content] /\ Delivers(p)
  BY DEF IInv, TypeOK
<1>2. run[p].at = "report" /\ Alive(p) /\ UNCHANGED <<files, made, fault, failures>>
  BY DEF Report, Alive, Quiet
<1>3. Output(p, "") \in Paths
  BY OutputPath DEF Endings
<1>4. PICK r \in Run :
          /\ run' = [run EXCEPT ![p] = r]
          /\ r.at = "exited" /\ r.exit = "success" /\ r.told = run[p].told \cup {"Output"}
          /\ r.met = run[p].met /\ r.options = run[p].options /\ r.wrote = run[p].wrote
          /\ r.module = run[p].module /\ r.warned = run[p].warned /\ r.fault = run[p].fault
          /\ r.program = run[p].program /\ r.delivered = files[Output(p, "")]
  <2> DEFINE o == files[Output(p, "")]
             told == run[p].told \cup {"Output"}
             r == [run[p] EXCEPT !.at = "exited", !.exit = "success", !.told = told, !.delivered = o]
  <2>1. o \in Content /\ told \subseteq {"Optimized IR", "Generated", "Output"}
    BY <1>1, <1>3 DEF Run
  <2>2. run' = [run EXCEPT ![p] = r]
    BY DEF Report
  <2> HIDE DEF o, told
  <2>3. /\ r \in Run /\ r.at = "exited" /\ r.exit = "success" /\ r.told = told
        /\ r.met = run[p].met /\ r.options = run[p].options /\ r.wrote = run[p].wrote
        /\ r.module = run[p].module /\ r.warned = run[p].warned /\ r.fault = run[p].fault
        /\ r.program = run[p].program /\ r.delivered = o
    BY <1>1, <2>1 DEF Run
  <2> HIDE DEF r
  <2>4. QED
    BY <2>2, <2>3 DEF o, told
<1>5. RunSound(r)'
  BY <1>1, <1>2, <1>4 DEF RunSound, FrontSound, PassesSound, ToldSound, Rejected, Legacy,
                          Checked, Early, Optimizing, Writing
<1>6. run'[p] = r
  BY <1>1, <1>4
<1>7. Own(p)' => Own(p)
  BY <1>2, <1>4, OwnKept
<1>8. Delivers(p)'
  BY <1>1, <1>2, <1>4, <1>6, <1>7 DEF Delivers
<1>9. Absent \in Content /\ Absent.kind # "source"
  BY DEF Absent, Content
<1>10. QED
  BY <1>1, <1>2, <1>4, <1>5, <1>8, <1>9, WriteRun DEF Endings

LEMMA KillInv == ASSUME IInv, NEW p \in Processes, Kill(p) PROVE IInv'
BY ExitInv DEF Kill

-----------------------------------------------------------------------------
(* The theorems *)

LEMMA NextInv == ASSUME IInv, [Next]_vars PROVE IInv'
<1>1. CASE UNCHANGED vars
  <2>1. TypeOK' /\ SourcesKnown'
    BY <1>1 DEF IInv, TypeOK, SourcesKnown, vars
  <2>2. ASSUME NEW p \in Processes PROVE RunSound(run[p])'
    BY <1>1 DEF IInv, RunSound, FrontSound, PassesSound, ToldSound, Rejected, Legacy, Checked,
                Stages, vars
  <2>3. ASSUME NEW p \in Processes PROVE Delivers(p)' /\ MetSound(p)'
    BY <1>1 DEF IInv, Delivers, MetSound, Own, Disturbs, Needs, Output, Alive, vars
  <2>4. QED
    BY <2>1, <2>2, <2>3 DEF IInv
<1>2. ASSUME NEW p \in Processes, Step(p) PROVE IInv'
  BY <1>2, BeginInv, ParseArgumentsInv, CheckOptionsInv, ReadFileInv, ParseInv, AnalyzeInv,
     GenerateInv, OptimizeStageInv, OptimizedInv, VerifyIRInv, EmitOptimizedIRInv,
     CreateDirectoryInv, EmitInv, OpenObjectInv, WriteObjectInv, ReadObjectInv,
     LinkExecutableInv, ReportInv DEF Step
<1>3. QED
  BY <1>1, <1>2, KillInv DEF Next, Finished

\* The invariant: the sort of each run's state, what each phase has settled, and
\* whose file lies at an output (main.cpp:292-421).
THEOREM Invariant == Spec => []IInv
<1>1. Init => IInv
  BY InitInv
<1>2. IInv /\ [Next]_vars => IInv'
  BY NextInv
<1>3. QED
  BY <1>1, <1>2, PTL DEF Spec

\* A rejected program and a run that only looks at a program leave no file and no
\* directory behind, in any number of runs on any command lines
\* (main.cpp:323-347).
THEOREM RejectedLeavesNothingHolds == Spec => []RejectedLeavesNothing
<1>1. IInv => RejectedLeavesNothing
  BY DEF IInv, RunSound, FrontSound, Rejected, RejectedLeavesNothing
<1>2. QED
  BY <1>1, Invariant, PTL

\* A module that a pass broke is noticed before anything is announced, by the
\* pipeline that looks or because the user asked (main.cpp:368-373,
\* Optimizer.cpp:203-205).
THEOREM BrokenIsNoticedHolds == Spec => []BrokenIsNoticed
<1>1. ASSUME IInv PROVE BrokenIsNoticed
  <2>1. run \in [Processes -> Run]
    BY <1>1 DEF IInv, TypeOK
  <2>2. \A p \in Processes : run[p].module \in {"sound", "broken"} /\ PassesSound(run[p])
    BY <1>1, <2>1 DEF IInv, RunSound, Run
  <2>3. QED
    BY <2>2 DEF PassesSound, BrokenIsNoticed, BrokenIsReported, VerifiedWhenAsked, Has, Legacy, Checked
<1>2. QED
  BY <1>1, Invariant, PTL

\* IR that a run announces lies in a file that it wrote (main.cpp:381-399).
THEOREM AnnouncedIsWrittenHolds == Spec => []AnnouncedIsWritten
<1>1. IInv => AnnouncedIsWritten
  BY DEF IInv, RunSound, ToldSound, AnnouncedIsWritten, Fails, Output
<1>2. QED
  BY <1>1, Invariant, PTL

\* What a successful run delivers is the executable of its own program, whatever
\* runs beside it and writes neither its output nor its object (main.cpp:406-421).
THEOREM DeliveredIsOwnHolds == Spec => []DeliveredIsOwn
<1>1. IInv => DeliveredIsOwn
  BY DEF IInv, Delivers, Own, DeliveredIsOwn, Succeeded
<1>2. QED
  BY <1>1, Invariant, PTL

-----------------------------------------------------------------------------
(* The arguments *)

\* The argument at i is the operand of an -o.
OperandAt(args, i) ==
    \E j \in 1..(i - 1) : /\ \A k \in j..(i - 1) : args[k] = "-o"
                          /\ j = 1 \/ args[j - 1] # "-o"
                          /\ (i - j) % 2 = 1

ReadUpto(args, n) == {i \in 1..n : ~OperandAt(args, i)}
LastGiven(S, of, default) == IF S = {} THEN default ELSE of[CHOOSE i \in S : \A j \in S : j <= i]
InputsUpto(args, n) == {i \in ReadUpto(args, n) : args[i] \in FileNames}
LevelsUpto(args, n) == {i \in ReadUpto(args, n) : args[i] \in DOMAIN LevelOf}
FlagsUpto(args, n) == {args[i] : i \in ReadUpto(args, n)} \cap Flags

\* What the first n arguments ask for.
AskedBy(args, n) ==
    [input  |-> LastGiven(InputsUpto(args, n), args, ""),
     output |-> LastGiven(1..n \ ReadUpto(args, n), args, "output"),
     level  |-> LevelOf[LastGiven(LevelsUpto(args, n), args, "-O0")],
     flags  |-> FlagsUpto(args, n)]

\* The parser stands before an argument that is no operand, and has made of
\* those behind it what they ask for.
Between(r) ==
    /\ r.arg \in 0..Len(r.args)
    /\ r.arg < Len(r.args) => ~OperandAt(r.args, r.arg + 1)
    /\ r.arg > 0 /\ r.args[r.arg] = "-o" /\ r.arg < Len(r.args) => OperandAt(r.args, r.arg)
    /\ r.options = AskedBy(r.args, r.arg)

\* An -o that is no operand has one behind it, and nothing else has.
LEMMA OperandFollows ==
    ASSUME NEW args \in Lines, NEW n \in Nat, n > 0
    PROVE  /\ OperandAt(args, n + 1) => args[n] = "-o" /\ ~OperandAt(args, n)
           /\ args[n] = "-o" /\ ~OperandAt(args, n)
              /\ (n = 1 \/ args[n - 1] # "-o" \/ OperandAt(args, n - 1))
              => OperandAt(args, n + 1)
<1>1. ASSUME OperandAt(args, n + 1) PROVE args[n] = "-o" /\ ~OperandAt(args, n)
  <2> PICK j \in 1..n : /\ \A k \in j..n : args[k] = "-o"
                        /\ j = 1 \/ args[j - 1] # "-o"
                        /\ (n + 1 - j) % 2 = 1
    BY <1>1 DEF OperandAt
  <2>1. args[n] = "-o"
    OBVIOUS
  <2>2. ASSUME OperandAt(args, n) PROVE FALSE
    <3> PICK i \in 1..(n - 1) : /\ \A k \in i..(n - 1) : args[k] = "-o"
                                /\ i = 1 \/ args[i - 1] # "-o"
                                /\ (n - i) % 2 = 1
      BY <2>2 DEF OperandAt
    <3>1. j <= i
      <4> SUFFICES ASSUME i < j PROVE FALSE
        OBVIOUS
      <4>1. j - 1 \in i..(n - 1) /\ j # 1
        OBVIOUS
      <4>2. QED
        BY <4>1
    <3>2. i <= j
      <4> SUFFICES ASSUME j < i PROVE FALSE
        OBVIOUS
      <4>1. i - 1 \in j..n /\ i # 1
        OBVIOUS
      <4>2. QED
        BY <4>1
    <3>3. i = j
      BY <3>1, <3>2
    <3>4. QED
      BY <3>3
  <2>3. QED
    BY <2>1, <2>2
<1>2. ASSUME args[n] = "-o", ~OperandAt(args, n), n = 1 \/ args[n - 1] # "-o"
      PROVE  OperandAt(args, n + 1)
  <2>1. /\ n \in 1..(n + 1 - 1)
        /\ \A k \in n..(n + 1 - 1) : args[k] = "-o"
        /\ (n + 1 - n) % 2 = 1
    BY <1>2
  <2>2. QED
    BY <1>2, <2>1 DEF OperandAt
<1>3. ASSUME args[n] = "-o", n # 1, args[n - 1] = "-o", OperandAt(args, n - 1)
      PROVE  OperandAt(args, n + 1)
  <2> PICK j \in 1..(n - 2) : /\ \A k \in j..(n - 2) : args[k] = "-o"
                              /\ j = 1 \/ args[j - 1] # "-o"
                              /\ (n - 1 - j) % 2 = 1
    BY <1>3 DEF OperandAt
  <2>1. \A k \in j..(n + 1 - 1) : args[k] = "-o"
    BY <1>3
  <2>2. (n + 1 - j) % 2 = 1 /\ j \in 1..(n + 1 - 1)
    OBVIOUS
  <2>3. QED
    BY <2>1, <2>2 DEF OperandAt
<1>4. QED
  BY <1>1, <1>2, <1>3

\* The last index of a set that a new and larger one joins.
LEMMA LastOf ==
    ASSUME NEW n \in Nat, NEW S \in SUBSET (1..n), NEW of, NEW default
    PROVE  LastGiven(S \cup {n + 1}, of, default) = of[n + 1]
<1>1. \A i \in S \cup {n + 1} :
          (\A j \in S \cup {n + 1} : j <= i) <=> i = n + 1
  OBVIOUS
<1>2. (CHOOSE i \in S \cup {n + 1} : \A j \in S \cup {n + 1} : j <= i) = n + 1
  BY <1>1
<1>3. QED
  BY <1>2 DEF LastGiven

\* An option changes what it names, and nothing else.
LEMMA ChosenIsAsked ==
    ASSUME NEW args \in Lines, NEW n \in Nat, n < Len(args), args[n + 1] # "-o",
           ~OperandAt(args, n + 1)
    PROVE  AskedBy(args, n + 1) = Chosen(AskedBy(args, n), args[n + 1])
<1> DEFINE a == args[n + 1]
           R == ReadUpto(args, n)
<1>1. ReadUpto(args, n + 1) = R \cup {n + 1} /\ R \in SUBSET (1..n)
  BY DEF ReadUpto
<1>2. 1..(n + 1) \ ReadUpto(args, n + 1) = 1..n \ R
  BY <1>1
<1>3. InputsUpto(args, n + 1) = IF a \in FileNames THEN InputsUpto(args, n) \cup {n + 1}
                                ELSE InputsUpto(args, n)
  BY <1>1 DEF InputsUpto
<1>4. LevelsUpto(args, n + 1) = IF a \in DOMAIN LevelOf THEN LevelsUpto(args, n) \cup {n + 1}
                                ELSE LevelsUpto(args, n)
  BY <1>1 DEF LevelsUpto
<1>5. FlagsUpto(args, n + 1) = FlagsUpto(args, n) \cup ({a} \cap Flags)
  BY <1>1 DEF FlagsUpto
<1>6. InputsUpto(args, n) \in SUBSET (1..n) /\ LevelsUpto(args, n) \in SUBSET (1..n)
  BY <1>1 DEF InputsUpto, LevelsUpto
<1>7. LastGiven(InputsUpto(args, n + 1), args, "")
      = IF a \in FileNames THEN a ELSE LastGiven(InputsUpto(args, n), args, "")
  BY <1>3, <1>6, LastOf, ZenonT(60)
<1>8. LevelOf[LastGiven(LevelsUpto(args, n + 1), args, "-O0")]
      = IF a \in DOMAIN LevelOf THEN LevelOf[a] ELSE LevelOf[LastGiven(LevelsUpto(args, n), args, "-O0")]
  <2> HIDE DEF a
  <2>1. LastGiven(LevelsUpto(args, n) \cup {n + 1}, args, "-O0") = a
    BY <1>6, LastOf DEF a
  <2>2. QED
    BY <1>4, <2>1
<1> DEFINE in == LastGiven(InputsUpto(args, n), args, "")
           out == LastGiven(1..n \ R, args, "output")
           level == LevelOf[LastGiven(LevelsUpto(args, n), args, "-O0")]
           flags == FlagsUpto(args, n)
<1>9. AskedBy(args, n) = [input |-> in, output |-> out, level |-> level, flags |-> flags]
  BY DEF AskedBy
<1>10. AskedBy(args, n + 1)
       = [input  |-> IF a \in FileNames THEN a ELSE in, output |-> out,
          level  |-> IF a \in DOMAIN LevelOf THEN LevelOf[a] ELSE level,
          flags  |-> flags \cup ({a} \cap Flags)]
  BY <1>2, <1>5, <1>7, <1>8, Zenon DEF AskedBy
<1> HIDE DEF a, in, out, level, flags
<1> DEFINE o == [input |-> in, output |-> out, level |-> level, flags |-> flags]
           in2 == IF a \in FileNames THEN a ELSE o.input
           level2 == IF a \in DOMAIN LevelOf THEN LevelOf[a] ELSE o.level
           flags2 == o.flags \cup ({a} \cap Flags)
<1>11. Chosen(o, a)
       = [input  |-> IF a \in FileNames THEN a ELSE in, output |-> out,
          level  |-> IF a \in DOMAIN LevelOf THEN LevelOf[a] ELSE level,
          flags  |-> flags \cup ({a} \cap Flags)]
  <2>1. Chosen(o, a) = [o EXCEPT !.flags = flags2, !.level = level2, !.input = in2]
    BY DEF Chosen
  <2>2. o.input = in /\ o.level = level /\ o.flags = flags
    OBVIOUS
  <2> HIDE DEF in2, level2, flags2
  <2>3. Chosen(o, a) = [input |-> in2, output |-> out, level |-> level2, flags |-> flags2]
    BY <2>1
  <2>4. QED
    BY <2>2, <2>3 DEF in2, level2, flags2
<1>12. QED
  BY <1>9, <1>10, <1>11 DEF a

\* An -o that is no operand asks for nothing but its own operand.
LEMMA OutputIsAsked ==
    ASSUME NEW args \in Lines, NEW n \in Nat, n < Len(args), args[n + 1] = "-o",
           ~OperandAt(args, n + 1)
    PROVE  /\ AskedBy(args, n + 1) = AskedBy(args, n)
           /\ OperandAt(args, n + 2) =>
                 AskedBy(args, n + 2) = [AskedBy(args, n) EXCEPT !.output = args[n + 2]]
<1> DEFINE R == ReadUpto(args, n)
<1>1. "-o" \notin FileNames /\ "-o" \notin DOMAIN LevelOf /\ "-o" \notin Flags
  BY NamesAssumption DEF AllOptions, LevelOf, Flags
<1>2. ReadUpto(args, n + 1) = R \cup {n + 1} /\ R \in SUBSET (1..n)
  BY DEF ReadUpto
<1>3. ASSUME NEW m \in Nat, ReadUpto(args, m) = R \cup {n + 1}
      PROVE  /\ InputsUpto(args, m) = InputsUpto(args, n)
             /\ LevelsUpto(args, m) = LevelsUpto(args, n)
             /\ FlagsUpto(args, m) = FlagsUpto(args, n)
  BY <1>1, <1>3 DEF InputsUpto, LevelsUpto, FlagsUpto
<1>4. AskedBy(args, n + 1) = AskedBy(args, n)
  <2>1. 1..(n + 1) \ ReadUpto(args, n + 1) = 1..n \ R
    BY <1>2
  <2>2. /\ InputsUpto(args, n + 1) = InputsUpto(args, n)
        /\ LevelsUpto(args, n + 1) = LevelsUpto(args, n)
        /\ FlagsUpto(args, n + 1) = FlagsUpto(args, n)
    BY <1>2, <1>3
  <2>3. QED
    BY <2>1, <2>2, Zenon DEF AskedBy, R
<1>5. ASSUME OperandAt(args, n + 2)
      PROVE  AskedBy(args, n + 2) = [AskedBy(args, n) EXCEPT !.output = args[n + 2]]
  <2> DEFINE S == 1..n \ R
  <2>1. ReadUpto(args, n + 2) = R \cup {n + 1}
    BY <1>5 DEF ReadUpto
  <2>2. 1..(n + 2) \ ReadUpto(args, n + 2) = S \cup {n + 2} /\ S \in SUBSET (1..(n + 1))
    BY <1>2, <2>1
  <2> HIDE DEF S
  <2>3. n + 1 \in Nat /\ (n + 1) + 1 = n + 2
    OBVIOUS
  <2>4. LastGiven(S \cup {(n + 1) + 1}, args, "output") = args[(n + 1) + 1]
    BY <2>2, <2>3, LastOf
  <2>5. LastGiven(1..(n + 2) \ ReadUpto(args, n + 2), args, "output") = args[n + 2]
    BY <2>2, <2>3, <2>4, Zenon
  <2>6. /\ InputsUpto(args, n + 2) = InputsUpto(args, n)
        /\ LevelsUpto(args, n + 2) = LevelsUpto(args, n)
        /\ FlagsUpto(args, n + 2) = FlagsUpto(args, n)
    BY <1>3, <2>1
  <2> DEFINE in == LastGiven(InputsUpto(args, n), args, "")
             out == LastGiven(1..n \ ReadUpto(args, n), args, "output")
             level == LevelOf[LastGiven(LevelsUpto(args, n), args, "-O0")]
             flags == FlagsUpto(args, n)
             new == args[n + 2]
  <2>7. AskedBy(args, n + 2) = [input |-> in, output |-> new, level |-> level, flags |-> flags]
    BY <2>5, <2>6, Zenon DEF AskedBy
  <2>8. AskedBy(args, n) = [input |-> in, output |-> out, level |-> level, flags |-> flags]
    BY DEF AskedBy
  <2> HIDE DEF in, out, level, flags, new
  <2>9. [AskedBy(args, n) EXCEPT !.output = new]
        = [input |-> in, output |-> new, level |-> level, flags |-> flags]
    BY <2>8
  <2>10. QED
    BY <2>7, <2>9 DEF new
<1>6. QED
  BY <1>4, <1>5

LEMMA UnderstoodBetween ==
    ASSUME NEW r \in Run, Between(r), r.arg < Len(r.args)
    PROVE  Between(Understood(r, r.args[r.arg + 1]))
<1> DEFINE args == r.args
           n == r.arg
           s == Understood(r, r.args[r.arg + 1])
<1>1. args \in Lines /\ n \in Nat /\ Len(args) \in Nat /\ r.options = AskedBy(args, n)
      /\ ~OperandAt(args, n + 1)
  <2>1. args \in Lines /\ n \in Nat
    BY DEF Run
  <2>2. Len(args) \in Nat
    BY <2>1 DEF Lines
  <2>3. QED
    BY <2>1, <2>2 DEF Between
<1>2. CASE args[n + 1] # "-o"
  <2>1. s.args = args /\ s.arg = n + 1 /\ s.options = Chosen(r.options, args[n + 1])
    BY <1>2 DEF Understood, Run
  <2> HIDE DEF s
  <2>2. ~OperandAt(args, (n + 1) + 1)
    BY <1>1, <1>2, OperandFollows
  <2>3. s.options = AskedBy(args, n + 1)
    BY <1>1, <1>2, <2>1, ChosenIsAsked
  <2>4. QED
    BY <1>1, <1>2, <2>1, <2>2, <2>3 DEF Between, s
<1>3. CASE args[n + 1] = "-o" /\ n + 1 < Len(args)
  <2>1. s.args = args /\ s.arg = n + 2 /\ s.options = [r.options EXCEPT !.output = args[n + 2]]
    BY <1>3 DEF Understood, Run
  <2> HIDE DEF s
  <2>2. n + 1 = 1 \/ args[(n + 1) - 1] # "-o" \/ OperandAt(args, (n + 1) - 1)
    BY <1>1, <1>3 DEF Between
  <2>3. OperandAt(args, (n + 1) + 1)
    BY <1>1, <1>3, <2>2, OperandFollows
  <2>4. ~OperandAt(args, (n + 2) + 1)
    BY <1>1, <2>3, OperandFollows
  <2>5. s.options = AskedBy(args, n + 2)
    BY <1>1, <1>3, <2>1, <2>3, OutputIsAsked
  <2>6. QED
    BY <1>1, <1>3, <2>1, <2>3, <2>4, <2>5 DEF Between, s
<1>4. CASE args[n + 1] = "-o" /\ ~(n + 1 < Len(args))
  <2>1. s.args = args /\ s.arg = n + 1 /\ s.options = r.options
    BY <1>4 DEF Understood, Run
  <2> HIDE DEF s
  <2>2. s.options = AskedBy(args, n + 1)
    BY <1>1, <1>4, <2>1, OutputIsAsked
  <2>3. n + 1 = Len(args)
    BY <1>1, <1>4
  <2>4. QED
    BY <1>1, <2>1, <2>2, <2>3 DEF Between, s
<1>5. QED
  BY <1>2, <1>3, <1>4
LEMMA DefaultsAsked ==
    ASSUME NEW args \in Lines
    PROVE  Between(Waiting(args)) /\ Between([Waiting(args) EXCEPT !.at = "exited"])
<1>1. ReadUpto(args, 0) = {} /\ InputsUpto(args, 0) = {} /\ LevelsUpto(args, 0) = {}
      /\ FlagsUpto(args, 0) = {} /\ 1..0 \ ReadUpto(args, 0) = {}
  BY DEF ReadUpto, InputsUpto, LevelsUpto, FlagsUpto
<1>2. LevelOf["-O0"] = 0
  BY DEF LevelOf
<1>3. AskedBy(args, 0) = Defaults
  BY <1>1, <1>2 DEF AskedBy, Defaults, LastGiven
<1>4. ~OperandAt(args, 1) /\ Len(args) \in Nat
  BY DEF OperandAt, Lines
<1>5. ASSUME NEW r, r.args = args, r.arg = 0, r.options = Defaults PROVE Between(r)
  BY <1>3, <1>4, <1>5 DEF Between
<1>6. /\ Waiting(args).args = args /\ Waiting(args).arg = 0 /\ Waiting(args).options = Defaults
      /\ [Waiting(args) EXCEPT !.at = "exited"].args = args
      /\ [Waiting(args) EXCEPT !.at = "exited"].arg = 0
      /\ [Waiting(args) EXCEPT !.at = "exited"].options = Defaults
  BY DEF Waiting
<1>7. QED
  BY <1>5, <1>6

LEMMA InitBetween == ASSUME Init, NEW p \in Processes PROVE Between(run[p])
<1> PICK s \in Scenarios :
       \E line \in [s.runs -> s.lines] :
           run = [q \in Processes |-> IF q \in s.runs THEN Waiting(line[q])
                                      ELSE [Waiting(<<>>) EXCEPT !.at = "exited"]]
  BY DEF Init
<1> PICK line \in [s.runs -> s.lines] :
       run = [q \in Processes |-> IF q \in s.runs THEN Waiting(line[q])
                                  ELSE [Waiting(<<>>) EXCEPT !.at = "exited"]]
  OBVIOUS
<1>1. CASE p \in s.runs
  <2>1. line[p] \in Lines /\ run[p] = Waiting(line[p])
    BY <1>1, ScenariosAssumption
  <2>2. QED
    BY <2>1, DefaultsAsked
<1>2. CASE p \notin s.runs
  BY <1>2, NoArguments, DefaultsAsked
<1>3. QED
  BY <1>1, <1>2

\* What a step may change of a command line and of what was understood of it.
SameArguments(s, r) == r.args = s.args /\ r.arg = s.arg /\ r.options = s.options

LEMMA ArgumentsKept ==
    ASSUME IInv, NEW p \in Processes, Step(p) \/ Kill(p), ~parseArguments(p), NEW q \in Processes
    PROVE  SameArguments(run[q], run'[q])
<1>1. run \in [Processes -> Run] /\ run[p] \in Run
  BY DEF IInv, TypeOK
<1>20. ASSUME NEW r, run' = [run EXCEPT ![p] = r], SameArguments(run[p], r)
      PROVE  SameArguments(run[q], run'[q])
  BY <1>1, <1>20 DEF SameArguments
<1>21. ASSUME NEW r, SameArguments(run[p], r), DOMAIN r = DOMAIN run[p],
             NEW f \in {"at", "program", "fault", "stage", "module", "warned", "object", "wrote",
                        "told", "delivered", "exit", "met"}, NEW v
      PROVE  /\ SameArguments(run[p], [r EXCEPT ![f] = v])
             /\ DOMAIN [r EXCEPT ![f] = v] = DOMAIN run[p]
  BY <1>21 DEF SameArguments
<1>22. SameArguments(run[p], run[p])
  BY DEF SameArguments
<1>2. ASSUME NEW at, Goto(p, at) PROVE SameArguments(run[q], run'[q])
  <2>1. SameArguments(run[p], [run[p] EXCEPT !.at = at])
    BY <1>21, <1>22
  <2>2. QED
    BY <1>2, <1>20, <2>1 DEF Goto
<1>3. ASSUME NEW how, Exit(p, how) PROVE SameArguments(run[q], run'[q])
  <2>1. SameArguments(run[p], [run[p] EXCEPT !.at = "exited", !.exit = how])
    BY <1>21, <1>22
  <2>2. QED
    BY <1>3, <1>20, <2>1 DEF Exit
<1>4. CASE Begin(p)
  <2>1. ASSUME NEW s \in Run, NEW M
        PROVE  SameArguments(s, [s EXCEPT !.met = M]) /\ SameArguments(s, [s EXCEPT !.at = "options", !.met = M])
    BY <2>1 DEF SameArguments, Run
  <2>2. run[q] \in Run
    BY <1>1
  <2>3. CASE q = p
    <3>1. run'[q] = [run[q] EXCEPT !.at = "options", !.met = {r \in Processes : Alive(r)}]
      BY <1>4, <2>3 DEF Begin
    <3>2. QED
      BY <2>1, <2>2, <3>1
  <2>4. CASE q # p /\ Alive(q)
    <3>1. run'[q] = [run[q] EXCEPT !.met = run[q].met \cup {p}]
      BY <1>4, <2>4 DEF Begin
    <3>2. QED
      BY <2>1, <2>2, <3>1
  <2>5. CASE q # p /\ ~Alive(q)
    <3>1. run'[q] = run[q]
      BY <1>4, <2>5 DEF Begin
    <3>2. QED
      BY <3>1 DEF SameArguments
  <2>6. QED
    BY <2>3, <2>4, <2>5
<1>5. CASE readFile(p)
  <2>1. ASSUME NEW o, NEW f, run' = [run EXCEPT ![p].at = "parse", ![p].program = o, ![p].fault = f] PROVE SameArguments(run[q], run'[q])
    <3>1. SameArguments(run[p], [run[p] EXCEPT !.at = "parse", !.program = o, !.fault = f])
      BY <1>21, <1>22
    <3>2. QED
      BY <1>1, <1>20, <2>1, <3>1
  <2>2. QED
    BY <1>3, <1>5, <2>1 DEF readFile
<1>6. CASE OptimizeStage(p)
  <2>1. ASSUME NEW s, NEW w, run' = [run EXCEPT ![p].stage = s, ![p].warned = w] PROVE SameArguments(run[q], run'[q])
    <3>1. SameArguments(run[p], [run[p] EXCEPT !.stage = s, !.warned = w])
      BY <1>21, <1>22
    <3>2. QED
      BY <1>1, <1>20, <2>1, <3>1
  <2>2. ASSUME NEW s, NEW m, run' = [run EXCEPT ![p].stage = s, ![p].module = m] PROVE SameArguments(run[q], run'[q])
    <3>1. SameArguments(run[p], [run[p] EXCEPT !.stage = s, !.module = m])
      BY <1>21, <1>22
    <3>2. QED
      BY <1>1, <1>20, <2>2, <3>1
  <2>3. QED
    BY <1>6, <2>1, <2>2 DEF OptimizeStage
<1>7. ASSUME NEW path, NEW message, NEW at, NEW exit, emitLLVMIR(p, path, message, at, exit)
      PROVE  SameArguments(run[q], run'[q])
  <2> DEFINE told == run[p].told \cup {message}
             done == [run[p] EXCEPT !.at = at, !.exit = exit, !.told = told]
  <2>1. SameArguments(run[p], done)
    BY <1>21, <1>22
  <2>2. \A w : SameArguments(run[p], [done EXCEPT !.wrote = w])
    BY <1>21, <1>22
  <2>3. \A w : SameArguments(run[p], [run[p] EXCEPT !.at = "exited", !.exit = "failure", !.wrote = w])
    BY <1>21, <1>22
  <2>4. \/ run' = [run EXCEPT ![p] = done]
        \/ \E w : run' = [run EXCEPT ![p] = [done EXCEPT !.wrote = w]]
        \/ \E w : run' = [run EXCEPT ![p] = [run[p] EXCEPT !.at = "exited", !.exit = "failure", !.wrote = w]]
    BY <1>1, <1>7 DEF emitLLVMIR
  <2> HIDE DEF done
  <2>5. QED
    BY <1>20, <2>1, <2>2, <2>3, <2>4
<1>8. CASE createDirectoryIfNeeded(p)
  <2>1. ASSUME NEW w, run' = [run EXCEPT ![p].at = "emit", ![p].wrote = w] PROVE SameArguments(run[q], run'[q])
    <3>1. SameArguments(run[p], [run[p] EXCEPT !.at = "emit", !.wrote = w])
      BY <1>21, <1>22
    <3>2. QED
      BY <1>1, <1>20, <2>1, <3>1
  <2>2. QED
    BY <1>2, <1>3, <1>8, <2>1 DEF createDirectoryIfNeeded
<1>9. CASE OpenObject(p)
  <2>1. ASSUME NEW w, run' = [run EXCEPT ![p].at = "writing", ![p].wrote = w] PROVE SameArguments(run[q], run'[q])
    <3>1. SameArguments(run[p], [run[p] EXCEPT !.at = "writing", !.wrote = w])
      BY <1>21, <1>22
    <3>2. QED
      BY <1>1, <1>20, <2>1, <3>1
  <2>2. ASSUME NEW w, run' = [run EXCEPT ![p].at = "exited", ![p].exit = "failure", ![p].wrote = w] PROVE SameArguments(run[q], run'[q])
    <3>1. SameArguments(run[p], [run[p] EXCEPT !.at = "exited", !.exit = "failure", !.wrote = w])
      BY <1>21, <1>22
    <3>2. QED
      BY <1>1, <1>20, <2>2, <3>1
  <2>3. QED
    BY <1>3, <1>9, <2>1, <2>2 DEF OpenObject
<1>10. CASE ReadObject(p)
  <2>1. ASSUME NEW o, run' = [run EXCEPT ![p].at = "linking", ![p].object = o] PROVE SameArguments(run[q], run'[q])
    <3>1. SameArguments(run[p], [run[p] EXCEPT !.at = "linking", !.object = o])
      BY <1>21, <1>22
    <3>2. QED
      BY <1>1, <1>20, <2>1, <3>1
  <2>2. QED
    BY <1>10, <2>1 DEF ReadObject
<1>11. CASE linkExecutable(p)
  <2>1. ASSUME NEW w, run' = [run EXCEPT ![p].at = "report", ![p].wrote = w] PROVE SameArguments(run[q], run'[q])
    <3>1. SameArguments(run[p], [run[p] EXCEPT !.at = "report", !.wrote = w])
      BY <1>21, <1>22
    <3>2. QED
      BY <1>1, <1>20, <2>1, <3>1
  <2>2. QED
    BY <1>3, <1>11, <2>1 DEF linkExecutable
<1>12. CASE Report(p)
  <2>1. ASSUME NEW t, NEW o, run' = [run EXCEPT ![p].at = "exited", ![p].exit = "success", ![p].told = t, ![p].delivered = o] PROVE SameArguments(run[q], run'[q])
    <3>1. SameArguments(run[p], [run[p] EXCEPT !.at = "exited", !.exit = "success", !.told = t, !.delivered = o])
      BY <1>21, <1>22
    <3>2. QED
      BY <1>1, <1>20, <2>1, <3>1
  <2>2. QED
    BY <1>12, <2>1 DEF Report
<1>13. CASE WriteObject(p) \/ CheckOptions(p) \/ Parse(p) \/ Analyze(p) \/ Generate(p)
            \/ Optimized(p) \/ VerifyIR(p) \/ Kill(p)
  BY <1>2, <1>3, <1>13 DEF WriteObject, CheckOptions, Parse, Analyze, Generate, Optimized, VerifyIR, Kill
<1>14. CASE EmitOptimizedIR(p) \/ Emit(p)
  BY <1>2, <1>3, <1>7, <1>14 DEF EmitOptimizedIR, Emit
<1>15. QED
  BY <1>4, <1>5, <1>6, <1>8, <1>9, <1>10, <1>11, <1>12, <1>13, <1>14 DEF Step

ArgumentsSound == \A p \in Processes : Between(run[p])

LEMMA NextArguments == ASSUME IInv, ArgumentsSound, [Next]_vars PROVE ArgumentsSound'
<1>1. run \in [Processes -> Run]
  BY DEF IInv, TypeOK
<1>2. ASSUME NEW q \in Processes, SameArguments(run[q], run'[q]) PROVE Between(run[q])'
  BY <1>2 DEF SameArguments, ArgumentsSound, Between
<1>3. CASE UNCHANGED vars
  BY <1>2, <1>3 DEF ArgumentsSound, SameArguments, vars
<1>4. ASSUME NEW p \in Processes, parseArguments(p), NEW q \in Processes PROVE Between(run[q])'
  <2>1. CASE q = p
    <3>1. run'[p] = Understood(run[p], run[p].args[run[p].arg + 1]) /\ run[p] \in Run
          /\ run[p].arg < Len(run[p].args)
      BY <1>1, <1>4 DEF parseArguments
    <3>2. Between(Understood(run[p], run[p].args[run[p].arg + 1]))
      BY <3>1, UnderstoodBetween DEF ArgumentsSound
    <3>3. QED
      BY <2>1, <3>1, <3>2 DEF Between
  <2>2. CASE q # p
    <3>1. run'[q] = run[q]
      BY <1>1, <1>4, <2>2 DEF parseArguments
    <3>2. QED
      BY <1>2, <3>1 DEF SameArguments
  <2>3. QED
    BY <2>1, <2>2
<1>5. ASSUME NEW p \in Processes, Step(p) \/ Kill(p), ~parseArguments(p) PROVE ArgumentsSound'
  BY <1>2, <1>5, ArgumentsKept DEF ArgumentsSound
<1>6. QED
  BY <1>3, <1>4, <1>5 DEF Next, Finished, ArgumentsSound

\* parseArguments makes of every command line, however long, what its usage says
\* (main.cpp:53, 81-129).
THEOREM ArgumentsUnderstoodHolds == Spec => []ArgumentsUnderstood
<1>1. Init => ArgumentsSound
  BY InitBetween DEF ArgumentsSound
<1>2. IInv /\ ArgumentsSound /\ [Next]_vars => ArgumentsSound'
  BY NextArguments
<1>3. ASSUME IInv, ArgumentsSound PROVE ArgumentsUnderstood
  <2> SUFFICES ASSUME NEW p \in Processes, run[p].arg = Len(run[p].args)
               PROVE  run[p].options =
                          LET args == run[p].args
                              Operand(i) == \E j \in 1..(i - 1) :
                                                /\ \A k \in j..(i - 1) : args[k] = "-o"
                                                /\ j = 1 \/ args[j - 1] # "-o"
                                                /\ (i - j) % 2 = 1
                              Read == {i \in DOMAIN args : ~Operand(i)}
                          IN  [input  |-> LastGiven({i \in Read : args[i] \in FileNames}, args, ""),
                               output |-> LastGiven(DOMAIN args \ Read, args, "output"),
                               level  |-> LevelOf[LastGiven({i \in Read : args[i] \in DOMAIN LevelOf}, args, "-O0")],
                               flags  |-> {args[i] : i \in Read} \cap Flags]
    BY DEF ArgumentsUnderstood, LastGiven
  <2>1. run[p].args \in Lines
    BY <1>3 DEF IInv, TypeOK, Run
  <2>2. DOMAIN run[p].args = 1..Len(run[p].args)
    BY <2>1 DEF Lines
  <2>3. run[p].options = AskedBy(run[p].args, Len(run[p].args))
    BY <1>3 DEF ArgumentsSound, Between
  <2>4. QED
    BY <2>2, <2>3 DEF AskedBy, ReadUpto, InputsUpto, LevelsUpto, FlagsUpto, OperandAt
<1>4. QED
  BY <1>1, <1>2, <1>3, Invariant, PTL DEF Spec
=============================================================================
