------------------------------ MODULE MCDriver ------------------------------
(* The driver in three scenarios: any command line where all goes well, the   *)
(* command lines of a user where anything fails, and two runs side by side.   *)
EXTENDS Driver

\* The driver appends the suffix to the name.
Appended == [path \in Names \X Endings |-> path[1] \o path[2]]

MaxArgs == 4        \* arguments of the command line that can be anything

\* An argument of each kind.
Arguments == {"a.xyp", "bin/app", "-o", "-O2", "--legacy-opt", "--emit-opt-ir", "--emit-llvm"}

\* An option more or less.
Maybe(args) == {<<>>, args}

UsersLines ==
    {<<"a.xyp">> \o level \o mode \o check \o legacy \o out :
        level \in Maybe(<<"-O2">>),
        mode \in {<<>>, <<"--emit-opt-ir">>, <<"--emit-llvm">>, <<"--check-syntax">>},
        check \in Maybe(<<"--verify-ir">>),
        legacy \in Maybe(<<"--legacy-opt">>),
        out \in Maybe(<<"-o", "bin/app">>)}

SideBySide ==
    {<<source>> \o out : source \in {"a.xyp", "b.xyp"},
                        out \in {<<>>, <<"-o", "output.o">>, <<"-o", "a.xyp">>, <<"-o", "bin/app">>}}

DriverScenarios ==
    {[runs |-> {"p"}, lines |-> SeqOf(Arguments, MaxArgs),
      sources |-> {"a.xyp"}, faults |-> {"none"}, failures |-> {}],
     [runs |-> {"p"}, lines |-> UsersLines,
      sources |-> {"a.xyp"}, faults |-> AllFaults, failures |-> AllFailures],
     [runs |-> {"p", "q"}, lines |-> SideBySide,
      sources |-> {"a.xyp", "b.xyp"}, faults |-> {"none", "noMain"},
      failures |-> {"link", "kill"}]}
=============================================================================
