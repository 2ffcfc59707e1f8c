------------------------------ MODULE Optimizer ------------------------------
(***************************************************************************)
(* The two pipelines of src/backend/Optimizer.cpp as lists of stages.  A   *)
(* pass of LLVM is opaque: what matters here is which stages a level runs, *)
(* in which order, and where the module is verified.                       *)
(***************************************************************************)
EXTENDS Naturals, Sequences

\* OptimizationLevel: None, O1, O2, O3, Os and Oz.  The driver casts any number
\* to it, 9 among them, and the comparisons are those of the numbers.
Levels == 0..9

\* Stages <<s>> when the level asks for them.
If(asked, stages) == IF asked THEN stages ELSE <<>>

UnverifiedAtTheEnd(level) ==
    If(level # 0, <<"verify", "early">> \o If(level >= 2, <<"o2">>) \o <<"late">>
                  \o If(level >= 2, <<"module">>))

\* optimizeWithPipeline.  The loop stages and the vectorizer are asked for with
\* level >= O3, which Os and Oz satisfy; the module passes are added at O2 and
\* run last.
optimizeWithPipeline(level) ==
    If(level # 0,
       <<"verify", "early">>
       \o If(level >= 1, <<"mid">>)
       \o If(level >= 2, <<"o2">>)
       \o If(level >= 3, <<"loops", "vectorize", "cleanup">>)
       \o If(level \in {4, 5}, <<"size">>)
       \o <<"late">>
       \o If(level >= 2, <<"module">>)
       \o <<"verify">>)

\* optimize, the legacy pipeline: the default of LLVM for the levels that it
\* names, nothing for another, and no verification.
optimize(level) == If(level \in 1..5, <<"default">>)
=============================================================================
