------------------------------- MODULE Library -------------------------------
(***************************************************************************)
(* The library as three parts of the compiler know it: its types in        *)
(* ModuleRegistry.cpp, its signatures in declareBuiltins and               *)
(* declareModuleFunctions of CodeGenerator.cpp, and xystd.h itself; with   *)
(* the imports that bring it in, the calls, and the linker that binds what *)
(* is called by its name.                                                  *)
(*                                                                         *)
(* A program is a sequence of imports, functions of its own and calls; a   *)
(* signature is over LLVM's types, those of C among them by their width.   *)
(***************************************************************************)
EXTENDS Naturals, Sequences, SequencesExt

CONSTANTS
    Imports,    \* what is written after import: modules of the library, or others
    UserNames,  \* the names that a program gives to functions
    ArgTypes,   \* types of arguments, of "i32", "i64", "double", "ptr" and, for an
                \* expression without a value, "none"
    MaxArgs

\* A table of rows <<names, what they all have>> as a function of the names.
Table(rows) == [n \in UNION {r[1] : r \in rows} |-> (CHOOSE r \in rows : n \in r[1])[2]]

Returns(type, params) == [ret |-> type, params |-> params]

OneReal == {"xy_sqrt", "xy_sin", "xy_cos", "xy_tan", "xy_abs_f64", "xy_floor", "xy_ceil", "xy_round"}
TwoReals == {"xy_pow", "xy_min_f64", "xy_max_f64"}
Clocks == {"xy_time_ns", "xy_time_us", "xy_time_ms", "xy_time_s"}

-----------------------------------------------------------------------------
(* ModuleRegistry: the functions of each module, and their types *)

Say == {"xy_say_i32", "xy_say_i64", "xy_say_f32", "xy_say_f64", "xy_say_str", "xy_say_bool",
        "xy_say_char", "xy_say_newline"}
Modules == Table(
    {<<{"core"}, Say \cup {"xy_grab_i32", "xy_grab_i64", "xy_grab_str"}>>,
     <<{"math"}, OneReal \cup TwoReals \cup {"xy_abs_i32", "xy_min_i32", "xy_max_i32"}>>,
     <<{"string"}, {"xy_strlen", "xy_strcat", "xy_strcmp"}>>,
     <<{"hashmap"}, {"xy_hashmap_create", "xy_hashmap_destroy", "xy_hashmap_insert",
                     "xy_hashmap_get", "xy_hashmap_remove", "xy_hashmap_contains",
                     "xy_hashmap_size", "xy_hashmap_clear"}>>,
     <<{"time"}, Clocks \cup {"xy_sleep_ms"}>>,
     <<{"memory"}, {"xy_alloc", "xy_free"}>>})

Registered == Table(
    {<<Say \cup {"xy_sleep_ms", "xy_alloc", "xy_free", "xy_hashmap_create", "xy_hashmap_destroy",
                 "xy_hashmap_get", "xy_hashmap_clear"}, "void">>,
     <<{"xy_grab_i32", "xy_abs_i32", "xy_min_i32", "xy_max_i32", "xy_strcmp", "xy_hashmap_insert",
        "xy_hashmap_remove", "xy_hashmap_contains"}, "i32">>,
     <<Clocks \cup {"xy_grab_i64", "xy_strlen", "xy_hashmap_size"}, "i64">>,
     <<OneReal \cup TwoReals, "f64">>,
     <<{"xy_grab_str", "xy_strcat"}, "str">>})

(* CodeGenerator: the signatures it declares *)

Declared == Table(
    {<<{"xy_say_i32", "xy_say_bool", "xy_sleep_ms"}, Returns("void", <<"i32">>)>>,
     <<{"xy_say_i64"}, Returns("void", <<"i64">>)>>,
     <<{"xy_say_f32"}, Returns("void", <<"float">>)>>,
     <<{"xy_say_f64"}, Returns("void", <<"double">>)>>,
     <<{"xy_say_str", "xy_free", "xy_hashmap_destroy", "xy_hashmap_clear"},
       Returns("void", <<"ptr">>)>>,
     <<{"xy_say_char"}, Returns("void", <<"i8">>)>>,
     <<{"xy_say_newline"}, Returns("void", <<>>)>>,
     <<{"xy_grab_i32"}, Returns("i32", <<>>)>>,
     <<Clocks \cup {"xy_grab_i64"}, Returns("i64", <<>>)>>,
     <<{"xy_grab_str"}, Returns("ptr", <<>>)>>,
     <<OneReal, Returns("double", <<"double">>)>>,
     <<TwoReals, Returns("double", <<"double", "double">>)>>,
     <<{"xy_abs_i32"}, Returns("i32", <<"i32">>)>>,
     <<{"xy_min_i32", "xy_max_i32"}, Returns("i32", <<"i32", "i32">>)>>,
     <<{"xy_strlen", "xy_hashmap_size"}, Returns("i64", <<"ptr">>)>>,
     <<{"xy_strcat", "xy_hashmap_get"}, Returns("ptr", <<"ptr", "ptr">>)>>,
     <<{"xy_strcmp", "xy_hashmap_remove", "xy_hashmap_contains"}, Returns("i32", <<"ptr", "ptr">>)>>,
     <<{"xy_hashmap_create", "xy_alloc"}, Returns("ptr", <<"i64">>)>>,
     <<{"xy_hashmap_insert"}, Returns("i32", <<"ptr", "ptr", "ptr">>)>>})

(* xystd.h: what the library exports, written function by function *)

Exported == Table(
    {<<{"xy_say_i32"}, Returns("void", <<"i32">>)>>, <<{"xy_say_i64"}, Returns("void", <<"i64">>)>>,
     <<{"xy_say_f32"}, Returns("void", <<"float">>)>>, <<{"xy_say_f64"}, Returns("void", <<"double">>)>>,
     <<{"xy_say_str"}, Returns("void", <<"ptr">>)>>, <<{"xy_say_bool"}, Returns("void", <<"i32">>)>>,
     <<{"xy_say_char"}, Returns("void", <<"i8">>)>>, <<{"xy_say_newline"}, Returns("void", <<>>)>>,
     <<{"xy_grab_i32"}, Returns("i32", <<>>)>>, <<{"xy_grab_i64"}, Returns("i64", <<>>)>>,
     <<{"xy_grab_f32"}, Returns("float", <<>>)>>, <<{"xy_grab_f64"}, Returns("double", <<>>)>>,
     <<{"xy_grab_str"}, Returns("ptr", <<>>)>>,
     <<{"xy_alloc"}, Returns("ptr", <<"i64">>)>>, <<{"xy_free"}, Returns("void", <<"ptr">>)>>,
     <<{"xy_realloc"}, Returns("ptr", <<"ptr", "i64">>)>>,
     <<{"xy_strlen"}, Returns("i64", <<"ptr">>)>>, <<{"xy_strcat"}, Returns("ptr", <<"ptr", "ptr">>)>>,
     <<{"xy_strcmp"}, Returns("i32", <<"ptr", "ptr">>)>>, <<{"xy_strcpy"}, Returns("ptr", <<"ptr", "ptr">>)>>,
     <<{"xy_sqrt", "xy_sin", "xy_cos", "xy_tan", "xy_abs_f64", "xy_floor", "xy_ceil", "xy_round"},
       Returns("double", <<"double">>)>>,
     <<{"xy_pow", "xy_min_f64", "xy_max_f64"}, Returns("double", <<"double", "double">>)>>,
     <<{"xy_abs_i32"}, Returns("i32", <<"i32">>)>>,
     <<{"xy_min_i32", "xy_max_i32"}, Returns("i32", <<"i32", "i32">>)>>,
     <<{"xy_array_fill_i32"}, Returns("void", <<"ptr", "i64", "i32">>)>>,
     <<{"xy_array_copy_i32"}, Returns("void", <<"ptr", "ptr", "i64">>)>>,
     <<{"xy_array_sum_i32", "xy_array_min_i32", "xy_array_max_i32"}, Returns("i32", <<"ptr", "i64">>)>>,
     <<{"xy_file_open"}, Returns("ptr", <<"ptr", "ptr">>)>>, <<{"xy_file_close"}, Returns("void", <<"ptr">>)>>,
     <<{"xy_file_read", "xy_file_write"}, Returns("i64", <<"ptr", "ptr", "i64">>)>>,
     <<{"xy_file_read_all"}, Returns("ptr", <<"ptr">>)>>,
     <<{"xy_time_ns", "xy_time_us", "xy_time_ms", "xy_time_s"}, Returns("i64", <<>>)>>,
     <<{"xy_sleep_ms", "xy_sleep_s"}, Returns("void", <<"i32">>)>>,
     <<{"xy_hashmap_create"}, Returns("ptr", <<"i64">>)>>, <<{"xy_hashmap_destroy"}, Returns("void", <<"ptr">>)>>,
     <<{"xy_hashmap_insert"}, Returns("i32", <<"ptr", "ptr", "ptr">>)>>,
     <<{"xy_hashmap_get"}, Returns("ptr", <<"ptr", "ptr">>)>>,
     <<{"xy_hashmap_remove", "xy_hashmap_contains"}, Returns("i32", <<"ptr", "ptr">>)>>,
     <<{"xy_hashmap_size"}, Returns("i64", <<"ptr">>)>>, <<{"xy_hashmap_clear"}, Returns("void", <<"ptr">>)>>,
     <<{"xy_hashmap_keys"}, Returns("ptr", <<"ptr", "ptr">>)>>,
     <<{"xy_hashmap_free_keys"}, Returns("void", <<"ptr">>)>>})

-----------------------------------------------------------------------------
Names == (UNION {Modules[m] : m \in DOMAIN Modules}) \cup UserNames \cup DOMAIN Exported
LlvmTypes == {"void", "i8", "i32", "i64", "float", "double", "ptr"}

VARIABLES
    symbols,    \* the analyzer's functions: a type, or "undeclared"
    imported,   \* importedModules_ of the generator
    functions,  \* what the module's function table has at a name: "none", "library", "user"
    errors,     \* an error was reported
    call        \* the last call that was accepted: its function, its arguments as
                \* they are passed, and its type in the analyzer and in LLVM

vars == <<symbols, imported, functions, errors, call>>

NoCall == [name |-> "none", bound |-> "none", passed |-> <<>>, type |-> "void", value |-> "void"]

Init ==
    /\ symbols = [n \in Names |-> IF n \in Modules["core"] THEN Registered[n] ELSE "undeclared"]
    /\ imported = {}
    /\ functions = [n \in Names |-> IF n \in Modules["core"] THEN "library" ELSE "none"]
    /\ errors = FALSE /\ call = NoCall

\* getLLVMType on the types that functions have here.
LlvmType(type) == CASE type = "f64" -> "double" [] type = "str" -> "ptr" [] OTHER -> type

\* The symbols of the analyzer after an import: what is declared is passed over.
Registering(m) ==
    [n \in Names |-> IF n \in Modules[m] /\ symbols[n] = "undeclared"
                     THEN Registered[n] ELSE symbols[n]]

\* The functions of the generator: a name that is taken gets a new one from LLVM,
\* under which nobody calls it.
Declaring(m) ==
    [n \in Names |-> IF /\ m \notin imported /\ n \in Modules[m]
                        /\ n \in DOMAIN Declared /\ functions[n] = "none"
                     THEN "library" ELSE functions[n]]

\* Import of module m from source.
ImportDecl(m, source) ==
    /\ IF source = "xystd" /\ m \in DOMAIN Modules
       THEN /\ symbols' = Registering(m)
            /\ imported' = imported \cup {m}
            /\ functions' = Declaring(m)
            /\ UNCHANGED errors
       ELSE errors' = TRUE /\ UNCHANGED <<symbols, imported, functions>>
    /\ call' = NoCall

\* A function of the program, of type void here and without parameters.
FuncDecl(n) ==
    /\ IF symbols[n] = "undeclared"
       THEN /\ symbols' = [symbols EXCEPT ![n] = "void"]
            /\ functions' = [functions EXCEPT ![n] = IF @ = "none" THEN "user" ELSE @]
            /\ UNCHANGED errors
       ELSE errors' = TRUE /\ UNCHANGED <<symbols, functions>>
    /\ UNCHANGED imported
    /\ call' = NoCall

SleepTakesLongs(n) ==
    IF functions[n] = "user" THEN Returns("void", <<>>)
    ELSE IF n = "xy_sleep_ms" THEN Returns("void", <<"i64">>) ELSE Declared[n]

Signature(n) == IF functions[n] = "user" THEN Returns("void", <<>>) ELSE Declared[n]

\* An argument without a value is left out; an i32 for an i64 is extended.
Passed(n, args) ==
    LET given == SelectSeq(args, LAMBDA t : t # "none") IN
    [i \in DOMAIN given |->
        IF i <= Len(Signature(n).params) /\ Signature(n).params[i] = "i64" /\ given[i] = "i32"
        THEN "i64" ELSE given[i]]

\* LLVM's verifier, on the call; it knows no value of type void.
Verified(n, passed) == passed = Signature(n).params

CallExpr(n, args) ==
    IF symbols[n] = "undeclared" \/ functions[n] = "none" \/ ~Verified(n, Passed(n, args))
    THEN errors' = TRUE /\ call' = NoCall /\ UNCHANGED <<symbols, imported, functions>>
    ELSE /\ call' = [name |-> n, bound |-> functions[n], passed |-> Passed(n, args),
                     type |-> symbols[n], value |-> Signature(n).ret]
         /\ UNCHANGED <<symbols, imported, functions, errors>>

Next ==
    /\ ~errors
    /\ \/ \E m \in Imports, source \in {"xystd", "other"} : ImportDecl(m, source)
       \/ \E n \in UserNames : FuncDecl(n)
       \/ /\ call = NoCall     \* a call changes nothing that another would see
          /\ \E n \in Names, args \in SeqOf(ArgTypes, MaxArgs) : CallExpr(n, args)

Spec == Init /\ [][Next]_vars

-----------------------------------------------------------------------------
TypeOK ==
    /\ symbols \in [Names -> {"undeclared", "void", "i32", "i64", "f64", "str"}]
    /\ imported \subseteq DOMAIN Modules
    /\ functions \in [Names -> {"none", "library", "user"}]
    /\ errors \in BOOLEAN
    /\ call \in [name : Names \cup {"none"}, bound : {"none", "library", "user"},
                 passed : Seq(LlvmTypes), type : {"void", "i32", "i64", "f64", "str"},
                 value : LlvmTypes]

(* A function that the analyzer knows after any imports, in any order and again *)
(* and again, is one that the generator can call, of the same origin: the       *)
(* registry has no entry that declareModuleFunctions forgot                     *)
(* (ModuleRegistry.cpp:13-66, CodeGenerator.cpp:98-231).                        *)
OfferedIsDeclared ==
    ~errors => \A n \in Names : symbols[n] # "undeclared" <=> functions[n] # "none"

(* A call that is accepted and bound to the library passes what the C function  *)
(* reads, one by one and of the same width, and takes what it returns: the      *)
(* linker, which knows names alone, would bind any (xystd.h:25-123).            *)
CallsFit ==
    call.bound = "library" =>
        /\ call.name \in DOMAIN Exported
        /\ call.passed = Exported[call.name].params
        /\ call.value = Exported[call.name].ret

(* The type that the analyzer gives to such a call is that of the value that     *)
(* there is; pointers to maps and memory have no type in the language, and are  *)
(* registered as void (ModuleRegistry.cpp:49-52, 66).                           *)
ResultsAgree ==
    call.bound = "library" /\ ~(call.type = "void" /\ call.value = "ptr")
        => LlvmType(call.type) = call.value

(* The three accounts of the library agree: what is offered is declared, and    *)
(* calls pass and take what the C functions do.                                 *)
SignaturesAgree == TypeOK /\ OfferedIsDeclared /\ CallsFit /\ ResultsAgree
=============================================================================
