------------------------------ MODULE MCBodies ------------------------------
(* Bodies of functions, twice: what the two phases make of their types, and   *)
(* with words of a few bits what they compute.  What the generator makes of a *)
(* value's type does not depend on its bits, nor its bits on the type beyond  *)
(* the width: a behaviour is one of either.                                   *)
EXTENDS Types

CONSTANTS Variables, ValueTypes, W32, W64, MaxLiteral   \* those of Values

ASSUME ValueTypesAssumption ==
    {"i32", "bool"} \subseteq ValueTypes /\ ValueTypes \subseteq {"i32", "u32", "i64", "bool"}
ASSUME WidthsAssumption ==
    W32 \in Nat \ {0, 1} /\ W64 \in Nat /\ W32 < W64 /\ MaxLiteral \in Nat

VARIABLES held, words, said, gone

V == INSTANCE Values WITH
        Names <- Variables, Types <- ValueTypes, locals <- held, values <- words, left <- gone

computed == <<held, words, said, gone>>

\* A body without parameters of which nothing was visited.
NoBody ==
    /\ locals = [x \in Names |-> Undeclared] /\ returns = CHOOSE t \in Written : TRUE
    /\ values = <<>> /\ Accepted /\ store = NoStore /\ plain

Start == Init /\ V!Init

OfTypes == V!Init /\ Next /\ UNCHANGED computed
OfValues == NoBody /\ V!Next /\ UNCHANGED vars

Computing == Start /\ [][OfTypes \/ OfValues]_<<vars, computed>>

-----------------------------------------------------------------------------
(* What integers and bools hold is what the program means.                    *)
IntegersExact == V!IntegersExact

(* say prints the integer that it is given, if an int can hold it.            *)
SaysInts == V!SaysInts
=============================================================================
