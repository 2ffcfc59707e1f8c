------------------------------ MODULE MapSpec ------------------------------
(***************************************************************************)
(* What the functions that std/include/xystd.h:112-123 declares promise of *)
(* a hash map: a finite map from keys to values, operations that are       *)
(* atomic, and answers that agree with it.  Memory may run out, and then   *)
(* an operation that allocates answers so and changes nothing.             *)
(***************************************************************************)
EXTENDS Integers, FiniteSets

CONSTANTS
    Keys,           \* key strings
    Values,         \* values other than the null pointer
    Null,           \* the null pointer
    Missing         \* no value: distinct from a null value

VARIABLES
    exists,         \* the map has been created and not destroyed
    dict,           \* what it holds
    answer          \* what the last operation answered, until the next begins

vars == <<exists, dict, answer>>

Empty == [k \in Keys |-> Missing]
Has(k) == dict[k] # Missing
Held == {k \in Keys : Has(k)}

NoAnswer == [op |-> "none", key |-> Null, res |-> Null, keys |-> {}]

Says(op, k, res, keys) == answer' = [op |-> op, key |-> k, res |-> res, keys |-> keys]

Init ==
    /\ exists = FALSE
    /\ dict = Empty
    /\ answer = NoAnswer

\* A call begins: the last answer is gone.
Call ==
    /\ exists
    /\ answer' = NoAnswer
    /\ UNCHANGED <<exists, dict>>

Create ==
    /\ ~exists
    /\ exists' \in BOOLEAN      \* or memory has run out
    /\ Says("create", Null, IF exists' THEN 1 ELSE Null, {})
    /\ UNCHANGED dict

Insert(k, v) ==
    /\ exists
    /\ dict' = [dict EXCEPT ![k] = v]
    /\ Says("insert", k, 1, {})
    /\ UNCHANGED exists

\* Memory has run out: the old value of the key is still there.
InsertFails(k) ==
    /\ exists
    /\ Says("insert", k, 0, {})
    /\ UNCHANGED <<exists, dict>>

Get(k) ==
    /\ exists
    /\ Says("get", k, IF Has(k) THEN dict[k] ELSE Null, {})
    /\ UNCHANGED <<exists, dict>>

Contains(k) ==
    /\ exists
    /\ Says("contains", k, IF Has(k) THEN 1 ELSE 0, {})
    /\ UNCHANGED <<exists, dict>>

Remove(k) ==
    /\ exists
    /\ dict' = [dict EXCEPT ![k] = Missing]
    /\ Says("remove", k, IF Has(k) THEN 1 ELSE 0, {})
    /\ UNCHANGED exists

Size ==
    /\ exists
    /\ Says("size", Null, Cardinality(Held), {})
    /\ UNCHANGED <<exists, dict>>

\* The keys, or none if memory has run out.
ListKeys ==
    /\ exists
    /\ \/ Says("keys", Null, Cardinality(Held), Held)
       \/ Says("keys", Null, 0, {})
    /\ UNCHANGED <<exists, dict>>

Clear ==
    /\ exists
    /\ dict' = Empty
    /\ answer' = NoAnswer
    /\ UNCHANGED exists

Destroy ==
    /\ exists
    /\ exists' = FALSE
    /\ dict' = Empty
    /\ answer' = NoAnswer

\* A call with a null map or a null key answers 0 or null.
NullCall ==
    /\ \E op \in {"insert", "remove", "contains", "size", "keys"} : Says(op, Null, 0, {})
       \/ Says("get", Null, Null, {})
    /\ UNCHANGED <<exists, dict>>

Next ==
    \/ Create \/ Call
    \/ \E k \in Keys : \/ \E v \in Values \cup {Null} : Insert(k, v)
                       \/ InsertFails(k)
                       \/ Get(k)
                       \/ Contains(k)
                       \/ Remove(k)
    \/ Size \/ ListKeys
    \/ Clear \/ Destroy
    \/ NullCall

Spec == Init /\ [][Next]_vars
=============================================================================
