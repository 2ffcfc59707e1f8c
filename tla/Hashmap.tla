------------------------------ MODULE Hashmap ------------------------------
(***************************************************************************)
(* The chained hash map of the standard library (std/src/hashmap.c), at    *)
(* the level of its pointers.                                              *)
(*                                                                         *)
(* One map, one caller.  A call begins when the map is idle; each          *)
(* iteration of its loops is a step, and the C locals of the call live in  *)
(* `frame`.  An entry is an address: malloc hands out any address that is  *)
(* free, an address that was freed included, or none at all.               *)
(***************************************************************************)
EXTENDS Integers, Sequences, FiniteSets

CONSTANTS
    Keys,               \* key strings
    Values,             \* values other than the null pointer
    Entries,            \* addresses of xy_hashmap_entry: the memory there is
    Capacities,         \* what xy_hashmap_create is asked for; 0 for the default
    InitialCapacity,    \* HASHMAP_INITIAL_CAPACITY
    Hash,               \* the hash of a key, before it is reduced to an index
    Null,
    Missing

ASSUME CapacitiesAssumption ==
    Capacities \subseteq Nat /\ InitialCapacity \in Nat \ {0}

ASSUME EntriesAssumption == IsFiniteSet(Entries)

ASSUME HashAssumption == Hash \in [Keys -> Nat]

ASSUME NullAssumption ==
    /\ Null \notin Keys \cup Values \cup Entries \cup Int
    /\ Missing \notin Values \cup {Null}

VARIABLES
    exists,     \* the caller has a map
    capacity,   \* the fields of struct xy_hashmap
    size,
    threshold,
    buckets,
    old,        \* old_buckets, while the table is resized
    heap,       \* what each entry holds; a free one holds FreeCell
    frame,      \* the call in progress
    answer      \* what the last call answered, until the next one begins

vars == <<exists, capacity, size, threshold, buckets, old, heap, frame, answer>>
mapFields == <<exists, capacity, size, threshold, buckets, old>>

Pointer == Entries \cup {Null}
Cell == [key : Keys \cup {Null}, value : Values \cup {Null}, next : Pointer]
FreeCell == [key |-> Null, value |-> Null, next |-> Null]
Live == {e \in Entries : heap[e].key # Null}

\* A call: the operation, its arguments, where it is, and its local variables.
\* `entry` and `prev` walk the chains, `i` the buckets; `keys` is the array that xy_hashmap_keys fills.
Frame == [at    : {"idle", "grow", "resize", "search", "free", "collect"},
          op    : {"none", "insert", "get", "remove", "contains", "clear", "destroy", "keys"},
          key   : Keys \cup {Null},
          value : Values \cup {Null},
          i     : Nat,
          entry : Pointer,
          prev  : Pointer,
          keys  : Seq(Entries)]

NoTable == [i \in {} |-> Null]
Idle == [at |-> "idle", op |-> "none", key |-> Null, value |-> Null, i |-> 0,
         entry |-> Null, prev |-> Null, keys |-> <<>>]

-----------------------------------------------------------------------------
(* The table *)

\* hash_string: where in a table of cap buckets the chain of k is.
Index(k, cap) == Hash[k] % cap

\* HASHMAP_LOAD_FACTOR of the capacity, truncated.
Threshold(cap) == (3 * cap) \div 4

\* calloc
Table(cap) == [i \in 0..(cap - 1) |-> Null]

\* The lookup of a key in the present table: its chain from the start.
Search(op, k, v) == [Idle EXCEPT !.at = "search", !.op = op, !.key = k, !.value = v,
                                 !.entry = buckets[Index(k, capacity)]]

\* The entry in hand has the key that is looked for.
Matches == frame.entry # Null /\ heap[frame.entry].key = frame.key

\* The table must grow before an insertion.
Full == size >= threshold

Counted(s) == s + 1

NoAnswer == [op |-> "none", key |-> Null, res |-> Null, keys |-> {}]

Answers(res) ==
    /\ answer' = [op |-> frame.op, key |-> frame.key, res |-> res, keys |-> {}]
    /\ frame' = Idle

-----------------------------------------------------------------------------
Init ==
    /\ exists = FALSE
    /\ capacity = 0 /\ size = 0 /\ threshold = 0
    /\ buckets = NoTable /\ old = NoTable
    /\ heap = [e \in Entries |-> FreeCell]
    /\ frame = Idle
    /\ answer = NoAnswer

Ready == frame.at = "idle" /\ exists

\* A call with a null map or a null key.
NullCall ==
    /\ frame.at = "idle"
    /\ \E op \in {"insert", "get", "remove", "contains", "size", "keys"} :
          /\ op \in {"size", "keys"} => ~exists
          /\ answer' = [op |-> op, key |-> Null, keys |-> {},
                        res |-> IF op = "get" THEN Null ELSE 0]
    /\ UNCHANGED <<mapFields, heap, frame>>

Create(c) ==
    /\ frame.at = "idle" /\ ~exists
    /\ LET cap == IF c = 0 THEN InitialCapacity ELSE c
       IN /\ capacity' = cap
          /\ threshold' = Threshold(cap)
          /\ buckets' = Table(cap)
    /\ size' = 0
    /\ exists' = TRUE
    /\ answer' = [op |-> "create", key |-> Null, res |-> 1, keys |-> {}]
    /\ UNCHANGED <<old, heap, frame>>

CreateFails ==
    /\ frame.at = "idle" /\ ~exists
    /\ answer' = [op |-> "create", key |-> Null, res |-> Null, keys |-> {}]
    /\ UNCHANGED <<mapFields, heap, frame>>

\* xy_hashmap_size
Size ==
    /\ Ready
    /\ answer' = [op |-> "size", key |-> Null, res |-> size, keys |-> {}]
    /\ UNCHANGED <<mapFields, heap, frame>>

-----------------------------------------------------------------------------
(* Insertion *)

\* The table grows first if it is full, even if the key is there already.
Insert(k, v) ==
    /\ Ready
    /\ frame' = IF Full
                THEN [Idle EXCEPT !.at = "grow", !.op = "insert", !.key = k, !.value = v]
                ELSE Search("insert", k, v)
    /\ answer' = NoAnswer
    /\ UNCHANGED <<mapFields, heap>>

\* resize_hashmap, up to the loop over the old buckets.
Grow ==
    /\ frame.at = "grow"
    /\ capacity' = 2 * capacity
    /\ threshold' = Threshold(2 * capacity)
    /\ buckets' = Table(2 * capacity)
    /\ size' = 0
    /\ frame' = [frame EXCEPT !.at = "resize", !.entry = buckets[0]]
    /\ old' = buckets
    /\ UNCHANGED <<exists, heap, answer>>

GrowFails ==
    /\ frame.at = "grow"
    /\ Answers(0)
    /\ UNCHANGED <<mapFields, heap>>

RestAfter(e) == buckets[Index(heap[e].key, capacity)]

\* The entry that the inner loop goes on with, read before the entry is moved.
Rest(e) == heap[e].next

FreedIfSecond(e, index) ==
    [heap EXCEPT ![e] = IF buckets[index] = Null THEN [@ EXCEPT !.next = Null] ELSE FreeCell]

\* The entry in front of the chain of a bucket.
Linked(e, index) == [heap EXCEPT ![e].next = buckets[index]]

\* One iteration of the inner loop: the entry goes to the front of its chain in
\* the new table.
Relink ==
    /\ frame.at = "resize" /\ frame.entry # Null
    /\ LET e == frame.entry
           index == Index(heap[e].key, capacity)
       IN /\ heap' = Linked(e, index)
          /\ buckets' = [buckets EXCEPT ![index] = e]
          /\ frame' = [frame EXCEPT !.entry = Rest(e)]
    /\ size' = Counted(size)
    /\ UNCHANGED <<exists, capacity, threshold, old, answer>>

NextOldBucket ==
    /\ frame.at = "resize" /\ frame.entry = Null
    /\ frame.i + 1 \in DOMAIN old
    /\ frame' = [frame EXCEPT !.i = frame.i + 1, !.entry = old[frame.i + 1]]
    /\ UNCHANGED <<mapFields, heap, answer>>

\* The old table is freed, and the insertion goes on in the new one.
Resized ==
    /\ frame.at = "resize" /\ frame.entry = Null
    /\ frame.i + 1 \notin DOMAIN old
    /\ old' = NoTable
    /\ frame' = Search("insert", frame.key, frame.value)
    /\ UNCHANGED <<exists, capacity, size, threshold, buckets, heap, answer>>

Overwrite ==
    /\ frame.at = "search" /\ frame.op = "insert" /\ Matches
    /\ heap' = [heap EXCEPT ![frame.entry].value = frame.value]
    /\ Answers(1)
    /\ UNCHANGED mapFields

\* create_entry; the new entry goes to the front of the chain.
AddEntry ==
    /\ frame.at = "search" /\ frame.op = "insert" /\ frame.entry = Null
    /\ LET index == Index(frame.key, capacity)
       IN \E e \in Entries \ Live :
            /\ heap' = [heap EXCEPT ![e] = [key |-> frame.key, value |-> frame.value,
                                            next |-> buckets[index]]]
            /\ buckets' = [buckets EXCEPT ![index] = e]
    /\ size' = Counted(size)
    /\ Answers(1)
    /\ UNCHANGED <<exists, capacity, threshold, old>>

\* The entry or the copy of its key cannot be allocated.
AddFails ==
    /\ frame.at = "search" /\ frame.op = "insert" /\ frame.entry = Null
    /\ Answers(0)
    /\ UNCHANGED <<mapFields, heap>>

-----------------------------------------------------------------------------
(* Lookup and removal *)

Lookup(op, k) ==
    /\ Ready
    /\ frame' = Search(op, k, Null)
    /\ answer' = NoAnswer
    /\ UNCHANGED <<mapFields, heap>>

SearchStays ==
    /\ frame.at = "search" /\ frame.entry # Null /\ ~Matches
    /\ frame' = [frame EXCEPT !.prev = IF frame.op = "remove" THEN frame.entry ELSE @]
    /\ UNCHANGED <<mapFields, heap, answer>>

\* One iteration of the loop along the chain, which xy_hashmap_remove walks
\* with a pointer to the entry before.
SearchOn ==
    /\ frame.at = "search" /\ frame.entry # Null /\ ~Matches
    /\ frame' = [frame EXCEPT !.entry = heap[frame.entry].next,
                              !.prev = IF frame.op = "remove" THEN frame.entry ELSE @]
    /\ UNCHANGED <<mapFields, heap, answer>>

GetReturns ==
    /\ frame.at = "search" /\ frame.op = "get" /\ (Matches \/ frame.entry = Null)
    /\ Answers(IF Matches THEN heap[frame.entry].value ELSE Null)
    /\ UNCHANGED <<mapFields, heap>>

ContainsReturns ==
    /\ frame.at = "search" /\ frame.op = "contains" /\ (Matches \/ frame.entry = Null)
    /\ Answers(IF Matches THEN 1 ELSE 0)
    /\ UNCHANGED <<mapFields, heap>>

StillLinked(e, prev) == [heap EXCEPT ![e] = FreeCell]

RestDropped(e, prev) ==
    IF prev = Null THEN [heap EXCEPT ![e] = FreeCell]
    ELSE [heap EXCEPT ![prev].next = Null, ![e] = FreeCell]

\* The chain without e, which is freed: prev is linked past it.
Unlinked(e, prev) ==
    IF prev = Null THEN [heap EXCEPT ![e] = FreeCell]
    ELSE [heap EXCEPT ![prev].next = heap[e].next, ![e] = FreeCell]

RemoveReturns ==
    /\ frame.at = "search" /\ frame.op = "remove" /\ Matches
    /\ heap' = Unlinked(frame.entry, frame.prev)
    /\ buckets' = IF frame.prev = Null
                  THEN [buckets EXCEPT ![Index(frame.key, capacity)] = heap[frame.entry].next]
                  ELSE buckets
    /\ size' = size - 1
    /\ Answers(1)
    /\ UNCHANGED <<exists, capacity, threshold, old>>

NothingToRemove ==
    /\ frame.at = "search" /\ frame.op = "remove" /\ frame.entry = Null
    /\ Answers(0)
    /\ UNCHANGED <<mapFields, heap>>

-----------------------------------------------------------------------------
(* Traversal of the whole table *)

\* The loop over all buckets of xy_hashmap_clear, _destroy and _keys.
Traverse(op, at) == [Idle EXCEPT !.at = at, !.op = op, !.entry = buckets[0]]

FreeAll(op) ==
    /\ Ready
    /\ frame' = Traverse(op, "free")
    /\ answer' = NoAnswer
    /\ UNCHANGED <<mapFields, heap>>

FreeEntry ==
    /\ frame.at = "free" /\ frame.entry # Null
    /\ heap' = [heap EXCEPT ![frame.entry] = FreeCell]
    /\ frame' = [frame EXCEPT !.entry = heap[frame.entry].next]
    /\ UNCHANGED <<mapFields, answer>>

\* xy_hashmap_clear empties a bucket once its entries are freed.
Emptied(table, i) == [table EXCEPT ![i] = Null]

NextFreedBucket ==
    /\ frame.at = "free" /\ frame.entry = Null
    /\ frame.i + 1 \in DOMAIN buckets
    /\ buckets' = IF frame.op = "clear" THEN Emptied(buckets, frame.i) ELSE buckets
    /\ frame' = [frame EXCEPT !.i = frame.i + 1, !.entry = buckets[frame.i + 1]]
    /\ UNCHANGED <<exists, capacity, size, threshold, old, heap, answer>>

Cleared ==
    /\ frame.at = "free" /\ frame.entry = Null /\ frame.op = "clear"
    /\ frame.i + 1 \notin DOMAIN buckets
    /\ buckets' = Emptied(buckets, frame.i)
    /\ size' = 0
    /\ frame' = Idle
    /\ UNCHANGED <<exists, capacity, threshold, old, heap, answer>>

Destroyed ==
    /\ frame.at = "free" /\ frame.entry = Null /\ frame.op = "destroy"
    /\ frame.i + 1 \notin DOMAIN buckets
    /\ exists' = FALSE
    /\ capacity' = 0 /\ size' = 0 /\ threshold' = 0
    /\ buckets' = NoTable
    /\ frame' = Idle
    /\ UNCHANGED <<old, heap, answer>>

\* An array of `size` pointers is allocated, if there is a key at all.
ListKeys ==
    /\ Ready
    /\ size # 0
    /\ frame' = Traverse("keys", "collect")
    /\ answer' = NoAnswer
    /\ UNCHANGED <<mapFields, heap>>

\* There are no keys, or there is no memory for the array.
NoKeys ==
    /\ Ready
    /\ answer' = [op |-> "keys", key |-> Null, res |-> 0, keys |-> {}]
    /\ UNCHANGED <<mapFields, heap, frame>>

CollectKey ==
    /\ frame.at = "collect" /\ frame.entry # Null
    /\ frame' = [frame EXCEPT !.keys = Append(@, frame.entry),
                              !.entry = heap[frame.entry].next]
    /\ UNCHANGED <<mapFields, heap, answer>>

NextCollectedBucket ==
    /\ frame.at = "collect" /\ frame.entry = Null
    /\ frame.i + 1 \in DOMAIN buckets
    /\ frame' = [frame EXCEPT !.i = frame.i + 1, !.entry = buckets[frame.i + 1]]
    /\ UNCHANGED <<mapFields, heap, answer>>

\* The array holds pointers to the keys of the entries, not copies.
KeysReturns ==
    /\ frame.at = "collect" /\ frame.entry = Null
    /\ frame.i + 1 \notin DOMAIN buckets
    /\ answer' = [op |-> "keys", key |-> Null, res |-> size,
                  keys |-> {heap[frame.keys[j]].key : j \in DOMAIN frame.keys}]
    /\ frame' = Idle
    /\ UNCHANGED <<mapFields, heap>>

-----------------------------------------------------------------------------
\* What the caller does.
Call ==
    \/ \E c \in Capacities : Create(c)
    \/ CreateFails
    \/ \E k \in Keys : \/ \E v \in Values \cup {Null} : Insert(k, v)
                       \/ \E op \in {"get", "remove", "contains"} : Lookup(op, k)
    \/ \E op \in {"clear", "destroy"} : FreeAll(op)
    \/ ListKeys \/ NoKeys \/ Size \/ NullCall

\* What a call in progress does.
Continue ==
    \/ Grow \/ GrowFails \/ Relink \/ NextOldBucket \/ Resized
    \/ Overwrite \/ AddEntry \/ AddFails
    \/ SearchOn \/ GetReturns \/ ContainsReturns \/ RemoveReturns \/ NothingToRemove
    \/ FreeEntry \/ NextFreedBucket \/ Cleared \/ Destroyed
    \/ CollectKey \/ NextCollectedBucket \/ KeysReturns

Next == Call \/ Continue

Spec == Init /\ [][Next]_vars

\* The functions do not block: a call in progress goes on.
FairSpec == Spec /\ WF_vars(Continue)

-----------------------------------------------------------------------------
(* What the map promises *)

\* Type correctness.
TypeOK ==
    /\ exists \in BOOLEAN
    /\ capacity \in Nat /\ size \in Nat /\ threshold \in Nat
    /\ buckets \in [0..(capacity - 1) -> Pointer]
    /\ DOMAIN old \subseteq Nat /\ old \in [DOMAIN old -> Pointer]
    /\ heap \in [Entries -> Cell]
    /\ frame \in Frame
    /\ answer.op \in {"none", "create", "insert", "get", "remove", "contains", "size", "keys"}
    /\ answer.key \in Keys \cup {Null}
    /\ answer.res \in Nat \cup Values \cup {Null}
    /\ answer.keys \subseteq Keys

\* The chain from p, as the entries in every set that holds p and is closed
\* under `next`.
Chain(p) ==
    {e \in Entries : p # Null /\ \A S \in SUBSET Entries :
        (p \in S /\ \A x \in S : heap[x].next # Null => heap[x].next \in S) => e \in S}

\* Entries that the resize in progress has not moved yet.
Unmoved ==
    IF frame.at # "resize" THEN {}
    ELSE Chain(frame.entry) \cup
         UNION {Chain(old[j]) : j \in {j \in DOMAIN old : j > frame.i}}

\* Every entry is found where its key is looked for: it is on the chain of its
\* bucket, or still to be moved there (hashmap.c:56-84, 123-151, 169-194).
Findable ==
    exists /\ frame.at # "free" =>
        \A e \in Live \ Unmoved : e \in Chain(buckets[Index(heap[e].key, capacity)])

\* No chain leads to freed memory or to an entry of another bucket.
ChainsSound ==
    exists /\ frame.at # "free" =>
        \A i \in 0..(capacity - 1) : Chain(buckets[i]) \subseteq
            {e \in Live \ Unmoved : Index(heap[e].key, capacity) = i}

\* A key has one entry: an overwrite never leaves an old value behind for a
\* later removal to uncover.
UniqueKeys == \A d, e \in Live : heap[d].key = heap[e].key => d = e

\* size counts the entries linked in the table, during a resize too; the keys
\* that xy_hashmap_keys collects fit the array it allocated (hashmap.c:243-256).
SizeExact ==
    exists /\ frame.at # "free" =>
        /\ size = Cardinality(Live \ Unmoved)
        /\ frame.at = "collect" =>
              Len(frame.keys) + Cardinality(Chain(frame.entry)) <= size

\* No loop dereferences an entry that was freed, and a map that is gone leaves
\* no entry behind (hashmap.c:107-121, 216-230).
MemorySafe ==
    /\ frame.entry \in Live \cup {Null}
    /\ frame.prev \in Live \cup {Null}
    /\ ~exists => Live = {}

\* Between calls the load factor holds, for a capacity of 1, whose threshold
\* is 0, as well (hashmap.c:102, 126).
LoadBound == frame.at = "idle" => size <= threshold

\* The table, at every step of every call: well formed, each key in the one place
\* where it is looked for, counted, and within its load.
TableSound ==
    TypeOK /\ Findable /\ ChainsSound /\ UniqueKeys /\ SizeExact /\ LoadBound

\* A call that inserts keeps every key string where it is, also when it grows the
\* table, and one that removes frees no other key than its own: the pointers that
\* xy_hashmap_keys lent stay valid.
KeysStay ==
    [][frame.op \in {"insert", "remove"} =>
          \A e \in Live : \/ heap'[e].key = heap[e].key
                          \/ frame.op = "remove" /\ heap[e].key = frame.key]_vars

\* Every call returns: no chain is circular.
CallsReturn == frame.at # "idle" ~> frame.at = "idle"

-----------------------------------------------------------------------------
(* The map is a dictionary: MapSpec, each operation at one point.  A call of *)
(* clear or destroy takes effect when it begins.                             *)

DictOf ==
    [k \in Keys |->
        IF frame.at = "free" \/ ~\E e \in Live : heap[e].key = k THEN Missing
        ELSE heap[CHOOSE e \in Live : heap[e].key = k].value]

Abstract == INSTANCE MapSpec WITH
    exists <- exists /\ ~(frame.at = "free" /\ frame.op = "destroy"),
    dict <- DictOf

\* The pointer structure implements the dictionary that xystd.h declares.
ImplementsMap == Abstract!Spec
=============================================================================
