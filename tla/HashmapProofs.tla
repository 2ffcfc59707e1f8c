--------------------------- MODULE HashmapProofs ----------------------------
(***************************************************************************)
(* For any keys, values and addresses, any capacities and any hash: the    *)
(* table of the map is sound at every step of every call, and the map is a *)
(* dictionary.                                                             *)
(*                                                                         *)
(* The chains form a forest.  What a loop has still to visit is read as    *)
(* further roots of the forest beside the buckets, so that moving an entry *)
(* from the old table to the new one is moving the head of one chain to    *)
(* the front of another.                                                   *)
(***************************************************************************)
EXTENDS Hashmap, FiniteSetTheorems, FunctionTheorems, TLAPS

-----------------------------------------------------------------------------
(* Chains, as a function of what is in memory *)

Memory == [Entries -> Cell]

Closed(h, S) == \A x \in S : h[x].next # Null => h[x].next \in S

\* What the pointers lead to from p.
Reach(h, p) ==
    {e \in Entries : p # Null /\ \A S \in SUBSET Entries : (p \in S /\ Closed(h, S)) => e \in S}

LEMMA ChainReach == \A p : Chain(p) = Reach(heap, p)
BY DEF Chain, Reach, Closed

LEMMA NullNotEntry == Null \notin Entries /\ Null \notin Keys
BY NullAssumption

LEMMA ReachNull == \A h : Reach(h, Null) = {}
BY DEF Reach

LEMMA ReachLeast ==
    ASSUME NEW h, NEW p, NEW S \in SUBSET Entries, p \in S, Closed(h, S)
    PROVE  Reach(h, p) \subseteq S
BY DEF Reach

LEMMA ReachSelf ==
    ASSUME NEW h \in Memory, NEW p \in Entries
    PROVE  /\ p \in Reach(h, p) /\ Reach(h, p) \subseteq Entries
           /\ Closed(h, Reach(h, p))
<1>1. p \in Reach(h, p) /\ Reach(h, p) \subseteq Entries
  BY NullNotEntry DEF Reach
<1>2. ASSUME NEW x \in Reach(h, p), h[x].next # Null PROVE h[x].next \in Reach(h, p)
  <2>1. h[x].next \in Entries
    BY <1>1, <1>2 DEF Memory, Cell, Pointer
  <2>2. ASSUME NEW S \in SUBSET Entries, p \in S, Closed(h, S) PROVE h[x].next \in S
    BY <1>2, <2>2 DEF Reach, Closed
  <2>3. QED
    BY <2>1, <2>2, NullNotEntry DEF Reach
<1>3. QED
  BY <1>1, <1>2 DEF Closed

LEMMA ReachIn ==
    ASSUME NEW h \in Memory, NEW p \in Pointer
    PROVE  Reach(h, p) \subseteq Entries /\ Closed(h, Reach(h, p))
           /\ (p # Null => p \in Reach(h, p))
<1>1. CASE p = Null
  BY <1>1, ReachNull DEF Closed
<1>2. CASE p # Null
  BY <1>2, ReachSelf DEF Pointer
<1>3. QED
  BY <1>1, <1>2

LEMMA NextPointer == ASSUME NEW h \in Memory, NEW e \in Entries PROVE h[e].next \in Pointer
BY DEF Memory, Cell

LEMMA ReachNext ==
    ASSUME NEW h \in Memory, NEW p \in Entries
    PROVE  Reach(h, p) = {p} \cup Reach(h, h[p].next)
<1> DEFINE q == h[p].next
<1>1. q \in Pointer
  BY NextPointer
<1>2. Reach(h, q) \subseteq Entries /\ Closed(h, Reach(h, q)) /\ (q # Null => q \in Reach(h, q))
  BY <1>1, ReachIn
<1>3. p \in Reach(h, p) /\ Reach(h, p) \subseteq Entries /\ Closed(h, Reach(h, p))
  BY ReachSelf
<1> HIDE DEF q
<1>4. Reach(h, p) \subseteq {p} \cup Reach(h, q)
  <2>1. Closed(h, {p} \cup Reach(h, q))
    BY <1>2 DEF Closed, q
  <2>2. {p} \cup Reach(h, q) \in SUBSET Entries /\ p \in {p} \cup Reach(h, q)
    BY <1>2
  <2>3. QED
    BY <2>1, <2>2, ReachLeast
<1>5. Reach(h, q) \subseteq Reach(h, p)
  <2>1. CASE q = Null
    BY <2>1, ReachNull
  <2>2. CASE q # Null
    <3>1. q \in Reach(h, p)
      BY <1>3, <2>2 DEF Closed, q
    <3>2. QED
      BY <3>1, <1>3, ReachLeast
  <2>3. QED
    BY <2>1, <2>2
<1>6. QED
  BY <1>3, <1>4, <1>5 DEF q

LEMMA ReachFurther ==
    ASSUME NEW h \in Memory, NEW p \in Pointer, NEW e \in Reach(h, p)
    PROVE  e \in Entries /\ Reach(h, e) \subseteq Reach(h, p) /\ Reach(h, h[e].next) \subseteq Reach(h, e)
<1>1. Reach(h, p) \subseteq Entries /\ Closed(h, Reach(h, p))
  BY ReachIn
<1>2. Reach(h, e) \subseteq Reach(h, p)
  BY <1>1, ReachLeast
<1>3. e \in Entries
  BY <1>1
<1>4. QED
  BY <1>2, <1>3, ReachNext

\* A chain depends on the links of its own entries only.
LEMMA ReachSame ==
    ASSUME NEW h \in Memory, NEW g \in Memory, NEW p \in Pointer,
           \A e \in Reach(h, p) : g[e].next = h[e].next
    PROVE  Reach(g, p) = Reach(h, p)
<1>1. CASE p = Null
  BY <1>1, ReachNull
<1>2. CASE p # Null
  <2>1. p \in Reach(h, p) /\ Reach(h, p) \subseteq Entries /\ Closed(h, Reach(h, p))
    BY <1>2, ReachIn
  <2>2. p \in Reach(g, p) /\ Reach(g, p) \subseteq Entries /\ Closed(g, Reach(g, p))
    BY <1>2, ReachIn
  <2>3. Closed(g, Reach(h, p))
    BY <2>1 DEF Closed
  <2>4. Reach(g, p) \subseteq Reach(h, p)
    BY <2>1, <2>3, ReachLeast
  <2>5. Closed(h, Reach(g, p))
    BY <2>2, <2>4 DEF Closed
  <2>6. Reach(h, p) \subseteq Reach(g, p)
    BY <2>2, <2>5, ReachLeast
  <2>7. QED
    BY <2>4, <2>6
<1>3. QED
  BY <1>1, <1>2

\* Of two entries of a chain one leads to the other.
LEMMA ReachLinear ==
    ASSUME NEW h \in Memory, NEW p \in Pointer, NEW d \in Reach(h, p), NEW e \in Reach(h, p)
    PROVE  e \in Reach(h, d) \/ d \in Reach(h, e)
<1> DEFINE S == {x \in Reach(h, p) : x \in Reach(h, d) \/ d \in Reach(h, x)}
<1>1. p # Null /\ p \in Reach(h, p) /\ Reach(h, p) \subseteq Entries /\ Closed(h, Reach(h, p))
  BY ReachIn, ReachNull
<1>2. p \in S
  BY <1>1
<1>3. ASSUME NEW x \in S, h[x].next # Null PROVE h[x].next \in S
  <2>1. h[x].next \in Reach(h, p) /\ x \in Entries
    BY <1>1, <1>3 DEF Closed
  <2>2. CASE x \in Reach(h, d)
    <3>1. d \in Entries
      BY <1>1
    <3>2. Closed(h, Reach(h, d))
      BY <3>1, ReachSelf
    <3>3. QED
      BY <1>3, <2>1, <2>2, <3>2 DEF Closed
  <2>3. CASE d \in Reach(h, x) /\ x \notin Reach(h, d)
    <3>1. Reach(h, x) = {x} \cup Reach(h, h[x].next)
      BY <2>1, ReachNext
    <3>2. d # x
      BY <1>1, <2>3, ReachSelf
    <3>3. QED
      BY <2>1, <2>3, <3>1, <3>2
  <2>4. QED
    BY <1>3, <2>2, <2>3
<1>4. S \in SUBSET Entries /\ Closed(h, S)
  BY <1>1, <1>3 DEF Closed
<1>5. Reach(h, p) \subseteq S
  BY <1>2, <1>4, ReachLeast
<1>6. QED
  BY <1>5

-----------------------------------------------------------------------------
(* The forest of chains *)

LiveOf(h) == {e \in Entries : h[e].key # Null}
Heads == [Int -> Pointer]

\* Where the chains begin: chains of different roots share no entry, they hold all
\* the live entries and only these, and none is circular.
Forest(h, H) ==
    /\ \A r \in Int : Reach(h, H[r]) \subseteq LiveOf(h)
    /\ \A r, s \in Int : r # s => Reach(h, H[r]) \cap Reach(h, H[s]) = {}
    /\ \A e \in LiveOf(h) : \E r \in Int : e \in Reach(h, H[r])
    /\ \A e \in LiveOf(h) : e \notin Reach(h, h[e].next)

LEMMA HeadsDiffer ==
    ASSUME NEW h \in Memory, NEW H \in Heads, Forest(h, H),
           NEW r \in Int, NEW s \in Int, r # s, H[r] # Null
    PROVE  H[r] # H[s]
<1>1. H[r] \in Reach(h, H[r])
  BY ReachIn DEF Heads
<1>2. H[r] \notin Reach(h, H[s])
  BY <1>1 DEF Forest
<1>3. QED
  BY <1>1, <1>2

\* Only where a chain is rooted has changed.
LEMMA Renamed ==
    ASSUME NEW h \in Memory, NEW H \in Heads, NEW G \in Heads, Forest(h, H),
           \A r \in Int : G[r] # Null => \E s \in Int : H[s] = G[r],
           \A s \in Int : H[s] # Null => \E r \in Int : G[r] = H[s],
           \A r, s \in Int : r # s /\ G[r] # Null => G[r] # G[s]
    PROVE  Forest(h, G)
<1>1. ASSUME NEW r \in Int PROVE Reach(h, G[r]) \subseteq LiveOf(h)
  BY ReachNull DEF Forest
<1>2. ASSUME NEW r \in Int, NEW s \in Int, r # s PROVE Reach(h, G[r]) \cap Reach(h, G[s]) = {}
  <2>1. CASE G[r] = Null \/ G[s] = Null
    BY <2>1, ReachNull
  <2>2. CASE G[r] # Null /\ G[s] # Null
    <3>1. PICK t \in Int : H[t] = G[r]
      BY <2>2
    <3>2. PICK u \in Int : H[u] = G[s]
      BY <2>2
    <3>3. t # u
      BY <1>2, <2>2, <3>1, <3>2
    <3>4. QED
      BY <3>1, <3>2, <3>3 DEF Forest
  <2>3. QED
    BY <2>1, <2>2
<1>3. ASSUME NEW e \in LiveOf(h) PROVE \E r \in Int : e \in Reach(h, G[r])
  <2>1. PICK s \in Int : e \in Reach(h, H[s])
    BY DEF Forest
  <2>2. H[s] # Null
    BY <2>1, ReachNull
  <2>3. QED
    BY <2>1, <2>2
<1>4. QED
  BY <1>1, <1>2, <1>3 DEF Forest

\* A chain moves to a root that has none.
LEMMA Shifted ==
    ASSUME NEW h \in Memory, NEW H \in Heads, Forest(h, H),
           NEW r \in Int, NEW s \in Int, r # s, H[r] = Null
    PROVE  Forest(h, [H EXCEPT ![r] = H[s], ![s] = Null])
<1> DEFINE G == [H EXCEPT ![r] = H[s], ![s] = Null]
<1>1. G \in Heads
  BY NullAssumption DEF Heads, Pointer
<1>2. G[r] = H[s] /\ G[s] = Null /\ \A t \in Int \ {r, s} : G[t] = H[t]
  BY DEF Heads
<1>3. \A t, u \in Int : t # u /\ H[t] # Null => H[t] # H[u]
  BY HeadsDiffer
<1> HIDE DEF G
<1>4. \A t \in Int : G[t] # Null => \E u \in Int : H[u] = G[t]
  BY <1>2
<1>5. \A t \in Int : H[t] # Null => \E u \in Int : G[u] = H[t]
  BY <1>2
<1>6. \A t, u \in Int : t # u /\ G[t] # Null => G[t] # G[u]
  BY <1>2, <1>3
<1>7. Forest(h, G)
  BY <1>1, <1>4, <1>5, <1>6, Renamed
<1>8. QED
  BY <1>7 DEF G

\* The links and the keys of the entries are the same.
LEMMA SameLinks ==
    ASSUME NEW h \in Memory, NEW g \in Memory, NEW H \in Heads, Forest(h, H),
           \A e \in Entries : g[e].next = h[e].next /\ g[e].key = h[e].key
    PROVE  /\ Forest(g, H)
           /\ \A p \in Pointer : Reach(g, p) = Reach(h, p)
           /\ LiveOf(g) = LiveOf(h)
<1>1. ASSUME NEW p \in Pointer PROVE Reach(g, p) = Reach(h, p)
  <2>1. Reach(h, p) \subseteq Entries
    BY ReachIn
  <2>2. QED
    BY <2>1, ReachSame
<1>2. LiveOf(g) = LiveOf(h)
  BY DEF LiveOf
<1>3. \A r \in Int : H[r] \in Pointer
  BY DEF Heads
<1>4. \A e \in LiveOf(h) : g[e].next = h[e].next /\ h[e].next \in Pointer
  BY NextPointer DEF LiveOf
<1>5. QED
  BY <1>1, <1>2, <1>3, <1>4 DEF Forest

\* The entry in front of a chain is taken off it; g holds anything there, if it is
\* not a live entry any more.
LEMMA Popped ==
    ASSUME NEW h \in Memory, NEW g \in Memory, NEW H \in Heads, Forest(h, H),
           NEW r \in Int, H[r] # Null, g[H[r]].key = Null,
           \A e \in Entries \ {H[r]} : g[e].next = h[e].next /\ g[e].key = h[e].key
    PROVE  LET G == [H EXCEPT ![r] = h[H[r]].next]
           IN  /\ G \in Heads
               /\ Forest(g, G)
               /\ \A s \in Int \ {r} : Reach(g, H[s]) = Reach(h, H[s])
               /\ Reach(g, h[H[r]].next) = Reach(h, H[r]) \ {H[r]}
               /\ LiveOf(g) = LiveOf(h) \ {H[r]}
               /\ H[r] \in LiveOf(h)
<1> DEFINE p == H[r]
           q == h[p].next
           G == [H EXCEPT ![r] = q]
<1>1. p \in Entries /\ p \in LiveOf(h) /\ q \in Pointer /\ p \in Reach(h, p)
  <2>1. p \in Entries
    BY DEF Heads, Pointer
  <2>2. p \in Reach(h, p) /\ q \in Pointer
    BY <2>1, ReachSelf, NextPointer
  <2>3. QED
    BY <2>1, <2>2 DEF Forest
<1>2. G \in Heads /\ G[r] = q /\ \A s \in Int \ {r} : G[s] = H[s]
  BY <1>1 DEF Heads
<1>3. \A s \in Int : H[s] \in Pointer
  BY DEF Heads
<1>4. Reach(h, p) = {p} \cup Reach(h, q)
  BY <1>1, ReachNext
<1>5. p \notin Reach(h, q)
  BY <1>1 DEF Forest
<1>6. LiveOf(g) = LiveOf(h) \ {p}
  BY <1>1 DEF LiveOf
<1>7. \A e \in Entries \ {p} : g[e].next = h[e].next
  OBVIOUS
<1>8. \A s \in Int \ {r} : p \notin Reach(h, H[s])
  BY <1>1 DEF Forest
<1> HIDE DEF G, q
<1>9. ASSUME NEW x \in Pointer, p \notin Reach(h, x) PROVE Reach(g, x) = Reach(h, x)
  <2>1. Reach(h, x) \subseteq Entries
    BY ReachIn
  <2>2. \A e \in Reach(h, x) : g[e].next = h[e].next
    BY <1>7, <1>9, <2>1
  <2>3. QED
    BY <2>2, ReachSame
<1>10. Reach(g, q) = Reach(h, p) \ {p}
  BY <1>1, <1>4, <1>5, <1>9
<1>11. \A s \in Int \ {r} : Reach(g, H[s]) = Reach(h, H[s])
  BY <1>3, <1>8, <1>9
<1>12. Forest(g, G)
  <2>1. \A s \in Int : Reach(g, G[s]) = Reach(h, H[s]) \ {p}
    BY <1>2, <1>8, <1>10, <1>11
  <2>2. ASSUME NEW e \in LiveOf(g) PROVE e \notin Reach(g, g[e].next)
    <3>1. e \in Entries /\ e \in LiveOf(h) /\ e # p
      BY <1>6 DEF LiveOf
    <3>2. g[e].next = h[e].next /\ h[e].next \in Pointer
      BY <1>7, <3>1, NextPointer
    <3>3. e \notin Reach(h, h[e].next)
      BY <3>1 DEF Forest
    <3>4. p \notin Reach(h, h[e].next)
      <4>1. PICK s \in Int : e \in Reach(h, H[s])
        BY <3>1 DEF Forest
      <4>2. CASE s # r
        <5>1. Reach(h, h[e].next) \subseteq Reach(h, H[s])
          BY <1>3, <4>1, ReachFurther
        <5>2. QED
          BY <1>8, <4>2, <5>1
      <4>3. CASE s = r
        <5>1. e \in Reach(h, q)
          BY <1>4, <3>1, <4>1, <4>3
        <5>2. Reach(h, h[e].next) \subseteq Reach(h, q)
          BY <1>1, <5>1, ReachFurther
        <5>3. QED
          BY <1>5, <5>2
      <4>4. QED
        BY <4>2, <4>3
    <3>5. QED
      BY <1>9, <3>2, <3>3, <3>4
  <2>3. ASSUME NEW s \in Int PROVE Reach(g, G[s]) \subseteq LiveOf(g)
    BY <1>6, <2>1 DEF Forest
  <2>4. ASSUME NEW s \in Int, NEW t \in Int, s # t PROVE Reach(g, G[s]) \cap Reach(g, G[t]) = {}
    <3>1. Reach(h, H[s]) \cap Reach(h, H[t]) = {}
      BY <2>4 DEF Forest
    <3>2. QED
      BY <2>1, <3>1
  <2>5. ASSUME NEW e \in LiveOf(g) PROVE \E s \in Int : e \in Reach(g, G[s])
    <3>1. PICK s \in Int : e \in Reach(h, H[s])
      BY <1>6 DEF Forest
    <3>2. QED
      BY <1>6, <2>1, <3>1
  <2>6. QED
    BY <2>2, <2>3, <2>4, <2>5 DEF Forest
<1>13. QED
  BY <1>1, <1>2, <1>6, <1>10, <1>11, <1>12 DEF G, q

\* An entry that was free is put in front of a chain.
LEMMA Pushed ==
    ASSUME NEW h \in Memory, NEW g \in Memory, NEW H \in Heads, Forest(h, H),
           NEW r \in Int, NEW d \in Entries, h[d].key = Null,
           g[d].key # Null, g[d].next = H[r],
           \A e \in Entries \ {d} : g[e].next = h[e].next /\ g[e].key = h[e].key
    PROVE  LET G == [H EXCEPT ![r] = d]
           IN  /\ G \in Heads
               /\ Forest(g, G)
               /\ \A s \in Int \ {r} : Reach(g, H[s]) = Reach(h, H[s])
               /\ Reach(g, d) = Reach(h, H[r]) \cup {d}
               /\ LiveOf(g) = LiveOf(h) \cup {d}
               /\ d \notin LiveOf(h)
<1> DEFINE G == [H EXCEPT ![r] = d]
<1>1. \A s \in Int : H[s] \in Pointer
  BY DEF Heads
<1>2. G \in Heads /\ G[r] = d /\ \A s \in Int \ {r} : G[s] = H[s]
  BY DEF Heads, Pointer
<1>3. LiveOf(g) = LiveOf(h) \cup {d} /\ d \notin LiveOf(h)
  BY DEF LiveOf
<1>4. \A s \in Int : d \notin Reach(h, H[s])
  BY <1>3 DEF Forest
<1> HIDE DEF G
<1>5. ASSUME NEW x \in Pointer, d \notin Reach(h, x) PROVE Reach(g, x) = Reach(h, x)
  <2>1. Reach(h, x) \subseteq Entries
    BY ReachIn
  <2>2. \A e \in Reach(h, x) : g[e].next = h[e].next
    BY <1>5, <2>1
  <2>3. QED
    BY <2>2, ReachSame
<1>6. \A s \in Int : Reach(g, H[s]) = Reach(h, H[s])
  BY <1>1, <1>4, <1>5
<1>7. Reach(g, d) = Reach(h, H[r]) \cup {d}
  BY <1>6, ReachNext
<1>8. Forest(g, G)
  <2>1. /\ Reach(g, G[r]) = Reach(h, H[r]) \cup {d}
        /\ \A s \in Int \ {r} : Reach(g, G[s]) = Reach(h, H[s])
    BY <1>2, <1>6, <1>7
  <2>2. ASSUME NEW e \in LiveOf(g) PROVE e \notin Reach(g, g[e].next)
    <3>1. CASE e = d
      BY <1>4, <1>6, <3>1
    <3>2. CASE e # d
      <4>1. e \in Entries /\ e \in LiveOf(h)
        BY <1>3, <3>2 DEF LiveOf
      <4>2. g[e].next = h[e].next /\ h[e].next \in Pointer
        BY <3>2, <4>1, NextPointer
      <4>3. e \notin Reach(h, h[e].next)
        BY <4>1 DEF Forest
      <4>4. PICK s \in Int : e \in Reach(h, H[s])
        BY <4>1 DEF Forest
      <4>5. Reach(h, h[e].next) \subseteq Reach(h, H[s])
        BY <1>1, <4>4, ReachFurther
      <4>6. QED
        BY <1>4, <1>5, <4>2, <4>3, <4>5
    <3>3. QED
      BY <3>1, <3>2
  <2>3. ASSUME NEW e \in LiveOf(g) PROVE \E s \in Int : e \in Reach(g, G[s])
    <3>1. CASE e = d
      BY <2>1, <3>1
    <3>2. CASE e \in LiveOf(h)
      <4>1. PICK s \in Int : e \in Reach(h, H[s])
        BY <3>2 DEF Forest
      <4>2. QED
        BY <2>1, <4>1
    <3>3. QED
      BY <1>3, <3>1, <3>2
  <2>4. ASSUME NEW s \in Int PROVE Reach(g, G[s]) \subseteq LiveOf(g)
    BY <1>3, <2>1 DEF Forest
  <2>5. ASSUME NEW s \in Int, NEW t \in Int, s # t PROVE Reach(g, G[s]) \cap Reach(g, G[t]) = {}
    BY <1>4, <2>1, <2>5 DEF Forest
  <2>6. QED
    BY <2>2, <2>3, <2>4, <2>5 DEF Forest
<1>9. QED
  BY <1>2, <1>3, <1>6, <1>7, <1>8 DEF G

\* The entry in front of one chain goes to the front of another.
LEMMA Moved ==
    ASSUME NEW h \in Memory, NEW g \in Memory, NEW H \in Heads, Forest(h, H),
           NEW r \in Int, NEW s \in Int, r # s, H[r] # Null,
           g[H[r]].key = h[H[r]].key, g[H[r]].next = H[s],
           \A e \in Entries \ {H[r]} : g[e].next = h[e].next /\ g[e].key = h[e].key
    PROVE  LET G == [H EXCEPT ![r] = h[H[r]].next, ![s] = H[r]]
           IN  /\ G \in Heads
               /\ Forest(g, G)
               /\ \A t \in Int \ {r, s} : Reach(g, H[t]) = Reach(h, H[t])
               /\ Reach(g, h[H[r]].next) = Reach(h, H[r]) \ {H[r]}
               /\ Reach(g, H[r]) = Reach(h, H[s]) \cup {H[r]}
               /\ LiveOf(g) = LiveOf(h)
               /\ H[r] \in LiveOf(h) /\ H[r] \in Reach(h, H[r])
<1> DEFINE p == H[r]
           q == h[p].next
           f == [h EXCEPT ![p] = FreeCell]
           F == [H EXCEPT ![r] = q]
           G == [H EXCEPT ![r] = q, ![s] = p]
<1>1. p \in Entries /\ p \in Reach(h, p)
  BY ReachSelf DEF Heads, Pointer
<1>2. f \in Memory /\ f[p].key = Null
  BY <1>1 DEF Memory, Cell, FreeCell, Pointer
<1>3. \A e \in Entries \ {p} : f[e].next = h[e].next /\ f[e].key = h[e].key
  BY DEF Memory
<1> HIDE DEF f
<1>4. /\ F \in Heads
      /\ Forest(f, F)
      /\ \A t \in Int \ {r} : Reach(f, H[t]) = Reach(h, H[t])
      /\ Reach(f, q) = Reach(h, p) \ {p}
      /\ LiveOf(f) = LiveOf(h) \ {p}
      /\ p \in LiveOf(h)
  BY <1>2, <1>3, Popped
<1>5. F[s] = H[s] /\ F[r] = q /\ \A t \in Int \ {r, s} : F[t] = H[t]
  BY DEF Heads
<1>6. G = [F EXCEPT ![s] = p]
  BY DEF Heads
<1>7. g[p].key # Null
  BY <1>4 DEF LiveOf
<1> HIDE DEF F, G, q
<1>8. g[p].next = F[s] /\ \A e \in Entries \ {p} : g[e].next = f[e].next /\ g[e].key = f[e].key
  BY <1>3, <1>5
<1>9. /\ [F EXCEPT ![s] = p] \in Heads
      /\ Forest(g, [F EXCEPT ![s] = p])
      /\ \A t \in Int \ {s} : Reach(g, F[t]) = Reach(f, F[t])
      /\ Reach(g, p) = Reach(f, F[s]) \cup {p}
      /\ LiveOf(g) = LiveOf(f) \cup {p}
  BY <1>1, <1>2, <1>4, <1>7, <1>8, Pushed
<1>10. G \in Heads /\ Forest(g, G)
  BY <1>6, <1>9
<1>11. \A t \in Int \ {r, s} : Reach(g, H[t]) = Reach(h, H[t])
  BY <1>4, <1>5, <1>9
<1>12. Reach(g, q) = Reach(h, p) \ {p}
  BY <1>4, <1>5, <1>9
<1>13. Reach(g, p) = Reach(h, H[s]) \cup {p}
  BY <1>4, <1>5, <1>9
<1>14. LiveOf(g) = LiveOf(h)
  BY <1>4, <1>9
<1>15. QED
  BY <1>1, <1>4, <1>10, <1>11, <1>12, <1>13, <1>14 DEF G, q

\* An entry has one predecessor in its chain.
LEMMA OnePredecessor ==
    ASSUME NEW h \in Memory, NEW H \in Heads, Forest(h, H), NEW r \in Int,
           NEW d \in Reach(h, H[r]), NEW e \in Reach(h, H[r]),
           h[d].next = h[e].next, h[d].next # Null
    PROVE  d = e
<1>1. H[r] \in Pointer
  BY DEF Heads
<1>2. d \in LiveOf(h) /\ e \in LiveOf(h) /\ d \in Entries /\ e \in Entries
  BY DEF Forest, LiveOf
<1>3. d \notin Reach(h, h[d].next) /\ e \notin Reach(h, h[e].next)
  BY <1>2 DEF Forest
<1>4. d \in Reach(h, e) \/ e \in Reach(h, d)
  BY <1>1, ReachLinear
<1>5. Reach(h, d) = {d} \cup Reach(h, h[d].next) /\ Reach(h, e) = {e} \cup Reach(h, h[e].next)
  BY <1>2, ReachNext
<1>6. QED
  BY <1>3, <1>4, <1>5

\* Nothing leads to the entry in front of a chain.
LEMMA HeadHasNone ==
    ASSUME NEW h \in Memory, NEW H \in Heads, Forest(h, H), NEW r \in Int, H[r] # Null,
           NEW d \in Reach(h, H[r])
    PROVE  H[r] \notin Reach(h, h[d].next)
<1>1. H[r] \in Pointer
  BY DEF Heads
<1>2. d \in LiveOf(h) /\ d \in Entries /\ h[d].next \in Pointer
  BY NextPointer DEF Forest, LiveOf
<1>3. d \notin Reach(h, h[d].next)
  BY <1>2 DEF Forest
<1>4. QED
  BY <1>2, <1>3, ReachFurther

\* What changes when c, which links to e, is linked past it, and e is freed.
LinkedPast(h, g, c, e) ==
    /\ h[c].next = e
    /\ g[e].key = Null /\ g[e].next = Null
    /\ g[c].next = h[e].next /\ g[c].key = h[c].key
    /\ \A x \in Entries \ {c, e} : g[x].next = h[x].next /\ g[x].key = h[x].key

\* An entry that is not the first is taken off its chain and freed.
LEMMA Bypassed ==
    ASSUME NEW h \in Memory, NEW g \in Memory, NEW H \in Heads, Forest(h, H), NEW r \in Int,
           NEW c \in Reach(h, H[r]), NEW e \in Entries, LinkedPast(h, g, c, e)
    PROVE  /\ Forest(g, H)
           /\ \A s \in Int \ {r} : Reach(g, H[s]) = Reach(h, H[s])
           /\ Reach(g, H[r]) = Reach(h, H[r]) \ {e}
           /\ LiveOf(g) = LiveOf(h) \ {e}
           /\ e \in LiveOf(h)
<1> USE DEF LinkedPast
<1> DEFINE p == H[r]
           C == Reach(h, p)
           D == Reach(g, p)
<1>1. p \in Pointer /\ p # Null /\ e # Null
  BY ReachNull, NullNotEntry DEF Heads
<1>2. p \in C /\ C \subseteq Entries /\ Closed(h, C)
  BY <1>1, ReachIn
<1>3. p \in D /\ D \subseteq Entries /\ Closed(g, D)
  BY <1>1, ReachIn
<1>4. e \in C /\ c \in C
  BY <1>1, <1>2 DEF Closed
<1>5. C \subseteq LiveOf(h)
  BY DEF Forest
<1>6. c # e /\ p # e /\ h[e].next # e
  <2>1. e \in Reach(h, e)
    BY ReachSelf
  <2>2. c # e
    BY <1>4, <1>5, <2>1 DEF Forest
  <2>3. p # e
    BY <1>1, <2>1, HeadHasNone
  <2>4. h[e].next # e
    BY <1>4, <1>5, <2>1 DEF Forest
  <2>5. QED
    BY <2>2, <2>3, <2>4
<1>7. LiveOf(g) = LiveOf(h) \ {e}
  <2>1. c \in LiveOf(g) /\ c \in LiveOf(h)
    BY <1>4, <1>5 DEF LiveOf
  <2>2. QED
    BY <2>1 DEF LiveOf
<1>8. \A x \in C : h[x].next = e => x = c
  BY <1>1, OnePredecessor
<1> HIDE DEF C, D, p
<1>9. D \subseteq C \ {e}
  <2>1. Closed(g, C \ {e})
    <3> SUFFICES ASSUME NEW x \in C, x # e, g[x].next # Null PROVE g[x].next \in C \ {e}
      BY DEF Closed
    <3>1. CASE x = c
      BY <1>2, <1>4, <1>6, <3>1 DEF Closed
    <3>2. CASE x # c
      BY <1>2, <1>8, <3>2 DEF Closed
    <3>3. QED
      BY <3>1, <3>2
  <2>2. p \in C \ {e} /\ C \ {e} \in SUBSET Entries
    BY <1>2, <1>6
  <2>3. QED
    BY <2>1, <2>2, ReachLeast DEF D
<1>10. C \subseteq D \cup {e}
  <2>1. c \in D
    <3> SUFFICES ASSUME c \notin D PROVE FALSE
      OBVIOUS
    <3>1. Closed(h, D)
      BY <1>3, <1>9 DEF Closed
    <3>2. C \subseteq D
      BY <1>3, <3>1, ReachLeast DEF C
    <3>3. QED
      BY <1>4, <3>2
  <2>2. Closed(h, D \cup {e})
    <3> SUFFICES ASSUME NEW x \in D \cup {e}, h[x].next # Null PROVE h[x].next \in D \cup {e}
      BY DEF Closed
    <3>1. CASE x = c
      BY <3>1
    <3>2. CASE x = e
      BY <1>3, <2>1, <3>2 DEF Closed
    <3>3. CASE x \in D \ {c, e}
      BY <1>3, <3>3 DEF Closed
    <3>4. QED
      BY <3>1, <3>2, <3>3
  <2>3. p \in D \cup {e} /\ D \cup {e} \in SUBSET Entries
    BY <1>3
  <2>4. QED
    BY <2>2, <2>3, ReachLeast DEF C
<1>11. D = C \ {e}
  BY <1>9, <1>10
<1>12. ASSUME NEW x \in Pointer, c \notin Reach(h, x), e \notin Reach(h, x)
       PROVE  Reach(g, x) = Reach(h, x)
  <2>1. Reach(h, x) \subseteq Entries
    BY ReachIn
  <2>2. \A y \in Reach(h, x) : g[y].next = h[y].next
    BY <1>12, <2>1
  <2>3. QED
    BY <2>2, ReachSame
<1>13. \A s \in Int \ {r} : Reach(g, H[s]) = Reach(h, H[s])
  <2> SUFFICES ASSUME NEW s \in Int \ {r} PROVE Reach(g, H[s]) = Reach(h, H[s])
    OBVIOUS
  <2>1. Reach(h, H[s]) \cap C = {} /\ H[s] \in Pointer
    BY DEF Forest, Heads, C, p
  <2>2. QED
    BY <1>4, <1>12, <2>1
<1>14. ASSUME NEW z \in Pointer PROVE Reach(g, z) \subseteq Reach(h, z)
  <2>1. CASE z = Null
    BY <2>1, ReachNull
  <2>2. CASE z # Null
    <3>1. z \in Reach(h, z) /\ Reach(h, z) \subseteq Entries /\ Closed(h, Reach(h, z))
      BY <2>2, ReachIn
    <3>2. Closed(g, Reach(h, z))
      <4> SUFFICES ASSUME NEW x \in Reach(h, z), g[x].next # Null
                   PROVE  g[x].next \in Reach(h, z)
        BY DEF Closed
      <4>1. CASE x = c
        BY <1>1, <3>1, <4>1 DEF Closed
      <4>2. CASE x # c /\ x # e
        BY <3>1, <4>2 DEF Closed
      <4>3. QED
        BY <4>1, <4>2
    <3>3. QED
      BY <3>1, <3>2, ReachLeast
  <2>3. QED
    BY <2>1, <2>2
<1>15. ASSUME NEW x \in LiveOf(g) PROVE x \notin Reach(g, g[x].next)
  <2>1. x \in Entries /\ x \in LiveOf(h) /\ x # e /\ h[x].next \in Pointer /\ h[e].next \in Pointer
    BY <1>7, NextPointer DEF LiveOf
  <2>2. x \notin Reach(h, h[x].next)
    BY <2>1 DEF Forest
  <2>3. CASE x = c
    <3>1. Reach(h, e) = {e} \cup Reach(h, h[e].next)
      BY ReachNext
    <3>2. QED
      BY <1>14, <2>1, <2>2, <2>3, <3>1
  <2>4. CASE x # c
    BY <1>14, <2>1, <2>2, <2>4
  <2>5. QED
    BY <2>3, <2>4
<1>16. ASSUME NEW s \in Int PROVE Reach(g, H[s]) \subseteq LiveOf(g)
  <2>1. Reach(g, H[s]) \subseteq LiveOf(h)
    BY <1>11, <1>13 DEF Forest, C, D, p
  <2>2. e \notin Reach(g, H[s])
    <3>1. CASE s = r
      BY <1>11, <3>1 DEF D, p
    <3>2. CASE s # r
      BY <1>4, <1>13, <3>2 DEF Forest, C, p
    <3>3. QED
      BY <3>1, <3>2
  <2>3. QED
    BY <1>7, <2>1, <2>2
<1>17. \A s \in Int : Reach(g, H[s]) = Reach(h, H[s]) \ {e}
  <2> SUFFICES ASSUME NEW s \in Int PROVE Reach(g, H[s]) = Reach(h, H[s]) \ {e}
    OBVIOUS
  <2>1. CASE s = r
    BY <1>11, <2>1 DEF C, D, p
  <2>2. CASE s # r
    <3>1. Reach(g, H[s]) = Reach(h, H[s]) /\ e \notin LiveOf(g)
      BY <1>7, <1>13, <2>2
    <3>2. QED
      BY <1>16, <3>1
  <2>3. QED
    BY <2>1, <2>2
<1>18. ASSUME NEW s \in Int, NEW t \in Int, s # t PROVE Reach(g, H[s]) \cap Reach(g, H[t]) = {}
  <2>1. Reach(h, H[s]) \cap Reach(h, H[t]) = {}
    BY <1>18 DEF Forest
  <2>2. QED
    BY <1>17, <2>1
<1>19. ASSUME NEW x \in LiveOf(g) PROVE \E s \in Int : x \in Reach(g, H[s])
  <2>1. PICK s \in Int : x \in Reach(h, H[s])
    BY <1>7 DEF Forest
  <2>2. QED
    BY <1>7, <1>17, <2>1
<1>20. Forest(g, H)
  BY <1>15, <1>16, <1>18, <1>19 DEF Forest
<1>21. QED
  BY <1>4, <1>5, <1>7, <1>11, <1>13, <1>20 DEF C, D, p
-----------------------------------------------------------------------------
(* The inductive invariant *)

\* The roots: a bucket is its index, -1 is the entry that a loop which takes the
\* table apart has in hand, -2 - j is bucket j of the old table.
Front == -1
OldRoot(j) == -2 - j
Buckets == 0..(capacity - 1)

\* Where the chains that are still to be found begin.
HeadsFor(cap, table, od, f) ==
    [r \in Int |->
        CASE r \in 0..(cap - 1) /\ (f.at = "free" => r > f.i)   -> table[r]
          [] r = Front /\ f.at \in {"resize", "free"}           -> f.entry
          [] OldRoot(r) \in DOMAIN od /\ OldRoot(r) > f.i       -> od[OldRoot(r)]
          [] OTHER                                              -> Null]

HeadOf == HeadsFor(capacity, buckets, old, frame)

\* Which call is at which loop, and what it uses of the frame there.
Control ==
    /\ frame.at = "idle" => frame = Idle
    /\ frame.at # "idle" => exists
    /\ frame.at \in {"grow", "resize"} =>
          frame.op = "insert" /\ frame.key \in Keys /\ frame.value \in Values \cup {Null}
    /\ frame.at = "grow" => frame.entry = Null /\ frame.i = 0
    /\ frame.at = "search" =>
          frame.op \in {"insert", "get", "remove", "contains"} /\ frame.key \in Keys
    /\ frame.at = "free" => frame.op \in {"clear", "destroy"}
    /\ frame.at = "collect" => frame.op = "keys"
    /\ frame.at # "search" \/ frame.op # "remove" => frame.prev = Null
    /\ frame.at # "collect" => frame.keys = <<>>

\* The table, and the old one while there are two.
Tables ==
    /\ exists => capacity > 0 /\ threshold = Threshold(capacity)
    /\ ~exists => capacity = 0 /\ size = 0 /\ threshold = 0
    /\ frame.at # "resize" => old = NoTable
    /\ frame.at = "resize" =>
          \E c \in 1..capacity :
             DOMAIN old = 0..(c - 1) /\ capacity = 2 * c /\ Cardinality(Live) <= Threshold(c)
    /\ frame.at = "resize" => frame.i \in DOMAIN old
    /\ frame.at \in {"free", "collect"} => frame.i \in Buckets

\* Every entry of a chain belongs in its bucket.
Placed ==
    frame.at # "free" =>
        \A j \in Buckets : \A e \in Reach(heap, buckets[j]) : Index(heap[e].key, capacity) = j

\* The entries that are linked in the table.
Stored == UNION {Reach(heap, buckets[j]) : j \in Buckets}

\* size, outside clear and destroy, which set it at the end.
Counts ==
    /\ frame.at # "free" => size = Cardinality(Stored)
    /\ frame.at # "resize" => size <= threshold
    /\ frame.at = "search" /\ frame.op = "insert" => size < threshold

\* A lookup has passed only other keys, and a removal knows the entry before.
Searching ==
    frame.at = "search" =>
        LET bucket == buckets[Index(frame.key, capacity)]
        IN  /\ frame.entry \in Reach(heap, bucket) \cup {Null}
            /\ \A e \in Reach(heap, bucket) \ Reach(heap, frame.entry) : heap[e].key # frame.key
            /\ frame.op = "remove" =>
                  \/ frame.prev = Null /\ frame.entry = bucket
                  \/ frame.prev \in Reach(heap, bucket) /\ heap[frame.prev].next = frame.entry

\* The entries collected are those of the buckets before, and of this one up to the entry in hand.
Collected ==
    {e \in Live : Index(heap[e].key, capacity) < frame.i}
    \cup {e \in Reach(heap, buckets[frame.i]) : e \notin Reach(heap, frame.entry)}

Collecting ==
    frame.at = "collect" =>
        /\ frame.entry \in Reach(heap, buckets[frame.i]) \cup {Null}
        /\ {frame.keys[n] : n \in DOMAIN frame.keys} = Collected
        /\ Len(frame.keys) = Cardinality(Collected)

\* clear leaves no pointer in the buckets it has been through.
Freeing ==
    frame.at = "free" /\ frame.op = "clear" => \A j \in Buckets : j < frame.i => buckets[j] = Null

IInv ==
    /\ TypeOK
    /\ Forest(heap, HeadOf)
    /\ Control
    /\ Tables
    /\ Placed
    /\ UniqueKeys
    /\ Counts
    /\ Searching
    /\ Collecting
    /\ Freeing

LEMMA IndexIn == ASSUME NEW k \in Keys, NEW c \in Nat \ {0} PROVE Index(k, c) \in 0..(c - 1)
BY HashAssumption DEF Index

LEMMA HeadIs ==
    ASSUME NEW cap \in Nat, NEW table \in [0..(cap - 1) -> Pointer],
           NEW od, DOMAIN od \subseteq Nat, od \in [DOMAIN od -> Pointer], NEW f \in Frame
    PROVE  LET H == HeadsFor(cap, table, od, f)
           IN  /\ H \in Heads
               /\ f.at # "free" => \A j \in 0..(cap - 1) : H[j] = table[j]
               /\ f.at = "free" => \A j \in 0..(cap - 1) : H[j] = IF j > f.i THEN table[j] ELSE Null
               /\ H[Front] = IF f.at \in {"resize", "free"} THEN f.entry ELSE Null
               /\ \A j \in Nat : H[OldRoot(j)] = IF j \in DOMAIN od /\ j > f.i THEN od[j] ELSE Null
               /\ \A r \in Int : r >= cap => H[r] = Null
<1> DEFINE H == HeadsFor(cap, table, od, f)
<1>1. f.entry \in Pointer /\ f.i \in Nat
  BY DEF Frame
<1>2. ASSUME NEW r \in Int
      PROVE H[r] = CASE r \in 0..(cap - 1) /\ (f.at = "free" => r > f.i)   -> table[r]
                     [] r = Front /\ f.at \in {"resize", "free"}           -> f.entry
                     [] OldRoot(r) \in DOMAIN od /\ OldRoot(r) > f.i       -> od[OldRoot(r)]
                     [] OTHER                                              -> Null
  BY DEF HeadsFor
<1>3. ASSUME NEW r \in Int PROVE H[r] \in Pointer
  BY <1>1, <1>2 DEF Front, OldRoot, Pointer
<1>4. H \in Heads
  <2>1. H = [r \in Int |-> H[r]]
    BY DEF HeadsFor
  <2>2. QED
    BY <1>3, <2>1 DEF Heads
<1> HIDE DEF H
<1>5. f.at # "free" => \A j \in 0..(cap - 1) : H[j] = table[j]
  BY <1>2 DEF Front, OldRoot
<1>6. f.at = "free" => \A j \in 0..(cap - 1) : H[j] = IF j > f.i THEN table[j] ELSE Null
  BY <1>2 DEF Front, OldRoot
<1>7. H[Front] = IF f.at \in {"resize", "free"} THEN f.entry ELSE Null
  BY <1>2 DEF Front, OldRoot
<1>8. ASSUME NEW j \in Nat PROVE H[OldRoot(j)] = IF j \in DOMAIN od /\ j > f.i THEN od[j] ELSE Null
  <2>1. OldRoot(j) \in Int /\ OldRoot(OldRoot(j)) = j /\ OldRoot(j) # Front /\ OldRoot(j) \notin 0..(cap - 1)
    BY DEF OldRoot, Front
  <2>2. QED
    BY <1>2, <2>1
<1>9. \A r \in Int : r >= cap => H[r] = Null
  BY <1>2 DEF Front, OldRoot
<1>10. QED
  BY <1>4, <1>5, <1>6, <1>7, <1>8, <1>9 DEF H

LEMMA Roots ==
    \A r \in Int : r \in Nat \/ r = Front \/ (OldRoot(r) \in Nat /\ OldRoot(OldRoot(r)) = r)
BY DEF Front, OldRoot

\* What an invariant state says of the roots.
LEMMA HeadFacts ==
    ASSUME TypeOK
    PROVE  /\ HeadOf \in Heads
           /\ frame.at # "free" => \A j \in Buckets : HeadOf[j] = buckets[j]
           /\ frame.at = "free" => \A j \in Buckets : HeadOf[j] = IF j > frame.i THEN buckets[j] ELSE Null
           /\ HeadOf[Front] = IF frame.at \in {"resize", "free"} THEN frame.entry ELSE Null
           /\ \A j \in Nat : HeadOf[OldRoot(j)] = IF j \in DOMAIN old /\ j > frame.i THEN old[j] ELSE Null
           /\ \A r \in Int : r >= capacity => HeadOf[r] = Null
BY HeadIs DEF TypeOK, HeadOf, Buckets

LEMMA HeadFactsNext ==
    ASSUME TypeOK'
    PROVE  /\ HeadOf' \in Heads
           /\ frame'.at # "free" => \A j \in Buckets' : HeadOf'[j] = buckets'[j]
           /\ frame'.at = "free" => \A j \in Buckets' : HeadOf'[j] = IF j > frame'.i THEN buckets'[j] ELSE Null
           /\ HeadOf'[Front] = IF frame'.at \in {"resize", "free"} THEN frame'.entry ELSE Null
           /\ \A j \in Nat : HeadOf'[OldRoot(j)] = IF j \in DOMAIN old' /\ j > frame'.i THEN old'[j] ELSE Null
           /\ \A r \in Int : r >= capacity' => HeadOf'[r] = Null
BY HeadIs DEF TypeOK, HeadOf, Buckets

\* Two families of chains with the same roots are the same.
LEMMA SameHeads ==
    ASSUME NEW H \in Heads, NEW G \in Heads,
           \A j \in Nat : H[j] = G[j],
           H[Front] = G[Front],
           \A j \in Nat : H[OldRoot(j)] = G[OldRoot(j)]
    PROVE  H = G
<1>1. \A r \in Int : H[r] = G[r]
  BY Roots
<1>2. QED
  BY <1>1 DEF Heads
-----------------------------------------------------------------------------
(* Steps that leave the table alone *)

LEMMA IdleFrame == Idle \in Frame /\ NoTable = [i \in {} |-> Null] /\ DOMAIN NoTable = {}
BY DEF Idle, Frame, Pointer, NoTable

LEMMA InitIInv == Init => IInv
<1> SUFFICES ASSUME Init PROVE IInv
  OBVIOUS
<1> USE DEF Init
<1>1. heap \in Memory /\ \A e \in Entries : heap[e].key = Null /\ heap[e].next = Null
  BY DEF Memory, Cell, FreeCell, Pointer
<1>2. LiveOf(heap) = {} /\ Live = {}
  BY <1>1 DEF LiveOf, Live
<1>3. TypeOK
  <2>1. buckets \in [0..(capacity - 1) -> Pointer] /\ DOMAIN old \subseteq Nat /\ old \in [DOMAIN old -> Pointer]
    BY DEF NoTable
  <2>2. QED
    BY <1>1, <2>1, IdleFrame DEF TypeOK, NoAnswer, Memory
<1>4. HeadOf \in Heads /\ \A r \in Int : HeadOf[r] = Null
  <2>1. \A j \in Nat : j >= capacity
    OBVIOUS
  <2>2. frame.at = "idle" /\ DOMAIN old = {}
    BY IdleFrame DEF Idle
  <2>3. QED
    BY <1>3, <2>1, <2>2, HeadFacts, Roots
<1>5. Forest(heap, HeadOf)
  BY <1>2, <1>4, ReachNull DEF Forest
<1>6. Control /\ Searching /\ Collecting /\ Freeing
  BY DEF Control, Searching, Collecting, Freeing, Idle
<1>7. Tables
  BY DEF Tables, Idle
<1>8. Placed /\ UniqueKeys
  BY <1>2 DEF Placed, UniqueKeys, Buckets
<1>9. Counts
  <2>1. Stored = {}
    BY DEF Buckets, Stored
  <2>2. QED
    BY <2>1, FS_EmptySet DEF Counts, Idle
<1>10. QED
  BY <1>3, <1>5, <1>6, <1>7, <1>8, <1>9 DEF IInv

\* Neither call has a loop that takes the table apart.
LEMMA TableKept ==
    ASSUME IInv, TypeOK', UNCHANGED <<mapFields, heap>>,
           frame.at \notin {"resize", "free"}, frame'.at \notin {"resize", "free"},
           frame'.at = "collect" => frame'.i \in Buckets,
           frame'.at = "search" /\ frame'.op = "insert" => size < threshold
    PROVE  Forest(heap, HeadOf)' /\ Tables' /\ Placed' /\ UniqueKeys' /\ Counts'
<1>1. /\ exists' = exists /\ capacity' = capacity /\ size' = size /\ threshold' = threshold
      /\ buckets' = buckets /\ old' = old /\ heap' = heap
  BY DEF mapFields
<1>2. TypeOK /\ old = NoTable /\ Buckets' = Buckets /\ Live' = Live
  BY <1>1 DEF IInv, Tables, Buckets, Live
<1>3. HeadOf' = HeadOf
  <2>1. \A j \in Nat : HeadOf'[j] = HeadOf[j]
    <3>1. ASSUME NEW j \in Buckets PROVE HeadOf'[j] = HeadOf[j]
      BY <1>1, <1>2, HeadFacts, HeadFactsNext
    <3>2. ASSUME NEW j \in Nat, j >= capacity PROVE HeadOf'[j] = HeadOf[j]
      BY <1>1, <1>2, <3>2, HeadFacts, HeadFactsNext
    <3>3. QED
      BY <1>2, <3>1, <3>2 DEF Buckets, TypeOK
  <2>2. HeadOf'[Front] = HeadOf[Front]
    BY <1>2, HeadFacts, HeadFactsNext
  <2>3. \A j \in Nat : HeadOf'[OldRoot(j)] = HeadOf[OldRoot(j)]
    BY <1>1, <1>2, IdleFrame, HeadFacts, HeadFactsNext
  <2>4. QED
    BY <1>2, <2>1, <2>2, <2>3, HeadFacts, HeadFactsNext, SameHeads
<1>4. Forest(heap, HeadOf)'
  BY <1>1, <1>3 DEF IInv
<1>5. Tables'
  BY <1>1, <1>2 DEF IInv, Tables
<1>6. Placed' /\ UniqueKeys'
  BY <1>1, <1>2 DEF IInv, Placed, UniqueKeys
<1>7. Counts'
  BY <1>1, <1>2 DEF IInv, Counts, Stored
<1>8. QED
  BY <1>4, <1>5, <1>6, <1>7

\* A call that ends without touching the table.
LEMMA CallEnds ==
    ASSUME IInv, frame.at \notin {"resize", "free"}, UNCHANGED <<mapFields, heap>>,
           frame' = Idle,
           answer'.op \in {"none", "create", "insert", "get", "remove", "contains", "size", "keys"},
           answer'.key \in Keys \cup {Null},
           answer'.res \in Nat \cup Values \cup {Null},
           answer'.keys \subseteq Keys
    PROVE  IInv'
<1>1. TypeOK'
  BY IdleFrame DEF IInv, TypeOK, mapFields
<1>2. Control' /\ Searching' /\ Collecting' /\ Freeing'
  BY DEF Control, Searching, Collecting, Freeing, Idle
<1>3. frame'.at = "idle"
  BY DEF Idle
<1>4. Forest(heap, HeadOf)' /\ Tables' /\ Placed' /\ UniqueKeys' /\ Counts'
  BY <1>1, <1>3, TableKept
<1>5. QED
  BY <1>1, <1>2, <1>4 DEF IInv

\* What the calls answer that do not begin a loop.
LEMMA IdleIInv ==
    ASSUME IInv, NullCall \/ CreateFails \/ Size \/ NoKeys
    PROVE  IInv'
<1>1. frame.at = "idle" /\ UNCHANGED <<mapFields, heap>> /\ frame' = frame
  BY DEF NullCall, CreateFails, Size, NoKeys, Ready
<1>2. frame' = Idle
  BY <1>1 DEF IInv, Control
<1>3. /\ answer'.op \in {"none", "create", "insert", "get", "remove", "contains", "size", "keys"}
      /\ answer'.key \in Keys \cup {Null}
      /\ answer'.res \in Nat \cup Values \cup {Null}
      /\ answer'.keys \subseteq Keys
  <2>1. CASE NullCall
    BY <2>1 DEF NullCall
  <2>2. CASE CreateFails \/ Size \/ NoKeys
    BY <2>2 DEF CreateFails, Size, NoKeys, IInv, TypeOK
  <2>3. QED
    BY <2>1, <2>2
<1>4. QED
  BY <1>1, <1>2, <1>3, CallEnds

\* What the bucket of a key holds.
LEMMA BucketOf ==
    ASSUME IInv, exists, NEW k \in Keys
    PROVE  /\ Index(k, capacity) \in Buckets
           /\ buckets[Index(k, capacity)] \in Pointer
BY IndexIn DEF IInv, TypeOK, Tables, Buckets

LEMMA SearchesIInv ==
    ASSUME IInv, frame.at = "search", GetReturns \/ ContainsReturns \/ NothingToRemove \/ AddFails
    PROVE  IInv'
<1> USE DEF GetReturns, ContainsReturns, NothingToRemove, AddFails, Answers
<1>1. UNCHANGED <<mapFields, heap>> /\ frame' = Idle
  OBVIOUS
<1>2. frame.key \in Keys /\ frame.entry \in Pointer
  BY DEF IInv, TypeOK, Control, Frame
<1>3. Matches => heap[frame.entry].value \in Values \cup {Null}
  BY <1>2 DEF Matches, Pointer, IInv, TypeOK, Cell
<1>4. /\ answer'.op \in {"none", "create", "insert", "get", "remove", "contains", "size", "keys"}
      /\ answer'.key \in Keys \cup {Null}
      /\ answer'.res \in Nat \cup Values \cup {Null}
      /\ answer'.keys \subseteq Keys
  <2>1. CASE GetReturns
    BY <1>2, <1>3, <2>1
  <2>2. CASE ContainsReturns \/ NothingToRemove \/ AddFails
    BY <1>2, <2>2
  <2>3. QED
    BY <2>1, <2>2
<1>5. QED
  BY <1>1, <1>4, CallEnds

LEMMA GrowFailsIInv == ASSUME IInv, GrowFails PROVE IInv'
<1> USE DEF GrowFails, Answers
<1>1. frame.at = "grow" /\ UNCHANGED <<mapFields, heap>> /\ frame' = Idle
  OBVIOUS
<1>2. frame.op = "insert" /\ frame.key \in Keys
  BY <1>1 DEF IInv, Control
<1>3. QED
  BY <1>1, <1>2, CallEnds
-----------------------------------------------------------------------------
(* Calls that begin, and the search *)

\* In a table that is sound, an entry is in one bucket, the one of its key.
LEMMA Homes ==
    ASSUME IInv, exists, frame.at \notin {"resize", "free"}
    PROVE  /\ \A e \in Live : e \in Reach(heap, buckets[Index(heap[e].key, capacity)])
           /\ \A j \in Buckets : Reach(heap, buckets[j]) =
                                     {e \in Live : Index(heap[e].key, capacity) = j}
           /\ Stored = Live
           /\ \A j \in Buckets : buckets[j] \in Pointer
<1> USE DEF IInv
<1>1. \A j \in Buckets : buckets[j] \in Pointer /\ HeadOf[j] = buckets[j] /\ j \in Int
  BY HeadFacts DEF TypeOK, Buckets
<1>2. Live = LiveOf(heap)
  BY DEF Live, LiveOf
<1>3. \A r \in Int : r \in Buckets \/ HeadOf[r] = Null
  <2>1. \A j \in Nat : HeadOf[OldRoot(j)] = Null
    BY HeadFacts, IdleFrame DEF Tables
  <2>2. HeadOf[Front] = Null
    BY HeadFacts
  <2>3. \A j \in Nat : j \in Buckets \/ HeadOf[j] = Null
    BY HeadFacts DEF Buckets, TypeOK
  <2>4. QED
    BY <2>1, <2>2, <2>3, Roots
<1>4. \A j \in Buckets : Reach(heap, buckets[j]) \subseteq Live
  BY <1>1, <1>2 DEF Forest
<1>5. \A j \in Buckets : \A e \in Reach(heap, buckets[j]) : Index(heap[e].key, capacity) = j
  BY DEF Placed
<1>6. ASSUME NEW e \in Live PROVE \E j \in Buckets : e \in Reach(heap, buckets[j])
  <2>1. PICK r \in Int : e \in Reach(heap, HeadOf[r])
    BY <1>2 DEF Forest
  <2>2. HeadOf[r] # Null
    BY <2>1, ReachNull
  <2>3. QED
    BY <1>1, <1>3, <2>1, <2>2
<1>7. \A e \in Live : e \in Reach(heap, buckets[Index(heap[e].key, capacity)])
  BY <1>5, <1>6
<1>8. \A j \in Buckets : Reach(heap, buckets[j]) = {e \in Live : Index(heap[e].key, capacity) = j}
  BY <1>4, <1>5, <1>7
<1>9. Stored = Live
  BY <1>4, <1>6 DEF Stored
<1>10. QED
  BY <1>1, <1>7, <1>8, <1>9

LEMMA LiveFinite == IsFiniteSet(Live) /\ Cardinality(Live) \in Nat
BY EntriesAssumption, FS_Subset, FS_CardinalityType DEF Live

\* A search begins.
LEMMA SearchBegins ==
    ASSUME IInv, exists, frame.at \notin {"resize", "free"}, UNCHANGED <<mapFields, heap>>,
           NEW op \in {"insert", "get", "remove", "contains"}, NEW k \in Keys,
           NEW v \in Values \cup {Null}, frame' = Search(op, k, v),
           op = "insert" => size < threshold,
           TypeOK'
    PROVE  IInv'
<1>1. /\ frame'.at = "search" /\ frame'.op = op /\ frame'.key = k /\ frame'.prev = Null
      /\ frame'.entry = buckets[Index(k, capacity)] /\ frame'.keys = <<>>
  BY DEF Search, Idle
<1>2. Forest(heap, HeadOf)' /\ Tables' /\ Placed' /\ UniqueKeys' /\ Counts'
  BY <1>1, TableKept
<1>3. heap' = heap /\ buckets' = buckets /\ capacity' = capacity /\ exists'
  BY DEF mapFields
<1>4. Control' /\ Collecting' /\ Freeing'
  BY <1>1, <1>3 DEF Control, Collecting, Freeing
<1>5. Searching'
  <2>1. heap \in Memory /\ buckets[Index(k, capacity)] \in Pointer
    BY BucketOf DEF IInv, TypeOK, Memory
  <2>2. buckets[Index(k, capacity)] \in Reach(heap, buckets[Index(k, capacity)]) \cup {Null}
    BY <2>1, ReachIn
  <2>3. QED
    BY <1>1, <1>3, <2>2 DEF Searching
<1>6. QED
  BY <1>2, <1>4, <1>5 DEF IInv

LEMMA SearchFrame ==
    ASSUME IInv, exists, NEW op \in {"insert", "get", "remove", "contains"}, NEW k \in Keys,
           NEW v \in Values \cup {Null}
    PROVE  Search(op, k, v) \in Frame
BY BucketOf, IdleFrame DEF Search, Frame

LEMMA NoAnswerType ==
    /\ NoAnswer.op = "none" /\ NoAnswer.key = Null /\ NoAnswer.res = Null /\ NoAnswer.keys = {}
BY DEF NoAnswer

LEMMA InsertIInv == ASSUME IInv, NEW k \in Keys, NEW v \in Values \cup {Null}, Insert(k, v) PROVE IInv'
<1>1. exists /\ frame.at = "idle" /\ UNCHANGED <<mapFields, heap>> /\ answer' = NoAnswer
  BY DEF Insert, Ready
<1>2. CASE Full
  <2>1. frame' = [Idle EXCEPT !.at = "grow", !.op = "insert", !.key = k, !.value = v]
    BY <1>2 DEF Insert
  <2>2. /\ frame'.at = "grow" /\ frame'.op = "insert" /\ frame'.key = k /\ frame'.value = v
        /\ frame'.entry = Null /\ frame'.prev = Null /\ frame'.i = 0 /\ frame'.keys = <<>>
    BY <2>1 DEF Idle
  <2>3. frame' \in Frame
    BY <2>1, IdleFrame DEF Frame
  <2>4. TypeOK'
    BY <1>1, <2>3, NoAnswerType DEF IInv, TypeOK, mapFields
  <2>5. Forest(heap, HeadOf)' /\ Tables' /\ Placed' /\ UniqueKeys' /\ Counts'
    BY <1>1, <2>2, <2>4, TableKept
  <2>6. Control' /\ Collecting' /\ Freeing' /\ Searching'
    BY <1>1, <2>2 DEF Control, Collecting, Freeing, Searching, mapFields
  <2>7. QED
    BY <2>4, <2>5, <2>6 DEF IInv
<1>3. CASE ~Full
  <2>1. frame' = Search("insert", k, v)
    BY <1>3 DEF Insert
  <2>2. size < threshold
    BY <1>3 DEF Full, IInv, TypeOK
  <2>3. TypeOK'
    BY <1>1, <2>1, SearchFrame, NoAnswerType DEF IInv, TypeOK, mapFields
  <2>4. QED
    BY <1>1, <2>1, <2>2, <2>3, SearchBegins
<1>4. QED
  BY <1>2, <1>3

LEMMA LookupIInv ==
    ASSUME IInv, NEW op \in {"get", "remove", "contains"}, NEW k \in Keys, Lookup(op, k)
    PROVE  IInv'
<1>1. exists /\ frame.at = "idle" /\ UNCHANGED <<mapFields, heap>> /\ answer' = NoAnswer
      /\ frame' = Search(op, k, Null)
  BY DEF Lookup, Ready
<1>2. TypeOK'
  BY <1>1, SearchFrame, NoAnswerType DEF IInv, TypeOK, mapFields
<1>3. QED
  BY <1>1, <1>2, SearchBegins

LEMMA SearchOnIInv == ASSUME IInv, SearchOn PROVE IInv'
<1> DEFINE e == frame.entry
           b == buckets[Index(frame.key, capacity)]
<1>1. /\ frame.at = "search" /\ e # Null /\ heap[e].key # frame.key
      /\ UNCHANGED <<mapFields, heap, answer>>
      /\ frame' = [frame EXCEPT !.entry = heap[e].next,
                                !.prev = IF frame.op = "remove" THEN e ELSE @]
  BY DEF SearchOn, Matches
<1>2. frame \in Frame /\ frame.key \in Keys /\ exists /\ TypeOK
  BY <1>1 DEF IInv, TypeOK, Control
<1>3. e \in Entries /\ heap \in Memory /\ heap[e].next \in Pointer
  BY <1>1, <1>2, NextPointer DEF Frame, Pointer, IInv, TypeOK, Memory
<1>4. /\ frame'.at = "search" /\ frame'.op = frame.op /\ frame'.key = frame.key
      /\ frame'.entry = heap[e].next /\ frame'.keys = frame.keys
      /\ frame'.prev = IF frame.op = "remove" THEN e ELSE frame.prev
  BY <1>1, <1>2 DEF Frame
<1>5. frame' \in Frame
  BY <1>1, <1>2, <1>3 DEF Frame, Pointer
<1>6. TypeOK'
  BY <1>1, <1>5 DEF IInv, TypeOK, mapFields
<1>7. Forest(heap, HeadOf)' /\ Tables' /\ Placed' /\ UniqueKeys' /\ Counts'
  <2>1. frame.op = "insert" => size < threshold
    BY <1>1 DEF IInv, Counts
  <2>2. QED
    BY <1>1, <1>4, <1>6, <2>1, TableKept
<1>8. Control' /\ Collecting' /\ Freeing'
  <2>1. Control'
    BY <1>1, <1>4 DEF IInv, Control, mapFields
  <2>2. QED
    BY <2>1, <1>4 DEF Collecting, Freeing
<1>9. heap' = heap /\ buckets' = buckets /\ capacity' = capacity
  BY <1>1 DEF mapFields
<1>10. Searching'
  <2>1. b \in Pointer /\ e \in Reach(heap, b)
    BY <1>1, <1>2, BucketOf DEF IInv, Searching
  <2>2. heap[e].next \in Reach(heap, b) \cup {Null}
    BY <1>3, <2>1, ReachIn DEF Closed
  <2>3. Reach(heap, e) = {e} \cup Reach(heap, heap[e].next)
    BY <1>3, ReachNext
  <2>4. \A d \in Reach(heap, b) \ Reach(heap, heap[e].next) : heap[d].key # frame.key
    BY <1>1, <2>3 DEF IInv, Searching
  <2>5. QED
    BY <1>4, <1>9, <2>1, <2>2, <2>4 DEF Searching
<1>11. QED
  BY <1>6, <1>7, <1>8, <1>10 DEF IInv
-----------------------------------------------------------------------------
(* The collection of the keys *)

\* The bucket in hand, in terms of where its entries belong.
LEMMA CollectedIs ==
    ASSUME IInv, exists, frame.at \notin {"resize", "free"}, frame.i \in Buckets
    PROVE  Collected = {e \in Live : /\ Index(heap[e].key, capacity) <= frame.i
                                     /\ Index(heap[e].key, capacity) = frame.i
                                            => e \notin Reach(heap, frame.entry)}
<1>1. ASSUME NEW e \in Live PROVE Index(heap[e].key, capacity) \in Nat
  BY IndexIn DEF Live, IInv, TypeOK, Cell, Tables
<1>2. Reach(heap, buckets[frame.i]) = {e \in Live : Index(heap[e].key, capacity) = frame.i}
  BY Homes
<1>3. frame.i \in Nat
  BY DEF Buckets
<1>4. QED
  BY <1>1, <1>2, <1>3 DEF Collected

LEMMA CollectFrame ==
    ASSUME IInv, frame.at \notin {"resize", "free"}, exists, UNCHANGED <<mapFields, heap>>,
           frame' \in Frame, frame'.at = "collect", frame'.op = "keys", frame'.prev = Null,
           frame'.i \in Buckets,
           answer' = answer \/ answer' = NoAnswer,
           frame'.entry \in Reach(heap, buckets[frame'.i]) \cup {Null},
           {frame'.keys[n] : n \in DOMAIN frame'.keys} = Collected',
           Len(frame'.keys) = Cardinality(Collected')
    PROVE  IInv'
<1>1. TypeOK'
  BY NoAnswerType DEF IInv, TypeOK, mapFields
<1>2. Forest(heap, HeadOf)' /\ Tables' /\ Placed' /\ UniqueKeys' /\ Counts'
  BY <1>1, TableKept
<1>3. Control' /\ Searching' /\ Freeing'
  BY DEF Control, Searching, Freeing, mapFields
<1>4. Collecting'
  BY DEF Collecting, mapFields
<1>5. QED
  BY <1>1, <1>2, <1>3, <1>4 DEF IInv

LEMMA ListKeysIInv == ASSUME IInv, ListKeys PROVE IInv'
<1>1. /\ exists /\ frame.at = "idle" /\ UNCHANGED <<mapFields, heap>> /\ answer' = NoAnswer
      /\ frame' = [Idle EXCEPT !.at = "collect", !.op = "keys", !.entry = buckets[0]]
  BY DEF ListKeys, Ready, Traverse
<1>2. 0 \in Buckets /\ buckets[0] \in Pointer /\ heap \in Memory
  BY <1>1 DEF IInv, Tables, TypeOK, Buckets, Memory
<1>3. frame' \in Frame /\ frame'.at = "collect" /\ frame'.op = "keys" /\ frame'.prev = Null
      /\ frame'.i = 0 /\ frame'.entry = buckets[0] /\ frame'.keys = <<>>
  BY <1>1, <1>2, IdleFrame DEF Idle, Frame
<1>4. buckets[0] \in Reach(heap, buckets[0]) \cup {Null}
  BY <1>2, ReachIn
<1>5. Collected' = {}
  <2>1. heap' = heap /\ buckets' = buckets /\ capacity' = capacity /\ Live' = Live
    BY <1>1 DEF mapFields, Live
  <2>2. ASSUME NEW e \in Live PROVE ~(Index(heap[e].key, capacity) < 0)
    BY <1>1, IndexIn DEF Live, IInv, TypeOK, Cell, Tables
  <2>3. QED
    BY <1>3, <2>1, <2>2 DEF Collected
<1>6. {frame'.keys[n] : n \in DOMAIN frame'.keys} = {} /\ Len(frame'.keys) = 0 /\ Cardinality({}) = 0
  BY <1>3, FS_EmptySet
<1>7. QED
  BY <1>1, <1>2, <1>3, <1>4, <1>5, <1>6, CollectFrame

LEMMA Appended ==
    ASSUME NEW S, NEW s \in Seq(S), NEW x \in S
    PROVE  /\ {Append(s, x)[n] : n \in DOMAIN Append(s, x)} = {s[n] : n \in DOMAIN s} \cup {x}
           /\ Len(Append(s, x)) = Len(s) + 1
<1>1. /\ DOMAIN s = 1..Len(s) /\ Len(s) \in Nat
      /\ DOMAIN Append(s, x) = 1..(Len(s) + 1)
      /\ \A n \in 1..Len(s) : Append(s, x)[n] = s[n]
      /\ Append(s, x)[Len(s) + 1] = x
      /\ Len(Append(s, x)) = Len(s) + 1
  OBVIOUS
<1> DEFINE t == Append(s, x)
<1> HIDE DEF t
<1>2. {t[n] : n \in DOMAIN t} = {s[n] : n \in DOMAIN s} \cup {x}
  BY <1>1 DEF t
<1>3. QED
  BY <1>1, <1>2 DEF t

LEMMA CollectKeyIInv == ASSUME IInv, CollectKey PROVE IInv'
<1> DEFINE e == frame.entry
           q == heap[e].next
<1>1. /\ frame.at = "collect" /\ e # Null /\ UNCHANGED <<mapFields, heap, answer>>
      /\ frame' = [frame EXCEPT !.keys = Append(@, e), !.entry = q]
  BY DEF CollectKey
<1>2. /\ exists /\ frame \in Frame /\ frame.op = "keys" /\ frame.prev = Null /\ frame.i \in Buckets
      /\ heap \in Memory
  BY <1>1 DEF IInv, Control, Tables, TypeOK, Memory
<1>3. e \in Reach(heap, buckets[frame.i]) /\ buckets[frame.i] \in Pointer
  BY <1>1, <1>2, Homes DEF IInv, Collecting
<1>4. e \in Entries /\ q \in Pointer /\ Reach(heap, e) = {e} \cup Reach(heap, q)
  BY <1>2, <1>3, ReachIn, NextPointer, ReachNext
<1>5. q \in Reach(heap, buckets[frame.i]) \cup {Null}
  BY <1>2, <1>3, ReachIn DEF Closed
<1>6. e \in Live /\ Index(heap[e].key, capacity) = frame.i /\ Live = LiveOf(heap)
  BY <1>1, <1>2, <1>3, Homes DEF Live, LiveOf
<1>7. e \notin Reach(heap, q)
  BY <1>6 DEF IInv, Forest
<1>8. /\ frame' \in Frame /\ frame'.at = "collect" /\ frame'.op = "keys" /\ frame'.prev = Null
      /\ frame'.i = frame.i /\ frame'.entry = q /\ frame'.keys = Append(frame.keys, e)
  <2>1. Append(frame.keys, e) \in Seq(Entries)
    BY <1>2, <1>4 DEF Frame
  <2>2. QED
    BY <1>1, <1>2, <1>4, <2>1 DEF Frame
<1>9. e \notin Collected
  <2>1. e \in Reach(heap, e) /\ frame.i \in Nat
    BY <1>2, <1>4 DEF Buckets
  <2>2. ~(Index(heap[e].key, capacity) < frame.i)
    BY <1>6, <2>1
  <2>3. QED
    BY <2>1, <2>2 DEF Collected
<1>10. Collected' = Collected \cup {e}
  <2>1. heap' = heap /\ buckets' = buckets /\ capacity' = capacity /\ Live' = Live
    BY <1>1 DEF mapFields, Live
  <2>2. QED
    BY <1>3, <1>4, <1>7, <1>8, <2>1 DEF Collected
<1>11. /\ {frame.keys[n] : n \in DOMAIN frame.keys} = Collected
       /\ Len(frame.keys) = Cardinality(Collected)
  BY <1>1 DEF IInv, Collecting
<1>12. IsFiniteSet(Collected)
  <2>1. Collected \subseteq Entries
    BY <1>1, <1>2, Homes DEF Collected, Live
  <2>2. QED
    BY <2>1, EntriesAssumption, FS_Subset
<1>13. Cardinality(Collected \cup {e}) = Cardinality(Collected) + 1
  BY <1>9, <1>12, FS_AddElement
<1>14. /\ {frame'.keys[n] : n \in DOMAIN frame'.keys} = Collected'
       /\ Len(frame'.keys) = Cardinality(Collected')
  <2>1. frame.keys \in Seq(Entries)
    BY <1>2 DEF Frame
  <2>2. /\ {Append(frame.keys, e)[n] : n \in DOMAIN Append(frame.keys, e)}
                = {frame.keys[n] : n \in DOMAIN frame.keys} \cup {e}
        /\ Len(Append(frame.keys, e)) = Len(frame.keys) + 1
    BY <1>4, <2>1, Appended
  <2>3. QED
    BY <1>8, <1>10, <1>11, <1>13, <2>2, Zenon
<1>15. QED
  BY <1>1, <1>2, <1>5, <1>8, <1>14, CollectFrame

LEMMA NextCollectedBucketIInv == ASSUME IInv, NextCollectedBucket PROVE IInv'
<1> DEFINE j == frame.i + 1
<1>1. /\ frame.at = "collect" /\ frame.entry = Null /\ j \in DOMAIN buckets
      /\ UNCHANGED <<mapFields, heap, answer>>
      /\ frame' = [frame EXCEPT !.i = j, !.entry = buckets[j]]
  BY DEF NextCollectedBucket
<1>2. /\ exists /\ frame \in Frame /\ frame.op = "keys" /\ frame.prev = Null /\ frame.i \in Buckets
      /\ heap \in Memory
  BY <1>1 DEF IInv, Control, Tables, TypeOK, Memory
<1>3. j \in Buckets /\ buckets[j] \in Pointer
  BY <1>1 DEF IInv, TypeOK, Buckets
<1>4. /\ frame' \in Frame /\ frame'.at = "collect" /\ frame'.op = "keys" /\ frame'.prev = Null
      /\ frame'.i = j /\ frame'.entry = buckets[j] /\ frame'.keys = frame.keys
  <2>1. j \in Nat
    BY <1>3 DEF Buckets
  <2> HIDE DEF j
  <2>2. QED
    BY <1>1, <1>2, <1>3, <2>1 DEF Frame
<1>5. buckets[j] \in Reach(heap, buckets[j]) \cup {Null}
  BY <1>2, <1>3, ReachIn
<1>6. Collected' = Collected
  <2>1. heap' = heap /\ buckets' = buckets /\ capacity' = capacity /\ Live' = Live
    BY <1>1 DEF mapFields, Live
  <2>2. Collected' = {e \in Live : Index(heap[e].key, capacity) < j}
    BY <1>4, <2>1 DEF Collected
  <2>3. Collected = {e \in Live : Index(heap[e].key, capacity) <= frame.i}
    BY <1>1, <1>2, CollectedIs, ReachNull
  <2>4. ASSUME NEW e \in Live PROVE Index(heap[e].key, capacity) \in Nat
    BY <1>2, IndexIn DEF Live, IInv, TypeOK, Cell, Tables
  <2>5. QED
    BY <1>2, <2>2, <2>3, <2>4 DEF Buckets
<1>7. QED
  BY <1>1, <1>2, <1>3, <1>4, <1>5, <1>6, CollectFrame DEF IInv, Collecting

\* At the end of the traversal every entry has been collected.
LEMMA AllCollected ==
    ASSUME IInv, frame.at = "collect", frame.entry = Null, frame.i + 1 \notin DOMAIN buckets
    PROVE  Collected = Live
<1>1. frame.i \in Buckets /\ exists /\ DOMAIN buckets = Buckets
  BY DEF IInv, Control, Tables, TypeOK, Buckets
<1>2. frame.i = capacity - 1 /\ capacity \in Nat \ {0}
  BY <1>1 DEF Buckets, IInv, TypeOK, Tables
<1>3. Collected = {e \in Live : Index(heap[e].key, capacity) <= frame.i}
  BY <1>1, CollectedIs, ReachNull
<1>4. ASSUME NEW e \in Live PROVE Index(heap[e].key, capacity) \in 0..(capacity - 1)
  BY <1>2, IndexIn DEF Live, IInv, TypeOK, Cell
<1>5. QED
  BY <1>2, <1>3, <1>4

LEMMA KeysReturnsIInv == ASSUME IInv, KeysReturns PROVE IInv'
<1>1. /\ frame.at = "collect" /\ UNCHANGED <<mapFields, heap>> /\ frame' = Idle
      /\ answer' = [op |-> "keys", key |-> Null, res |-> size,
                    keys |-> {heap[frame.keys[n]].key : n \in DOMAIN frame.keys}]
  BY DEF KeysReturns
<1>2. \A n \in DOMAIN frame.keys : heap[frame.keys[n]].key \in Keys
  <2>1. \A n \in DOMAIN frame.keys : frame.keys[n] \in Collected
    BY <1>1 DEF IInv, Collecting
  <2>2. Collected \subseteq Live
    BY <1>1, Homes DEF Collected, IInv, Control, Tables
  <2>3. QED
    BY <2>1, <2>2 DEF Live, IInv, TypeOK, Cell
<1>3. size \in Nat
  BY DEF IInv, TypeOK
<1>4. QED
  BY <1>1, <1>2, <1>3, CallEnds
-----------------------------------------------------------------------------
(* Steps on an empty table *)

LEMMA ThresholdNat == ASSUME NEW c \in Nat PROVE Threshold(c) \in Nat
BY DEF Threshold

LEMMA TableIs == ASSUME NEW c \in Nat PROVE Table(c) \in [0..(c - 1) -> Pointer] /\ \A j \in 0..(c - 1) : Table(c)[j] = Null
BY DEF Table, Pointer

\* Without a chain there is no entry.
LEMMA NoChains ==
    ASSUME IInv, \A r \in Int : HeadOf[r] = Null
    PROVE  Live = {}
<1>1. Live = LiveOf(heap)
  BY DEF Live, LiveOf
<1>2. QED
  BY <1>1, ReachNull DEF IInv, Forest

LEMMA NoMapNoEntry == ASSUME IInv, ~exists PROVE Live = {} /\ capacity = 0 /\ frame = Idle /\ old = NoTable
<1>1. capacity = 0 /\ frame.at = "idle" /\ frame = Idle /\ old = NoTable
  BY DEF IInv, Tables, Control, Idle
<1>2. \A r \in Int : HeadOf[r] = Null
  <2>1. TypeOK /\ \A j \in Nat : j >= capacity
    BY <1>1 DEF IInv
  <2>2. QED
    BY <1>1, <2>1, HeadFacts, IdleFrame, Roots
<1>3. QED
  BY <1>1, <1>2, NoChains

\* A table without entries between calls.
LEMMA EmptyTable ==
    ASSUME TypeOK', Live' = {}, frame' = Idle, old' = NoTable,
           \A j \in Buckets' : buckets'[j] = Null,
           size' = 0, Tables'
    PROVE  IInv'
<1>1. frame'.at = "idle"
  BY DEF Idle
<1>2. HeadOf' \in Heads /\ \A r \in Int : HeadOf'[r] = Null
  <2>1. \A j \in Nat : HeadOf'[j] = Null
    <3> SUFFICES ASSUME NEW j \in Nat PROVE HeadOf'[j] = Null
      OBVIOUS
    <3>1. CASE j \in Buckets'
      BY <1>1, <3>1, HeadFactsNext
    <3>2. CASE j >= capacity'
      BY <3>2, HeadFactsNext
    <3>3. QED
      BY <3>1, <3>2 DEF Buckets, TypeOK
  <2>2. HeadOf'[Front] = Null /\ \A j \in Nat : HeadOf'[OldRoot(j)] = Null
    BY <1>1, IdleFrame, HeadFactsNext
  <2>3. QED
    BY <2>1, <2>2, HeadFactsNext, Roots
<1>3. LiveOf(heap)' = {}
  BY DEF Live, LiveOf
<1>4. Forest(heap, HeadOf)'
  BY <1>2, <1>3, ReachNull DEF Forest
<1>5. Control' /\ Searching' /\ Collecting' /\ Freeing'
  BY DEF Control, Searching, Collecting, Freeing, Idle
<1>6. Placed' /\ UniqueKeys'
  BY ReachNull DEF Placed, UniqueKeys
<1>7. Counts'
  <2>1. Stored' = {}
    BY ReachNull DEF Stored
  <2>2. size' <= threshold'
    BY DEF TypeOK
  <2>3. QED
    BY <1>1, <2>1, <2>2, FS_EmptySet DEF Counts
<1>8. QED
  BY <1>4, <1>5, <1>6, <1>7 DEF IInv

LEMMA CreateIInv == ASSUME IInv, NEW c \in Capacities, Create(c) PROVE IInv'
<1> DEFINE cap == IF c = 0 THEN InitialCapacity ELSE c
<1>1. cap \in Nat \ {0}
  BY CapacitiesAssumption
<1>2. /\ ~exists /\ exists' = TRUE /\ capacity' = cap /\ threshold' = Threshold(cap)
      /\ buckets' = Table(cap) /\ size' = 0 /\ UNCHANGED <<old, heap, frame>>
      /\ answer' = [op |-> "create", key |-> Null, res |-> 1, keys |-> {}]
  BY DEF Create
<1> HIDE DEF cap
<1>3. Live' = {} /\ frame' = Idle /\ old' = NoTable
  BY <1>2, NoMapNoEntry DEF Live
<1>4. TypeOK'
  <2>1. buckets' \in [0..(capacity' - 1) -> Pointer] /\ threshold' \in Nat
    BY <1>1, <1>2, TableIs, ThresholdNat
  <2>2. QED
    BY <1>1, <1>2, <2>1 DEF IInv, TypeOK
<1>5. \A j \in Buckets' : buckets'[j] = Null
  BY <1>1, <1>2, TableIs DEF Buckets
<1>6. Tables'
  BY <1>1, <1>2, <1>3 DEF Tables, Idle
<1>7. QED
  BY <1>2, <1>3, <1>4, <1>5, <1>6, EmptyTable

\* At the end of clear and destroy.
LEMMA FreedAll ==
    ASSUME IInv, frame.at = "free", frame.entry = Null, frame.i + 1 \notin DOMAIN buckets
    PROVE  /\ Live = {} /\ old = NoTable /\ exists /\ capacity \in Nat \ {0} /\ frame.i = capacity - 1
           /\ frame.i \in Buckets
<1>1. frame.i \in Buckets /\ exists /\ DOMAIN buckets = Buckets /\ TypeOK /\ old = NoTable
  BY DEF IInv, Control, Tables, TypeOK, Buckets
<1>2. frame.i = capacity - 1 /\ capacity \in Nat \ {0}
  BY <1>1 DEF Buckets, IInv, TypeOK, Tables
<1>3. \A j \in Nat : HeadOf[j] = Null
  <2> SUFFICES ASSUME NEW j \in Nat PROVE HeadOf[j] = Null
    OBVIOUS
  <2>1. CASE j \in Buckets
    BY <1>1, <1>2, <2>1, HeadFacts DEF Buckets
  <2>2. CASE j >= capacity
    BY <1>1, <2>2, HeadFacts
  <2>3. QED
    BY <1>2, <2>1, <2>2 DEF Buckets
<1>4. HeadOf[Front] = Null /\ \A j \in Nat : HeadOf[OldRoot(j)] = Null
  BY <1>1, HeadFacts, IdleFrame
<1>5. \A r \in Int : HeadOf[r] = Null
  BY <1>3, <1>4, Roots
<1>6. QED
  BY <1>1, <1>2, <1>5, NoChains

LEMMA ClearedIInv == ASSUME IInv, Cleared PROVE IInv'
<1>1. /\ frame.at = "free" /\ frame.entry = Null /\ frame.op = "clear" /\ frame.i + 1 \notin DOMAIN buckets
      /\ buckets' = [buckets EXCEPT ![frame.i] = Null] /\ size' = 0 /\ frame' = Idle
      /\ UNCHANGED <<exists, capacity, threshold, old, heap, answer>>
  BY DEF Cleared, Emptied
<1>2. /\ Live = {} /\ old = NoTable /\ exists /\ capacity \in Nat \ {0} /\ frame.i = capacity - 1
      /\ frame.i \in Buckets
  BY <1>1, FreedAll
<1>3. Live' = {} /\ Buckets' = Buckets
  BY <1>1, <1>2 DEF Live, Buckets
<1>4. TypeOK'
  <2>1. buckets' \in [0..(capacity' - 1) -> Pointer]
    BY <1>1 DEF IInv, TypeOK, Pointer
  <2>2. QED
    BY <1>1, <2>1, IdleFrame DEF IInv, TypeOK
<1>5. \A j \in Buckets' : buckets'[j] = Null
  BY <1>1, <1>2, <1>3 DEF Freeing, IInv, TypeOK, Buckets
<1>6. Tables'
  BY <1>1, <1>2, <1>3 DEF IInv, Tables, Idle
<1>7. QED
  BY <1>1, <1>2, <1>3, <1>4, <1>5, <1>6, EmptyTable

LEMMA DestroyedIInv == ASSUME IInv, Destroyed PROVE IInv'
<1>1. /\ frame.at = "free" /\ frame.entry = Null /\ frame.op = "destroy" /\ frame.i + 1 \notin DOMAIN buckets
      /\ exists' = FALSE /\ capacity' = 0 /\ size' = 0 /\ threshold' = 0 /\ buckets' = NoTable
      /\ frame' = Idle
      /\ UNCHANGED <<old, heap, answer>>
  BY DEF Destroyed
<1>2. Live = {} /\ old = NoTable
  BY <1>1, FreedAll
<1>3. Live' = {} /\ Buckets' = {}
  BY <1>1, <1>2 DEF Live, Buckets
<1>4. TypeOK'
  <2>1. buckets' \in [0..(capacity' - 1) -> Pointer]
    BY <1>1 DEF NoTable
  <2>2. QED
    BY <1>1, <2>1, IdleFrame DEF IInv, TypeOK
<1>5. Tables'
  BY <1>1, <1>2 DEF Tables, Idle
<1>6. QED
  BY <1>1, <1>2, <1>3, <1>4, <1>5, EmptyTable
-----------------------------------------------------------------------------
(* Clear and destroy *)

\* Of a map that is taken apart, only the chains and the buckets left matter.
LEMMA FreeGoesOn ==
    ASSUME IInv, exists, UNCHANGED <<exists, capacity, size, threshold, old>>,
           frame.at # "resize", frame'.at = "free", frame'.op \in {"clear", "destroy"},
           frame' \in Frame, frame'.prev = Null, frame'.keys = <<>>, frame'.i \in Buckets,
           buckets' \in [0..(capacity - 1) -> Pointer], heap' \in [Entries -> Cell],
           answer' = answer \/ answer' = NoAnswer,
           TypeOK' => Forest(heap, HeadOf)',
           \A e \in Entries : heap'[e].key = heap[e].key \/ heap'[e].key = Null,
           Freeing'
    PROVE  IInv'
<1>1. TypeOK'
  BY NoAnswerType DEF IInv, TypeOK
<1>2. Tables'
  BY DEF IInv, Tables, Buckets
<1>3. Control' /\ Searching' /\ Collecting' /\ Placed'
  BY DEF Control, Searching, Collecting, Placed
<1>4. UniqueKeys'
  BY DEF IInv, UniqueKeys, Live
<1>5. Counts'
  BY DEF IInv, Counts
<1>6. QED
  BY <1>1, <1>2, <1>3, <1>4, <1>5 DEF IInv

LEMMA FreeAllIInv == ASSUME IInv, NEW op \in {"clear", "destroy"}, FreeAll(op) PROVE IInv'
<1>1. /\ exists /\ frame.at = "idle" /\ UNCHANGED <<mapFields, heap>> /\ answer' = NoAnswer
      /\ frame' = [Idle EXCEPT !.at = "free", !.op = op, !.entry = buckets[0]]
  BY DEF FreeAll, Ready, Traverse
<1>2. 0 \in Buckets /\ buckets[0] \in Pointer /\ heap \in Memory /\ TypeOK
  BY <1>1 DEF IInv, Tables, TypeOK, Buckets, Memory
<1>3. frame' \in Frame /\ frame'.at = "free" /\ frame'.op = op /\ frame'.prev = Null
      /\ frame'.i = 0 /\ frame'.entry = buckets[0] /\ frame'.keys = <<>>
  BY <1>1, <1>2, IdleFrame DEF Idle, Frame
<1>4. ASSUME TypeOK' PROVE Forest(heap, HeadOf)'
  <2> DEFINE H == HeadOf
             G == [H EXCEPT ![Front] = H[0], ![0] = Null]
  <2>1. H \in Heads /\ H[Front] = Null /\ H[0] = buckets[0] /\ Front \in Int /\ Front # 0 /\ 0 \in Int
    BY <1>1, <1>2, HeadFacts DEF Front
  <2>2. Forest(heap, G)
    BY <1>2, <2>1, Shifted DEF IInv
  <2>3. G \in Heads /\ G[Front] = buckets[0] /\ G[0] = Null /\ \A r \in Int \ {Front, 0} : G[r] = H[r]
    BY <2>1 DEF Heads, Pointer
  <2> HIDE DEF G
  <2>4. HeadOf' \in Heads
    BY <1>4, HeadFactsNext
  <2>5. \A j \in Nat : HeadOf'[j] = G[j]
    <3> SUFFICES ASSUME NEW j \in Nat PROVE HeadOf'[j] = G[j]
      OBVIOUS
    <3>1. buckets' = buckets /\ capacity' = capacity /\ Buckets' = Buckets
      BY <1>1 DEF mapFields, Buckets
    <3>2. CASE j = 0
      BY <1>2, <1>3, <1>4, <2>3, <3>1, <3>2, HeadFactsNext
    <3>3. CASE j \in Buckets /\ j # 0
      <4>1. j \in Int \ {Front, 0} /\ j > 0
        BY <3>3 DEF Front, Buckets
      <4>2. HeadOf'[j] = buckets[j]
        BY <1>3, <1>4, <3>1, <3>3, <4>1, HeadFactsNext
      <4>3. H[j] = buckets[j]
        BY <1>1, <1>2, <3>3, HeadFacts
      <4>4. QED
        BY <2>3, <4>1, <4>2, <4>3
    <3>4. CASE j >= capacity /\ j # 0
      <4>1. j \in Int \ {Front, 0}
        BY <3>4 DEF Front
      <4>2. HeadOf'[j] = Null /\ H[j] = Null
        BY <1>2, <1>4, <3>1, <3>4, HeadFacts, HeadFactsNext
      <4>3. QED
        BY <2>3, <4>1, <4>2
    <3>5. QED
      BY <1>2, <3>2, <3>3, <3>4 DEF Buckets, TypeOK
  <2>6. HeadOf'[Front] = G[Front]
    BY <1>3, <1>4, <2>3, HeadFactsNext
  <2>7. \A j \in Nat : HeadOf'[OldRoot(j)] = G[OldRoot(j)]
    <3> SUFFICES ASSUME NEW j \in Nat PROVE HeadOf'[OldRoot(j)] = G[OldRoot(j)]
      OBVIOUS
    <3>1. OldRoot(j) \in Int \ {Front, 0}
      BY DEF OldRoot, Front
    <3>2. old = NoTable /\ old' = old
      BY <1>1 DEF IInv, Tables, mapFields
    <3>3. HeadOf'[OldRoot(j)] = Null /\ H[OldRoot(j)] = Null
      BY <1>2, <1>4, <3>2, IdleFrame, HeadFacts, HeadFactsNext
    <3>4. QED
      BY <2>3, <3>1, <3>3
  <2>8. HeadOf' = G
    BY <2>3, <2>4, <2>5, <2>6, <2>7, SameHeads
  <2>9. QED
    BY <1>1, <2>2, <2>8
<1>5. Freeing'
  BY <1>3 DEF Freeing, Buckets
<1>6. QED
  BY <1>1, <1>2, <1>3, <1>4, <1>5, FreeGoesOn DEF mapFields, IInv, TypeOK, Buckets

LEMMA FreeEntryIInv == ASSUME IInv, FreeEntry PROVE IInv'
<1> DEFINE e == frame.entry
           q == heap[e].next
<1>1. /\ frame.at = "free" /\ e # Null /\ heap' = [heap EXCEPT ![e] = FreeCell]
      /\ frame' = [frame EXCEPT !.entry = q] /\ UNCHANGED <<mapFields, answer>>
  BY DEF FreeEntry
<1>2. /\ exists /\ frame \in Frame /\ heap \in Memory /\ TypeOK /\ frame.i \in Buckets
      /\ frame.op \in {"clear", "destroy"} /\ frame.prev = Null /\ frame.keys = <<>>
  BY <1>1 DEF IInv, Control, Tables, TypeOK, Memory
<1>3. HeadOf \in Heads /\ HeadOf[Front] = e /\ Front \in Int /\ e \in Entries
  BY <1>1, <1>2, HeadFacts DEF Front, Frame, Pointer
<1>4. q \in Pointer /\ FreeCell \in Cell /\ FreeCell.key = Null
  BY <1>2, <1>3, NextPointer DEF FreeCell, Cell, Pointer
<1>5. heap' \in [Entries -> Cell] /\ heap'[e].key = Null
      /\ \A d \in Entries \ {e} : heap'[d] = heap[d]
  BY <1>1, <1>2, <1>3, <1>4 DEF Memory
<1>6. /\ frame' \in Frame /\ frame'.at = "free" /\ frame'.op = frame.op /\ frame'.prev = Null
      /\ frame'.i = frame.i /\ frame'.entry = q /\ frame'.keys = <<>>
  BY <1>1, <1>2, <1>4 DEF Frame
<1>7. ASSUME TypeOK' PROVE Forest(heap, HeadOf)'
  <2> DEFINE G == [HeadOf EXCEPT ![Front] = q]
  <2>1. Forest(heap', G) /\ G \in Heads
    <3>1. heap \in Memory /\ heap' \in Memory /\ Forest(heap, HeadOf)
      BY <1>2, <1>5 DEF Memory, IInv
    <3>2. /\ HeadOf[Front] # Null /\ heap'[HeadOf[Front]].key = Null
          /\ \A d \in Entries \ {HeadOf[Front]} : heap'[d].next = heap[d].next /\ heap'[d].key = heap[d].key
      BY <1>1, <1>3, <1>5
    <3>3. LET F == [HeadOf EXCEPT ![Front] = heap[HeadOf[Front]].next]
          IN  Forest(heap', F) /\ F \in Heads
      BY <1>3, <3>1, <3>2, Popped
    <3>4. QED
      BY <1>3, <3>3
  <2>2. G[Front] = q /\ \A r \in Int \ {Front} : G[r] = HeadOf[r]
    BY <1>3 DEF Heads
  <2> HIDE DEF G
  <2>3. HeadOf' \in Heads
    BY <1>7, HeadFactsNext
  <2>4. buckets' = buckets /\ capacity' = capacity /\ Buckets' = Buckets /\ old' = old
    BY <1>1 DEF mapFields, Buckets
  <2>5. \A j \in Nat : HeadOf'[j] = G[j]
    <3> SUFFICES ASSUME NEW j \in Nat PROVE HeadOf'[j] = HeadOf[j]
      BY <2>2 DEF Front
    <3>1. CASE j \in Buckets
      BY <1>1, <1>2, <1>6, <1>7, <2>4, <3>1, HeadFacts, HeadFactsNext
    <3>2. CASE j >= capacity
      BY <1>2, <1>7, <2>4, <3>2, HeadFacts, HeadFactsNext
    <3>3. QED
      BY <1>2, <3>1, <3>2 DEF Buckets, TypeOK
  <2>6. HeadOf'[Front] = G[Front]
    BY <1>6, <1>7, <2>2, HeadFactsNext
  <2>7. \A j \in Nat : HeadOf'[OldRoot(j)] = G[OldRoot(j)]
    <3> SUFFICES ASSUME NEW j \in Nat PROVE HeadOf'[OldRoot(j)] = HeadOf[OldRoot(j)]
      BY <2>2 DEF Front, OldRoot
    <3>1. QED
      BY <1>2, <1>6, <1>7, <2>4, HeadFacts, HeadFactsNext
  <2>8. HeadOf' = G
    BY <2>1, <2>3, <2>5, <2>6, <2>7, SameHeads
  <2>9. QED
    BY <2>1, <2>8
<1>8. Freeing'
  BY <1>1, <1>6 DEF IInv, Freeing, Buckets, mapFields
<1>9. \A d \in Entries : heap'[d].key = heap[d].key \/ heap'[d].key = Null
  BY <1>5
<1>10. buckets' \in [0..(capacity - 1) -> Pointer] /\ UNCHANGED <<exists, capacity, size, threshold, old>>
  BY <1>1, <1>2 DEF mapFields, TypeOK
<1>11. QED
  BY <1>1, <1>2, <1>5, <1>6, <1>7, <1>8, <1>9, <1>10, FreeGoesOn

LEMMA NextFreedBucketIInv == ASSUME IInv, NextFreedBucket PROVE IInv'
<1> DEFINE n == frame.i + 1
<1>1. /\ frame.at = "free" /\ frame.entry = Null /\ n \in DOMAIN buckets
      /\ buckets' = IF frame.op = "clear" THEN [buckets EXCEPT ![frame.i] = Null] ELSE buckets
      /\ frame' = [frame EXCEPT !.i = n, !.entry = buckets[n]]
      /\ UNCHANGED <<exists, capacity, size, threshold, old, heap, answer>>
  BY DEF NextFreedBucket, Emptied
<1>2. /\ exists /\ frame \in Frame /\ heap \in Memory /\ TypeOK /\ frame.i \in Buckets
      /\ frame.op \in {"clear", "destroy"} /\ frame.prev = Null /\ frame.keys = <<>>
  BY <1>1 DEF IInv, Control, Tables, TypeOK, Memory
<1>3. n \in Buckets /\ buckets[n] \in Pointer /\ n \in Nat /\ n > frame.i
      /\ \A j \in Nat : j > frame.i <=> j = n \/ j > n
  BY <1>1, <1>2 DEF TypeOK, Buckets
<1> HIDE DEF n
<1>4. /\ frame' \in Frame /\ frame'.at = "free" /\ frame'.op = frame.op /\ frame'.prev = Null
      /\ frame'.i = n /\ frame'.entry = buckets[n] /\ frame'.keys = <<>>
  BY <1>1, <1>2, <1>3 DEF Frame
<1>5. buckets' \in [0..(capacity - 1) -> Pointer] /\ \A j \in Buckets : j # frame.i => buckets'[j] = buckets[j]
  BY <1>1, <1>2 DEF TypeOK, Pointer, Buckets
<1>6. ASSUME TypeOK' PROVE Forest(heap, HeadOf)'
  <2> DEFINE G == [HeadOf EXCEPT ![Front] = HeadOf[n], ![n] = Null]
  <2>1. HeadOf \in Heads /\ HeadOf[Front] = Null /\ HeadOf[n] = buckets[n] /\ Front \in Int /\ Front # n /\ n \in Int
    BY <1>1, <1>2, <1>3, HeadFacts DEF Front
  <2>2. Forest(heap, G)
    BY <1>2, <2>1, Shifted DEF IInv
  <2>3. G \in Heads /\ G[Front] = buckets[n] /\ G[n] = Null /\ \A r \in Int \ {Front, n} : G[r] = HeadOf[r]
    BY <2>1 DEF Heads, Pointer
  <2> HIDE DEF G
  <2>4. HeadOf' \in Heads
    BY <1>6, HeadFactsNext
  <2>5. capacity' = capacity /\ Buckets' = Buckets /\ old' = old /\ old = NoTable
    BY <1>1 DEF Buckets, IInv, Tables
  <2>6. \A j \in Nat : HeadOf'[j] = G[j]
    <3> SUFFICES ASSUME NEW j \in Nat PROVE HeadOf'[j] = G[j]
      OBVIOUS
    <3>1. CASE j = n
      BY <1>3, <1>4, <1>6, <2>3, <2>5, <3>1, HeadFactsNext
    <3>2. CASE j # n
      <4>1. G[j] = HeadOf[j]
        BY <2>3, <3>2 DEF Front
      <4>2. CASE j \in Buckets
        <5>1. HeadOf'[j] = IF j > n THEN buckets'[j] ELSE Null
          BY <1>4, <1>6, <2>5, <4>2, HeadFactsNext
        <5>2. HeadOf[j] = IF j > frame.i THEN buckets[j] ELSE Null
          BY <1>1, <1>2, <4>2, HeadFacts
        <5>3. j > n => j # frame.i
          BY <1>2, <1>3 DEF Buckets
        <5>4. QED
          BY <1>3, <1>5, <3>2, <4>1, <4>2, <5>1, <5>2, <5>3
      <4>3. CASE j >= capacity
        BY <1>2, <1>6, <2>5, <4>1, <4>3, HeadFacts, HeadFactsNext
      <4>4. QED
        BY <1>2, <4>2, <4>3 DEF Buckets, TypeOK
    <3>3. QED
      BY <3>1, <3>2
  <2>7. HeadOf'[Front] = G[Front]
    BY <1>4, <1>6, <2>3, HeadFactsNext
  <2>8. \A j \in Nat : HeadOf'[OldRoot(j)] = G[OldRoot(j)]
    <3> SUFFICES ASSUME NEW j \in Nat PROVE HeadOf'[OldRoot(j)] = G[OldRoot(j)]
      OBVIOUS
    <3>1. OldRoot(j) \in Int \ {Front, n}
      BY <1>3 DEF OldRoot, Front
    <3>2. HeadOf'[OldRoot(j)] = Null /\ HeadOf[OldRoot(j)] = Null
      BY <1>2, <1>6, <2>5, IdleFrame, HeadFacts, HeadFactsNext
    <3>3. QED
      BY <2>3, <3>1, <3>2
  <2>9. HeadOf' = G
    BY <2>3, <2>4, <2>6, <2>7, <2>8, SameHeads
  <2>10. QED
    BY <1>1, <2>2, <2>9
<1>7. Freeing'
  <2> SUFFICES ASSUME frame.op = "clear", NEW j \in Buckets, j < n PROVE buckets'[j] = Null
    BY <1>1, <1>4 DEF Freeing, Buckets
  <2>1. j < frame.i \/ j = frame.i
    BY <1>2, <1>3 DEF Buckets
  <2>2. QED
    BY <1>1, <1>2, <1>5, <2>1 DEF IInv, Freeing, TypeOK, Buckets
<1>8. QED
  BY <1>1, <1>2, <1>3, <1>4, <1>5, <1>6, <1>7, FreeGoesOn DEF Memory
-----------------------------------------------------------------------------
(* The resize *)

LEMMA GrowIInv == ASSUME IInv, Grow PROVE IInv'
<1> DEFINE c == capacity
<1>1. /\ frame.at = "grow" /\ capacity' = 2 * c /\ threshold' = Threshold(2 * c)
      /\ buckets' = Table(2 * c) /\ size' = 0 /\ old' = buckets
      /\ frame' = [frame EXCEPT !.at = "resize", !.entry = buckets[0]]
      /\ UNCHANGED <<exists, heap, answer>>
  BY DEF Grow
<1>2. /\ exists /\ frame \in Frame /\ heap \in Memory /\ TypeOK
      /\ frame.op = "insert" /\ frame.key \in Keys /\ frame.value \in Values \cup {Null}
      /\ frame.i = 0 /\ frame.prev = Null /\ frame.keys = <<>> /\ old = NoTable
  BY <1>1 DEF IInv, Control, Tables, TypeOK, Memory
<1>3. c \in Nat \ {0} /\ threshold = Threshold(c) /\ 2 * c \in Nat \ {0} /\ 0 \in Buckets
  BY <1>2 DEF IInv, Tables, TypeOK, Buckets
<1> HIDE DEF c
<1>4. buckets \in [0..(c - 1) -> Pointer] /\ Buckets = 0..(c - 1) /\ DOMAIN buckets = 0..(c - 1)
  BY <1>2 DEF c, TypeOK, Buckets
<1>5. buckets[0] \in Pointer /\ \A j \in Buckets : HeadOf[j] = buckets[j]
  BY <1>1, <1>2, <1>3, <1>4, HeadFacts
<1>6. /\ frame' \in Frame /\ frame'.at = "resize" /\ frame'.op = "insert" /\ frame'.key = frame.key
      /\ frame'.value = frame.value
      /\ frame'.entry = buckets[0] /\ frame'.i = 0 /\ frame'.prev = Null /\ frame'.keys = <<>>
  BY <1>1, <1>2, <1>5 DEF Frame
<1>7. /\ buckets' \in [0..(capacity' - 1) -> Pointer]
      /\ Buckets' = 0..(2 * c - 1)
      /\ \A j \in Buckets' : buckets'[j] = Null
  BY <1>1, <1>3, TableIs DEF Buckets
<1>8. TypeOK'
  <2>1. DOMAIN old' \subseteq Nat /\ old' \in [DOMAIN old' -> Pointer] /\ threshold' \in Nat
    BY <1>1, <1>3, <1>4, ThresholdNat
  <2>2. QED
    BY <1>1, <1>2, <1>3, <1>6, <1>7, <2>1 DEF TypeOK
<1>9. /\ HeadOf' \in Heads
      /\ HeadOf'[Front] = buckets[0]
      /\ \A j \in Nat : HeadOf'[j] = Null
      /\ \A j \in Nat : HeadOf'[OldRoot(j)] = IF j \in Buckets /\ j > 0 THEN buckets[j] ELSE Null
  <2>1. \A j \in Nat : HeadOf'[j] = Null
    <3> SUFFICES ASSUME NEW j \in Nat PROVE HeadOf'[j] = Null
      OBVIOUS
    <3>1. CASE j \in Buckets'
      BY <1>6, <1>7, <1>8, <3>1, HeadFactsNext
    <3>2. CASE j >= capacity'
      BY <1>8, <3>2, HeadFactsNext
    <3>3. QED
      BY <1>1, <1>3, <1>7, <3>1, <3>2
  <2>2. QED
    BY <1>1, <1>4, <1>6, <1>8, <2>1, HeadFactsNext
<1>10. ASSUME NEW r \in Int, HeadOf'[r] # Null
       PROVE \E j \in Buckets : HeadOf'[r] = HeadOf[j] /\ r = IF j = 0 THEN Front ELSE OldRoot(j)
  <2>1. CASE r = Front
    BY <1>3, <1>5, <1>9, <2>1
  <2>2. CASE r # Front
    <3>1. OldRoot(r) \in Nat /\ OldRoot(OldRoot(r)) = r
      BY <1>9, <1>10, <2>2, Roots
    <3>2. OldRoot(r) \in Buckets /\ OldRoot(r) > 0 /\ HeadOf'[r] = buckets[OldRoot(r)]
      BY <1>9, <1>10, <3>1
    <3>3. QED
      BY <1>5, <3>1, <3>2
  <2>3. QED
    BY <2>1, <2>2
<1>11. Forest(heap, HeadOf)'
  <2>1. \A s \in Int : HeadOf[s] # Null => \E r \in Int : HeadOf'[r] = HeadOf[s]
    <3> SUFFICES ASSUME NEW s \in Int, HeadOf[s] # Null PROVE \E r \in Int : HeadOf'[r] = HeadOf[s]
      OBVIOUS
    <3>1. s \in Buckets
      <4>1. s # Front /\ ~(OldRoot(s) \in Nat /\ OldRoot(OldRoot(s)) = s)
        BY <1>1, <1>2, IdleFrame, HeadFacts
      <4>2. s \in Nat /\ ~(s >= capacity)
        BY <1>2, <4>1, Roots, HeadFacts
      <4>3. QED
        BY <1>3, <1>4, <4>2 DEF c
    <3>2. CASE s = 0
      BY <1>5, <1>9, <3>1, <3>2 DEF Front
    <3>3. CASE s # 0
      <4>1. OldRoot(s) \in Int /\ s \in Nat /\ s > 0
        BY <1>4, <3>1, <3>3 DEF OldRoot
      <4>2. QED
        BY <1>5, <1>9, <3>1, <4>1
    <3>4. QED
      BY <3>2, <3>3
  <2>2. ASSUME NEW r \in Int, NEW s \in Int, r # s, HeadOf'[r] # Null PROVE HeadOf'[r] # HeadOf'[s]
    <3> SUFFICES ASSUME HeadOf'[s] = HeadOf'[r] PROVE FALSE
      OBVIOUS
    <3>1. PICK j \in Buckets : HeadOf'[r] = HeadOf[j] /\ r = IF j = 0 THEN Front ELSE OldRoot(j)
      BY <1>10, <2>2
    <3>2. PICK k \in Buckets : HeadOf'[s] = HeadOf[k] /\ s = IF k = 0 THEN Front ELSE OldRoot(k)
      BY <1>10, <2>2
    <3>3. j # k /\ j \in Int /\ k \in Int
      BY <1>4, <2>2, <3>1, <3>2
    <3>4. QED
      BY <1>2, <2>2, <3>1, <3>2, <3>3, HeadFacts, HeadsDiffer DEF IInv
  <2>3. \A r \in Int : HeadOf'[r] # Null => \E s \in Int : HeadOf[s] = HeadOf'[r]
    BY <1>4, <1>10
  <2>4. Forest(heap, HeadOf')
    BY <1>2, <1>9, <2>1, <2>2, <2>3, HeadFacts, Renamed DEF IInv
  <2>5. QED
    BY <1>1, <2>4
<1>12. Live' = Live /\ UniqueKeys'
  BY <1>1 DEF Live, IInv, UniqueKeys
<1>13. Tables'
  <2>1. Cardinality(Live) <= Threshold(c)
    BY <1>1, <1>2, <1>3, Homes DEF IInv, Counts
  <2>2. DOMAIN old' = 0..(c - 1) /\ c \in 1..capacity' /\ capacity' = 2 * c
    BY <1>1, <1>3, <1>4
  <2>3. QED
    BY <1>1, <1>2, <1>3, <1>6, <1>12, <2>1, <2>2 DEF Tables
<1>14. Control' /\ Searching' /\ Collecting' /\ Freeing'
  BY <1>1, <1>2, <1>6 DEF Control, Searching, Collecting, Freeing
<1>15. Placed'
  BY <1>7, ReachNull DEF Placed
<1>16. Counts'
  <2>1. Stored' = {}
    BY <1>7, ReachNull DEF Stored
  <2>2. QED
    BY <1>1, <1>6, <2>1, FS_EmptySet DEF Counts
<1>17. QED
  BY <1>8, <1>11, <1>12, <1>13, <1>14, <1>15, <1>16 DEF IInv

LEMMA RelinkIInv == ASSUME IInv, Relink PROVE IInv'
<1> DEFINE e == frame.entry
           x == Index(heap[e].key, capacity)
           q == heap[e].next
<1>1. /\ frame.at = "resize" /\ e # Null
      /\ heap' = [heap EXCEPT ![e].next = buckets[x]] /\ buckets' = [buckets EXCEPT ![x] = e]
      /\ frame' = [frame EXCEPT !.entry = q] /\ size' = size + 1
      /\ UNCHANGED <<exists, capacity, threshold, old, answer>>
  BY DEF Relink, Linked, Rest, Counted
<1>2. /\ exists /\ frame \in Frame /\ heap \in Memory /\ TypeOK /\ Forest(heap, HeadOf)
      /\ HeadOf \in Heads /\ HeadOf[Front] = e /\ Front \in Int
      /\ capacity \in Nat \ {0} /\ e \in Entries
  <2>1. TypeOK /\ exists /\ frame \in Frame /\ heap \in Memory /\ Forest(heap, HeadOf)
    BY <1>1 DEF IInv, Control, TypeOK, Memory
  <2>2. HeadOf \in Heads /\ HeadOf[Front] = e /\ Front \in Int
    BY <1>1, <2>1, HeadFacts DEF Front
  <2>3. capacity \in Nat \ {0} /\ e \in Entries
    BY <1>1, <2>1 DEF IInv, Tables, TypeOK, Frame, Pointer
  <2>4. QED
    BY <2>1, <2>2, <2>3
<1>3. e \in Reach(heap, e) /\ e \in LiveOf(heap)
  BY <1>2, ReachSelf DEF Forest
<1>4. heap[e].key \in Keys /\ x \in Buckets /\ q \in Pointer /\ x \in Int /\ x # Front /\ x \in Nat
  <2>1. heap[e].key \in Keys /\ q \in Pointer
    BY <1>2, <1>3 DEF LiveOf, Memory, Cell
  <2>2. QED
    BY <1>2, <2>1, IndexIn DEF Buckets, Front
<1> HIDE DEF x, q
<1>5. buckets[x] \in Pointer /\ \A j \in Buckets : HeadOf[j] = buckets[j] /\ j \in Int /\ j # Front
  BY <1>1, <1>2, <1>4, HeadFacts DEF TypeOK, Buckets, Front
<1>6. /\ heap' \in Memory /\ heap'[e].key = heap[e].key /\ heap'[e].next = buckets[x]
      /\ \A d \in Entries \ {e} : heap'[d] = heap[d]
      /\ \A d \in Entries : heap'[d].key = heap[d].key
  BY <1>1, <1>2, <1>5 DEF Memory, Cell
<1>7. /\ frame' \in Frame /\ frame'.at = "resize" /\ frame'.op = frame.op /\ frame'.key = frame.key
      /\ frame'.value = frame.value /\ frame'.entry = q /\ frame'.i = frame.i
      /\ frame'.prev = frame.prev /\ frame'.keys = frame.keys
  BY <1>1, <1>2, <1>4 DEF Frame
<1>8. TypeOK'
  <2>1. buckets' \in [0..(capacity' - 1) -> Pointer]
    BY <1>1, <1>2 DEF TypeOK, Pointer
  <2>2. QED
    BY <1>1, <1>2, <1>6, <1>7, <2>1 DEF TypeOK, Memory
<1> DEFINE G == [HeadOf EXCEPT ![Front] = q, ![x] = e]
<1>9. /\ G \in Heads
      /\ Forest(heap', G)
      /\ \A t \in Int \ {Front, x} : Reach(heap', HeadOf[t]) = Reach(heap, HeadOf[t])
      /\ Reach(heap', e) = Reach(heap, buckets[x]) \cup {e}
  <2>1. /\ HeadOf[Front] # Null /\ heap'[HeadOf[Front]].key = heap[HeadOf[Front]].key
        /\ heap'[HeadOf[Front]].next = HeadOf[x]
        /\ \A d \in Entries \ {HeadOf[Front]} : heap'[d].next = heap[d].next /\ heap'[d].key = heap[d].key
    BY <1>1, <1>2, <1>4, <1>5, <1>6
  <2>2. LET F == [HeadOf EXCEPT ![Front] = heap[HeadOf[Front]].next, ![x] = HeadOf[Front]]
        IN  /\ F \in Heads
            /\ Forest(heap', F)
            /\ \A t \in Int \ {Front, x} : Reach(heap', HeadOf[t]) = Reach(heap, HeadOf[t])
            /\ Reach(heap', HeadOf[Front]) = Reach(heap, HeadOf[x]) \cup {HeadOf[Front]}
    <3>1. heap \in Memory /\ heap' \in Memory /\ HeadOf \in Heads /\ Forest(heap, HeadOf)
          /\ Front \in Int /\ x \in Int /\ Front # x
      BY <1>2, <1>4, <1>6
    <3>2. QED
      BY <2>1, <3>1, Moved
  <2>3. QED
    BY <1>2, <1>4, <1>5, <2>2 DEF q
<1>10. HeadOf' = G
  <2>1. G[Front] = q /\ G[x] = e /\ \A r \in Int \ {Front, x} : G[r] = HeadOf[r]
    BY <1>2, <1>4 DEF Heads
  <2> HIDE DEF G
  <2>2. capacity' = capacity /\ Buckets' = Buckets /\ old' = old
    BY <1>1 DEF Buckets
  <2>3. \A j \in Nat : HeadOf'[j] = G[j]
    <3> SUFFICES ASSUME NEW j \in Nat PROVE HeadOf'[j] = G[j]
      OBVIOUS
    <3>1. CASE j \in Buckets
      <4>1. HeadOf'[j] = buckets'[j]
        BY <1>7, <1>8, <2>2, <3>1, HeadFactsNext
      <4>2. buckets'[j] = IF j = x THEN e ELSE buckets[j]
        BY <1>1, <1>2, <3>1 DEF TypeOK, Buckets
      <4>3. QED
        BY <1>5, <2>1, <3>1, <4>1, <4>2
    <3>2. CASE j >= capacity
      <4>1. j \in Int \ {Front, x}
        BY <1>2, <1>4, <3>2 DEF Buckets, Front
      <4>2. QED
        BY <1>2, <1>8, <2>1, <2>2, <3>2, <4>1, HeadFacts, HeadFactsNext
    <3>3. QED
      BY <1>2, <3>1, <3>2 DEF Buckets, TypeOK
  <2>4. HeadOf'[Front] = G[Front]
    BY <1>7, <1>8, <2>1, HeadFactsNext
  <2>5. \A j \in Nat : HeadOf'[OldRoot(j)] = G[OldRoot(j)]
    <3> SUFFICES ASSUME NEW j \in Nat PROVE HeadOf'[OldRoot(j)] = G[OldRoot(j)]
      OBVIOUS
    <3>1. OldRoot(j) \in Int \ {Front, x}
      BY <1>4 DEF OldRoot, Front
    <3>2. HeadOf'[OldRoot(j)] = HeadOf[OldRoot(j)]
      BY <1>2, <1>7, <1>8, <2>2, HeadFacts, HeadFactsNext
    <3>3. QED
      BY <2>1, <3>1, <3>2
  <2>6. QED
    BY <1>8, <1>9, <2>3, <2>4, <2>5, HeadFactsNext, SameHeads
<1>11. Forest(heap, HeadOf)'
  BY <1>9, <1>10
<1>12. Live' = Live /\ UniqueKeys'
  BY <1>6 DEF Live, IInv, UniqueKeys
<1>13. Tables'
  BY <1>1, <1>2, <1>7, <1>12 DEF IInv, Tables
<1>14. Control' /\ Searching' /\ Collecting' /\ Freeing'
  BY <1>1, <1>2, <1>7 DEF IInv, Control, Searching, Collecting, Freeing
<1>15. \A j \in Buckets : /\ j # x => Reach(heap', buckets'[j]) = Reach(heap, buckets[j])
                          /\ j = x => Reach(heap', buckets'[j]) = Reach(heap, buckets[j]) \cup {e}
  <2> SUFFICES ASSUME NEW j \in Buckets
               PROVE  /\ j # x => Reach(heap', buckets'[j]) = Reach(heap, buckets[j])
                      /\ j = x => Reach(heap', buckets'[j]) = Reach(heap, buckets[j]) \cup {e}
    OBVIOUS
  <2>1. buckets'[j] = IF j = x THEN e ELSE buckets[j]
    BY <1>1, <1>2 DEF TypeOK, Buckets
  <2>2. CASE j = x
    BY <1>9, <2>1, <2>2
  <2>3. CASE j # x
    BY <1>5, <1>9, <2>1, <2>3
  <2>4. QED
    BY <2>2, <2>3
<1>16. Buckets' = Buckets /\ capacity' = capacity
  BY <1>1 DEF Buckets
<1>17. Placed'
  <2> SUFFICES ASSUME NEW j \in Buckets, NEW d \in Reach(heap', buckets'[j])
               PROVE  Index(heap'[d].key, capacity) = j
    BY <1>16 DEF Placed
  <2>1. CASE d = e /\ j = x
    BY <1>6, <2>1 DEF x
  <2>2. CASE d \in Reach(heap, buckets[j])
    <3>1. d \in Entries
      BY <1>2, <2>2, ReachIn DEF TypeOK, Buckets
    <3>2. QED
      BY <1>1, <1>6, <2>2, <3>1 DEF IInv, Placed
  <2>3. QED
    BY <1>15, <2>1, <2>2
<1>18. Counts'
  <2>1. Stored' = Stored \cup {e}
    <3>1. Stored' = UNION {Reach(heap', buckets'[j]) : j \in Buckets}
      BY <1>16 DEF Stored
    <3>2. QED
      BY <1>4, <1>15, <3>1 DEF Stored
  <2>2. e \notin Stored
    BY <1>2, <1>3, <1>5 DEF Stored, Forest
  <2>3. IsFiniteSet(Stored)
    <3>1. Stored \subseteq Entries
      BY <1>2, ReachIn DEF Stored, TypeOK, Buckets
    <3>2. QED
      BY <3>1, EntriesAssumption, FS_Subset
  <2>4. Cardinality(Stored') = Cardinality(Stored) + 1
    BY <2>1, <2>2, <2>3, FS_AddElement
  <2>5. QED
    BY <1>1, <1>7, <2>4 DEF IInv, Counts
<1>19. QED
  BY <1>8, <1>11, <1>12, <1>13, <1>14, <1>17, <1>18 DEF IInv

LEMMA NextOldBucketIInv == ASSUME IInv, NextOldBucket PROVE IInv'
<1> DEFINE n == frame.i + 1
<1>1. /\ frame.at = "resize" /\ frame.entry = Null /\ n \in DOMAIN old
      /\ frame' = [frame EXCEPT !.i = n, !.entry = old[n]] /\ UNCHANGED <<mapFields, heap, answer>>
  BY DEF NextOldBucket
<1>2. TypeOK /\ exists /\ frame \in Frame /\ heap \in Memory /\ Forest(heap, HeadOf)
  BY <1>1 DEF IInv, Control, TypeOK, Memory
<1>3. /\ n \in Nat /\ old[n] \in Pointer /\ n > frame.i
      /\ \A j \in Nat : j > frame.i <=> j = n \/ j > n
  BY <1>1, <1>2 DEF TypeOK, Frame
<1> HIDE DEF n
<1>4. /\ frame' \in Frame /\ frame'.at = "resize" /\ frame'.op = frame.op /\ frame'.key = frame.key
      /\ frame'.value = frame.value /\ frame'.entry = old[n] /\ frame'.i = n
      /\ frame'.prev = frame.prev /\ frame'.keys = frame.keys
  BY <1>1, <1>2, <1>3 DEF Frame
<1>5. /\ exists' = exists /\ capacity' = capacity /\ size' = size /\ threshold' = threshold
      /\ buckets' = buckets /\ old' = old /\ heap' = heap /\ Buckets' = Buckets /\ Live' = Live
  BY <1>1 DEF mapFields, Buckets, Live
<1>6. TypeOK'
  BY <1>1, <1>2, <1>4, <1>5 DEF TypeOK
<1> DEFINE G == [HeadOf EXCEPT ![Front] = HeadOf[OldRoot(n)], ![OldRoot(n)] = Null]
<1>7. /\ HeadOf \in Heads /\ HeadOf[Front] = Null /\ HeadOf[OldRoot(n)] = old[n]
      /\ Front \in Int /\ OldRoot(n) \in Int /\ Front # OldRoot(n)
  <2>1. HeadOf \in Heads /\ HeadOf[Front] = Null /\ HeadOf[OldRoot(n)] = old[n]
    BY <1>1, <1>2, <1>3, HeadFacts
  <2>2. QED
    BY <1>3, <2>1 DEF Front, OldRoot
<1>8. Forest(heap, G)
  BY <1>2, <1>7, Shifted
<1>9. G \in Heads /\ G[Front] = old[n] /\ G[OldRoot(n)] = Null
      /\ \A r \in Int \ {Front, OldRoot(n)} : G[r] = HeadOf[r]
  BY <1>7 DEF Heads, Pointer
<1> HIDE DEF G
<1>10. HeadOf' = G
  <2>1. \A j \in Nat : HeadOf'[j] = G[j]
    <3> SUFFICES ASSUME NEW j \in Nat PROVE HeadOf'[j] = G[j]
      OBVIOUS
    <3>1. j \in Int \ {Front, OldRoot(n)}
      BY <1>3 DEF OldRoot, Front
    <3>2. CASE j \in Buckets
      BY <1>1, <1>2, <1>4, <1>5, <1>6, <1>9, <3>1, <3>2, HeadFacts, HeadFactsNext
    <3>3. CASE j >= capacity
      BY <1>2, <1>5, <1>6, <1>9, <3>1, <3>3, HeadFacts, HeadFactsNext
    <3>4. QED
      BY <1>2, <3>2, <3>3 DEF Buckets, TypeOK
  <2>2. HeadOf'[Front] = G[Front]
    BY <1>4, <1>6, <1>9, HeadFactsNext
  <2>3. \A j \in Nat : HeadOf'[OldRoot(j)] = G[OldRoot(j)]
    <3> SUFFICES ASSUME NEW j \in Nat PROVE HeadOf'[OldRoot(j)] = G[OldRoot(j)]
      OBVIOUS
    <3>1. HeadOf'[OldRoot(j)] = IF j \in DOMAIN old /\ j > n THEN old[j] ELSE Null
      BY <1>4, <1>5, <1>6, HeadFactsNext
    <3>2. HeadOf[OldRoot(j)] = IF j \in DOMAIN old /\ j > frame.i THEN old[j] ELSE Null
      BY <1>2, HeadFacts
    <3>3. CASE j = n
      BY <1>3, <1>9, <3>1, <3>3
    <3>4. CASE j # n
      <4>1. OldRoot(j) \in Int \ {Front, OldRoot(n)}
        BY <1>3, <3>4 DEF OldRoot, Front
      <4>2. QED
        BY <1>3, <1>9, <3>1, <3>2, <3>4, <4>1
    <3>5. QED
      BY <3>3, <3>4
  <2>4. QED
    BY <1>6, <1>9, <2>1, <2>2, <2>3, HeadFactsNext, SameHeads
<1>11. Forest(heap, HeadOf)'
  BY <1>5, <1>8, <1>10
<1>12. Control' /\ Searching' /\ Collecting' /\ Freeing'
  BY <1>1, <1>4, <1>5 DEF IInv, Control, Searching, Collecting, Freeing
<1>13. Tables'
  BY <1>1, <1>4, <1>5 DEF IInv, Tables
<1>14. Placed' /\ UniqueKeys' /\ Counts'
  BY <1>1, <1>4, <1>5 DEF IInv, Placed, UniqueKeys, Counts, Stored
<1>15. QED
  BY <1>6, <1>11, <1>12, <1>13, <1>14 DEF IInv

\* The chains of a table are all there is, when no loop takes it apart.
LEMMA HeadsOf ==
    ASSUME TypeOK, NEW G \in Heads, old = NoTable, frame.at \notin {"resize", "free"},
           \A j \in Buckets : G[j] = buckets[j],
           \A j \in Nat : j >= capacity => G[j] = Null,
           G[Front] = Null,
           \A j \in Nat : G[OldRoot(j)] = Null
    PROVE  HeadOf = G
<1>1. \A j \in Nat : HeadOf[j] = G[j]
  <2> SUFFICES ASSUME NEW j \in Nat PROVE HeadOf[j] = G[j]
    OBVIOUS
  <2>1. CASE j \in Buckets
    BY <2>1, HeadFacts
  <2>2. CASE j >= capacity
    BY <2>2, HeadFacts
  <2>3. QED
    BY <2>1, <2>2 DEF Buckets, TypeOK
<1>2. QED
  BY <1>1, IdleFrame, HeadFacts, SameHeads

LEMMA HeadsOfNext ==
    ASSUME TypeOK', NEW G \in Heads, old' = NoTable, frame'.at \notin {"resize", "free"},
           \A j \in Buckets' : G[j] = buckets'[j],
           \A j \in Nat : j >= capacity' => G[j] = Null,
           G[Front] = Null,
           \A j \in Nat : G[OldRoot(j)] = Null
    PROVE  HeadOf' = G
<1>1. \A j \in Nat : HeadOf'[j] = G[j]
  <2> SUFFICES ASSUME NEW j \in Nat PROVE HeadOf'[j] = G[j]
    OBVIOUS
  <2>1. CASE j \in Buckets'
    BY <2>1, HeadFactsNext
  <2>2. CASE j >= capacity'
    BY <2>2, HeadFactsNext
  <2>3. QED
    BY <2>1, <2>2 DEF Buckets, TypeOK
<1>2. QED
  BY <1>1, IdleFrame, HeadFactsNext, SameHeads

LEMMA ResizedIInv == ASSUME IInv, Resized PROVE IInv'
<1>1. /\ frame.at = "resize" /\ frame.entry = Null /\ frame.i + 1 \notin DOMAIN old
      /\ old' = NoTable /\ frame' = Search("insert", frame.key, frame.value)
      /\ UNCHANGED <<exists, capacity, size, threshold, buckets, heap, answer>>
  BY DEF Resized
<1>2. /\ TypeOK /\ exists /\ frame \in Frame /\ heap \in Memory /\ Forest(heap, HeadOf)
      /\ frame.key \in Keys /\ frame.value \in Values \cup {Null}
  BY <1>1 DEF IInv, Control, TypeOK, Memory
<1>3. PICK c \in 1..capacity : DOMAIN old = 0..(c - 1) /\ capacity = 2 * c /\ Cardinality(Live) <= Threshold(c)
  BY <1>1 DEF IInv, Tables
<1>4. frame.i = c - 1
  <2>1. frame.i \in DOMAIN old /\ c \in Int
    BY <1>1, <1>3 DEF IInv, Tables
  <2>2. QED
    BY <1>1, <1>3, <2>1
<1>5. /\ frame'.at = "search" /\ frame'.op = "insert" /\ frame'.key = frame.key /\ frame'.prev = Null
      /\ frame'.entry = buckets[Index(frame.key, capacity)] /\ frame'.keys = <<>>
      /\ frame' \in Frame
  <2>1. frame' \in Frame
    BY <1>1, <1>2, SearchFrame
  <2>2. QED
    BY <1>1, <2>1 DEF Search, Idle
<1>6. TypeOK'
  <2>1. DOMAIN old' \subseteq Nat /\ old' \in [DOMAIN old' -> Pointer]
    BY <1>1 DEF NoTable
  <2>2. QED
    BY <1>1, <1>2, <1>5, <2>1 DEF TypeOK
<1>7. HeadOf' = HeadOf
  <2>1. \A j \in Nat : HeadOf[OldRoot(j)] = Null
    BY <1>2, <1>3, <1>4, HeadFacts
  <2>2. HeadOf \in Heads /\ HeadOf[Front] = Null /\ \A j \in Nat : j >= capacity => HeadOf[j] = Null
    BY <1>1, <1>2, HeadFacts
  <2>3. \A j \in Buckets : HeadOf[j] = buckets[j]
    BY <1>1, <1>2, HeadFacts
  <2>4. Buckets' = Buckets
    BY <1>1 DEF Buckets
  <2>5. QED
    BY <1>1, <1>5, <1>6, <2>1, <2>2, <2>3, <2>4, HeadsOfNext
<1>8. Forest(heap, HeadOf)'
  BY <1>1, <1>2, <1>7
<1>9. Control' /\ Collecting' /\ Freeing' /\ Tables'
  <2>1. capacity > 0 /\ threshold = Threshold(capacity)
    BY <1>2 DEF IInv, Tables
  <2>2. QED
    BY <1>1, <1>2, <1>5, <2>1 DEF Control, Collecting, Freeing, Tables
<1>10. Live' = Live /\ Buckets' = Buckets
  BY <1>1 DEF Live, Buckets
<1>11. Placed' /\ UniqueKeys'
  BY <1>1, <1>5, <1>10 DEF IInv, Placed, UniqueKeys
<1>12. Counts'
  <2>1. size = Cardinality(Stored) /\ Stored' = Stored
    BY <1>1, <1>10 DEF IInv, Counts, Stored
  <2>2. Stored \subseteq Live
    <3>1. \A j \in Buckets : buckets[j] = HeadOf[j] /\ j \in Int
      BY <1>1, <1>2, HeadFacts DEF Buckets
    <3>2. QED
      BY <1>2, <3>1 DEF Stored, Forest, Live, LiveOf
  <2>3. Cardinality(Stored) <= Cardinality(Live) /\ Cardinality(Stored) \in Nat /\ Cardinality(Live) \in Nat
    BY <2>2, LiveFinite, FS_Subset, FS_CardinalityType
  <2>4. Threshold(c) < Threshold(capacity) /\ Threshold(c) \in Nat /\ Threshold(capacity) \in Nat
    BY <1>3 DEF Threshold
  <2>5. threshold = Threshold(capacity)
    BY <1>2 DEF IInv, Tables
  <2>6. size < threshold
    BY <1>3, <2>1, <2>3, <2>4, <2>5
  <2>7. QED
    BY <1>1, <1>5, <1>10, <2>1, <2>6 DEF Counts, IInv, TypeOK
<1>13. Searching'
  <2>1. buckets[Index(frame.key, capacity)] \in Pointer
    BY <1>2, BucketOf
  <2>2. buckets[Index(frame.key, capacity)] \in Reach(heap, buckets[Index(frame.key, capacity)]) \cup {Null}
    BY <1>2, <2>1, ReachIn
  <2>3. QED
    BY <1>1, <1>5, <2>2 DEF Searching
<1>14. QED
  BY <1>6, <1>8, <1>9, <1>11, <1>12, <1>13 DEF IInv
-----------------------------------------------------------------------------
(* The end of an insertion and of a removal *)

LEMMA OverwriteIInv == ASSUME IInv, Overwrite PROVE IInv'
<1> DEFINE e == frame.entry
<1>1. /\ frame.at = "search" /\ frame.op = "insert" /\ e # Null /\ frame' = Idle
      /\ heap' = [heap EXCEPT ![e].value = frame.value] /\ UNCHANGED mapFields
      /\ answer' = [op |-> frame.op, key |-> frame.key, res |-> 1, keys |-> {}]
  BY DEF Overwrite, Answers, Matches
<1>2. /\ TypeOK /\ exists /\ frame \in Frame /\ heap \in Memory /\ Forest(heap, HeadOf)
      /\ frame.key \in Keys /\ e \in Entries /\ frame.value \in Values \cup {Null} /\ old = NoTable
  <2>1. TypeOK /\ exists /\ frame \in Frame /\ heap \in Memory /\ Forest(heap, HeadOf)
    BY <1>1 DEF IInv, Control, TypeOK, Memory
  <2>2. frame.value \in Values \cup {Null}
    BY <2>1 DEF Frame
  <2>3. QED
    BY <1>1, <2>1, <2>2 DEF Frame, Pointer, IInv, Control, Tables
<1>3. /\ heap' \in Memory
      /\ \A d \in Entries : heap'[d].next = heap[d].next /\ heap'[d].key = heap[d].key
  <2>1. heap' \in Memory
    BY <1>1, <1>2 DEF Memory, Cell
  <2>2. \A d \in Entries : heap'[d].next = heap[d].next /\ heap'[d].key = heap[d].key
    BY <1>1, <1>2 DEF Memory, Cell
  <2>3. QED
    BY <2>1, <2>2
<1>4. /\ exists' = exists /\ capacity' = capacity /\ size' = size /\ threshold' = threshold
      /\ buckets' = buckets /\ old' = old /\ Buckets' = Buckets
  BY <1>1 DEF mapFields, Buckets
<1>5. TypeOK'
  BY <1>1, <1>2, <1>3, <1>4, IdleFrame DEF TypeOK, Memory
<1>6. HeadOf \in Heads /\ HeadOf' = HeadOf
  <2>1. /\ HeadOf \in Heads /\ HeadOf[Front] = Null /\ \A j \in Nat : j >= capacity => HeadOf[j] = Null
        /\ \A j \in Nat : HeadOf[OldRoot(j)] = Null
        /\ \A j \in Buckets : HeadOf[j] = buckets[j]
    BY <1>1, <1>2, HeadFacts, IdleFrame
  <2>2. frame'.at = "idle"
    BY <1>1 DEF Idle
  <2>3. QED
    BY <1>2, <1>4, <1>5, <2>1, <2>2, HeadsOfNext
<1>7. Forest(heap', HeadOf) /\ \A p \in Pointer : Reach(heap', p) = Reach(heap, p)
  BY <1>2, <1>3, <1>6, SameLinks
<1>8. Live' = Live
  BY <1>3 DEF Live
<1>9. \A j \in Buckets : Reach(heap', buckets'[j]) = Reach(heap, buckets[j]) /\ Reach(heap, buckets[j]) \subseteq Entries
  BY <1>2, <1>4, <1>7, ReachIn DEF TypeOK, Buckets
<1>10. Placed' /\ UniqueKeys'
  <2>1. \A d \in Entries : heap'[d].key = heap[d].key
    BY <1>3
  <2>2. UniqueKeys'
    BY <1>8, <2>1 DEF IInv, UniqueKeys, Live
  <2>3. Placed'
    BY <1>1, <1>4, <1>9, <2>1 DEF IInv, Placed
  <2>4. QED
    BY <2>2, <2>3
<1>11. Counts'
  <2>1. Stored' = Stored
    BY <1>4, <1>9 DEF Stored
  <2>2. QED
    BY <1>1, <1>4, <2>1 DEF IInv, Counts, Idle
<1>12. Control' /\ Searching' /\ Collecting' /\ Freeing' /\ Tables'
  BY <1>1, <1>2, <1>4 DEF IInv, Control, Searching, Collecting, Freeing, Tables, Idle
<1>13. QED
  BY <1>5, <1>6, <1>7, <1>10, <1>11, <1>12 DEF IInv

\* A call that changes the table ends.
LEMMA CallChanges ==
    ASSUME IInv, exists, UNCHANGED <<exists, capacity, threshold, old>>, old = NoTable,
           TypeOK', frame' = Idle,
           NEW G \in Heads, Forest(heap', G),
           \A j \in Buckets : G[j] = buckets'[j],
           \A j \in Nat : j >= capacity => G[j] = Null,
           G[Front] = Null,
           \A j \in Nat : G[OldRoot(j)] = Null,
           Placed', UniqueKeys',
           size' = Cardinality(Live'), size' <= threshold
    PROVE  IInv'
<1>1. Buckets' = Buckets /\ frame'.at = "idle"
  BY DEF Buckets, Idle
<1>2. HeadOf' = G
  BY <1>1, HeadsOfNext
<1>3. Forest(heap, HeadOf)'
  BY <1>2
<1>4. Control' /\ Searching' /\ Collecting' /\ Freeing' /\ Tables'
  BY DEF IInv, Control, Searching, Collecting, Freeing, Tables, Idle
<1>5. Counts'
  <2>1. Stored' = Live'
    <3>1. \A j \in Buckets : Reach(heap', buckets'[j]) = Reach(heap', G[j]) /\ j \in Int
      BY DEF Buckets
    <3>2. Live' = LiveOf(heap')
      BY DEF Live, LiveOf
    <3>3. Stored' \subseteq Live'
      BY <1>1, <3>1, <3>2 DEF Stored, Forest
    <3>4. ASSUME NEW e \in Live' PROVE \E j \in Buckets : e \in Reach(heap', buckets'[j])
      <4>1. PICK r \in Int : e \in Reach(heap', G[r])
        BY <3>2 DEF Forest
      <4>2. G[r] # Null
        BY <4>1, ReachNull
      <4>3. r \in Buckets
        <5>1. r # Front /\ ~(OldRoot(r) \in Nat /\ OldRoot(OldRoot(r)) = r)
          BY <4>2
        <5>2. r \in Nat /\ ~(r >= capacity)
          BY <4>2, <5>1, Roots
        <5>3. QED
          BY <5>2 DEF Buckets, IInv, TypeOK
      <4>4. QED
        BY <3>1, <4>1, <4>3
    <3>5. QED
      BY <1>1, <3>3, <3>4 DEF Stored
  <2>2. QED
    BY <1>1, <2>1 DEF Counts
<1>6. QED
  BY <1>3, <1>4, <1>5 DEF IInv

LEMMA AddEntryIInv == ASSUME IInv, AddEntry PROVE IInv'
<1> DEFINE x == Index(frame.key, capacity)
<1>1. PICK e \in Entries \ Live :
        /\ heap' = [heap EXCEPT ![e] = [key |-> frame.key, value |-> frame.value, next |-> buckets[x]]]
        /\ buckets' = [buckets EXCEPT ![x] = e]
  BY DEF AddEntry
<1>2. /\ frame.at = "search" /\ frame.op = "insert" /\ frame.entry = Null /\ frame' = Idle
      /\ size' = size + 1 /\ UNCHANGED <<exists, capacity, threshold, old>>
      /\ answer' = [op |-> frame.op, key |-> frame.key, res |-> 1, keys |-> {}]
  BY DEF AddEntry, Answers, Counted
<1>3. /\ TypeOK /\ exists /\ frame \in Frame /\ heap \in Memory /\ Forest(heap, HeadOf)
      /\ frame.key \in Keys /\ old = NoTable
  BY <1>2 DEF IInv, Control, TypeOK, Memory, Tables
<1>4. x \in Buckets /\ x \in Nat /\ x \in Int /\ x # Front /\ buckets[x] \in Pointer /\ frame.value \in Values \cup {Null}
  <2>1. x \in Buckets /\ buckets[x] \in Pointer
    BY <1>3, BucketOf
  <2>2. frame.value \in Values \cup {Null}
    BY <1>3 DEF Frame
  <2>3. QED
    BY <2>1, <2>2 DEF Buckets, Front
<1>5. /\ HeadOf \in Heads /\ HeadOf[Front] = Null /\ \A j \in Nat : j >= capacity => HeadOf[j] = Null
      /\ \A j \in Nat : HeadOf[OldRoot(j)] = Null
      /\ \A j \in Buckets : HeadOf[j] = buckets[j]
  BY <1>2, <1>3, HeadFacts, IdleFrame
<1> HIDE DEF x
<1>6. e \in Entries /\ heap[e].key = Null /\ heap'[e].key = frame.key /\ heap'[e].next = buckets[x]
      /\ \A d \in Entries \ {e} : heap'[d] = heap[d]
  BY <1>1, <1>3 DEF Live, Memory
<1>7. heap' \in Memory
  BY <1>1, <1>3, <1>4 DEF Memory, Cell
<1>8. buckets' \in [0..(capacity - 1) -> Pointer] /\ \A j \in Buckets : buckets'[j] = IF j = x THEN e ELSE buckets[j]
  BY <1>1, <1>3 DEF TypeOK, Pointer, Buckets
<1>9. TypeOK'
  BY <1>2, <1>3, <1>7, <1>8, IdleFrame DEF TypeOK, Memory
<1> DEFINE G == [HeadOf EXCEPT ![x] = e]
<1>10. /\ G \in Heads
       /\ Forest(heap', G)
       /\ \A s \in Int \ {x} : Reach(heap', HeadOf[s]) = Reach(heap, HeadOf[s])
       /\ Reach(heap', e) = Reach(heap, HeadOf[x]) \cup {e}
       /\ LiveOf(heap') = LiveOf(heap) \cup {e}
       /\ e \notin LiveOf(heap)
  <2>1. heap'[e].key # Null /\ heap'[e].next = HeadOf[x]
        /\ \A d \in Entries \ {e} : heap'[d].next = heap[d].next /\ heap'[d].key = heap[d].key
    BY <1>3, <1>4, <1>5, <1>6, NullNotEntry
  <2>2. QED
    BY <1>3, <1>4, <1>5, <1>6, <1>7, <2>1, Pushed
<1>11. G[x] = e /\ \A r \in Int \ {x} : G[r] = HeadOf[r]
  BY <1>4, <1>5 DEF Heads
<1> HIDE DEF G
<1>12. /\ \A j \in Buckets : G[j] = buckets'[j]
       /\ \A j \in Nat : j >= capacity => G[j] = Null
       /\ G[Front] = Null
       /\ \A j \in Nat : G[OldRoot(j)] = Null
  <2>1. \A j \in Buckets : G[j] = buckets'[j]
    BY <1>5, <1>8, <1>11 DEF Buckets
  <2>2. \A j \in Nat : j >= capacity => G[j] = Null
    BY <1>3, <1>4, <1>5, <1>11 DEF Buckets, TypeOK
  <2>3. G[Front] = Null
    BY <1>4, <1>5, <1>11 DEF Front
  <2>4. \A j \in Nat : G[OldRoot(j)] = Null
    BY <1>4, <1>5, <1>11 DEF OldRoot
  <2>5. QED
    BY <2>1, <2>2, <2>3, <2>4
<1>13. Live' = Live \cup {e} /\ e \notin Live
  BY <1>10 DEF Live, LiveOf
<1>14. \A d \in Live : heap[d].key # frame.key /\ heap'[d].key = heap[d].key /\ d \in Entries
  <2> SUFFICES ASSUME NEW d \in Live, heap[d].key = frame.key PROVE FALSE
    BY <1>6, <1>13 DEF Live
  <2>1. d \in Reach(heap, buckets[x])
    BY <1>2, <1>3, Homes DEF x
  <2>2. d \notin Reach(heap, frame.entry)
    BY <1>2, ReachNull
  <2>3. QED
    BY <1>2, <2>1, <2>2 DEF IInv, Searching, x
<1>15. UniqueKeys'
  BY <1>6, <1>13, <1>14 DEF IInv, UniqueKeys
<1>16. Placed'
  <2> SUFFICES ASSUME NEW j \in Buckets, NEW d \in Reach(heap', buckets'[j])
               PROVE  Index(heap'[d].key, capacity) = j
    BY <1>2 DEF Placed, Buckets
  <2>1. CASE d = e /\ j = x
    BY <1>6, <2>1 DEF x
  <2>2. CASE d \in Reach(heap, buckets[j])
    <3>1. d \in Live
      BY <1>2, <1>3, <2>2, Homes
    <3>2. QED
      BY <1>2, <1>14, <2>2, <3>1 DEF IInv, Placed
  <2>3. QED
    <3>1. CASE j = x
      BY <1>5, <1>8, <1>10, <2>1, <2>2, <3>1
    <3>2. CASE j # x
      <4>1. j \in Int \ {x} /\ HeadOf[j] = buckets[j] /\ buckets'[j] = buckets[j]
        BY <1>5, <1>8, <3>2 DEF Buckets
      <4>2. Reach(heap', HeadOf[j]) = Reach(heap, HeadOf[j])
        BY <1>10, <4>1
      <4>3. QED
        BY <2>2, <4>1, <4>2
    <3>3. QED
      BY <3>1, <3>2
<1>17. size' = Cardinality(Live') /\ size' <= threshold
  <2>1. Cardinality(Live \cup {e}) = Cardinality(Live) + 1
    BY <1>13, LiveFinite, FS_AddElement
  <2>2. size = Cardinality(Live)
    BY <1>2, <1>3, Homes DEF IInv, Counts
  <2>3. size < threshold /\ size \in Nat /\ threshold \in Nat
    BY <1>2, <1>3 DEF IInv, Counts, TypeOK
  <2>4. QED
    BY <1>2, <1>13, <2>1, <2>2, <2>3
<1>18. QED
  BY <1>2, <1>3, <1>9, <1>10, <1>12, <1>15, <1>16, <1>17, CallChanges

\* The entry in front of the chain is removed, or one further along.
LEMMA RemoveReturnsIInv == ASSUME IInv, RemoveReturns PROVE IInv'
<1> DEFINE x == Index(frame.key, capacity)
           e == frame.entry
           c == frame.prev
           q == heap[e].next
<1>1. /\ frame.at = "search" /\ frame.op = "remove" /\ e # Null /\ heap[e].key = frame.key
      /\ heap' = IF c = Null THEN [heap EXCEPT ![e] = FreeCell]
                 ELSE [heap EXCEPT ![c].next = q, ![e] = FreeCell]
      /\ buckets' = IF c = Null THEN [buckets EXCEPT ![x] = q] ELSE buckets
      /\ size' = size - 1 /\ frame' = Idle /\ UNCHANGED <<exists, capacity, threshold, old>>
      /\ answer' = [op |-> frame.op, key |-> frame.key, res |-> 1, keys |-> {}]
  BY DEF RemoveReturns, Unlinked, Matches, Answers
<1>2. /\ TypeOK /\ exists /\ frame \in Frame /\ heap \in Memory /\ Forest(heap, HeadOf)
      /\ frame.key \in Keys /\ old = NoTable /\ e \in Entries
  <2>1. /\ TypeOK /\ exists /\ frame \in Frame /\ heap \in Memory /\ Forest(heap, HeadOf)
        /\ frame.key \in Keys /\ old = NoTable
    BY <1>1 DEF IInv, Control, TypeOK, Memory, Tables
  <2>2. QED
    BY <1>1, <2>1 DEF Frame, Pointer
<1>3. x \in Buckets /\ x \in Nat /\ x \in Int /\ x # Front /\ buckets[x] \in Pointer
  <2>1. x \in Buckets /\ buckets[x] \in Pointer
    BY <1>2, BucketOf
  <2>2. QED
    BY <2>1 DEF Buckets, Front
<1>4. /\ HeadOf \in Heads /\ HeadOf[Front] = Null /\ \A j \in Nat : j >= capacity => HeadOf[j] = Null
      /\ \A j \in Nat : HeadOf[OldRoot(j)] = Null
      /\ \A j \in Buckets : HeadOf[j] = buckets[j]
  BY <1>1, <1>2, HeadFacts, IdleFrame
<1>5. /\ e \in Reach(heap, buckets[x])
      /\ \/ c = Null /\ e = buckets[x]
         \/ c \in Reach(heap, buckets[x]) /\ heap[c].next = e
  BY <1>1 DEF IInv, Searching
<1>6. e \in Live /\ Live = LiveOf(heap)
  BY <1>1, <1>2, <1>3, <1>5, Homes DEF Live, LiveOf
<1>7. q \in Pointer /\ FreeCell \in Cell /\ FreeCell.key = Null /\ FreeCell.next = Null
  BY <1>2, NextPointer DEF FreeCell, Cell, Pointer
<1> HIDE DEF x, q
\* What the chains are afterwards.
<1> DEFINE Done(G) ==
               /\ heap' \in Memory /\ buckets' \in [0..(capacity - 1) -> Pointer]
               /\ G \in Heads /\ Forest(heap', G)
               /\ \A j \in Buckets : /\ G[j] = buckets'[j]
                                     /\ Reach(heap', buckets'[j]) \subseteq Reach(heap, buckets[j])
               /\ \A j \in Nat : j >= capacity => G[j] = Null
               /\ G[Front] = Null
               /\ \A j \in Nat : G[OldRoot(j)] = Null
               /\ LiveOf(heap') = LiveOf(heap) \ {e}
               /\ \A d \in LiveOf(heap') : heap'[d].key = heap[d].key
<1>8. ASSUME c = Null /\ e = buckets[x] PROVE \E G \in Heads : Done(G)
  <2> DEFINE G == [HeadOf EXCEPT ![x] = q]
  <2>1. heap' = [heap EXCEPT ![e] = FreeCell] /\ buckets' = [buckets EXCEPT ![x] = q]
    BY <1>1, <1>8
  <2>2. heap' \in Memory /\ heap'[e].key = Null /\ \A d \in Entries \ {e} : heap'[d] = heap[d]
    BY <1>2, <1>7, <2>1 DEF Memory
  <2>3. buckets' \in [0..(capacity - 1) -> Pointer] /\ \A j \in Buckets : buckets'[j] = IF j = x THEN q ELSE buckets[j]
    BY <1>2, <1>7, <2>1 DEF TypeOK, Buckets
  <2>4. /\ HeadOf[x] # Null /\ heap'[HeadOf[x]].key = Null
        /\ \A d \in Entries \ {HeadOf[x]} : heap'[d].next = heap[d].next /\ heap'[d].key = heap[d].key
    BY <1>1, <1>3, <1>4, <1>8, <2>2
  <2>5. LET F == [HeadOf EXCEPT ![x] = heap[HeadOf[x]].next]
        IN  /\ F \in Heads
            /\ Forest(heap', F)
            /\ \A s \in Int \ {x} : Reach(heap', HeadOf[s]) = Reach(heap, HeadOf[s])
            /\ Reach(heap', heap[HeadOf[x]].next) = Reach(heap, HeadOf[x]) \ {HeadOf[x]}
            /\ LiveOf(heap') = LiveOf(heap) \ {HeadOf[x]}
    <3>1. heap \in Memory /\ heap' \in Memory /\ HeadOf \in Heads /\ Forest(heap, HeadOf) /\ x \in Int
      BY <1>2, <1>3, <1>4, <2>2
    <3>2. QED
      BY <2>4, <3>1, Popped, SMTT(30)
  <2>6. heap[HeadOf[x]].next = q /\ HeadOf[x] = e /\ HeadOf[x] = buckets[x]
    BY <1>3, <1>4, <1>8 DEF q
  <2>7. /\ G \in Heads /\ Forest(heap', G)
        /\ \A s \in Int \ {x} : Reach(heap', HeadOf[s]) = Reach(heap, HeadOf[s])
        /\ Reach(heap', q) \subseteq Reach(heap, buckets[x])
        /\ LiveOf(heap') = LiveOf(heap) \ {e}
    BY <2>5, <2>6
  <2>8. G[x] = q /\ \A r \in Int \ {x} : G[r] = HeadOf[r]
    BY <1>3, <1>4 DEF Heads
  <2> HIDE DEF G
  <2>9. ASSUME NEW j \in Buckets
        PROVE  G[j] = buckets'[j] /\ Reach(heap', buckets'[j]) \subseteq Reach(heap, buckets[j])
    <3>1. CASE j = x
      BY <2>3, <2>7, <2>8, <3>1
    <3>2. CASE j # x
      <4>1. j \in Int \ {x}
        BY <3>2 DEF Buckets
      <4>2. QED
        BY <1>4, <2>3, <2>7, <2>8, <3>2, <4>1
    <3>3. QED
      BY <3>1, <3>2
  <2>10. \A j \in Nat : j >= capacity => G[j] = Null
    BY <1>2, <1>3, <1>4, <2>8 DEF Buckets, TypeOK
  <2>11. G[Front] = Null
    BY <1>3, <1>4, <2>8 DEF Front
  <2>12. \A j \in Nat : G[OldRoot(j)] = Null
    BY <1>3, <1>4, <2>8 DEF OldRoot
  <2>13. \A d \in LiveOf(heap') : heap'[d].key = heap[d].key
    BY <2>2, <2>7 DEF LiveOf
  <2>14. Done(G)
    BY <2>2, <2>3, <2>7, <2>9, <2>10, <2>11, <2>12, <2>13
  <2>15. QED
    BY <2>7, <2>14
<1>9. ASSUME c \in Reach(heap, buckets[x]) /\ heap[c].next = e PROVE \E G \in Heads : Done(G)
  <2>1. c \in Entries /\ c # Null /\ c # e
    <3>1. c \in Entries /\ c # Null
      BY <1>2, <1>3, <1>9, ReachIn, NullNotEntry
    <3>2. e \in Reach(heap, e) /\ e \in LiveOf(heap)
      BY <1>2, <1>6, ReachSelf
    <3>3. c # e
      BY <1>2, <1>9, <3>2 DEF Forest
    <3>4. QED
      BY <3>1, <3>3
  <2>2. heap' = [heap EXCEPT ![c].next = q, ![e] = FreeCell] /\ buckets' = buckets
    BY <1>1, <2>1
  <2>3. /\ heap' \in Memory /\ heap'[e] = FreeCell
        /\ heap'[c].next = q /\ heap'[c].key = heap[c].key
        /\ \A d \in Entries \ {c, e} : heap'[d] = heap[d]
    BY <1>2, <1>7, <2>1, <2>2 DEF Memory, Cell
  <2>4. /\ Forest(heap', HeadOf)
        /\ \A s \in Int \ {x} : Reach(heap', HeadOf[s]) = Reach(heap, HeadOf[s])
        /\ Reach(heap', HeadOf[x]) = Reach(heap, HeadOf[x]) \ {e}
        /\ LiveOf(heap') = LiveOf(heap) \ {e}
    <3>1. LinkedPast(heap, heap', c, e)
      BY <1>3, <1>4, <1>7, <1>9, <2>3 DEF q, LinkedPast
    <3>2. heap \in Memory /\ heap' \in Memory /\ HeadOf \in Heads /\ Forest(heap, HeadOf) /\ x \in Int
          /\ e \in Entries /\ c \in Reach(heap, HeadOf[x])
      BY <1>2, <1>3, <1>4, <1>9, <2>3
    <3> HIDE DEF c, e
    <3>3. Forest(heap', HeadOf)
      BY <3>1, <3>2, Bypassed
    <3>4. \A s \in Int \ {x} : Reach(heap', HeadOf[s]) = Reach(heap, HeadOf[s])
      BY <3>1, <3>2, Bypassed
    <3>5. Reach(heap', HeadOf[x]) = Reach(heap, HeadOf[x]) \ {e}
      BY <3>1, <3>2, Bypassed
    <3>6. LiveOf(heap') = LiveOf(heap) \ {e}
      BY <3>1, <3>2, Bypassed
    <3>7. QED
      BY <3>3, <3>4, <3>5, <3>6
  <2>5. ASSUME NEW j \in Buckets
        PROVE  HeadOf[j] = buckets'[j] /\ Reach(heap', buckets'[j]) \subseteq Reach(heap, buckets[j])
    <3>1. j \in Int
      BY DEF Buckets
    <3>2. QED
      BY <1>4, <2>2, <2>4, <3>1
  <2>6. \A d \in LiveOf(heap') : heap'[d].key = heap[d].key
    BY <2>3, <2>4 DEF LiveOf
  <2>7. buckets' \in [0..(capacity - 1) -> Pointer]
    BY <1>2, <2>2 DEF TypeOK
  <2>8. Done(HeadOf)
    BY <1>4, <2>3, <2>4, <2>5, <2>6, <2>7
  <2>9. QED
    BY <1>4, <2>8
<1>10. \E G \in Heads : Done(G)
  <2> HIDE DEF Done
  <2>1. QED
    BY <1>5, <1>8, <1>9
<1>11. PICK G \in Heads : Done(G)
  BY <1>10
<1>12. Live' = Live \ {e}
  BY <1>6, <1>11 DEF Live, LiveOf
<1>13. \A d \in Live' : heap'[d].key = heap[d].key /\ d \in Live
  BY <1>11, <1>12 DEF Live, LiveOf
<1>14. UniqueKeys'
  BY <1>13 DEF IInv, UniqueKeys
<1>18. UNCHANGED <<exists, capacity, threshold, old>> /\ frame' = Idle
  BY <1>1
<1>15. Placed'
  <2> SUFFICES ASSUME NEW j \in Buckets, NEW d \in Reach(heap', buckets'[j])
               PROVE  Index(heap'[d].key, capacity) = j
    BY <1>18 DEF Placed, Buckets
  <2>1. d \in Reach(heap, buckets[j])
    BY <1>11
  <2>2. d \in LiveOf(heap')
    <3>1. j \in Int /\ G[j] = buckets'[j]
      BY <1>11 DEF Buckets
    <3>2. QED
      BY <1>11, <3>1 DEF Forest
  <2>3. heap'[d].key = heap[d].key
    BY <1>11, <2>2
  <2>4. QED
    BY <1>1, <2>1, <2>3 DEF IInv, Placed
<1>16. /\ size' = Cardinality(Live') /\ size' <= threshold /\ size' \in Nat
  <2>1. Cardinality(Live \ {e}) = Cardinality(Live) - 1
    BY <1>6, LiveFinite, FS_RemoveElement
  <2>2. size = Cardinality(Live)
    BY <1>1, <1>2, Homes DEF IInv, Counts
  <2>3. Cardinality(Live \ {e}) \in Nat
    BY LiveFinite, FS_Subset, FS_CardinalityType
  <2>4. size <= threshold /\ size \in Nat /\ threshold \in Nat
    BY <1>1, <1>2 DEF IInv, Counts, TypeOK
  <2>5. QED
    BY <1>1, <1>12, <2>1, <2>2, <2>3, <2>4
<1>17. TypeOK'
  BY <1>1, <1>2, <1>11, <1>16, IdleFrame DEF TypeOK, Memory
<1>19. QED
  BY <1>2, <1>11, <1>14, <1>15, <1>16, <1>17, <1>18, CallChanges

-----------------------------------------------------------------------------
(* The theorems *)

LEMMA CallIInv == ASSUME IInv, Call PROVE IInv'
<1>1. ASSUME NEW c \in Capacities, Create(c) PROVE IInv'
  BY <1>1, CreateIInv
<1>2. ASSUME NEW k \in Keys, NEW v \in Values \cup {Null}, Insert(k, v) PROVE IInv'
  BY <1>2, InsertIInv
<1>3. ASSUME NEW k \in Keys, NEW op \in {"get", "remove", "contains"}, Lookup(op, k) PROVE IInv'
  BY <1>3, LookupIInv
<1>4. ASSUME NEW op \in {"clear", "destroy"}, FreeAll(op) PROVE IInv'
  BY <1>4, FreeAllIInv
<1>5. CASE ListKeys
  BY <1>5, ListKeysIInv
<1>6. CASE CreateFails \/ NoKeys \/ Size \/ NullCall
  BY <1>6, IdleIInv
<1>7. QED
  BY <1>1, <1>2, <1>3, <1>4, <1>5, <1>6 DEF Call

LEMMA ContinueIInv == ASSUME IInv, Continue PROVE IInv'
<1>1. CASE Grow
  BY <1>1, GrowIInv
<1>2. CASE GrowFails
  BY <1>2, GrowFailsIInv
<1>3. CASE Relink
  BY <1>3, RelinkIInv
<1>4. CASE NextOldBucket
  BY <1>4, NextOldBucketIInv
<1>5. CASE Resized
  BY <1>5, ResizedIInv
<1>6. CASE Overwrite
  BY <1>6, OverwriteIInv
<1>7. CASE AddEntry
  BY <1>7, AddEntryIInv
<1>8. CASE AddFails \/ GetReturns \/ ContainsReturns \/ NothingToRemove
  BY <1>8, SearchesIInv DEF AddFails, GetReturns, ContainsReturns, NothingToRemove
<1>9. CASE SearchOn
  BY <1>9, SearchOnIInv
<1>10. CASE RemoveReturns
  BY <1>10, RemoveReturnsIInv
<1>11. CASE FreeEntry
  BY <1>11, FreeEntryIInv
<1>12. CASE NextFreedBucket
  BY <1>12, NextFreedBucketIInv
<1>13. CASE Cleared
  BY <1>13, ClearedIInv
<1>14. CASE Destroyed
  BY <1>14, DestroyedIInv
<1>15. CASE CollectKey
  BY <1>15, CollectKeyIInv
<1>16. CASE NextCollectedBucket
  BY <1>16, NextCollectedBucketIInv
<1>17. CASE KeysReturns
  BY <1>17, KeysReturnsIInv
<1>18. QED
  BY <1>1, <1>2, <1>3, <1>4, <1>5, <1>6, <1>7, <1>8, <1>9, <1>10, <1>11, <1>12, <1>13, <1>14,
     <1>15, <1>16, <1>17 DEF Continue

LEMMA StutterIInv == ASSUME IInv, UNCHANGED vars PROVE IInv'
<1>1. /\ exists' = exists /\ capacity' = capacity /\ size' = size /\ threshold' = threshold
      /\ buckets' = buckets /\ old' = old /\ heap' = heap /\ frame' = frame /\ answer' = answer
  BY DEF vars
<1>2. TypeOK' /\ Forest(heap, HeadOf)'
  BY <1>1 DEF IInv, TypeOK, HeadOf
<1>3. Live' = Live /\ Buckets' = Buckets
  BY <1>1 DEF Live, Buckets
<1>4. Control' /\ Tables' /\ Placed' /\ UniqueKeys'
  BY <1>1, <1>3 DEF IInv, Control, Tables, Placed, UniqueKeys
<1>5. Stored' = Stored /\ Collected' = Collected
  BY <1>1, <1>3 DEF Stored, Collected
<1>6. Counts' /\ Searching' /\ Collecting' /\ Freeing'
  BY <1>1, <1>3, <1>5 DEF IInv, Counts, Searching, Collecting, Freeing
<1>7. QED
  BY <1>2, <1>4, <1>6 DEF IInv

\* The chains form a forest whose roots are the buckets, and while a table is
\* resized or freed what the loop still has to visit.
THEOREM Invariant == Spec => []IInv
<1>1. Init => IInv
  BY InitIInv
<1>2. IInv /\ [Next]_vars => IInv'
  BY CallIInv, ContinueIInv, StutterIInv DEF Next
<1>3. QED
  BY <1>1, <1>2, PTL DEF Spec

\* The entries that are linked in the table are those that the resize does not
\* still have to move.
LEMMA StoredIs ==
    ASSUME IInv, exists, frame.at # "free"
    PROVE  /\ Stored = Live \ Unmoved
           /\ \A j \in Buckets : Reach(heap, buckets[j]) \subseteq Stored
<1>1. TypeOK /\ Forest(heap, HeadOf) /\ Live = LiveOf(heap)
  BY DEF IInv, Live, LiveOf
<1>2. \A j \in Buckets : HeadOf[j] = buckets[j] /\ j \in Int
  BY <1>1, HeadFacts DEF Buckets
<1>3. \A j \in Buckets : Reach(heap, buckets[j]) \subseteq Stored
  BY DEF Stored
<1>4. CASE frame.at # "resize"
  BY <1>3, <1>4, Homes DEF Unmoved
<1>5. CASE frame.at = "resize"
  <2>1. /\ HeadOf[Front] = frame.entry
        /\ \A j \in Nat : HeadOf[OldRoot(j)] = IF j \in DOMAIN old /\ j > frame.i THEN old[j] ELSE Null
        /\ \A r \in Int : r >= capacity => HeadOf[r] = Null
    BY <1>1, <1>5, HeadFacts
  <2>2. Unmoved = Reach(heap, frame.entry) \cup
                  UNION {Reach(heap, old[j]) : j \in {j \in DOMAIN old : j > frame.i}}
    BY <1>5, ChainReach DEF Unmoved
  <2>3. ASSUME NEW e \in Live, e \notin Stored PROVE e \in Unmoved
    <3>1. PICK r \in Int : e \in Reach(heap, HeadOf[r])
      BY <1>1 DEF Forest
    <3>2. HeadOf[r] # Null /\ r \notin Buckets
      BY <1>2, <2>3, <3>1, ReachNull DEF Stored
    <3>3. CASE r = Front
      BY <2>1, <2>2, <3>1, <3>3
    <3>4. CASE OldRoot(r) \in Nat /\ OldRoot(OldRoot(r)) = r
      <4>1. OldRoot(r) \in DOMAIN old /\ OldRoot(r) > frame.i /\ HeadOf[r] = old[OldRoot(r)]
        BY <2>1, <3>2, <3>4
      <4>2. QED
        BY <2>2, <3>1, <4>1
    <3>5. CASE r \in Nat
      BY <1>1, <2>1, <3>2, <3>5 DEF Buckets, TypeOK
    <3>6. QED
      BY <3>3, <3>4, <3>5, Roots
  <2>4. ASSUME NEW e \in Stored PROVE e \in Live /\ e \notin Unmoved
    <3>1. PICK j \in Buckets : e \in Reach(heap, HeadOf[j]) /\ j \in Int /\ j \in Nat
      BY <1>2 DEF Stored, Buckets
    <3>2. e \in Live
      BY <1>1, <3>1 DEF Forest
    <3>3. e \notin Reach(heap, frame.entry)
      <4>1. Front \in Int /\ Front # j
        BY <3>1 DEF Front
      <4>2. QED
        BY <1>1, <2>1, <3>1, <4>1 DEF Forest
    <3>4. ASSUME NEW n \in DOMAIN old, n > frame.i PROVE e \notin Reach(heap, old[n])
      <4>1. n \in Nat
        BY <1>1 DEF TypeOK
      <4>2. OldRoot(n) \in Int /\ OldRoot(n) # j /\ HeadOf[OldRoot(n)] = old[n]
        BY <2>1, <3>1, <3>4, <4>1 DEF OldRoot
      <4>3. QED
        BY <1>1, <3>1, <4>2 DEF Forest
    <3>5. QED
      BY <2>2, <3>2, <3>3, <3>4
  <2>5. QED
    BY <1>3, <2>3, <2>4
<1>6. QED
  BY <1>4, <1>5

\* The keys that are collected and those that are to come fit the array.
LEMMA KeysFit ==
    ASSUME IInv, frame.at = "collect"
    PROVE  Len(frame.keys) + Cardinality(Reach(heap, frame.entry)) <= size
<1>1. /\ exists /\ frame.i \in Buckets /\ heap \in Memory
      /\ frame.entry \in Reach(heap, buckets[frame.i]) \cup {Null}
      /\ Len(frame.keys) = Cardinality(Collected)
  BY DEF IInv, Control, Tables, Collecting, TypeOK, Memory
<1>2. buckets[frame.i] \in Pointer
  BY <1>1, Homes
<1>3. Reach(heap, frame.entry) \subseteq Reach(heap, buckets[frame.i])
  <2>1. CASE frame.entry = Null
    BY <2>1, ReachNull
  <2>2. CASE frame.entry # Null
    BY <1>1, <1>2, <2>2, ReachFurther
  <2>3. QED
    BY <2>1, <2>2
<1>4. Reach(heap, frame.entry) \subseteq Live /\ Collected \subseteq Live
      /\ Reach(heap, frame.entry) \cap Collected = {}
  <2>1. Reach(heap, buckets[frame.i]) = {e \in Live : Index(heap[e].key, capacity) = frame.i}
    BY <1>1, Homes
  <2>2. Collected = {e \in Live : /\ Index(heap[e].key, capacity) <= frame.i
                                  /\ Index(heap[e].key, capacity) = frame.i
                                         => e \notin Reach(heap, frame.entry)}
    BY <1>1, CollectedIs
  <2>3. QED
    BY <1>3, <2>1, <2>2
<1>5. IsFiniteSet(Reach(heap, frame.entry)) /\ IsFiniteSet(Collected)
  BY <1>4, LiveFinite, FS_Subset
<1>6. /\ Cardinality(Collected \cup Reach(heap, frame.entry)) =
             Cardinality(Collected) + Cardinality(Reach(heap, frame.entry)) - Cardinality(Collected \cap Reach(heap, frame.entry))
      /\ Cardinality(Collected \cap Reach(heap, frame.entry)) = 0
      /\ Cardinality(Collected) \in Nat /\ Cardinality(Reach(heap, frame.entry)) \in Nat
  BY <1>4, <1>5, FS_Union, FS_EmptySet, FS_CardinalityType
<1>7. Cardinality(Collected \cup Reach(heap, frame.entry)) <= Cardinality(Live)
  BY <1>4, LiveFinite, FS_Subset
<1>8. size = Cardinality(Live)
  BY <1>1, Homes DEF IInv, Counts
<1>9. QED
  BY <1>1, <1>6, <1>7, <1>8

LEMMA TableSoundFrom == IInv => TableSound
<1> SUFFICES ASSUME IInv PROVE TableSound
  OBVIOUS
<1>1. Findable
  <2> SUFFICES ASSUME exists, frame.at # "free", NEW e \in Live \ Unmoved
               PROVE  e \in Reach(heap, buckets[Index(heap[e].key, capacity)])
    BY ChainReach DEF Findable
  <2>1. PICK j \in Buckets : e \in Reach(heap, buckets[j])
    BY StoredIs DEF Stored
  <2>2. QED
    BY <2>1 DEF IInv, Placed
<1>2. ChainsSound
  <2> SUFFICES ASSUME exists, frame.at # "free", NEW i \in Buckets, NEW e \in Reach(heap, buckets[i])
               PROVE  e \in Live \ Unmoved /\ Index(heap[e].key, capacity) = i
    BY ChainReach DEF ChainsSound, Buckets
  <2>1. QED
    BY StoredIs DEF IInv, Placed
<1>3. SizeExact
  <2> SUFFICES ASSUME exists, frame.at # "free" PROVE SizeExact
    BY DEF SizeExact
  <2>1. size = Cardinality(Live \ Unmoved)
    BY StoredIs DEF IInv, Counts
  <2>2. frame.at = "collect" => Len(frame.keys) + Cardinality(Chain(frame.entry)) <= size
    BY ChainReach, KeysFit
  <2>3. QED
    BY <2>1, <2>2 DEF SizeExact
<1>4. LoadBound
  BY DEF IInv, Counts, LoadBound
<1>5. QED
  BY <1>1, <1>2, <1>3, <1>4 DEF TableSound, IInv

\* Each key is in the one place where it is looked for, and counted, at every step
\* of every call, a resize included (hashmap.c:56-84, 102-194).
THEOREM TableSoundHolds == Spec => []TableSound
BY Invariant, TableSoundFrom, PTL

LEMMA MemorySafeFrom == IInv => MemorySafe
<1> SUFFICES ASSUME IInv PROVE MemorySafe
  OBVIOUS
<1>1. TypeOK /\ Forest(heap, HeadOf) /\ Live = LiveOf(heap) /\ heap \in Memory /\ frame \in Frame
  BY DEF IInv, Live, LiveOf, TypeOK, Memory
<1>2. frame.entry \in Live \cup {Null}
  <2>1. CASE frame.at \in {"resize", "free"}
    <3>1. HeadOf[Front] = frame.entry /\ Front \in Int /\ frame.entry \in Pointer
      BY <1>1, <2>1, HeadFacts DEF Front, Frame
    <3>2. frame.entry # Null => frame.entry \in Reach(heap, frame.entry)
      BY <1>1, <3>1, ReachIn
    <3>3. QED
      BY <1>1, <3>1, <3>2 DEF Forest
  <2>2. CASE frame.at \in {"idle", "grow"}
    BY <2>2 DEF IInv, Control, Idle
  <2>3. CASE frame.at = "search"
    <3>1. exists /\ frame.key \in Keys
      BY <2>3 DEF IInv, Control
    <3>2. QED
      BY <2>3, <3>1, BucketOf, Homes DEF IInv, Searching
  <2>4. CASE frame.at = "collect"
    BY <2>4, Homes DEF IInv, Control, Tables, Collecting
  <2>5. QED
    BY <1>1, <2>1, <2>2, <2>3, <2>4 DEF Frame
<1>3. frame.prev \in Live \cup {Null}
  <2>1. CASE frame.at # "search" \/ frame.op # "remove"
    BY <2>1 DEF IInv, Control
  <2>2. CASE frame.at = "search" /\ frame.op = "remove"
    <3>1. exists /\ frame.key \in Keys
      BY <2>2 DEF IInv, Control
    <3>2. QED
      BY <2>2, <3>1, BucketOf, Homes DEF IInv, Searching
  <2>3. QED
    BY <2>1, <2>2
<1>4. ~exists => Live = {}
  BY NoMapNoEntry
<1>5. QED
  BY <1>2, <1>3, <1>4 DEF MemorySafe

\* No loop holds a pointer to an entry that was freed, and a map that is destroyed
\* leaves none behind (hashmap.c:107-121, 169-230).
THEOREM MemorySafeHolds == Spec => []MemorySafe
BY Invariant, MemorySafeFrom, PTL

\* An insertion, whatever it does to the table, writes no key of an entry that is
\* there, and a removal that of one entry only (hashmap.c:48-91, 123-151, 169-194).
THEOREM KeysStayHolds == Spec => KeysStay
<1> DEFINE Kept ==
        frame.op \in {"insert", "remove"} =>
            \A e \in Live : \/ heap'[e].key = heap[e].key
                            \/ frame.op = "remove" /\ heap[e].key = frame.key
<1>1. ASSUME IInv, [Next]_vars PROVE Kept
  <2> SUFFICES ASSUME frame.op \in {"insert", "remove"}, NEW e \in Live
               PROVE  \/ heap'[e].key = heap[e].key
                      \/ frame.op = "remove" /\ heap[e].key = frame.key
    OBVIOUS
  <2>1. e \in Entries /\ heap \in [Entries -> Cell] /\ frame.at \notin {"free", "idle"}
    BY <1>1 DEF Live, IInv, TypeOK, Control, Idle
  <2>2. CASE heap' = heap
    BY <2>2
  <2>3. CASE Relink
    BY <2>1, <2>3 DEF Relink, Linked, Cell
  <2>4. CASE Overwrite
    BY <2>1, <2>4 DEF Overwrite, Cell
  <2>5. CASE AddEntry
    BY <2>1, <2>5 DEF AddEntry
  <2>6. CASE RemoveReturns
    <3>1. heap[frame.entry].key = frame.key
      BY <2>6 DEF RemoveReturns, Matches
    <3>2. e # frame.entry => heap'[e].key = heap[e].key
      BY <2>1, <2>6 DEF RemoveReturns, Unlinked, Cell
    <3>3. QED
      BY <2>6, <3>1, <3>2 DEF RemoveReturns
  <2>7. Call => heap' = heap
    BY DEF Call, Create, CreateFails, Insert, Lookup, FreeAll, ListKeys, NoKeys, Size, NullCall
  <2>8. Continue => Relink \/ Overwrite \/ AddEntry \/ RemoveReturns \/ heap' = heap
    BY <2>1 DEF Continue, Grow, GrowFails, NextOldBucket, Resized, AddFails, SearchOn, GetReturns,
           ContainsReturns, NothingToRemove, FreeEntry, NextFreedBucket, Cleared,
           Destroyed, CollectKey, NextCollectedBucket, KeysReturns
  <2>9. QED
    BY <1>1, <2>2, <2>3, <2>4, <2>5, <2>6, <2>7, <2>8 DEF Next, vars
<1>2. QED
  BY <1>1, Invariant, PTL DEF Spec, KeysStay
-----------------------------------------------------------------------------
(* The map is a dictionary *)

LEMMA ValueNotMissing == \A v \in Values \cup {Null} : v # Missing
BY NullAssumption

\* What the dictionary holds, entry by entry.
LEMMA DictIs ==
    ASSUME IInv
    PROVE  /\ DictOf = [k \in Keys |-> DictOf[k]]
           /\ frame.at = "free" => \A k \in Keys : DictOf[k] = Missing
           /\ frame.at # "free" =>
                 /\ \A e \in Live : heap[e].key \in Keys /\ DictOf[heap[e].key] = heap[e].value
                                    /\ heap[e].value \in Values \cup {Null}
                 /\ \A k \in Keys : (\A e \in Live : heap[e].key # k) => DictOf[k] = Missing
<1>1. DictOf = [k \in Keys |-> DictOf[k]]
  BY DEF DictOf
<1>2. frame.at = "free" => \A k \in Keys : DictOf[k] = Missing
  BY DEF DictOf
<1>3. ASSUME frame.at # "free", NEW e \in Live
      PROVE  heap[e].key \in Keys /\ DictOf[heap[e].key] = heap[e].value
             /\ heap[e].value \in Values \cup {Null}
  <2>1. heap[e].key \in Keys /\ heap[e].value \in Values \cup {Null}
    BY DEF Live, IInv, TypeOK, Cell
  <2>2. \A d \in Live : heap[d].key = heap[e].key => d = e
    BY DEF IInv, UniqueKeys
  <2>3. (CHOOSE d \in Live : heap[d].key = heap[e].key) = e
    BY <2>2
  <2>4. DictOf[heap[e].key] =
            IF ~\E d \in Live : heap[d].key = heap[e].key THEN Missing
            ELSE heap[CHOOSE d \in Live : heap[d].key = heap[e].key].value
    BY <1>3, <2>1 DEF DictOf
  <2>5. QED
    BY <2>1, <2>3, <2>4
<1>4. ASSUME NEW k \in Keys, \A e \in Live : heap[e].key # k PROVE DictOf[k] = Missing
  BY <1>4 DEF DictOf
<1>5. QED
  BY <1>1, <1>2, <1>3, <1>4

LEMMA DictIsNext ==
    ASSUME IInv'
    PROVE  /\ DictOf' = [k \in Keys |-> DictOf'[k]]
           /\ frame'.at = "free" => \A k \in Keys : DictOf'[k] = Missing
           /\ frame'.at # "free" =>
                 /\ \A e \in Live' : heap'[e].key \in Keys /\ DictOf'[heap'[e].key] = heap'[e].value
                                    /\ heap'[e].value \in Values \cup {Null}
                 /\ \A k \in Keys : (\A e \in Live' : heap'[e].key # k) => DictOf'[k] = Missing
<1>1. DictOf' = [k \in Keys |-> DictOf'[k]]
  BY DEF DictOf
<1>2. frame'.at = "free" => \A k \in Keys : DictOf'[k] = Missing
  BY DEF DictOf
<1>3. ASSUME frame'.at # "free", NEW e \in Live'
      PROVE  heap'[e].key \in Keys /\ DictOf'[heap'[e].key] = heap'[e].value
             /\ heap'[e].value \in Values \cup {Null}
  <2>1. heap'[e].key \in Keys /\ heap'[e].value \in Values \cup {Null}
    BY DEF Live, IInv, TypeOK, Cell
  <2>2. \A d \in Live' : heap'[d].key = heap'[e].key => d = e
    BY DEF IInv, UniqueKeys
  <2>3. (CHOOSE d \in Live' : heap'[d].key = heap'[e].key) = e
    BY <2>2
  <2>4. DictOf'[heap'[e].key] =
            IF ~\E d \in Live' : heap'[d].key = heap'[e].key THEN Missing
            ELSE heap'[CHOOSE d \in Live' : heap'[d].key = heap'[e].key].value
    BY <1>3, <2>1 DEF DictOf
  <2>5. QED
    BY <2>1, <2>3, <2>4
<1>4. ASSUME NEW k \in Keys, \A e \in Live' : heap'[e].key # k PROVE DictOf'[k] = Missing
  BY <1>4 DEF DictOf
<1>5. QED
  BY <1>1, <1>2, <1>3, <1>4

\* Entries keep what they hold.
LEMMA DictSame ==
    ASSUME IInv, IInv', frame.at # "free", frame'.at # "free",
           \A e \in Entries : heap'[e].key = heap[e].key /\ heap'[e].value = heap[e].value
    PROVE  DictOf' = DictOf
<1>1. Live' = Live /\ Live \subseteq Entries
  BY DEF Live
<1>2. ASSUME NEW k \in Keys PROVE DictOf'[k] = DictOf[k]
  <2>1. CASE \E e \in Live : heap[e].key = k
    BY <1>1, <2>1, DictIs, DictIsNext
  <2>2. CASE \A e \in Live : heap[e].key # k
    BY <1>1, <2>2, DictIs, DictIsNext
  <2>3. QED
    BY <2>1, <2>2
<1>3. QED
  BY <1>2, DictIs, DictIsNext

LEMMA DictEmpty ==
    ASSUME IInv, Live = {} \/ frame.at = "free"
    PROVE  DictOf = [k \in Keys |-> Missing]
BY DictIs

LEMMA DictEmptyNext ==
    ASSUME IInv', Live' = {} \/ frame'.at = "free"
    PROVE  DictOf' = [k \in Keys |-> Missing]
BY DictIsNext

\* The keys that the dictionary holds are those of the entries, each once.
LEMMA HeldIs ==
    ASSUME IInv, frame.at # "free"
    PROVE  /\ Abstract!Held = {heap[e].key : e \in Live}
           /\ Cardinality(Abstract!Held) = Cardinality(Live)
<1>1. Abstract!Held = {k \in Keys : DictOf[k] # Missing}
  BY DEF Abstract!Held, Abstract!Has
<1>2. \A e \in Live : heap[e].key \in Keys /\ DictOf[heap[e].key] # Missing
  BY DictIs, ValueNotMissing
<1>3. ASSUME NEW k \in Keys, DictOf[k] # Missing PROVE \E e \in Live : heap[e].key = k
  BY <1>3, DictIs
<1>4. Abstract!Held = {heap[e].key : e \in Live}
  BY <1>1, <1>2, <1>3
<1>5. ExistsBijection(Live, Abstract!Held)
  <2> DEFINE f == [e \in Live |-> heap[e].key]
  <2>1. f \in [Live -> Abstract!Held]
    BY <1>4
  <2>2. \A d, e \in Live : f[d] = f[e] => d = e
    BY DEF IInv, UniqueKeys
  <2>3. \A k \in Abstract!Held : \E e \in Live : f[e] = k
    BY <1>4
  <2>4. f \in Bijection(Live, Abstract!Held)
    BY <2>1, <2>2, <2>3, Fun_IsBij
  <2>5. QED
    BY <2>4 DEF ExistsBijection
<1>6. QED
  BY <1>4, <1>5, LiveFinite, FS_Bijection

\* The map that the caller has: none from the moment that it is destroyed.
HasMap == exists /\ ~(frame.at = "free" /\ frame.op = "destroy")

LEMMA AbstractInit == Init => Abstract!Init
<1> SUFFICES ASSUME Init PROVE Abstract!Init
  OBVIOUS
<1>1. Live = {} /\ exists = FALSE /\ answer = NoAnswer
  BY DEF Init, Live, FreeCell
<1>2. DictOf = [k \in Keys |-> Missing]
  BY <1>1, InitIInv, DictEmpty
<1>3. QED
  BY <1>1, <1>2 DEF Abstract!Init, Abstract!Empty, Abstract!NoAnswer, NoAnswer

\* A step that the caller sees nothing of.
LEMMA Unseen ==
    ASSUME IInv, IInv', frame.at # "free", frame'.at # "free", exists' = exists, answer' = answer,
           \A e \in Entries : heap'[e].key = heap[e].key /\ heap'[e].value = heap[e].value
    PROVE  UNCHANGED Abstract!vars
<1>1. DictOf' = DictOf
  BY DictSame
<1>2. QED
  BY <1>1 DEF Abstract!vars

\* A step that changes no entry.
LEMMA Asked ==
    ASSUME IInv, IInv', frame.at # "free", frame'.at # "free", UNCHANGED <<mapFields, heap>>
    PROVE  DictOf' = DictOf /\ exists' = exists
<1>1. heap' = heap /\ exists' = exists
  BY DEF mapFields
<1>2. DictOf' = DictOf
  BY <1>1, DictSame
<1>3. QED
  BY <1>1, <1>2

\* The abstract specification counts the keys with an operator of its own name.
LEMMA SameCount == \A S : Abstract!Cardinality(S) = Cardinality(S)
BY Zenon DEF Cardinality, Abstract!Cardinality

LEMMA CallRefines == ASSUME IInv, IInv', Call PROVE Abstract!Next
<1> USE DEF Abstract!Next
<1>1. ASSUME NEW c \in Capacities, Create(c) PROVE Abstract!Next
  <2>1. ~exists /\ exists' = TRUE /\ heap' = heap /\ frame' = frame /\ frame.at = "idle"
        /\ answer' = [op |-> "create", key |-> Null, res |-> 1, keys |-> {}]
    BY <1>1 DEF Create
  <2>2. DictOf' = DictOf
    BY <2>1, DictSame
  <2>3. Abstract!Create
    BY <2>1, <2>2 DEF Abstract!Create, Abstract!Says
  <2>4. QED
    BY <2>3
<1>2. CASE CreateFails
  <2>1. /\ frame.at = "idle" /\ ~exists /\ UNCHANGED <<mapFields, heap>> /\ frame' = frame
        /\ answer' = [op |-> "create", key |-> Null, res |-> Null, keys |-> {}]
    BY <1>2 DEF CreateFails
  <2>2. DictOf' = DictOf /\ exists' = exists
    BY <2>1, Asked
  <2>3. Abstract!Create
    BY <2>1, <2>2 DEF Abstract!Create, Abstract!Says
  <2>4. QED
    BY <2>3
<1>3. ASSUME Ready, UNCHANGED <<mapFields, heap>>, answer' = NoAnswer, frame'.at # "free"
      PROVE  Abstract!Next
  <2>1. DictOf' = DictOf /\ exists' = exists /\ exists /\ frame.at = "idle"
    BY <1>3, Asked DEF Ready
  <2>2. Abstract!Call
    BY <1>3, <2>1 DEF Abstract!Call, Abstract!NoAnswer, NoAnswer
  <2>3. QED
    BY <2>2
<1>4. ASSUME NEW k \in Keys, NEW v \in Values \cup {Null}, Insert(k, v) PROVE Abstract!Next
  <2>1. Ready /\ UNCHANGED <<mapFields, heap>> /\ answer' = NoAnswer /\ frame'.at # "free"
    BY <1>4 DEF Insert, Search, Idle
  <2>2. QED
    BY <1>3, <2>1
<1>5. ASSUME NEW k \in Keys, NEW op \in {"get", "remove", "contains"}, Lookup(op, k) PROVE Abstract!Next
  <2>1. Ready /\ UNCHANGED <<mapFields, heap>> /\ answer' = NoAnswer /\ frame'.at # "free"
    BY <1>5 DEF Lookup, Search, Idle
  <2>2. QED
    BY <1>3, <2>1
<1>6. CASE ListKeys
  <2>1. Ready /\ UNCHANGED <<mapFields, heap>> /\ answer' = NoAnswer /\ frame'.at # "free"
    BY <1>6 DEF ListKeys, Traverse, Idle
  <2>2. QED
    BY <1>3, <2>1
<1>7. ASSUME NEW op \in {"clear", "destroy"}, FreeAll(op) PROVE Abstract!Next
  <2>1. /\ exists /\ frame.at = "idle" /\ exists' = exists /\ answer' = NoAnswer
        /\ frame'.at = "free" /\ frame'.op = op
    BY <1>7 DEF FreeAll, Ready, Traverse, Idle, mapFields
  <2>2. DictOf' = [k \in Keys |-> Missing]
    BY <2>1, DictEmptyNext
  <2>3. CASE op = "clear"
    <3>1. Abstract!Clear
      BY <2>1, <2>2, <2>3 DEF Abstract!Clear, Abstract!Empty, Abstract!NoAnswer, NoAnswer
    <3>2. QED
      BY <3>1
  <2>4. CASE op = "destroy"
    <3>1. Abstract!Destroy
      BY <2>1, <2>2, <2>4 DEF Abstract!Destroy, Abstract!Empty, Abstract!NoAnswer, NoAnswer
    <3>2. QED
      BY <3>1
  <2>5. QED
    BY <2>3, <2>4
<1>8. CASE NoKeys
  <2>1. /\ exists /\ frame.at = "idle" /\ UNCHANGED <<mapFields, heap>> /\ frame' = frame
        /\ answer' = [op |-> "keys", key |-> Null, res |-> 0, keys |-> {}]
    BY <1>8 DEF NoKeys, Ready
  <2>2. DictOf' = DictOf /\ exists' = exists
    BY <2>1, Asked
  <2>3. Abstract!ListKeys
    BY <2>1, <2>2 DEF Abstract!ListKeys, Abstract!Says
  <2>4. QED
    BY <2>3
<1>9. CASE Size
  <2>1. /\ exists /\ frame.at = "idle" /\ UNCHANGED <<mapFields, heap>> /\ frame' = frame
        /\ answer' = [op |-> "size", key |-> Null, res |-> size, keys |-> {}]
    BY <1>9 DEF Size, Ready
  <2>2. DictOf' = DictOf /\ exists' = exists
    BY <2>1, Asked
  <2>3. size = Cardinality(Abstract!Held)
    BY <2>1, HeldIs, Homes DEF IInv, Counts
  <2>4. Abstract!Size
    BY <2>1, <2>2, <2>3, SameCount DEF Abstract!Size, Abstract!Says
  <2>5. QED
    BY <2>4
<1>10. CASE NullCall
  <2>1. /\ frame.at = "idle" /\ UNCHANGED <<mapFields, heap>> /\ frame' = frame
    BY <1>10 DEF NullCall
  <2>2. DictOf' = DictOf /\ exists' = exists
    BY <2>1, Asked
  <2>3. Abstract!NullCall
    BY <1>10, <2>1, <2>2 DEF NullCall, Abstract!NullCall, Abstract!Says
  <2>4. QED
    BY <2>3
<1>11. QED
  BY <1>1, <1>2, <1>4, <1>5, <1>6, <1>7, <1>8, <1>9, <1>10 DEF Call

\* A search that has come to the end of the chain, or to the key.
LEMMA SearchEnds ==
    ASSUME IInv, frame.at = "search"
    PROVE  /\ exists /\ frame.key \in Keys
           /\ frame.entry = Null => DictOf[frame.key] = Missing
           /\ Matches => /\ frame.entry \in Live /\ DictOf[frame.key] = heap[frame.entry].value
                         /\ DictOf[frame.key] # Missing
<1>1. exists /\ frame.key \in Keys /\ TypeOK
  BY DEF IInv, Control
<1>2. ASSUME frame.entry = Null PROVE DictOf[frame.key] = Missing
  <2> SUFFICES ASSUME NEW e \in Live, heap[e].key = frame.key PROVE FALSE
    BY <1>1, DictIs
  <2>1. e \in Reach(heap, buckets[Index(frame.key, capacity)])
    BY <1>1, Homes
  <2>2. e \notin Reach(heap, frame.entry)
    BY <1>2, ReachNull
  <2>3. QED
    BY <2>1, <2>2 DEF IInv, Searching
<1>3. ASSUME Matches PROVE frame.entry \in Live /\ DictOf[frame.key] = heap[frame.entry].value
                           /\ DictOf[frame.key] # Missing
  <2>1. frame.entry \in Entries /\ heap[frame.entry].key = frame.key
    BY <1>1, <1>3 DEF Matches, TypeOK, Frame, Pointer
  <2>2. frame.entry \in Live
    BY <1>1, <2>1, NullNotEntry DEF Live
  <2>3. QED
    BY <2>1, <2>2, DictIs, ValueNotMissing
<1>4. QED
  BY <1>1, <1>2, <1>3

LEMMA IdleIs == Idle.at = "idle" /\ Idle.op = "none"
BY DEF Idle

LEMMA OverwriteRefines == ASSUME IInv, IInv', Overwrite PROVE Abstract!Next
<1> DEFINE e == frame.entry
           k == frame.key
           v == frame.value
<1>1. /\ frame.at = "search" /\ frame.op = "insert" /\ Matches /\ frame' = Idle
      /\ heap' = [heap EXCEPT ![e].value = v] /\ exists' = exists
      /\ answer' = [op |-> "insert", key |-> k, res |-> 1, keys |-> {}]
  BY DEF Overwrite, Answers, mapFields
<1>2. exists /\ k \in Keys /\ e \in Live /\ heap[e].key = k /\ v \in Values \cup {Null}
      /\ heap \in [Entries -> Cell] /\ Live \subseteq Entries
  BY <1>1, SearchEnds DEF Matches, IInv, TypeOK, Frame, Live
<1>3. heap'[e].key = k /\ heap'[e].value = v /\ \A d \in Entries \ {e} : heap'[d] = heap[d]
  BY <1>1, <1>2 DEF Cell
<1>4. Live' = Live
  BY <1>2, <1>3 DEF Live
<1>5. DictOf' = [DictOf EXCEPT ![k] = v]
  <2>1. frame'.at # "free" /\ frame.at # "free"
    BY <1>1, IdleIs
  <2>2. ASSUME NEW j \in Keys PROVE DictOf'[j] = IF j = k THEN v ELSE DictOf[j]
    <3>1. CASE j = k
      BY <1>2, <1>3, <1>4, <2>1, <3>1, DictIsNext
    <3>2. CASE j # k /\ \E d \in Live : heap[d].key = j
      BY <1>2, <1>3, <1>4, <2>1, <3>2, DictIs, DictIsNext
    <3>3. CASE j # k /\ \A d \in Live : heap[d].key # j
      BY <1>2, <1>3, <1>4, <2>1, <3>3, DictIs, DictIsNext
    <3>4. QED
      BY <3>1, <3>2, <3>3
  <2>3. QED
    BY <2>2, DictIs, DictIsNext
<1>6. Abstract!Insert(k, v)
  BY <1>1, <1>2, <1>5, IdleIs DEF Abstract!Insert, Abstract!Says
<1>7. QED
  BY <1>2, <1>6 DEF Abstract!Next

LEMMA AddEntryRefines == ASSUME IInv, IInv', AddEntry PROVE Abstract!Next
<1> DEFINE k == frame.key
           v == frame.value
<1>1. PICK e \in Entries \ Live :
        heap' = [heap EXCEPT ![e] = [key |-> k, value |-> v, next |-> buckets[Index(k, capacity)]]]
  BY DEF AddEntry
<1>2. /\ frame.at = "search" /\ frame.op = "insert" /\ frame.entry = Null /\ frame' = Idle
      /\ exists' = exists /\ answer' = [op |-> "insert", key |-> k, res |-> 1, keys |-> {}]
  BY DEF AddEntry, Answers
<1>3. exists /\ k \in Keys /\ DictOf[k] = Missing /\ v \in Values \cup {Null}
      /\ heap \in [Entries -> Cell] /\ Live \subseteq Entries
  BY <1>2, SearchEnds DEF IInv, TypeOK, Frame, Live
<1>4. heap'[e].key = k /\ heap'[e].value = v /\ \A d \in Entries \ {e} : heap'[d] = heap[d]
  BY <1>1, <1>3
<1>5. Live' = Live \cup {e}
  BY <1>3, <1>4, NullNotEntry DEF Live
<1>6. DictOf' = [DictOf EXCEPT ![k] = v]
  <2>1. frame'.at # "free" /\ frame.at # "free"
    BY <1>2, IdleIs
  <2>2. \A d \in Live : heap'[d] = heap[d] /\ d \in Live'
    BY <1>4, <1>5 DEF Live
  <2>3. ASSUME NEW j \in Keys PROVE DictOf'[j] = IF j = k THEN v ELSE DictOf[j]
    <3>1. CASE j = k
      BY <1>4, <1>5, <2>1, <3>1, DictIsNext
    <3>2. CASE j # k /\ \E d \in Live : heap[d].key = j
      BY <2>1, <2>2, <3>2, DictIs, DictIsNext
    <3>3. CASE j # k /\ \A d \in Live : heap[d].key # j
      BY <1>4, <1>5, <2>1, <2>2, <3>3, DictIs, DictIsNext
    <3>4. QED
      BY <3>1, <3>2, <3>3
  <2>4. QED
    BY <2>3, DictIs, DictIsNext
<1>7. Abstract!Insert(k, v)
  BY <1>2, <1>3, <1>6, IdleIs DEF Abstract!Insert, Abstract!Says
<1>8. QED
  BY <1>3, <1>7 DEF Abstract!Next

LEMMA RemoveRefines == ASSUME IInv, IInv', RemoveReturns PROVE Abstract!Next
<1> DEFINE e == frame.entry
           c == frame.prev
           k == frame.key
<1>1. /\ frame.at = "search" /\ frame.op = "remove" /\ Matches /\ frame' = Idle
      /\ heap' = Unlinked(e, c) /\ exists' = exists
      /\ answer' = [op |-> "remove", key |-> k, res |-> 1, keys |-> {}]
  BY DEF RemoveReturns, Answers
<1>2. exists /\ k \in Keys /\ e \in Live /\ heap[e].key = k /\ DictOf[k] # Missing
      /\ heap \in [Entries -> Cell] /\ Live \subseteq Entries
  BY <1>1, SearchEnds DEF Matches, IInv, TypeOK, Live
<1>3. c \in Pointer
  BY DEF IInv, TypeOK, Frame
<1>4. heap'[e].key = Null /\ \A d \in Entries \ {e} : heap'[d].key = heap[d].key /\ heap'[d].value = heap[d].value
  <2>1. CASE c = Null
    BY <1>1, <1>2, <2>1 DEF Unlinked, FreeCell
  <2>2. CASE c # Null
    <3>1. c \in Entries
      BY <1>3, <2>2 DEF Pointer
    <3>2. QED
      BY <1>1, <1>2, <2>2, <3>1 DEF Unlinked, FreeCell, Cell
  <2>3. QED
    BY <2>1, <2>2
<1>5. Live' = Live \ {e}
  BY <1>2, <1>4 DEF Live
<1>6. \A d \in Live' : heap'[d].key = heap[d].key /\ heap'[d].value = heap[d].value /\ d \in Live
                       /\ heap[d].key # k
  BY <1>2, <1>4, <1>5 DEF IInv, UniqueKeys
<1>7. DictOf' = [DictOf EXCEPT ![k] = Missing]
  <2>1. frame'.at # "free" /\ frame.at # "free"
    BY <1>1, IdleIs
  <2>2. ASSUME NEW j \in Keys PROVE DictOf'[j] = IF j = k THEN Missing ELSE DictOf[j]
    <3>1. CASE j = k
      BY <1>6, <2>1, <3>1, DictIsNext
    <3>2. CASE j # k /\ \E d \in Live' : heap[d].key = j
      BY <1>6, <2>1, <3>2, DictIs, DictIsNext
    <3>3. CASE j # k /\ \A d \in Live' : heap[d].key # j
      BY <1>2, <1>5, <1>6, <2>1, <3>3, DictIs, DictIsNext
    <3>4. QED
      BY <3>1, <3>2, <3>3
  <2>3. QED
    BY <2>2, DictIs, DictIsNext
<1>8. Abstract!Remove(k)
  BY <1>1, <1>2, <1>7, IdleIs DEF Abstract!Remove, Abstract!Says, Abstract!Has
<1>9. QED
  BY <1>2, <1>8 DEF Abstract!Next

LEMMA AnswersRefine ==
    ASSUME IInv, IInv', frame.at = "search",
           GetReturns \/ ContainsReturns \/ NothingToRemove \/ AddFails
    PROVE  Abstract!Next
<1> DEFINE k == frame.key
<1>1. UNCHANGED <<mapFields, heap>> /\ frame' = Idle
  BY DEF GetReturns, ContainsReturns, NothingToRemove, AddFails, Answers
<1>2. DictOf' = DictOf /\ exists' = exists /\ frame'.at = "idle"
  BY <1>1, IdleIs, Asked
<1>3. exists /\ k \in Keys
  BY SearchEnds
<1>4. CASE GetReturns
  <2>1. Matches \/ frame.entry = Null
    BY <1>4 DEF GetReturns
  <2>2. answer' = [op |-> "get", key |-> k, keys |-> {},
                   res |-> IF DictOf[k] # Missing THEN DictOf[k] ELSE Null]
    <3>1. CASE Matches
      BY <1>4, <3>1, SearchEnds DEF GetReturns, Answers
    <3>2. CASE frame.entry = Null
      BY <1>4, <3>2, SearchEnds DEF GetReturns, Answers, Matches
    <3>3. QED
      BY <2>1, <3>1, <3>2
  <2>3. Abstract!Get(k)
    BY <1>2, <1>3, <2>2 DEF Abstract!Get, Abstract!Says, Abstract!Has
  <2>4. QED
    BY <1>3, <2>3 DEF Abstract!Next
<1>5. CASE ContainsReturns
  <2>1. Matches \/ frame.entry = Null
    BY <1>5 DEF ContainsReturns
  <2>2. answer' = [op |-> "contains", key |-> k, keys |-> {},
                   res |-> IF DictOf[k] # Missing THEN 1 ELSE 0]
    <3>1. CASE Matches
      BY <1>5, <3>1, SearchEnds DEF ContainsReturns, Answers
    <3>2. CASE frame.entry = Null
      BY <1>5, <3>2, SearchEnds DEF ContainsReturns, Answers, Matches
    <3>3. QED
      BY <2>1, <3>1, <3>2
  <2>3. Abstract!Contains(k)
    BY <1>2, <1>3, <2>2 DEF Abstract!Contains, Abstract!Says, Abstract!Has
  <2>4. QED
    BY <1>3, <2>3 DEF Abstract!Next
<1>6. CASE NothingToRemove
  <2>1. DictOf[k] = Missing /\ answer' = [op |-> "remove", key |-> k, res |-> 0, keys |-> {}]
    BY <1>6, SearchEnds DEF NothingToRemove, Answers
  <2>2. DictOf = [DictOf EXCEPT ![k] = Missing]
    BY <1>3, <2>1, DictIs
  <2>3. Abstract!Remove(k)
    BY <1>2, <1>3, <2>1, <2>2 DEF Abstract!Remove, Abstract!Says, Abstract!Has
  <2>4. QED
    BY <1>3, <2>3 DEF Abstract!Next
<1>7. CASE AddFails
  <2>1. answer' = [op |-> "insert", key |-> k, res |-> 0, keys |-> {}]
    BY <1>7 DEF AddFails, Answers
  <2>2. Abstract!InsertFails(k)
    BY <1>2, <1>3, <2>1 DEF Abstract!InsertFails, Abstract!Says
  <2>3. QED
    BY <1>3, <2>2 DEF Abstract!Next
<1>8. QED
  BY <1>4, <1>5, <1>6, <1>7

LEMMA GrowFailsRefines == ASSUME IInv, IInv', GrowFails PROVE Abstract!Next
<1>1. /\ frame.at = "grow" /\ UNCHANGED <<mapFields, heap>> /\ frame' = Idle
      /\ answer' = [op |-> frame.op, key |-> frame.key, res |-> 0, keys |-> {}]
  BY DEF GrowFails, Answers
<1>2. frame.op = "insert" /\ frame.key \in Keys /\ exists
  BY <1>1 DEF IInv, Control
<1>3. DictOf' = DictOf /\ exists' = exists /\ frame'.at = "idle"
  BY <1>1, IdleIs, Asked
<1>4. Abstract!InsertFails(frame.key)
  BY <1>1, <1>2, <1>3 DEF Abstract!InsertFails, Abstract!Says
<1>5. QED
  BY <1>2, <1>4 DEF Abstract!Next

LEMMA KeysReturnsRefines == ASSUME IInv, IInv', KeysReturns PROVE Abstract!Next
<1>1. /\ frame.at = "collect" /\ UNCHANGED <<mapFields, heap>> /\ frame' = Idle
      /\ frame.entry = Null /\ frame.i + 1 \notin DOMAIN buckets
      /\ answer' = [op |-> "keys", key |-> Null, res |-> size,
                    keys |-> {heap[frame.keys[n]].key : n \in DOMAIN frame.keys}]
  BY DEF KeysReturns
<1>2. DictOf' = DictOf /\ exists' = exists /\ frame'.at = "idle" /\ exists
  BY <1>1, IdleIs, Asked DEF IInv, Control
<1>3. {frame.keys[n] : n \in DOMAIN frame.keys} = Live
  BY <1>1, AllCollected DEF IInv, Collecting
<1>4. {heap[frame.keys[n]].key : n \in DOMAIN frame.keys} = Abstract!Held
  <2>1. Abstract!Held = {heap[e].key : e \in Live}
    BY <1>1, HeldIs
  <2>2. QED
    BY <1>3, <2>1
<1>5. size = Cardinality(Abstract!Held)
  BY <1>1, <1>2, HeldIs, Homes DEF IInv, Counts
<1>6. Abstract!ListKeys
  BY <1>1, <1>2, <1>4, <1>5, SameCount DEF Abstract!ListKeys, Abstract!Says
<1>7. QED
  BY <1>6 DEF Abstract!Next

\* While the map is taken apart it is empty to the caller, or gone.
LEMMA FreesUnseen ==
    ASSUME IInv, IInv', FreeEntry \/ NextFreedBucket \/ Cleared \/ Destroyed
    PROVE  UNCHANGED Abstract!vars
<1> USE DEF FreeEntry, NextFreedBucket, Cleared, Destroyed, mapFields
<1>1. frame.at = "free" /\ answer' = answer
  OBVIOUS
<1>2. DictOf = [k \in Keys |-> Missing]
  BY <1>1, DictEmpty
<1>3. CASE FreeEntry \/ NextFreedBucket
  <2>1. frame \in Frame
    BY DEF IInv, TypeOK
  <2>2. frame'.at = "free" /\ frame'.op = frame.op /\ exists' = exists
    BY <1>1, <1>3, <2>1 DEF Frame
  <2>3. DictOf' = [k \in Keys |-> Missing]
    BY <2>2, DictEmptyNext
  <2>4. QED
    BY <1>1, <1>2, <2>2, <2>3 DEF Abstract!vars
<1>4. CASE Cleared \/ Destroyed
  <2>1. Live = {}
    BY <1>4, FreedAll
  <2>2. Live' = {} /\ frame' = Idle
    BY <1>4, <2>1 DEF Live
  <2>3. DictOf' = [k \in Keys |-> Missing]
    BY <2>2, DictEmptyNext
  <2>4. exists /\ (frame.op = "clear" => exists') /\ (frame.op = "destroy" => ~exists')
        /\ frame.op \in {"clear", "destroy"}
    BY <1>1, <1>4 DEF IInv, Control
  <2>5. HasMap = (frame.op = "clear") /\ HasMap' = (frame.op = "clear")
    BY <1>1, <2>2, <2>4, IdleIs DEF HasMap
  <2>6. QED
    BY <1>1, <1>2, <2>3, <2>5 DEF Abstract!vars, HasMap
<1>5. QED
  BY <1>3, <1>4

LEMMA StepRefines == ASSUME IInv, IInv', [Next]_vars PROVE [Abstract!Next]_(Abstract!vars)
<1> USE DEF mapFields
<1>1. CASE Call
  BY <1>1, CallRefines
<1>2. CASE Grow
  <2>1. frame.at = "grow" /\ frame'.at = "resize" /\ exists' = exists /\ answer' = answer /\ heap' = heap
    <3>1. frame \in Frame
      BY DEF IInv, TypeOK
    <3>2. QED
      BY <1>2, <3>1 DEF Grow, Frame
  <2>2. QED
    BY <2>1, Unseen
<1>3. CASE Relink
  <2>1. frame.at = "resize" /\ frame'.at = "resize" /\ exists' = exists /\ answer' = answer
    <3>1. frame \in Frame
      BY DEF IInv, TypeOK
    <3>2. QED
      BY <1>3, <3>1 DEF Relink, Frame
  <2>2. \A e \in Entries : heap'[e].key = heap[e].key /\ heap'[e].value = heap[e].value
    <3>1. heap \in [Entries -> Cell]
      BY DEF IInv, TypeOK
    <3>2. PICK d, i : heap' = [heap EXCEPT ![d].next = buckets[i]]
      BY <1>3 DEF Relink, Linked
    <3>3. QED
      BY <3>1, <3>2 DEF Cell
  <2>3. QED
    BY <2>1, <2>2, Unseen
<1>4. CASE NextOldBucket \/ SearchOn \/ CollectKey \/ NextCollectedBucket
  <2>1. frame'.at = frame.at /\ frame.at # "free" /\ exists' = exists /\ answer' = answer /\ heap' = heap
    <3>1. frame \in Frame
      BY DEF IInv, TypeOK
    <3>2. QED
      BY <1>4, <3>1 DEF NextOldBucket, SearchOn, CollectKey, NextCollectedBucket, Frame
  <2>2. QED
    BY <2>1, Unseen
<1>5. CASE Resized
  <2>1. frame.at = "resize" /\ frame'.at = "search" /\ exists' = exists /\ answer' = answer /\ heap' = heap
    BY <1>5 DEF Resized, Search, Idle
  <2>2. QED
    BY <2>1, Unseen
<1>6. CASE FreeEntry \/ NextFreedBucket \/ Cleared \/ Destroyed
  BY <1>6, FreesUnseen
<1>7. CASE GetReturns \/ ContainsReturns \/ NothingToRemove \/ AddFails
  <2>1. frame.at = "search"
    BY <1>7 DEF GetReturns, ContainsReturns, NothingToRemove, AddFails
  <2>2. QED
    BY <1>7, <2>1, AnswersRefine
<1>8. CASE Overwrite
  BY <1>8, OverwriteRefines
<1>9. CASE AddEntry
  BY <1>9, AddEntryRefines
<1>10. CASE RemoveReturns
  BY <1>10, RemoveRefines
<1>11. CASE GrowFails
  BY <1>11, GrowFailsRefines
<1>12. CASE KeysReturns
  BY <1>12, KeysReturnsRefines
<1>13. CASE UNCHANGED vars
  BY <1>13 DEF vars, Abstract!vars, DictOf, Live
<1>14. QED
  BY <1>1, <1>2, <1>3, <1>4, <1>5, <1>6, <1>7, <1>8, <1>9, <1>10, <1>11, <1>12, <1>13
  DEF Next, Continue

\* The pointer structure implements the dictionary of xystd.h: each operation
\* is one step of the dictionary, with its answer, and no step of a call that
\* is between them is seen by the caller.
THEOREM Refinement == Spec => ImplementsMap
<1>1. Init => Abstract!Init
  BY AbstractInit
<1>2. IInv /\ IInv' /\ [Next]_vars => [Abstract!Next]_(Abstract!vars)
  BY StepRefines
<1>3. Spec => []IInv
  BY Invariant
<1>4. QED
  BY <1>1, <1>2, <1>3, PTL DEF Spec, ImplementsMap, Abstract!Spec
=============================================================================
