--------------------------- MODULE EngineParts_proofs ---------------------------
(*****************************************************************************)
(* Proofs about parts of the leveldb pod that share no state.  The skip list *)
(* of the memtable (SkipList), for any number of keys and any height: a      *)
(* reader that takes no lock misses nothing.  The environment (PosixEnv),    *)
(* for every set of processes and threads, every number of items and every   *)
(* limit; its own three parts do not meet either: each has an inductive      *)
(* invariant, and a step of one leaves the other two alone.  The iterators   *)
(* (Iterators), for any number of keys, entries and children, and however    *)
(* the memtable grows: a call ends at the live key it is to end at.  The     *)
(* cache of open tables (TableCache), for any number of users, tables and    *)
(* charges: no handle is freed that somebody holds, and none is left.  The   *)
(* log (LogFormat), for any sizes of block, header and records and any       *)
(* number of failed writes and crashes: its reader hands out what was added. *)
(*****************************************************************************)
EXTENDS SkipList, PosixEnv, Iterators, TableCache, LogFormat,
        NaturalsInduction, WellFoundedInduction, FiniteSetTheorems,
        SequenceTheorems, TLAPS

-----------------------------------------------------------------------------
(* The skip list: numbers *)

\* Where the nodes and the levels lie.
LEMMA Sizes ==
    /\ ListKeys \in Nat /\ kMaxHeight \in Nat
    /\ Keys \subseteq Nodes /\ HeadNode \in Nodes /\ HeadNode \notin Keys /\ HeadNode = 0
    /\ \A x \in Nodes : x \in Nat /\ x <= ListKeys /\ x < NULL /\ (x = HeadNode \/ x \in Keys)
    /\ \A x \in Keys : x \in Nat /\ 0 < x
    /\ NULL \in Nat /\ 0 < NULL /\ Junk \in Nat
    /\ NULL \notin Nodes /\ Junk \notin Nodes /\ Junk # NULL
    /\ \A i \in Rungs : i \in Nat /\ i < kMaxHeight
    /\ \A i \in Nat : i < kMaxHeight => i \in Rungs
    /\ 0 \in Rungs
BY SkipListAssumption DEF Keys, Nodes, HeadNode, NULL, Junk, Rungs

\* Induction over the naturals, for a set in place of a predicate.
LEMMA NaturalsFrom0 ==
    ASSUME NEW S, 0 \in S, \A n \in S \cap Nat : n + 1 \in S
    PROVE  Nat \subseteq S
<1> SUFFICES ASSUME NEW m \in Nat, m \notin S PROVE FALSE
  OBVIOUS
<1> DEFINE T == {n \in Nat : n \notin S}
<1>1. T \subseteq Nat /\ T # {}
  OBVIOUS
<1>2. IsWellFoundedOn({ss \in Nat \X Nat : ss[1] < ss[2]}, Nat)
  BY NatLessThanWellFounded DEF OpToRel
<1>3. PICK x \in T : \A y \in T : ~ (<<y, x>> \in {ss \in Nat \X Nat : ss[1] < ss[2]})
  <2> HIDE DEF T
  <2> QED BY <1>1, <1>2, WFMin
<1>4. \A y \in T : ~ (y < x)
  BY <1>3
<1>5. x # 0 /\ x - 1 \in Nat /\ x - 1 < x /\ x = (x - 1) + 1
  OBVIOUS
<1>6. x - 1 \in S
  BY <1>4, <1>5
<1> QED BY <1>5, <1>6

\* A set of naturals with a bound has a highest one.
LEMMA HighestIs ==
    ASSUME NEW S, S \subseteq Nat, S # {}, NEW b \in Nat, \A n \in S : n <= b
    PROVE  Highest(S) \in S /\ \A n \in S : n <= Highest(S)
<1> DEFINE Tops(k) == \E m \in S : m <= k /\ \A l \in S : l <= k => l <= m
           T == {k \in Nat : (\A n \in S : n <= k) => Tops(k)}
           U == {k \in Nat : (\E n \in S : n <= k) => Tops(k)}
<1>1. 0 \in U
  <2> SUFFICES ASSUME NEW n \in S, n <= 0 PROVE Tops(0)
    OBVIOUS
  <2>1. n = 0 /\ \A l \in S : l <= 0 => l <= n
    OBVIOUS
  <2> QED BY <2>1
<1>2. ASSUME NEW k \in U \cap Nat PROVE k + 1 \in U
  <2> SUFFICES ASSUME \E n \in S : n <= k + 1 PROVE Tops(k + 1)
    OBVIOUS
  <2>1. CASE k + 1 \in S
    BY <2>1
  <2>2. CASE k + 1 \notin S
    <3>1. \A l \in S : l <= k + 1 => l <= k
      BY <2>2
    <3>2. Tops(k)
      BY <1>2, <3>1
    <3> QED BY <3>1, <3>2
  <2> QED BY <2>1, <2>2
<1>3. b \in U
  <2> HIDE DEF U
  <2> QED BY <1>1, <1>2, NaturalsFrom0
<1>4. \E m \in S : \A l \in S : l <= m
  BY <1>3
<1> QED BY <1>4 DEF Highest

-----------------------------------------------------------------------------
(* The list: at each level the nodes that have been linked there, in order.   *)

On(i) == {x \in Nodes : link[x][i] # Junk}

\* Nothing of S lies between a and b.
Nothing(S, a, b) == \A y \in S : ~(a < y /\ y < b)

LinksTyped ==
    /\ link \in [Nodes -> [Rungs -> Nodes \cup {NULL, Junk}]]
    /\ \A i \in Rungs : HeadNode \in On(i)

\* Each node leads to the next one.
InOrder ==
    \A i \in Rungs : \A x \in On(i) :
        /\ link[x][i] \in On(i) \cup {NULL} /\ x < link[x][i]
        /\ Nothing(On(i), x, link[x][i])

\* A search that goes down finds its node there.
Towers == \A i, j \in Rungs : i < j => On(j) \subseteq On(i)

Inserting == [op : {"insert"}, key : Keys, level : Rungs, height : 1 .. kMaxHeight,
              prev : [Rungs -> Nodes]]

\* The predecessors that were looked up before the first link stay right.
InsertKnows ==
    /\ insert.key \notin done /\ insert.level < insert.height
    /\ \E h \in heights : insert.height <= h
    /\ \A i \in Rungs : insert.key \in On(i) <=> i < insert.level
    /\ \A i \in Rungs : insert.level <= i =>
          /\ insert.prev[i] \in On(i) /\ insert.prev[i] < insert.key
          /\ Nothing(On(i), insert.prev[i], insert.key)

InsertInv == (insert = Idle) \/ (insert \in Inserting /\ InsertKnows)

KeysInv ==
    /\ done \subseteq Keys /\ done \subseteq On(0)
    /\ \A x \in On(0) : x = HeadNode \/ x \in done \/ (insert # Idle /\ x = insert.key)

HeightsInv ==
    /\ heights \subseteq 1 .. kMaxHeight /\ 1 \in heights
    /\ \A i \in Rungs : \A x \in On(i) : x = HeadNode \/ \E h \in heights : i < h

ListInv == LinksTyped /\ InOrder /\ Towers /\ InsertInv /\ KeysInv /\ HeightsInv

-----------------------------------------------------------------------------
(* The nodes that are reached at a level are those linked there. *)

Onward(i, S) == S \cup {link[x][i] : x \in S \cap Nodes}

Reaches(i, f, n) ==
    f = [m \in 0 .. n |->
            IF m = 0 THEN {HeadNode} ELSE f[m - 1] \cup {link[x][i] : x \in f[m - 1] \cap Nodes}]

\* What such a function computes, step by step.
LEMMA ReachesIs ==
    ASSUME NEW i, NEW n \in Nat, NEW f, Reaches(i, f, n)
    PROVE  /\ f[0] = {HeadNode}
           /\ \A m \in 0 .. n : m + 1 \in 0 .. n => f[m + 1] = Onward(i, f[m])
<1> DEFINE V(m) == IF m = 0 THEN {HeadNode}
                   ELSE f[m - 1] \cup {link[x][i] : x \in f[m - 1] \cap Nodes}
<1>1. \A m \in 0 .. n : f[m] = V(m)
  <2>1. f = [m \in 0 .. n |-> V(m)]
    BY DEF Reaches
  <2> HIDE DEF V
  <2> QED BY <2>1
<1>2. 0 \in 0 .. n
  OBVIOUS
<1>3. ASSUME NEW m \in 0 .. n, m + 1 \in 0 .. n PROVE f[m + 1] = Onward(i, f[m])
  <2>1. m + 1 # 0 /\ (m + 1) - 1 = m
    OBVIOUS
  <2>2. f[m + 1] = V(m + 1)
    BY <1>1, <1>3
  <2>3. V(m + 1) = f[m] \cup {link[x][i] : x \in f[m] \cap Nodes}
    BY <2>1
  <2> HIDE DEF V
  <2> QED BY <2>2, <2>3 DEF Onward
<1> QED BY <1>1, <1>2, <1>3

\* There is one.
LEMMA ReachesExists ==
    ASSUME NEW i, NEW n \in Nat
    PROVE  \E f : Reaches(i, f, n)
<1> DEFINE T == {k \in Nat : \E f : Reaches(i, f, k)}
<1>1. 0 \in T
  <2> DEFINE f == [m \in 0 .. 0 |-> {HeadNode}]
  <2>1. \A m \in 0 .. 0 : m = 0
    OBVIOUS
  <2>2. Reaches(i, f, 0)
    BY <2>1 DEF Reaches
  <2> QED BY <2>2
<1>2. ASSUME NEW k \in T \cap Nat PROVE k + 1 \in T
  <2>1. PICK g : Reaches(i, g, k)
    BY <1>2
  <2>k. k \in Nat
    OBVIOUS
  <2> HIDE DEF T
  <2>g. /\ g[0] = {HeadNode}
        /\ \A q \in 0 .. k : q + 1 \in 0 .. k => g[q + 1] = Onward(i, g[q])
    BY <2>1, <2>k, ReachesIs
  <2> DEFINE f == [m \in 0 .. k + 1 |-> IF m = k + 1 THEN Onward(i, g[k]) ELSE g[m]]
             V(h, m) == IF m = 0 THEN {HeadNode}
                        ELSE h[m - 1] \cup {link[x][i] : x \in h[m - 1] \cap Nodes}
  <2>2. ASSUME NEW m \in 0 .. k + 1 PROVE f[m] = V(f, m)
    <3>1. CASE m = 0
      <4>1. 0 # k + 1 /\ 0 \in 0 .. k + 1
        OBVIOUS
      <4>2. f[0] = g[0]
        BY <4>1
      <4> QED BY <2>g, <3>1, <4>2
    <3>2. CASE m # 0
      <4>1. /\ m - 1 \in 0 .. k /\ m - 1 \in 0 .. k + 1 /\ m - 1 # k + 1 /\ (m - 1) + 1 = m
            /\ m # k + 1 => m \in 0 .. k
        BY <3>2
      <4>2. f[m - 1] = g[m - 1]
        BY <4>1
      <4>3. f[m] = Onward(i, g[m - 1])
        <5>1. CASE m = k + 1
          BY <4>1, <5>1
        <5>2. CASE m # k + 1
          <6>2. g[m] = Onward(i, g[m - 1])
            BY <2>g, <4>1, <5>2
          <6> QED BY <5>2, <6>2
        <5> QED BY <5>1, <5>2
      <4> HIDE DEF f
      <4> QED BY <3>2, <4>2, <4>3 DEF Onward
    <3> QED BY <3>1, <3>2
  <2>3. f = [m \in 0 .. k + 1 |-> V(f, m)]
    <3>1. DOMAIN f = 0 .. k + 1 /\ f = [m \in 0 .. k + 1 |-> f[m]]
      OBVIOUS
    <3> HIDE DEF f, V
    <3> QED BY <2>2, <3>1
  <2>4. Reaches(i, f, k + 1)
    <3> HIDE DEF f
    <3> QED BY <2>3 DEF Reaches
  <2> QED BY <2>k, <2>4 DEF T
<1> HIDE DEF T
<1>3. Nat \subseteq T
  BY <1>1, <1>2, NaturalsFrom0
<1> QED BY <1>3 DEF T

\* ChainAt follows one.
LEMMA ChainAtIs ==
    ASSUME NEW i
    PROVE  \E f : Reaches(i, f, ListKeys) /\ ChainAt(i) = f[ListKeys] \ {NULL}
<1>1. \E f : Reaches(i, f, ListKeys)
  BY Sizes, ReachesExists
<1> DEFINE g == CHOOSE f : Reaches(i, f, ListKeys)
<1>2. Reaches(i, g, ListKeys)
  BY <1>1
<1>3. ChainAt(i) = g[ListKeys] \ {NULL}
  BY DEF ChainAt, Reaches
<1> HIDE DEF g
<1> QED BY <1>2, <1>3

\* In a list in order the node before x leads to x.
LEMMA LedTo ==
    ASSUME LinksTyped, InOrder, NEW i \in Rungs, NEW y \in On(i), y # HeadNode
    PROVE  \E p \in On(i) : p < y /\ link[p][i] = y
<1> DEFINE S == {x \in On(i) : x < y}
           p == Highest(S)
<1>1. S \subseteq Nat /\ HeadNode \in S /\ y \in Nat /\ \A n \in S : n <= y
  <2>1. y \in Nat /\ HeadNode < y /\ HeadNode \in On(i) /\ On(i) \subseteq Nodes
    BY Sizes DEF On, LinksTyped
  <2>2. \A n \in Nodes : n \in Nat
    BY Sizes
  <2> QED BY <2>1, <2>2
<1>2. p \in S /\ \A n \in S : n <= p
  <2> HIDE DEF S
  <2> QED BY <1>1, HighestIs
<1> HIDE DEF p
<1> DEFINE q == link[p][i]
<1>3. /\ p \in On(i) /\ p < y /\ q \in On(i) \cup {NULL} /\ p < q
      /\ ~(p < y /\ y < q)
  BY <1>2 DEF InOrder, Nothing
<1>4. p \in Nat /\ q \in Nat /\ (q = NULL => y < q)
  BY <1>3, Sizes DEF On
<1> HIDE DEF q
<1>5. CASE q < y
  <2>1. q \in S
    BY <1>1, <1>3, <1>4, <1>5
  <2> QED BY <1>2, <1>3, <1>4, <2>1
<1>6. CASE ~(q < y)
  <2>1. q = y
    BY <1>1, <1>3, <1>4, <1>6
  <2> QED BY <1>3, <2>1 DEF q
<1> QED BY <1>5, <1>6

LEMMA ChainIs ==
    ASSUME LinksTyped, InOrder, NEW i \in Rungs
    PROVE  ChainAt(i) = On(i)
<1>1. PICK f : Reaches(i, f, ListKeys) /\ ChainAt(i) = f[ListKeys] \ {NULL}
  BY ChainAtIs
<1>2. /\ f[0] = {HeadNode}
      /\ \A m \in 0 .. ListKeys : m + 1 \in 0 .. ListKeys => f[m + 1] = Onward(i, f[m])
  <2>1. ListKeys \in Nat
    BY Sizes
  <2> QED BY <1>1, <2>1, ReachesIs
<1> DEFINE Good(n) == /\ f[n] \subseteq On(i) \cup {NULL}
                      /\ \A x \in On(i) : x <= n => x \in f[n]
           T == {n \in Nat : n <= ListKeys => Good(n)}
<1>3. 0 \in T
  <2>1. ASSUME NEW x \in On(i), x <= 0 PROVE x = HeadNode
    <3>1. x \in Nodes
      BY DEF On
    <3>2. x \in Nat /\ (x = HeadNode \/ x \in Keys)
      BY <3>1, Sizes
    <3>3. x \in Keys => 0 < x
      BY Sizes
    <3> QED BY <2>1, <3>2, <3>3
  <2>2. HeadNode \in On(i)
    BY DEF LinksTyped
  <2> QED BY <1>2, <2>1, <2>2
<1>4. ASSUME NEW n \in T \cap Nat PROVE n + 1 \in T
  <2> SUFFICES ASSUME n + 1 <= ListKeys PROVE Good(n + 1)
    OBVIOUS
  <2>1. n \in 0 .. ListKeys /\ n + 1 \in 0 .. ListKeys /\ n <= ListKeys
    BY Sizes
  <2>2. Good(n) /\ f[n + 1] = Onward(i, f[n])
    BY <1>2, <1>4, <2>1
  <2>3. ASSUME NEW z \in f[n + 1] PROVE z \in On(i) \cup {NULL}
    <3>1. CASE z \in f[n]
      BY <2>2, <3>1
    <3>2. CASE \E x \in f[n] \cap Nodes : z = link[x][i]
      <4>1. PICK x \in f[n] \cap Nodes : z = link[x][i]
        BY <3>2
      <4>2. x \in On(i)
        BY <2>2, Sizes
      <4> QED BY <4>1, <4>2 DEF InOrder
    <3> QED BY <2>2, <3>1, <3>2 DEF Onward
  <2>4. ASSUME NEW y \in On(i), y <= n + 1 PROVE y \in f[n + 1]
    <3>1. CASE y <= n
      BY <2>2, <2>4, <3>1 DEF Onward
    <3>2. CASE ~(y <= n)
      <4>1. y # HeadNode /\ y \in Nat
        BY <3>2, Sizes DEF On
      <4>2. PICK p \in On(i) : p < y /\ link[p][i] = y
        BY <4>1, LedTo
      <4>3. p \in Nodes /\ p <= n
        BY <2>4, <4>1, <4>2, Sizes DEF On
      <4>4. p \in f[n]
        BY <2>2, <4>2, <4>3
      <4> QED BY <2>2, <4>2, <4>3, <4>4 DEF Onward
    <3> QED BY <3>1, <3>2
  <2> QED BY <2>3, <2>4
<1> HIDE DEF T
<1>5. ListKeys \in T
  BY <1>3, <1>4, Sizes, NaturalsFrom0
<1>6. Good(ListKeys)
  BY <1>5, Sizes DEF T
<1>7. \A x \in On(i) : x <= ListKeys /\ x # NULL
  BY Sizes DEF On
<1> QED BY <1>1, <1>6, <1>7

-----------------------------------------------------------------------------
(* The steps of the list *)

\* The highest height seen so far bounds them all.
LEMMA HighestHeight ==
    ASSUME HeightsInv
    PROVE  /\ Highest(heights) \in heights /\ \A h \in heights : h <= Highest(heights)
           /\ Highest(heights) \in 1 .. kMaxHeight
<1>1. heights \subseteq Nat /\ heights # {} /\ \A n \in heights : n <= kMaxHeight
  BY Sizes DEF HeightsInv
<1>2. kMaxHeight \in Nat
  BY Sizes
<1>3. Highest(heights) \in heights /\ \A h \in heights : h <= Highest(heights)
  BY <1>1, <1>2, HighestIs
<1> QED BY <1>3 DEF HeightsInv

\* FindGreaterOrEqual finds the last node before the key.
LEMMA BeforeIs ==
    ASSUME LinksTyped, InOrder, NEW key \in Keys, NEW i \in Rungs
    PROVE  /\ Before(key, i) \in On(i) /\ Before(key, i) < key
           /\ Nothing(On(i), Before(key, i), key)
<1> DEFINE S == {x \in On(i) : x < key}
<1>1. Before(key, i) = Highest(S)
  BY ChainIs DEF Before
<1>2. S \subseteq Nat /\ S # {} /\ key \in Nat /\ \A n \in S : n <= key
  <2>1. key \in Nat /\ HeadNode < key /\ HeadNode \in On(i) /\ On(i) \subseteq Nodes
    BY Sizes DEF On, LinksTyped
  <2>2. \A n \in Nodes : n \in Nat
    BY Sizes
  <2> QED BY <2>1, <2>2
<1>3. Highest(S) \in S /\ \A n \in S : n <= Highest(S)
  <2> HIDE DEF S
  <2> QED BY <1>2, HighestIs
<1>4. \A y \in On(i) : ~(Highest(S) < y /\ y < key)
  <2> SUFFICES ASSUME NEW y \in On(i), Highest(S) < y, y < key PROVE FALSE
    OBVIOUS
  <2>1. y \in S
    OBVIOUS
  <2>2. y <= Highest(S) /\ y \in Nat /\ Highest(S) \in Nat
    BY <1>2, <1>3, <2>1
  <2> DEFINE top == Highest(S)
  <2>3. y <= top /\ y \in Nat /\ top \in Nat /\ top < y
    BY <2>2
  <2> HIDE DEF top
  <2> QED BY <2>3
<1> HIDE DEF S
<1>5. Highest(S) \in On(i) /\ Highest(S) < key
  BY <1>3 DEF S
<1> QED BY <1>1, <1>4, <1>5 DEF Nothing

\* What is linked at each level depends on the links alone.
LEMMA SameLinks ==
    ASSUME UNCHANGED link
    PROVE  \A i : On(i)' = On(i)
BY DEF On

\* RandomHeight and the search for the predecessors.
LEMMA BeginInsertKeeps ==
    ASSUME ListInv, NEW key \in Keys, NEW height \in 1 .. kMaxHeight, BeginInsert(key, height)
    PROVE  ListInv'
<1> DEFINE prev == [i \in Rungs |-> IF i < Highest(heights) THEN Before(key, i) ELSE HeadNode]
           new == [op |-> "insert", key |-> key, level |-> 0, height |-> height, prev |-> prev]
<1>1. /\ insert = Idle /\ key \notin done /\ insert' = new
      /\ link' = link /\ done' = done
      /\ heights' = IF height > Highest(heights) THEN heights \cup {height} ELSE heights
  BY DEF BeginInsert
<1>2. \A i : On(i)' = On(i)
  BY <1>1, SameLinks
<1>3. LinksTyped' /\ InOrder' /\ Towers'
  BY <1>1, <1>2 DEF ListInv, LinksTyped, InOrder, Towers, Nothing
<1>4. ASSUME NEW i \in Rungs
      PROVE  /\ prev[i] \in On(i) /\ prev[i] < key /\ Nothing(On(i), prev[i], key)
  <2>1. CASE i < Highest(heights)
    <3>1. prev[i] = Before(key, i)
      BY <2>1
    <3> HIDE DEF prev
    <3> QED BY <3>1, BeforeIs DEF ListInv
  <2>2. CASE ~(i < Highest(heights))
    <3>1. prev[i] = HeadNode
      BY <2>2
    <3> HIDE DEF prev
    <3>2. \A h \in heights : ~(i < h)
      <4>1. \A h \in heights : h \in Nat /\ h <= Highest(heights)
        BY HighestHeight DEF ListInv, HeightsInv
      <4>2. Highest(heights) \in Nat /\ i \in Nat
        BY HighestHeight, Sizes DEF ListInv
      <4> DEFINE top == Highest(heights)
      <4>3. top \in Nat /\ ~(i < top) /\ \A h \in heights : h \in Nat /\ h <= top
        BY <2>2, <4>1, <4>2
      <4> HIDE DEF top
      <4> QED BY <4>2, <4>3
    <3>3. \A x \in On(i) : x = HeadNode
      BY <3>2 DEF ListInv, HeightsInv
    <3>4. HeadNode \in On(i) /\ HeadNode < key
      BY Sizes DEF ListInv, LinksTyped
    <3>5. \A y \in On(i) : ~(HeadNode < y /\ y < key)
      BY <3>3, Sizes
    <3> QED BY <3>1, <3>4, <3>5 DEF Nothing
  <2> QED BY <2>1, <2>2
<1>5. new \in Inserting
  <2>1. prev \in [Rungs -> Nodes]
    <3>1. \A i \in Rungs : prev[i] \in Nodes
      BY <1>4 DEF On
    <3> QED BY <3>1
  <2> HIDE DEF prev
  <2> QED BY <2>1, Sizes DEF Inserting
<1>6. \A i \in Rungs : key \notin On(i)
  <2>1. key \notin On(0)
    BY <1>1, Sizes DEF ListInv, KeysInv
  <2>2. \A i \in Rungs : i = 0 \/ On(i) \subseteq On(0)
    BY Sizes DEF ListInv, Towers
  <2> QED BY <2>1, <2>2
<1>7. heights \subseteq heights' /\ heights' \subseteq 1 .. kMaxHeight
      /\ \E h \in heights' : height <= h
  <2>1. Highest(heights) \in heights /\ Highest(heights) \in 1 .. kMaxHeight
    BY HighestHeight DEF ListInv
  <2>2. CASE height > Highest(heights)
    BY <1>1, <2>2 DEF ListInv, HeightsInv
  <2>3. CASE ~(height > Highest(heights))
    <3>1. height <= Highest(heights)
      BY <2>1, <2>3
    <3> QED BY <1>1, <2>1, <2>3, <3>1 DEF ListInv, HeightsInv
  <2> QED BY <2>2, <2>3
<1>8. HeightsInv'
  BY <1>2, <1>7 DEF ListInv, HeightsInv
<1>9. KeysInv'
  BY <1>1, <1>2 DEF ListInv, KeysInv
<1>10. InsertInv'
  <2>1. /\ insert'.key = key /\ insert'.level = 0 /\ insert'.height = height
        /\ insert'.prev = prev
    BY <1>1
  <2> HIDE DEF prev, new
  <2>2. 0 < height
    OBVIOUS
  <2>3. \A i \in Rungs : ~(i < 0)
    BY Sizes
  <2>4. InsertKnows'
    BY <1>1, <1>2, <1>4, <1>6, <1>7, <2>1, <2>2, <2>3 DEF InsertKnows, Nothing
  <2> QED BY <1>1, <1>5, <2>4 DEF InsertInv
<1> QED BY <1>3, <1>8, <1>9, <1>10 DEF ListInv

\* The facts an insertion works with.
LEMMA InsertIs ==
    ASSUME ListInv, insert # Idle
    PROVE  /\ insert \in Inserting /\ InsertKnows
           /\ insert.key \in Keys /\ insert.level \in Rungs /\ insert.height \in 1 .. kMaxHeight
           /\ insert.prev[insert.level] \in On(insert.level)
           /\ insert.prev[insert.level] < insert.key
           /\ Nothing(On(insert.level), insert.prev[insert.level], insert.key)
           /\ insert.key \notin On(insert.level)
<1>1. insert \in Inserting /\ InsertKnows
  BY DEF ListInv, InsertInv
<1>2. insert.key \in Keys /\ insert.level \in Rungs /\ insert.height \in 1 .. kMaxHeight
  BY <1>1 DEF Inserting
<1>3. insert.level <= insert.level /\ ~(insert.level < insert.level)
  BY <1>2, Sizes
<1> QED BY <1>1, <1>2, <1>3 DEF InsertKnows

\* What one turn of the loop does to the links.
LEMMA LinkIs ==
    ASSUME ListInv, Link,
           NEW i, i = insert.level, NEW x, x = insert.key, NEW p, p = insert.prev[i]
    PROVE  /\ link' \in [Nodes -> [Rungs -> Nodes \cup {NULL, Junk}]]
           /\ link'[x][i] = link[p][i] /\ link'[p][i] = x
           /\ \A y \in Nodes, j \in Rungs :
                 ~(j = i /\ (y = x \/ y = p)) => link'[y][j] = link[y][j]
           /\ On(i)' = On(i) \cup {x}
           /\ \A j \in Rungs : j # i => On(j)' = On(j)
<1>1. insert # Idle
  BY DEF Link
<1>2. /\ x \in Keys /\ i \in Rungs /\ p \in On(i) /\ p < x /\ x \notin On(i)
  BY <1>1, InsertIs
<1>3. x \in Nodes /\ p \in Nodes /\ x # p /\ x # Junk
  BY <1>2, Sizes DEF On
<1>4. link' = [link EXCEPT ![x] = [@ EXCEPT ![i] = link[p][i]], ![p] = [@ EXCEPT ![i] = x]]
  BY DEF Link
<1>5. link \in [Nodes -> [Rungs -> Nodes \cup {NULL, Junk}]]
  BY DEF ListInv, LinksTyped
<1> DEFINE a == [link[x] EXCEPT ![i] = link[p][i]]
           b == [link[p] EXCEPT ![i] = x]
<1>6. link' = [link EXCEPT ![x] = a, ![p] = b]
  BY <1>3, <1>4
<1>7. /\ a \in [Rungs -> Nodes \cup {NULL, Junk}] /\ b \in [Rungs -> Nodes \cup {NULL, Junk}]
      /\ a[i] = link[p][i] /\ b[i] = x
      /\ \A j \in Rungs : j # i => a[j] = link[x][j] /\ b[j] = link[p][j]
  BY <1>2, <1>3, <1>5
<1> HIDE DEF a, b
<1>8. /\ link' \in [Nodes -> [Rungs -> Nodes \cup {NULL, Junk}]]
      /\ link'[x] = a /\ link'[p] = b
      /\ \A y \in Nodes : y # x /\ y # p => link'[y] = link[y]
  BY <1>3, <1>5, <1>6, <1>7
<1>9. \A y \in Nodes, j \in Rungs :
          ~(j = i /\ (y = x \/ y = p)) => link'[y][j] = link[y][j]
  BY <1>7, <1>8
<1>10. link'[x][i] = link[p][i] /\ link'[p][i] = x
  BY <1>7, <1>8
<1>11. link[p][i] # Junk
  BY <1>2 DEF On
<1>12. {y \in Nodes : link'[y][i] # Junk} = {y \in Nodes : link[y][i] # Junk} \cup {x}
  <2>1. ASSUME NEW y \in Nodes
        PROVE  link'[y][i] # Junk <=> (link[y][i] # Junk \/ y = x)
    <3>1. CASE y = x
      BY <1>10, <1>11, <3>1
    <3>2. CASE y = p
      BY <1>3, <1>10, <1>11, <3>2
    <3>3. CASE y # x /\ y # p
      BY <1>2, <1>9, <3>3
    <3> QED BY <3>1, <3>2, <3>3
  <2> QED BY <1>3, <2>1
<1>13. ASSUME NEW j \in Rungs, j # i
       PROVE  {y \in Nodes : link'[y][j] # Junk} = {y \in Nodes : link[y][j] # Junk}
  BY <1>9, <1>13
<1>14. On(i)' = On(i) \cup {x}
  BY <1>12 DEF On
<1>15. \A j \in Rungs : j # i => On(j)' = On(j)
  BY <1>13 DEF On
<1> QED BY <1>8, <1>9, <1>10, <1>14, <1>15

\* One turn of the insertion's loop: the new node goes between the one before
\* it and the one behind it, at this level only.
LEMMA LinkKeeps ==
    ASSUME ListInv, Link
    PROVE  ListInv' /\ \A i \in Rungs : On(i) \subseteq On(i)'
<1>1. insert # Idle
  BY DEF Link
<1>2. PICK i, x, p : i = insert.level /\ x = insert.key /\ p = insert.prev[i]
  OBVIOUS
<1>3. /\ insert \in Inserting /\ InsertKnows
      /\ x \in Keys /\ i \in Rungs /\ insert.height \in 1 .. kMaxHeight
      /\ p \in On(i) /\ p < x /\ Nothing(On(i), p, x) /\ x \notin On(i)
  BY <1>1, <1>2, InsertIs
<1>4. /\ link' \in [Nodes -> [Rungs -> Nodes \cup {NULL, Junk}]]
      /\ link'[x][i] = link[p][i] /\ link'[p][i] = x
      /\ \A y \in Nodes, j \in Rungs :
            ~(j = i /\ (y = x \/ y = p)) => link'[y][j] = link[y][j]
      /\ On(i)' = On(i) \cup {x}
      /\ \A j \in Rungs : j # i => On(j)' = On(j)
  BY <1>2, LinkIs
<1>5. /\ x \in Nat /\ x < NULL /\ x # NULL /\ x # HeadNode /\ p \in Nat /\ i \in Nat
      /\ On(i) \subseteq Nodes /\ \A y \in Nodes : y \in Nat
      /\ NULL \in Nat
  BY <1>3, Sizes DEF On
<1>m. \A j \in Rungs : On(j) \subseteq On(j)' /\ On(j)' \subseteq On(j) \cup {x}
  BY <1>4
<1>6. LinksTyped'
  BY <1>4, <1>m DEF ListInv, LinksTyped
<1>7. /\ link[p][i] \in On(i) \cup {NULL} /\ p < link[p][i] /\ Nothing(On(i), p, link[p][i])
  BY <1>3 DEF ListInv, InOrder
<1>8. x < link[p][i]
  <2> DEFINE n == link[p][i]
  <2>1. n \in Nat /\ (n \in On(i) \/ n = NULL) /\ p < n
    BY <1>5, <1>7
  <2> HIDE DEF n
  <2>2. n \in On(i) => ~(p < n /\ n < x)
    BY <1>3 DEF Nothing
  <2>3. n \in On(i) => n # x
    BY <1>3
  <2>4. x < n
    BY <1>5, <2>1, <2>2, <2>3
  <2> QED BY <2>4 DEF n
<1>9. InOrder'
  <2> SUFFICES ASSUME NEW j \in Rungs, NEW y \in On(j)'
               PROVE  /\ link'[y][j] \in On(j)' \cup {NULL} /\ y < link'[y][j]
                      /\ Nothing(On(j)', y, link'[y][j])
    BY DEF InOrder, Nothing
  <2>0. y \in Nodes
    BY DEF On
  <2>1. CASE j # i
    <3>1. On(j)' = On(j) /\ link'[y][j] = link[y][j] /\ y \in On(j)
      BY <1>4, <2>0, <2>1
    <3> QED BY <3>1 DEF ListInv, InOrder
  <2>2. CASE j = i /\ y = x
    <3>1. link'[y][j] = link[p][i] /\ On(j)' = On(i) \cup {x}
      BY <1>4, <2>2
    <3>2. Nothing(On(i) \cup {x}, x, link[p][i])
      <4> SUFFICES ASSUME NEW z \in On(i), x < z, z < link[p][i] PROVE FALSE
        BY <1>5 DEF Nothing
      <4>1. p < z
        BY <1>3, <1>5
      <4> QED BY <1>7, <4>1 DEF Nothing
    <3> QED BY <1>7, <1>8, <2>2, <3>1, <3>2
  <2>3. CASE j = i /\ y = p
    <3>1. link'[y][j] = x /\ On(j)' = On(i) \cup {x}
      BY <1>4, <2>3
    <3>2. Nothing(On(i) \cup {x}, p, x)
      BY <1>3, <1>5 DEF Nothing
    <3> QED BY <1>3, <2>3, <3>1, <3>2
  <2>4. CASE j = i /\ y # x /\ y # p
    <3>1. link'[y][j] = link[y][i] /\ On(j)' = On(i) \cup {x} /\ y \in On(i)
      BY <1>4, <2>0, <2>4
    <3>2. /\ link[y][i] \in On(i) \cup {NULL} /\ y < link[y][i]
          /\ Nothing(On(i), y, link[y][i])
      BY <1>3, <3>1 DEF ListInv, InOrder
    <3> DEFINE m == link[y][i]
    <3>3. ~(y < x /\ x < m)
      <4> SUFFICES ASSUME y < x, x < m PROVE FALSE
        OBVIOUS
      <4>1. m \in Nat /\ y \in Nat
        BY <1>5, <3>1, <3>2
      <4> HIDE DEF m
      <4>2. p < y \/ y < p
        BY <1>5, <2>4, <4>1
      <4>3. CASE p < y
        BY <1>3, <3>1, <4>3 DEF Nothing
      <4>4. CASE y < p
        <5>1. p < m
          BY <1>3, <1>5, <4>1
        <5> QED BY <1>3, <3>2, <4>4, <5>1 DEF Nothing, m
      <4> QED BY <4>2, <4>3, <4>4
    <3>4. Nothing(On(i) \cup {x}, y, m)
      BY <3>2, <3>3 DEF Nothing
    <3> QED BY <3>1, <3>2, <3>4
  <2> QED BY <2>1, <2>2, <2>3, <2>4
<1>10. \A j \in Rungs : j < i => x \in On(j)
  BY <1>2, <1>3 DEF InsertKnows
<1>11. \A j \in Rungs : i <= j => x \notin On(j)
  <2> SUFFICES ASSUME NEW j \in Rungs, i <= j PROVE x \notin On(j)
    OBVIOUS
  <2>1. ~(j < i)
    BY <1>5, Sizes
  <2> QED BY <1>2, <1>3, <2>1 DEF InsertKnows
<1>12. Towers'
  <2> SUFFICES ASSUME NEW j \in Rungs, NEW k \in Rungs, j < k, NEW y \in On(k)'
               PROVE  y \in On(j)'
    BY DEF Towers
  <2>1. CASE y \in On(k)
    BY <1>m, <2>1 DEF ListInv, Towers
  <2>2. CASE y \notin On(k)
    <3>1. k = i /\ y = x
      BY <1>4, <2>2
    <3> QED BY <1>10, <1>m, <3>1
  <2> QED BY <2>1, <2>2
<1>13. /\ heights' = heights /\ iter' = iter
       /\ IF insert.level + 1 < insert.height
          THEN insert' = [insert EXCEPT !.level = @ + 1] /\ done' = done
          ELSE insert' = Idle /\ done' = done \cup {insert.key}
  BY DEF Link
<1>14. HeightsInv'
  <2> SUFFICES ASSUME NEW j \in Rungs, NEW y \in On(j)'
               PROVE  y = HeadNode \/ \E h \in heights : j < h
    BY <1>13 DEF ListInv, HeightsInv
  <2>1. CASE y \in On(j)
    BY <2>1 DEF ListInv, HeightsInv
  <2>2. CASE y \notin On(j)
    <3>1. j = i
      BY <1>4, <2>2
    <3>2. PICK h \in heights : insert.height <= h
      BY <1>3 DEF InsertKnows
    <3>3. h \in Nat /\ insert.height \in Nat /\ i < insert.height
      BY <1>2, <1>3, <3>2 DEF InsertKnows, ListInv, HeightsInv
    <3>4. i < h
      BY <1>5, <3>2, <3>3
    <3> QED BY <3>1, <3>2, <3>4
  <2> QED BY <2>1, <2>2
<1>15. CASE insert.level + 1 < insert.height
  <2>1. insert' = [insert EXCEPT !.level = @ + 1] /\ done' = done
    BY <1>13, <1>15
  <2>2. /\ insert' \in Inserting
        /\ insert'.key = x /\ insert'.level = i + 1 /\ insert'.height = insert.height
        /\ insert'.prev = insert.prev
    <3>1. i + 1 \in Rungs
      <4>1. insert.height \in Nat /\ insert.height <= kMaxHeight /\ kMaxHeight \in Nat
        BY <1>3, Sizes
      <4>2. i + 1 \in Nat /\ i + 1 < kMaxHeight
        BY <1>2, <1>5, <1>15, <4>1
      <4> QED BY <4>2, Sizes
    <3>2. insert' = [op |-> insert.op, key |-> insert.key, level |-> insert.level + 1,
                     height |-> insert.height, prev |-> insert.prev]
      BY <1>3, <2>1 DEF Inserting
    <3>3. /\ insert.op \in {"insert"} /\ insert.key \in Keys
          /\ insert.height \in 1 .. kMaxHeight /\ insert.prev \in [Rungs -> Nodes]
      BY <1>3 DEF Inserting
    <3> QED BY <1>2, <3>1, <3>2, <3>3 DEF Inserting
  <2>3. ASSUME NEW j \in Rungs PROVE x \in On(j)' <=> j < i + 1
    <3>1. CASE j < i
      <4>1. j < i + 1
        BY <1>5, <3>1, Sizes
      <4> QED BY <1>10, <1>m, <3>1, <4>1
    <3>2. CASE j = i
      <4>1. i < i + 1
        BY <1>5
      <4> QED BY <1>4, <3>2, <4>1
    <3>3. CASE i < j
      <4>1. i <= j /\ j # i /\ ~(j < i + 1)
        BY <1>5, <3>3, Sizes
      <4> QED BY <1>4, <1>11, <4>1
    <3> QED BY <1>5, <3>1, <3>2, <3>3, Sizes
  <2>4. ASSUME NEW j \in Rungs, i + 1 <= j
        PROVE  /\ insert.prev[j] \in On(j)' /\ insert.prev[j] < x
               /\ Nothing(On(j)', insert.prev[j], x)
    <3>1. j # i /\ i <= j
      BY <1>5, <2>4, Sizes
    <3>2. On(j)' = On(j)
      BY <1>4, <3>1
    <3> QED BY <1>2, <1>3, <3>1, <3>2 DEF InsertKnows
  <2>5. InsertKnows'
    <3>1. insert'.key \notin done' /\ insert'.level < insert'.height
      BY <1>2, <1>3, <1>15, <2>1, <2>2 DEF InsertKnows
    <3>2. \E h \in heights' : insert'.height <= h
      BY <1>3, <1>13, <2>2 DEF InsertKnows
    <3> QED BY <2>2, <2>3, <2>4, <3>1, <3>2 DEF InsertKnows, Nothing
  <2>6. InsertInv'
    BY <2>2, <2>5 DEF InsertInv
  <2>7. KeysInv'
    <3>1. insert' # Idle
      <4>1. insert'.op = "insert"
        BY <2>2 DEF Inserting
      <4> QED BY <4>1 DEF Idle
    <3>2. On(0) \subseteq On(0)' /\ On(0)' \subseteq On(0) \cup {x}
      BY <1>m, Sizes
    <3> QED BY <1>2, <2>1, <2>2, <3>1, <3>2 DEF ListInv, KeysInv
  <2> QED BY <1>6, <1>9, <1>12, <1>14, <1>m, <2>6, <2>7 DEF ListInv
<1>16. CASE ~(insert.level + 1 < insert.height)
  <2>1. insert' = Idle /\ done' = done \cup {x}
    BY <1>2, <1>13, <1>16
  <2>2. InsertInv'
    BY <2>1 DEF InsertInv
  <2>3. x \in On(0)'
    <3>1. CASE i = 0
      BY <1>4, <3>1
    <3>2. CASE i # 0
      <4>1. 0 < i /\ 0 \in Rungs
        BY <1>5, <3>2, Sizes
      <4> QED BY <1>10, <1>m, <4>1
    <3> QED BY <3>1, <3>2
  <2>4. On(0) \subseteq On(0)' /\ On(0)' \subseteq On(0) \cup {x}
    BY <1>m, Sizes
  <2>5. KeysInv'
    BY <1>2, <1>3, <2>1, <2>3, <2>4 DEF ListInv, KeysInv
  <2> QED BY <1>6, <1>9, <1>12, <1>14, <1>m, <2>2, <2>5 DEF ListInv
<1> QED BY <1>15, <1>16

\* What readers do leaves the list alone.
LEMMA ReadersKeep ==
    ASSUME ListInv, UNCHANGED <<link, heights, insert, done>>
    PROVE  ListInv'
<1>1. \A i : On(i)' = On(i)
  BY SameLinks
<1>2. LinksTyped' /\ InOrder' /\ Towers' /\ HeightsInv' /\ KeysInv'
  BY <1>1 DEF ListInv, LinksTyped, InOrder, Towers, HeightsInv, KeysInv, Nothing
<1>3. InsertInv'
  BY <1>1 DEF ListInv, InsertInv, InsertKnows, Nothing
<1> QED BY <1>2, <1>3 DEF ListInv

-----------------------------------------------------------------------------
(* The reader.  Inductive with the list: a search stands on a linked node      *)
(* before its key, and what it must not miss is linked at the lowest level.    *)

Searching == [op : {"seek", "last", "prev"}, busy : {TRUE}, key : 1 .. NULL, x : Nodes,
              level : Rungs, known : SUBSET Keys]
Standing == [op : {"none", "seek", "last", "prev", "first", "next"}, busy : {FALSE},
             at : Keys \cup {NULL}, known : SUBSET Keys, lo : Nodes, hi : Nodes \cup {NULL}]

SearchSafe == iter.x \in On(iter.level) /\ iter.x < iter.key /\ iter.known \subseteq On(0)
StandsSafe ==
    /\ iter.at = NULL \/ iter.at \in On(0)
    /\ \A key \in iter.known : ~(iter.lo < key /\ key < iter.hi)

ReaderInv == (iter \in Searching /\ SearchSafe) \/ (iter \in Standing /\ StandsSafe)

\* Which of the two it is.
LEMMA ReaderCases ==
    ASSUME ReaderInv
    PROVE  /\ iter.busy => iter \in Searching /\ SearchSafe
           /\ ~iter.busy => iter \in Standing /\ StandsSafe
<1>1. iter \in Searching => iter.busy = TRUE
  BY DEF Searching
<1>2. iter \in Standing => iter.busy = FALSE
  BY DEF Standing
<1>3. CASE iter \in Searching /\ SearchSafe
  BY <1>1, <1>3
<1>4. CASE iter \in Standing /\ StandsSafe
  BY <1>2, <1>4
<1> QED BY <1>3, <1>4 DEF ReaderInv

\* While a node is linked, the reader stays where it is.
LEMMA ReaderStays ==
    ASSUME ReaderInv, iter' = iter, \A i \in Rungs : On(i) \subseteq On(i)'
    PROVE  ReaderInv'
<1>1. PICK here : here = iter
  OBVIOUS
<1>2. 0 \in Rungs
  BY Sizes
<1>3. CASE iter \in Searching /\ SearchSafe
  <2>1. here.level \in Rungs
    BY <1>1, <1>3 DEF Searching
  <2>2. here.x \in On(here.level)' /\ here.known \subseteq On(0)'
    BY <1>1, <1>2, <1>3, <2>1 DEF SearchSafe
  <2>3. On(here.level)' = On(iter.level)'
    BY <1>1 DEF On
  <2> QED BY <1>1, <1>3, <2>2, <2>3 DEF ReaderInv, SearchSafe
<1>4. CASE iter \in Standing /\ StandsSafe
  BY <1>2, <1>4 DEF ReaderInv, StandsSafe
<1> QED BY <1>3, <1>4 DEF ReaderInv

\* Where a node leads to at a level.
LEMMA NextIs ==
    ASSUME ListInv, NEW i \in Rungs, NEW x \in On(i)
    PROVE  /\ link[x][i] \in On(i) \/ link[x][i] = NULL
           /\ link[x][i] \in Nodes \cup {NULL} /\ link[x][i] \in Nat
           /\ x \in Nodes /\ x \in Nat /\ x < link[x][i]
           /\ link[x][i] \in Keys \cup {NULL}
           /\ \A y \in On(i) : ~(x < y /\ y < link[x][i])
<1>1. /\ link[x][i] \in On(i) \cup {NULL} /\ x < link[x][i]
      /\ Nothing(On(i), x, link[x][i])
  BY DEF ListInv, InOrder
<1>2. x \in Nodes /\ link[x][i] \in Nodes \cup {NULL}
  BY <1>1 DEF On
<1>3. x \in Nat /\ link[x][i] \in Nat
  BY <1>2, Sizes
<1>4. link[x][i] # 0
  BY <1>1, <1>3
<1>5. link[x][i] \in Keys \cup {NULL}
  BY <1>2, <1>4, Sizes
<1> QED BY <1>1, <1>2, <1>3, <1>5 DEF Nothing

\* A search begins at the head, on a level that some height allowed.
LEMMA SearchBegins ==
    ASSUME ListInv, NEW op \in {"seek", "last", "prev"}, NEW key \in Keys \cup {NULL},
           BeginSearch(op, key)
    PROVE  ReaderInv'
<1>1. PICK h \in heights :
        iter' = [op |-> op, busy |-> TRUE, key |-> key, x |-> HeadNode, level |-> h - 1,
                 known |-> done]
  BY DEF BeginSearch
<1>2. h - 1 \in Rungs
  <2>1. h \in 1 .. kMaxHeight
    BY DEF ListInv, HeightsInv
  <2>2. kMaxHeight \in Nat
    BY Sizes
  <2>3. h - 1 \in Nat /\ h - 1 < kMaxHeight
    BY <2>1, <2>2
  <2> QED BY <2>3, Sizes
<1>3. HeadNode \in On(h - 1) /\ done \subseteq Keys /\ done \subseteq On(0)
  BY <1>2 DEF ListInv, LinksTyped, KeysInv
<1>4. HeadNode < key /\ key \in 1 .. NULL /\ HeadNode \in Nodes
  BY Sizes
<1>5. iter' \in Searching
  BY <1>1, <1>2, <1>3, <1>4 DEF Searching
<1>6. link' = link
  BY DEF BeginSearch
<1>7. /\ iter'.x = HeadNode /\ iter'.key = key /\ iter'.known = done
      /\ iter'.level = h - 1
  BY <1>1
<1>8. On(iter.level)' = On(h - 1) /\ On(0)' = On(0)
  BY <1>6, <1>7 DEF On
<1>9. SearchSafe'
  BY <1>3, <1>4, <1>7, <1>8 DEF SearchSafe
<1> QED BY <1>5, <1>9 DEF ReaderInv

\* A search that settles.
LEMMA Settles ==
    ASSUME ListInv, iter \in Searching, SearchSafe, link' = link,
           NEW op \in {"seek", "last", "prev"}, NEW node \in Keys \cup {NULL},
           NEW lo \in Nodes, NEW hi \in Nodes \cup {NULL},
           Settled(op, node, lo, hi),
           node = NULL \/ node \in On(0),
           \A key \in iter.known : ~(lo < key /\ key < hi)
    PROVE  ReaderInv'
<1>1. iter' = [op |-> op, busy |-> FALSE, at |-> node, known |-> iter.known, lo |-> lo, hi |-> hi]
  BY DEF Settled
<1>2. iter.known \in SUBSET Keys
  BY DEF Searching
<1>3. iter' \in Standing
  BY <1>1, <1>2 DEF Standing
<1>4. iter'.at = node /\ iter'.known = iter.known /\ iter'.lo = lo /\ iter'.hi = hi
  BY <1>1
<1>5. On(0)' = On(0)
  BY DEF On
<1>6. StandsSafe'
  BY <1>4, <1>5 DEF StandsSafe
<1> QED BY <1>3, <1>6 DEF ReaderInv

\* One turn of a search: it passes nothing at its level, and at the lowest level
\* it ends between two neighbours.
LEMMA SearchKeeps ==
    ASSUME ListInv, ReaderInv, Search
    PROVE  ReaderInv'
<1>1. iter \in Searching /\ SearchSafe
  BY ReaderCases DEF Search
<1>2. PICK i, x, key, known : /\ i = iter.level /\ x = iter.x /\ key = iter.key
                              /\ known = iter.known
  OBVIOUS
<1>3. /\ i \in Rungs /\ x \in On(i) /\ x < key /\ known \subseteq On(0) /\ known \subseteq Keys
      /\ key \in 1 .. NULL /\ iter.op \in {"seek", "last", "prev"}
  BY <1>1, <1>2 DEF Searching, SearchSafe
<1>4. link' = link
  BY DEF Search
<1> DEFINE next == link[x][i]
<1>5. /\ next \in On(i) \/ next = NULL
      /\ next \in Nodes \cup {NULL} /\ next \in Nat /\ next \in Keys \cup {NULL}
      /\ x \in Nodes /\ x \in Nat /\ x < next
      /\ \A y \in On(i) : ~(x < y /\ y < next)
  BY <1>3, NextIs
<1>6. key \in Nat /\ NULL \in Nat /\ key <= NULL
  BY <1>3, Sizes
<1>7. iter = [op |-> iter.op, busy |-> TRUE, key |-> key, x |-> x, level |-> i, known |-> known]
  BY <1>1, <1>2 DEF Searching
<1>8. IF next < key
      THEN iter' = [iter EXCEPT !.x = next]
      ELSE IF i > 0
      THEN iter' = [iter EXCEPT !.level = @ - 1]
      ELSE IF iter.op = "seek" THEN Settled("seek", next, key - 1, next)
      ELSE Settled(iter.op, IF x = HeadNode THEN NULL ELSE x, x, key)
  BY <1>2 DEF Search
<1> HIDE DEF next
<1>9. CASE next < key
  <2>1. next \in On(i) /\ next \in Nodes
    BY <1>5, <1>6, <1>9 DEF On
  <2>2. iter' = [op |-> iter.op, busy |-> TRUE, key |-> key, x |-> next, level |-> i,
                 known |-> known]
    <3>1. iter' = [iter EXCEPT !.x = next]
      BY <1>8, <1>9
    <3> QED BY <1>1, <1>2, <3>1 DEF Searching
  <2>3. iter' \in Searching
    BY <1>3, <2>1, <2>2 DEF Searching
  <2>4. iter'.x = next /\ iter'.key = key /\ iter'.known = known /\ iter'.level = i
    BY <2>2
  <2>5. On(iter.level)' = On(i) /\ On(0)' = On(0)
    BY <1>4, <2>4 DEF On
  <2>6. SearchSafe'
    BY <1>3, <1>9, <2>1, <2>4, <2>5 DEF SearchSafe
  <2> QED BY <2>3, <2>6 DEF ReaderInv
<1>10. CASE ~(next < key) /\ i > 0
  <2>1. i - 1 \in Rungs /\ i - 1 < i
    <3>1. i \in Nat /\ i < kMaxHeight /\ kMaxHeight \in Nat
      BY <1>3, Sizes
    <3>2. i - 1 \in Nat /\ i - 1 < kMaxHeight /\ i - 1 < i
      BY <1>10, <3>1
    <3> QED BY <3>2, Sizes
  <2>2. iter' = [op |-> iter.op, busy |-> TRUE, key |-> key, x |-> x, level |-> i - 1,
                 known |-> known]
    <3>1. iter' = [iter EXCEPT !.level = @ - 1]
      BY <1>8, <1>10
    <3> QED BY <1>1, <1>2, <3>1 DEF Searching
  <2>3. iter' \in Searching
    BY <1>3, <1>5, <2>1, <2>2 DEF Searching
  <2>4. iter'.x = x /\ iter'.key = key /\ iter'.known = known /\ iter'.level = i - 1
    BY <2>2
  <2>5. On(iter.level)' = On(i - 1) /\ On(0)' = On(0)
    BY <1>4, <2>4 DEF On
  <2>6. x \in On(i - 1)
    BY <1>3, <2>1 DEF ListInv, Towers
  <2>7. SearchSafe'
    BY <1>3, <2>4, <2>5, <2>6 DEF SearchSafe
  <2> QED BY <2>3, <2>7 DEF ReaderInv
<1>11. CASE ~(next < key) /\ ~(i > 0)
  <2>1. i = 0
    BY <1>3, <1>11, Sizes
  <2>2. \A k \in known : k \in Nat /\ k \in On(i)
    BY <1>3, <2>1, Sizes
  <2>3. CASE iter.op = "seek"
    <3>1. Settled("seek", next, key - 1, next)
      BY <1>8, <1>11, <2>3
    <3>2. \A k \in known : ~(key - 1 < k /\ k < next)
      <4> SUFFICES ASSUME NEW k \in known, key - 1 < k, k < next PROVE FALSE
        OBVIOUS
      <4>1. k \in Nat /\ k \in On(i)
        BY <2>2
      <4>2. x < k
        BY <1>3, <1>5, <1>6, <4>1
      <4> QED BY <1>5, <4>1, <4>2
    <3>3. key - 1 \in Nodes
      BY <1>3, SkipListAssumption DEF Nodes, Keys, HeadNode, NULL
    <3>4. next = NULL \/ next \in On(0)
      BY <1>5, <2>1
    <3> QED BY <1>1, <1>2, <1>4, <1>5, <3>1, <3>2, <3>3, <3>4, Settles
  <2>4. CASE iter.op # "seek"
    <3> DEFINE node == IF x = HeadNode THEN NULL ELSE x
    <3>1. Settled(iter.op, node, x, key)
      BY <1>8, <1>11, <2>4
    <3>2. \A k \in known : ~(x < k /\ k < key)
      <4> SUFFICES ASSUME NEW k \in known, x < k, k < key PROVE FALSE
        OBVIOUS
      <4>1. k \in Nat /\ k \in On(i)
        BY <2>2
      <4>2. k < next
        BY <1>5, <1>6, <1>11, <4>1
      <4> QED BY <1>5, <4>1, <4>2
    <3>3. node = NULL \/ node \in On(0)
      BY <1>3, <2>1
    <3>4. node \in Keys \cup {NULL}
      BY <1>5, Sizes
    <3>5. key \in Nodes \cup {NULL}
      BY <1>3, SkipListAssumption DEF Nodes, Keys, HeadNode, NULL
    <3> HIDE DEF node
    <3> QED BY <1>1, <1>2, <1>3, <1>4, <1>5, <3>1, <3>2, <3>3, <3>4, <3>5, Settles
  <2> QED BY <2>3, <2>4
<1> QED BY <1>9, <1>10, <1>11

\* SeekToFirst and Next go to a neighbour.
LEMMA StepKeeps ==
    ASSUME ListInv, NEW op \in {"first", "next"}, NEW x \in On(0), Step(op, x)
    PROVE  ReaderInv'
<1> DEFINE next == link[x][0]
<1>1. iter' = [op |-> op, busy |-> FALSE, at |-> next, known |-> done, lo |-> x, hi |-> next]
  BY DEF Step
<1>2. /\ next \in On(0) \/ next = NULL
      /\ next \in Nodes \cup {NULL} /\ next \in Keys \cup {NULL}
      /\ x \in Nodes
      /\ \A y \in On(0) : ~(x < y /\ y < next)
  <2>1. 0 \in Rungs
    BY Sizes
  <2> QED BY <2>1, NextIs
<1>3. done \subseteq Keys /\ done \subseteq On(0)
  BY DEF ListInv, KeysInv
<1> HIDE DEF next
<1>4. iter' \in Standing
  BY <1>1, <1>2, <1>3 DEF Standing
<1>5. On(0)' = On(0)
  BY DEF Step, On
<1>6. iter'.at = next /\ iter'.known = done /\ iter'.lo = x /\ iter'.hi = next
  BY <1>1
<1>7. StandsSafe'
  BY <1>2, <1>3, <1>5, <1>6 DEF StandsSafe
<1> QED BY <1>4, <1>7 DEF ReaderInv

-----------------------------------------------------------------------------

SkipListInv == ListInv /\ ReaderInv

LEMMA InitSkipList == SkipListInit => SkipListInv
<1> SUFFICES ASSUME SkipListInit PROVE SkipListInv
  OBVIOUS
<1>1. /\ link = [x \in Nodes |-> [i \in Rungs |-> IF x = HeadNode THEN NULL ELSE Junk]]
      /\ heights = {1} /\ insert = Idle /\ done = {}
      /\ iter = [op |-> "none", busy |-> FALSE, at |-> NULL, known |-> {}, lo |-> 0, hi |-> 0]
  BY DEF SkipListInit
<1>2. \A x \in Nodes, i \in Rungs : link[x][i] = IF x = HeadNode THEN NULL ELSE Junk
  BY <1>1
<1>3. \A i \in Rungs : On(i) = {HeadNode}
  <2> SUFFICES ASSUME NEW i \in Rungs PROVE On(i) = {HeadNode}
    OBVIOUS
  <2>1. \A x \in Nodes : link[x][i] # Junk <=> x = HeadNode
    BY <1>2, Sizes
  <2> QED BY <2>1, Sizes DEF On
<1>4. LinksTyped
  <2>1. \A x \in Nodes :
            [i \in Rungs |-> IF x = HeadNode THEN NULL ELSE Junk]
                \in [Rungs -> Nodes \cup {NULL, Junk}]
    OBVIOUS
  <2>2. link \in [Nodes -> [Rungs -> Nodes \cup {NULL, Junk}]]
    BY <1>1, <2>1
  <2> QED BY <1>3, <2>2 DEF LinksTyped
<1>5. InOrder
  <2> SUFFICES ASSUME NEW i \in Rungs, NEW x \in On(i)
               PROVE  /\ link[x][i] \in On(i) \cup {NULL} /\ x < link[x][i]
                      /\ Nothing(On(i), x, link[x][i])
    BY DEF InOrder
  <2>1. x = HeadNode /\ On(i) = {HeadNode} /\ link[x][i] = NULL /\ HeadNode < NULL
    BY <1>2, <1>3, Sizes
  <2>2. \A y \in On(i) : ~(x < y /\ y < link[x][i])
    BY <2>1, Sizes
  <2> QED BY <2>1, <2>2 DEF Nothing
<1>6. Towers /\ InsertInv
  BY <1>1, <1>3 DEF Towers, InsertInv
<1>7. KeysInv
  BY <1>1, <1>3, Sizes DEF KeysInv
<1>8. HeightsInv
  <2>1. 1 \in 1 .. kMaxHeight
    BY SkipListAssumption
  <2> QED BY <1>1, <1>3, <2>1 DEF HeightsInv
<1>9. ReaderInv
  <2>1. iter \in Standing
    BY <1>1, Sizes DEF Standing
  <2>2. StandsSafe
    BY <1>1 DEF StandsSafe
  <2> QED BY <2>1, <2>2 DEF ReaderInv
<1> QED BY <1>4, <1>5, <1>6, <1>7, <1>8, <1>9 DEF SkipListInv, ListInv

LEMMA NextSkipList == SkipListInv /\ [SkipListNext]_listVars => SkipListInv'
<1> SUFFICES ASSUME SkipListInv, [SkipListNext]_listVars PROVE SkipListInv'
  OBVIOUS
<1>0. ListInv /\ ReaderInv
  BY DEF SkipListInv
<1>1. CASE \E key \in Keys, height \in 1 .. kMaxHeight : BeginInsert(key, height)
  <2>1. PICK key \in Keys, height \in 1 .. kMaxHeight : BeginInsert(key, height)
    BY <1>1
  <2>2. link' = link /\ iter' = iter
    BY <2>1 DEF BeginInsert
  <2>3. \A i \in Rungs : On(i) \subseteq On(i)'
    BY <2>2, SameLinks
  <2> QED BY <1>0, <2>1, <2>2, <2>3, BeginInsertKeeps, ReaderStays DEF SkipListInv
<1>2. CASE Link
  <2>1. iter' = iter
    BY <1>2 DEF Link
  <2> QED BY <1>0, <1>2, <2>1, LinkKeeps, ReaderStays DEF SkipListInv
<1>3. CASE \E target \in Keys : Seek(target)
  <2>1. PICK target \in Keys : BeginSearch("seek", target)
    BY <1>3 DEF Seek
  <2>2. UNCHANGED <<link, heights, insert, done>>
    BY <2>1 DEF BeginSearch
  <2> QED BY <1>0, <2>1, <2>2, ReadersKeep, SearchBegins DEF SkipListInv
<1>4. CASE SeekToLast
  <2>1. BeginSearch("last", NULL)
    BY <1>4 DEF SeekToLast
  <2>2. UNCHANGED <<link, heights, insert, done>>
    BY <2>1 DEF BeginSearch
  <2> QED BY <1>0, <2>1, <2>2, ReadersKeep, SearchBegins DEF SkipListInv
<1>5. CASE Prev
  <2>1. iter.at \in Keys /\ BeginSearch("prev", iter.at)
    BY <1>5 DEF Prev
  <2>2. UNCHANGED <<link, heights, insert, done>>
    BY <2>1 DEF BeginSearch
  <2>3. PICK key \in Keys : key = iter.at
    BY <2>1
  <2>4. BeginSearch("prev", key)
    BY <2>1, <2>3
  <2> QED BY <1>0, <2>2, <2>4, ReadersKeep, SearchBegins DEF SkipListInv
<1>6. CASE Search
  <2>1. UNCHANGED <<link, heights, insert, done>>
    BY <1>6 DEF Search
  <2> QED BY <1>0, <1>6, <2>1, ReadersKeep, SearchKeeps DEF SkipListInv
<1>7. CASE SeekToFirst
  <2>1. Step("first", HeadNode)
    BY <1>7 DEF SeekToFirst
  <2>2. UNCHANGED <<link, heights, insert, done>>
    BY <2>1 DEF Step
  <2>3. HeadNode \in On(0)
    BY <1>0, Sizes DEF ListInv, LinksTyped
  <2> QED BY <1>0, <2>1, <2>2, <2>3, ReadersKeep, StepKeeps DEF SkipListInv
<1>8. CASE NextNode
  <2>1. ~iter.busy /\ iter.at \in Keys /\ Step("next", iter.at)
    BY <1>8 DEF NextNode
  <2>2. UNCHANGED <<link, heights, insert, done>>
    BY <2>1 DEF Step
  <2>3. StandsSafe
    BY <1>0, <2>1, ReaderCases
  <2>4. iter.at \in On(0)
    BY <2>1, <2>3, Sizes DEF StandsSafe
  <2>5. PICK x \in On(0) : x = iter.at
    BY <2>4
  <2>6. Step("next", x)
    BY <2>1, <2>5
  <2> QED BY <1>0, <2>2, <2>6, ReadersKeep, StepKeeps DEF SkipListInv
<1>9. CASE UNCHANGED listVars
  <2>1. UNCHANGED <<link, heights, insert, done>> /\ iter' = iter
    BY <1>9 DEF listVars
  <2>2. \A i \in Rungs : On(i) \subseteq On(i)'
    BY <2>1, SameLinks
  <2> QED BY <1>0, <2>1, <2>2, ReadersKeep, ReaderStays DEF SkipListInv
<1> QED BY <1>1, <1>2, <1>3, <1>4, <1>5, <1>6, <1>7, <1>8, <1>9 DEF SkipListNext

\* A reader without a lock ends at a node of the list and passes over no key
\* whose Insert had returned before its call, whatever is being linked
\* (SkipList::Insert, FindGreaterOrEqual, FindLessThan, FindLast).
THEOREM NoneMissedCorrect == SkipListSpec => []NoneMissed
<1>1. SkipListInv => NoneMissed
  <2> SUFFICES ASSUME SkipListInv PROVE NoneMissed
    OBVIOUS
  <2>1. ListInv /\ ReaderInv
    BY DEF SkipListInv
  <2>2. CASE iter.busy
    <3>1. iter \in Searching /\ SearchSafe
      BY <2>1, <2>2, ReaderCases
    <3>2. iter.level \in Rungs
      BY <3>1 DEF Searching
    <3>3. ChainAt(iter.level) = On(iter.level)
      BY <2>1, <3>2, ChainIs DEF ListInv
    <3> QED BY <2>2, <3>1, <3>3 DEF NoneMissed, SearchSafe
  <2>3. CASE ~iter.busy
    <3>1. StandsSafe
      BY <2>1, <2>3, ReaderCases
    <3>2. ChainAt(0) = On(0)
      BY <2>1, ChainIs, Sizes DEF ListInv
    <3> QED BY <2>3, <3>1, <3>2 DEF NoneMissed, StandsSafe
  <2> QED BY <2>2, <2>3
<1> QED BY <1>1, InitSkipList, NextSkipList, PTL DEF SkipListSpec
-----------------------------------------------------------------------------
(* The lock *)

LockPc == {"idle", "opened", "refused", "inserted", "held", "denied", "closed", "unlocked",
           "removed"}

\* Between Insert and Remove.
Inside(t) == lockPc[t] \in {"inserted", "held", "denied", "closed", "unlocked"}

LockTypeOK ==
    /\ owner \in Process \cup {NoProcess} /\ names \subseteq Process
    /\ lockPc \in [LockThread -> LockPc] /\ dropped \subseteq LockThread

\* A process is in locks_ while one of its threads is between Insert and Remove,
\* and no two of its threads are there at a time.
OneInside ==
    /\ \A t \in LockThread : Inside(t) => t[1] \in names
    /\ \A t, u \in LockThread : Inside(t) /\ Inside(u) /\ t[1] = u[1] => t = u

\* A lock the kernel has not taken away is the process's own.
OwnerKnown == \A t \in LockThread : Held(t) /\ t \notin dropped => owner = t[1]

LockInv == LockTypeOK /\ OneInside /\ OwnerKnown

\* What a step of one thread does to lockPc.
LEMMA MoveLockMoves ==
    ASSUME LockTypeOK, NEW t \in LockThread, NEW from, NEW to \in LockPc, MoveLock(t, from, to)
    PROVE  /\ lockPc' \in [LockThread -> LockPc]
           /\ lockPc[t] = from /\ lockPc'[t] = to
           /\ \A u \in LockThread : u # t => lockPc'[u] = lockPc[u]
BY DEF MoveLock, LockTypeOK

\* Closing a descriptor keeps OwnerKnown: the locks that go with it are marked.
LEMMA CloseFdKeeps ==
    ASSUME LockInv, NEW t \in LockThread, NEW from, NEW to \in LockPc, MoveLock(t, from, to),
           to # "held", CloseFd(t[1])
    PROVE  /\ owner' \in Process \cup {NoProcess} /\ dropped' \subseteq LockThread
           /\ OwnerKnown'
<1>1. /\ \A u \in LockThread : u # t => lockPc'[u] = lockPc[u]
      /\ lockPc'[t] = to
  BY MoveLockMoves DEF LockInv
<1>2. t[1] \in Process /\ NoProcess \notin Process
  BY EnvAssumption DEF LockThread
<1>3. CASE owner = t[1]
  <2>1. owner' = NoProcess /\ dropped' = dropped \cup {u \in LockThread : u[1] = t[1] /\ Held(u)}
    BY <1>3 DEF CloseFd
  <2>2. ASSUME NEW u \in LockThread, Held(u)', u \notin dropped' PROVE FALSE
    <3>1. Held(u)
      BY <1>1, <2>2 DEF Held
    <3>2. u \notin dropped /\ u[1] # t[1]
      BY <2>1, <2>2, <3>1
    <3> QED BY <1>3, <3>1, <3>2 DEF LockInv, OwnerKnown
  <2> QED BY <2>1, <2>2 DEF OwnerKnown, LockInv, LockTypeOK
<1>4. CASE owner # t[1]
  <2>1. UNCHANGED <<owner, dropped>>
    BY <1>4 DEF CloseFd
  <2> QED BY <1>1, <2>1 DEF OwnerKnown, LockInv, LockTypeOK, Held
<1> QED BY <1>3, <1>4

\* A step that takes no thread in and removes no name keeps OneInside.
LEMMA StayInside ==
    ASSUME LockInv, NEW t \in LockThread, NEW from, NEW to \in LockPc, MoveLock(t, from, to),
           Inside(t)' => Inside(t), names' = names
    PROVE  OneInside'
<1>1. \A u \in LockThread : Inside(u)' => Inside(u)
  BY MoveLockMoves DEF LockInv, Inside
<1> QED BY <1>1 DEF OneInside, LockInv

\* The steps of a thread that close no descriptor and change no name.
LEMMA QuietLockStep ==
    ASSUME LockInv, NEW t \in LockThread, OpenLock(t) \/ SetLock(t) \/ SetLockFails(t)
    PROVE  LockInv'
<1> USE DEF LockPc
<1>1. CASE OpenLock(t)
  <2>1. MoveLock(t, "idle", "opened") /\ UNCHANGED <<owner, names, dropped>>
    BY <1>1 DEF OpenLock
  <2>2. \A u \in LockThread : Held(u)' => Held(u)
    BY <2>1, MoveLockMoves DEF LockInv, Held
  <2>3. Inside(t)' => Inside(t)
    BY <2>1, MoveLockMoves DEF LockInv, Inside
  <2> QED BY <2>1, <2>2, <2>3, MoveLockMoves, StayInside DEF LockInv, LockTypeOK, OwnerKnown
<1>2. CASE SetLock(t)
  <2>1. /\ MoveLock(t, "inserted", "held") /\ UNCHANGED <<names, dropped>>
        /\ owner \in {NoProcess, t[1]} /\ owner' = t[1]
    BY <1>2 DEF SetLock
  <2>2. t[1] \in Process /\ NoProcess \notin Process
    BY EnvAssumption DEF LockThread
  <2>3. OneInside'
    BY <2>1, MoveLockMoves, StayInside DEF LockInv, Inside
  <2>4. OwnerKnown'
    <3> SUFFICES ASSUME NEW u \in LockThread, Held(u)', u \notin dropped PROVE u[1] = t[1]
      BY <2>1 DEF OwnerKnown
    <3>1. CASE u = t
      BY <3>1
    <3>2. CASE u # t
      <4>1. Held(u)
        BY <2>1, <3>2, MoveLockMoves DEF LockInv, Held
      <4>2. owner = u[1] /\ u[1] \in Process
        BY <4>1 DEF LockInv, OwnerKnown, LockThread
      <4> QED BY <2>1, <2>2, <4>2
    <3> QED BY <3>1, <3>2
  <2> QED BY <2>1, <2>2, <2>3, <2>4, MoveLockMoves DEF LockInv, LockTypeOK
<1>3. CASE SetLockFails(t)
  <2>1. MoveLock(t, "inserted", "denied") /\ UNCHANGED <<owner, names, dropped>>
    BY <1>3 DEF SetLockFails
  <2>2. \A u \in LockThread : Held(u)' => Held(u)
    BY <2>1, MoveLockMoves DEF LockInv, Held
  <2>3. Inside(t)' => Inside(t)
    BY <2>1, MoveLockMoves DEF LockInv, Inside
  <2> QED BY <2>1, <2>2, <2>3, MoveLockMoves, StayInside DEF LockInv, LockTypeOK, OwnerKnown
<1> QED BY <1>1, <1>2, <1>3

\* Insert lets a thread in only when its process is not in locks_.
LEMMA InsertNameStep ==
    ASSUME LockInv, NEW t \in LockThread, InsertName(t)
    PROVE  LockInv'
<1> DEFINE to == IF t[1] \in names THEN "refused" ELSE "inserted"
<1>1. MoveLock(t, "opened", to) /\ to \in LockPc /\ to # "held"
  BY DEF InsertName, LockPc
<1>2. names' = names \cup {t[1]} /\ UNCHANGED <<owner, dropped>> /\ t[1] \in Process
  BY DEF InsertName, LockThread
<1>3. /\ lockPc' \in [LockThread -> LockPc] /\ lockPc'[t] = to
      /\ \A u \in LockThread : u # t => lockPc'[u] = lockPc[u]
  BY <1>1, MoveLockMoves DEF LockInv
<1>4. LockTypeOK'
  BY <1>2, <1>3 DEF LockInv, LockTypeOK
<1>5. OwnerKnown'
  BY <1>1, <1>2, <1>3 DEF LockInv, OwnerKnown, Held
<1>6. OneInside'
  <2>1. CASE t[1] \in names
    <3>1. ~ Inside(t)'
      BY <1>3, <2>1 DEF Inside
    <3>2. \A u \in LockThread : Inside(u)' => Inside(u)
      BY <1>3, <3>1 DEF Inside
    <3> QED BY <1>2, <3>2 DEF LockInv, OneInside
  <2>2. CASE t[1] \notin names
    <3>1. \A u \in LockThread : u # t /\ Inside(u)' => Inside(u) /\ u[1] # t[1]
      BY <1>3, <2>2 DEF Inside, LockInv, OneInside
    <3> QED BY <1>2, <3>1 DEF LockInv, OneInside
  <2> QED BY <2>1, <2>2
<1> QED BY <1>4, <1>5, <1>6 DEF LockInv

\* The steps that close a descriptor: after a refusal, a denial, an unlock.
LEMMA CloseStep ==
    ASSUME LockInv, NEW t \in LockThread, Refused(t) \/ Denied(t) \/ CloseUnlocked(t)
    PROVE  LockInv'
<1>1. PICK from, to \in LockPc :
         /\ MoveLock(t, from, to) /\ to # "held"
         /\ to = "closed" => from = "denied"
         /\ to \in {"idle", "closed"}
  BY DEF Refused, Denied, CloseUnlocked, LockPc
<1>2. CloseFd(t[1]) /\ UNCHANGED names
  BY DEF Refused, Denied, CloseUnlocked
<1>3. Inside(t)' => Inside(t)
  BY <1>1, MoveLockMoves DEF LockInv, Inside
<1> QED BY <1>1, <1>2, <1>3, MoveLockMoves, CloseFdKeeps, StayInside DEF LockInv, LockTypeOK

\* UnlockFile gives back at most the lock of its own thread.
LEMMA UnlockFileStep ==
    ASSUME LockInv, NEW t \in LockThread, UnlockFile(t)
    PROVE  LockInv'
<1>1. /\ MoveLock(t, "held", "unlocked") /\ dropped' = dropped \ {t} /\ UNCHANGED names
      /\ owner' = owner \/ (owner = t[1] /\ owner' = NoProcess)
  BY DEF UnlockFile
<1>2. /\ lockPc' \in [LockThread -> LockPc] /\ lockPc[t] = "held" /\ lockPc'[t] = "unlocked"
      /\ \A u \in LockThread : u # t => lockPc'[u] = lockPc[u]
  BY <1>1, MoveLockMoves DEF LockInv, LockPc
<1>3. OneInside'
  BY <1>1, <1>2, StayInside DEF Inside, LockPc
<1>4. OwnerKnown'
  <2> SUFFICES ASSUME NEW u \in LockThread, Held(u)', u \notin dropped' PROVE owner' = u[1]
    BY DEF OwnerKnown
  <2>1. u # t /\ Held(u) /\ u \notin dropped
    BY <1>1, <1>2 DEF Held
  <2>2. owner = u[1]
    BY <2>1 DEF LockInv, OwnerKnown
  <2>3. u[1] # t[1]
    BY <1>2, <2>1 DEF LockInv, OneInside, Inside, Held
  <2> QED BY <1>1, <2>2, <2>3
<1> QED BY <1>1, <1>2, <1>3, <1>4 DEF LockInv, LockTypeOK

\* Remove takes the name away with the only thread that was inside.
LEMMA RemoveNameStep ==
    ASSUME LockInv, NEW t \in LockThread, RemoveName(t)
    PROVE  LockInv'
<1>1. PICK from, to \in LockPc :
         /\ MoveLock(t, from, to) /\ from \in {"unlocked", "closed"} /\ to \in {"removed", "idle"}
  BY DEF RemoveName, LockPc
<1>2. names' = names \ {t[1]} /\ UNCHANGED <<owner, dropped>>
  BY DEF RemoveName
<1>3. /\ lockPc' \in [LockThread -> LockPc] /\ lockPc[t] = from /\ lockPc'[t] = to
      /\ \A u \in LockThread : u # t => lockPc'[u] = lockPc[u]
  BY <1>1, MoveLockMoves DEF LockInv
<1>4. \A u \in LockThread : Inside(u)' => Inside(u) /\ u[1] # t[1]
  BY <1>1, <1>3 DEF LockInv, OneInside, Inside
<1>5. OneInside'
  BY <1>2, <1>4 DEF LockInv, OneInside
<1>6. OwnerKnown'
  BY <1>1, <1>2, <1>3 DEF LockInv, OwnerKnown, Held
<1> QED BY <1>2, <1>3, <1>5, <1>6 DEF LockInv, LockTypeOK

\* A process ends: its threads, its name and its lock go together.
LEMMA ProcessGoneStep ==
    ASSUME LockInv, NEW p \in Process, ProcessGone(p)
    PROVE  LockInv'
<1>1. \A t \in LockThread : lockPc'[t] = IF t[1] = p THEN "idle" ELSE lockPc[t]
  BY DEF ProcessGone
<1>2. /\ names' = names \ {p} /\ owner' = IF owner = p THEN NoProcess ELSE owner
      /\ dropped' = {t \in dropped : t[1] # p}
  BY DEF ProcessGone
<1>3. LockTypeOK'
  BY <1>2 DEF LockInv, LockTypeOK, LockPc, ProcessGone
<1>4. \A t \in LockThread : Inside(t)' => Inside(t) /\ t[1] # p
  BY <1>1 DEF Inside
<1>5. OneInside'
  BY <1>2, <1>4 DEF LockInv, OneInside
<1>6. OwnerKnown'
  <2> SUFFICES ASSUME NEW t \in LockThread, Held(t)', t \notin dropped' PROVE owner' = t[1]
    BY DEF OwnerKnown
  <2>1. t[1] # p /\ Held(t) /\ t \notin dropped
    BY <1>1, <1>2 DEF Held
  <2> QED BY <1>2, <2>1 DEF LockInv, OwnerKnown
<1> QED BY <1>3, <1>5, <1>6 DEF LockInv

LEMMA LockStep == ASSUME LockInv, LockNext PROVE LockInv'
BY QuietLockStep, InsertNameStep, CloseStep, UnlockFileStep, RemoveNameStep, ProcessGoneStep
   DEF LockNext
-----------------------------------------------------------------------------
(* The background thread *)

BgTypeOK ==
    /\ bgQueue \in Seq(Nat) /\ ran \in Seq(Nat) /\ items \in Nat
    /\ bgPc \in {"none", "awake", "running", "asleep"}

BgInv == BgTypeOK /\ NothingSleptOn

\* The numbers up to the next one are those so far, and the next one.
LEMMA OneMoreItem ==
    ASSUME NEW n \in Nat
    PROVE  [i \in 1 .. (n + 1) |-> i] = [i \in 1 .. n |-> i] \o <<n + 1>>
<1> DEFINE s == [i \in 1 .. n |-> i]
           l == [i \in 1 .. (n + 1) |-> i]
<1>1. s \in Seq(Nat) /\ Len(s) = n /\ l \in Seq(Nat) /\ Len(l) = n + 1
  OBVIOUS
<1>2. <<n + 1>> \in Seq(Nat) /\ Len(<<n + 1>>) = 1 /\ <<n + 1>>[1] = n + 1
  OBVIOUS
<1>3. /\ s \o <<n + 1>> \in Seq(Nat) /\ Len(s \o <<n + 1>>) = n + 1
      /\ \A i \in 1 .. (n + 1) : (s \o <<n + 1>>)[i] = IF i <= n THEN s[i] ELSE <<n + 1>>[i - n]
  <2> HIDE DEF s
  <2> QED BY <1>1, <1>2, ConcatProperties
<1>4. \A i \in 1 .. (n + 1) : l[i] = (s \o <<n + 1>>)[i]
  BY <1>2, <1>3
<1> HIDE DEF s, l
<1>5. l = s \o <<n + 1>>
  BY <1>1, <1>3, <1>4, SeqEqual
<1> QED BY <1>5 DEF s, l

LEMMA BgStep == ASSUME BgInv, ScheduleNext PROVE BgInv'
<1> USE DEF BgInv, BgTypeOK
<1>1. CASE Schedule
  <2>1. items' = items + 1 /\ bgQueue' = Append(bgQueue, items + 1) /\ ran' = ran
    BY <1>1 DEF Schedule
  <2>2. BgTypeOK' /\ bgQueue' = bgQueue \o <<items + 1>>
    BY <1>1, <2>1, AppendProperties, AppendIsConcat DEF Schedule
  <2>3. ran' \o bgQueue' = (ran \o bgQueue) \o <<items + 1>>
    BY <2>1, <2>2, ConcatAssociative
  <2>4. ran' \o bgQueue' = [i \in 1 .. items' |-> i]
    BY <2>1, <2>3, OneMoreItem DEF NothingSleptOn
  <2>5. bgPc' # "asleep"
    BY <1>1 DEF Schedule, NothingSleptOn
  <2> QED BY <2>2, <2>4, <2>5 DEF NothingSleptOn
<1>2. CASE BGThread
  <2>1. CASE bgQueue = <<>>
    BY <1>2, <2>1 DEF BGThread, NothingSleptOn
  <2>2. CASE bgQueue # <<>>
    <3>1. /\ ran' = Append(ran, Head(bgQueue)) /\ bgQueue' = Tail(bgQueue)
          /\ bgPc' = "running" /\ items' = items
      BY <1>2, <2>2 DEF BGThread
    <3>2. Head(bgQueue) \in Nat /\ Tail(bgQueue) \in Seq(Nat)
      BY <2>2, HeadTailProperties
    <3>3. ran' = ran \o <<Head(bgQueue)>> /\ ran' \in Seq(Nat) /\ <<Head(bgQueue)>> \in Seq(Nat)
      BY <3>1, <3>2, AppendProperties, AppendIsConcat
    <3>4. <<Head(bgQueue)>> \o Tail(bgQueue) = bgQueue
      <4>1. /\ SubSeq(bgQueue, 1, Len(bgQueue)) = bgQueue
            /\ Tail(bgQueue) = SubSeq(bgQueue, 2, Len(bgQueue))
        BY <2>2, SubSeqFull, TailIsSubSeq
      <4>2. Len(bgQueue) \in Nat \ {0} /\ Head(bgQueue) = bgQueue[1]
        BY <2>2, EmptySeq
      <4> QED BY <4>1, <4>2, SubSeqRecursiveFirst
    <3>5. ran' \o bgQueue' = ran \o bgQueue
      BY <3>1, <3>2, <3>3, <3>4, ConcatAssociative
    <3> QED BY <3>1, <3>2, <3>3, <3>5 DEF NothingSleptOn
  <2> QED BY <2>1, <2>2
<1>3. CASE BGLoop
  BY <1>3 DEF BGLoop, NothingSleptOn
<1> QED BY <1>1, <1>2, <1>3 DEF ScheduleNext

-----------------------------------------------------------------------------
(* The limits *)

OpenPc == {"idle", "mmap", "map", "look", "fd"}

\* The threads that have a place for a mapping and have not used it.
Mapping == {t \in ThreadId : opener[t] = "map"}

LimitTypeOK ==
    /\ allowed \in [mmap : Int, fd : Int] /\ files \in [Kinds -> Int]
    /\ opener \in [ThreadId -> OpenPc]

LimitInv == LimitTypeOK /\ LimitsKept

LEMMA MappingFinite == IsFiniteSet(Mapping) /\ Cardinality(Mapping) \in Nat
BY EnvAssumption, FS_Subset, FS_CardinalityType DEF Mapping

\* A thread that moves to or from "map" is one more or one less of them.
LEMMA MappingCounted ==
    ASSUME LimitTypeOK, NEW t \in ThreadId, NEW from, NEW to, MoveOpener(t, from, to)
    PROVE  Cardinality(Mapping') = Cardinality(Mapping) + (IF to = "map" THEN 1 ELSE 0)
                                                        - (IF from = "map" THEN 1 ELSE 0)
<1>1. /\ opener[t] = from /\ opener'[t] = to
      /\ \A u \in ThreadId : u # t => opener'[u] = opener[u]
  BY DEF MoveOpener, LimitTypeOK
<1>2. IsFiniteSet(Mapping) /\ Cardinality(Mapping) \in Nat
  BY MappingFinite
<1>3. CASE from # "map" /\ to = "map"
  <2>1. Mapping' = Mapping \cup {t} /\ t \notin Mapping
    BY <1>1, <1>3 DEF Mapping
  <2> QED BY <1>2, <1>3, <2>1, FS_AddElement
<1>4. CASE from = "map" /\ to # "map"
  <2>1. Mapping' = Mapping \ {t} /\ t \in Mapping
    BY <1>1, <1>4 DEF Mapping
  <2> QED BY <1>2, <1>4, <2>1, FS_RemoveElement
<1>5. CASE (from = "map") = (to = "map")
  <2>1. Mapping' = Mapping
    BY <1>1, <1>5 DEF Mapping
  <2> QED BY <1>2, <1>5, <2>1
<1> QED BY <1>3, <1>4, <1>5

\* What a thread's step has to add up to.
LEMMA LimitMove ==
    ASSUME LimitInv, NEW t \in ThreadId, NEW from \in OpenPc, NEW to \in OpenPc,
           MoveOpener(t, from, to),
           allowed' \in [mmap : Int, fd : Int], files' \in [Kinds -> Int],
           allowed'.mmap + files'["mapped"] + (IF to = "map" THEN 1 ELSE 0)
               = allowed.mmap + files["mapped"] + (IF from = "map" THEN 1 ELSE 0),
           allowed'.fd + files'["kept"] = allowed.fd + files["kept"],
           allowed'.mmap >= 0, allowed'.fd >= 0
    PROVE  LimitInv'
<1>1. opener' \in [ThreadId -> OpenPc]
  BY DEF MoveOpener, LimitInv, LimitTypeOK
<1>2. Cardinality(Mapping') = Cardinality(Mapping) + (IF to = "map" THEN 1 ELSE 0)
                                                   - (IF from = "map" THEN 1 ELSE 0)
  BY MappingCounted DEF LimitInv
<1>3. Cardinality(Mapping) \in Nat /\ MmapLimit \in Nat
  BY MappingFinite, EnvAssumption
<1>4. /\ files["mapped"] \in Int /\ files'["mapped"] \in Int
      /\ allowed.mmap \in Int /\ allowed'.mmap \in Int
  BY DEF LimitInv, LimitTypeOK, Kinds
<1>5. /\ allowed.mmap + files["mapped"] + Cardinality(Mapping) = MmapLimit
      /\ allowed.fd + files["kept"] = FdLimit
  BY DEF LimitInv, LimitsKept, Mapping
<1>6. allowed'.mmap + files'["mapped"] + Cardinality(Mapping') = MmapLimit
  <2> DEFINE more == IF to = "map" THEN 1 ELSE 0
             less == IF from = "map" THEN 1 ELSE 0
             before == Cardinality(Mapping)
             after == Cardinality(Mapping')
  <2>1. more \in Int /\ less \in Int /\ before \in Int
    BY <1>3
  <2>2. after = before + more - less
    BY <1>2
  <2>3. allowed'.mmap + files'["mapped"] + more = allowed.mmap + files["mapped"] + less
    OBVIOUS
  <2>4. allowed.mmap + files["mapped"] + before = MmapLimit
    BY <1>5
  <2> HIDE DEF more, less, before, after
  <2>5. allowed'.mmap + files'["mapped"] + after = MmapLimit
    BY <1>4, <2>1, <2>2, <2>3, <2>4
  <2> QED BY <2>5 DEF after
<1> QED BY <1>1, <1>5, <1>6 DEF LimitInv, LimitTypeOK, LimitsKept, Mapping

LEMMA LimitStep == ASSUME LimitInv, LimitNext PROVE LimitInv'
<1>t. LimitTypeOK /\ allowed.mmap >= 0 /\ allowed.fd >= 0
  BY DEF LimitInv, LimitsKept
<1>1. ASSUME NEW t \in ThreadId,
             \/ NewRandomAccessFile(t) \/ AcquireMmap(t) \/ Mmap(t) \/ MmapFails(t)
             \/ LookForFd(t) \/ AcquireFd(t)
      PROVE  LimitInv'
  <2> USE DEF OpenPc, Kinds, LimitTypeOK
  <2>1. CASE NewRandomAccessFile(t)
    <3>1. PICK to \in {"mmap", "look"} : MoveOpener(t, "idle", to) /\ UNCHANGED <<allowed, files>>
      BY <2>1 DEF NewRandomAccessFile
    <3> QED BY <1>t, <3>1, LimitMove
  <2>2. CASE AcquireMmap(t)
    <3>1. CASE allowed.mmap > 0
      <4>1. /\ MoveOpener(t, "mmap", "map") /\ allowed' = [allowed EXCEPT !.mmap = @ - 1]
            /\ UNCHANGED files
        BY <2>2, <3>1 DEF AcquireMmap
      <4>2. allowed' \in [mmap : Int, fd : Int] /\ allowed'.mmap = allowed.mmap - 1
            /\ allowed'.fd = allowed.fd
        BY <1>t, <4>1
      <4> QED BY <1>t, <3>1, <4>1, <4>2, LimitMove
    <3>2. CASE ~ allowed.mmap > 0
      <4>1. MoveOpener(t, "mmap", "look") /\ UNCHANGED <<allowed, files>>
        BY <2>2, <3>2 DEF AcquireMmap
      <4> QED BY <1>t, <4>1, LimitMove
    <3> QED BY <3>1, <3>2
  <2>3. CASE Mmap(t)
    <3>1. /\ MoveOpener(t, "map", "idle") /\ UNCHANGED allowed
          /\ files' = [files EXCEPT !["mapped"] = @ + 1]
      BY <2>3 DEF Mmap, Opens
    <3>2. /\ files' \in [Kinds -> Int] /\ files'["mapped"] = files["mapped"] + 1
          /\ files'["kept"] = files["kept"]
      BY <1>t, <3>1
    <3> QED BY <1>t, <3>1, <3>2, LimitMove
  <2>4. CASE MmapFails(t)
    <3>1. /\ MoveOpener(t, "map", "idle") /\ UNCHANGED files
          /\ allowed' = [allowed EXCEPT !.mmap = @ + 1]
      BY <2>4 DEF MmapFails
    <3>2. allowed' \in [mmap : Int, fd : Int] /\ allowed'.mmap = allowed.mmap + 1
          /\ allowed'.fd = allowed.fd
      BY <1>t, <3>1
    <3> QED BY <1>t, <3>1, <3>2, LimitMove
  <2>5. CASE LookForFd(t)
    <3>1. PICK to \in {"fd", "idle"} :
             /\ MoveOpener(t, "look", to) /\ UNCHANGED allowed
             /\ files' = files \/ files' = [files EXCEPT !["temporary"] = @ + 1]
      BY <2>5 DEF LookForFd, Opens
    <3>2. /\ files' \in [Kinds -> Int] /\ files'["mapped"] = files["mapped"]
          /\ files'["kept"] = files["kept"]
      BY <1>t, <3>1
    <3> QED BY <1>t, <3>1, <3>2, LimitMove
  <2>6. CASE AcquireFd(t)
    <3>1. /\ MoveOpener(t, "fd", "idle")
          /\ \/ /\ allowed.fd > 0 /\ allowed' = [allowed EXCEPT !.fd = @ - 1]
                /\ files' = [files EXCEPT !["kept"] = @ + 1]
             \/ UNCHANGED allowed /\ files' = [files EXCEPT !["temporary"] = @ + 1]
      BY <2>6 DEF AcquireFd, Opens
    <3>2. /\ files' \in [Kinds -> Int] /\ files'["mapped"] = files["mapped"]
          /\ allowed' \in [mmap : Int, fd : Int] /\ allowed'.mmap = allowed.mmap
          /\ allowed'.fd >= 0 /\ allowed'.fd + files'["kept"] = allowed.fd + files["kept"]
      BY <1>t, <3>1
    <3> QED BY <1>t, <3>1, <3>2, LimitMove
  <2> QED BY <1>1, <2>1, <2>2, <2>3, <2>4, <2>5, <2>6
<1>2. ASSUME NEW kind \in Kinds, CloseFile(kind) PROVE LimitInv'
  <2>1. /\ files[kind] > 0 /\ files' = [files EXCEPT ![kind] = @ - 1] /\ UNCHANGED opener
        /\ kind = "mapped" => allowed' = [allowed EXCEPT !.mmap = @ + 1]
        /\ kind = "kept" => allowed' = [allowed EXCEPT !.fd = @ + 1]
        /\ kind = "temporary" => allowed' = allowed
    BY <1>2 DEF CloseFile
  <2>2. Mapping' = Mapping /\ Cardinality(Mapping) \in Nat /\ MmapLimit \in Nat /\ FdLimit \in Nat
    BY <2>1, MappingFinite, EnvAssumption DEF Mapping
  <2>3. /\ files' \in [Kinds -> Int] /\ allowed' \in [mmap : Int, fd : Int] 
        /\ allowed'.mmap >= 0 /\ allowed'.fd >= 0
        /\ allowed'.mmap + files'["mapped"] = allowed.mmap + files["mapped"]
        /\ allowed'.fd + files'["kept"] = allowed.fd + files["kept"]
    BY <1>t, <2>1 DEF LimitTypeOK, Kinds
  <2>4. /\ files["mapped"] \in Int /\ files'["mapped"] \in Int
        /\ allowed.mmap \in Int /\ allowed'.mmap \in Int
    BY <1>t, <2>3 DEF LimitTypeOK, Kinds
  <2>5. /\ allowed.mmap + files["mapped"] + Cardinality(Mapping) = MmapLimit
        /\ allowed.fd + files["kept"] = FdLimit
    BY DEF LimitInv, LimitsKept, Mapping
  <2>6. allowed'.mmap + files'["mapped"] + Cardinality(Mapping') = MmapLimit
    BY <2>2, <2>3, <2>4, <2>5
  <2> QED BY <1>t, <2>1, <2>3, <2>5, <2>6 DEF LimitInv, LimitTypeOK, LimitsKept, Mapping
<1> QED BY <1>1, <1>2 DEF LimitNext

-----------------------------------------------------------------------------
(* The theorem *)

EnvInv == LockInv /\ BgInv /\ LimitInv

LEMMA EnvInitInv == EnvInit => EnvInv
<1> SUFFICES ASSUME EnvInit PROVE EnvInv
  OBVIOUS
<1>1. LockInv
  BY DEF EnvInit, LockInv, LockTypeOK, LockPc, OneInside, Inside, OwnerKnown, Held
<1>2. BgInv
  <2>1. [i \in 1 .. 0 |-> i] = <<>>
    OBVIOUS
  <2> QED BY <2>1 DEF EnvInit, BgInv, BgTypeOK, NothingSleptOn
<1>3. LimitInv
  <2>1. {t \in ThreadId : opener[t] = "map"} = {}
    BY DEF EnvInit
  <2>2. /\ allowed = [mmap |-> MmapLimit, fd |-> FdLimit] /\ files = [kind \in Kinds |-> 0]
        /\ opener = [t \in ThreadId |-> "idle"] /\ MmapLimit \in Nat /\ FdLimit \in Nat
    BY EnvAssumption DEF EnvInit
  <2>3. LimitTypeOK
    BY <2>2 DEF LimitTypeOK, OpenPc
  <2>4. /\ allowed.mmap = MmapLimit /\ allowed.fd = FdLimit
        /\ files["mapped"] = 0 /\ files["kept"] = 0
    BY <2>2 DEF Kinds
  <2>5. LimitsKept
    BY <2>1, <2>2, <2>4, FS_EmptySet DEF LimitsKept
  <2> QED BY <2>3, <2>5 DEF LimitInv
<1> QED BY <1>1, <1>2, <1>3 DEF EnvInv

LEMMA LockInvStutter == LockInv /\ UNCHANGED lockVars => LockInv'
BY DEF LockInv, lockVars, LockTypeOK, OneInside, Inside, OwnerKnown, Held

LEMMA BgInvStutter == BgInv /\ UNCHANGED bgVars => BgInv'
BY DEF BgInv, bgVars, BgTypeOK, NothingSleptOn

LEMMA LimitInvStutter == LimitInv /\ UNCHANGED limitVars => LimitInv'
BY DEF LimitInv, limitVars, LimitTypeOK, LimitsKept

LEMMA EnvStep == EnvInv /\ [EnvNext]_<<lockVars, bgVars, limitVars>> => EnvInv'
BY LockStep, BgStep, LimitStep, LockInvStutter, BgInvStutter, LimitInvStutter
   DEF EnvInv, EnvNext

\* Whatever the threads of however many processes do: a lock the kernel has not
\* taken away is known to its owner and is the only one of its process, the
\* background thread sleeps on no item and takes each once in order, and the
\* places of the limits all come back.
THEOREM EnvironmentCorrect == EnvSpec => []EnvironmentSound
<1>1. EnvInv => EnvironmentSound
  BY DEF EnvInv, LockInv, BgInv, LimitInv, EnvironmentSound, HoldersKnown, OneInside, OwnerKnown,
         Inside, Held
<1> QED BY <1>1, EnvInitInv, EnvStep, PTL DEF EnvSpec

-----------------------------------------------------------------------------
(* The iterators: numbers *)

\* What a quotient is.
LEMMA Quotient ==
    ASSUME NEW a \in Nat, NEW n \in Nat, n > 0
    PROVE  /\ a \div n \in Nat
           /\ n * (a \div n) <= a /\ a < n * (a \div n) + n
<1> DEFINE q == a \div n
<1>1. q \in Int
  OBVIOUS
<1>2. n * q \in Int /\ n * q <= a /\ a < n * q + n
  OBVIOUS
<1>3. q >= 0
  <2> HIDE DEF q
  <2> SUFFICES ASSUME q < 0 PROVE FALSE
    BY <1>1
  <2>1. PICK r \in Nat : q = -(1 + r)
    <3>1. -q - 1 \in Nat
      BY <1>1
    <3> QED BY <3>1, <1>1
  <2>2. n * q = -(n + n * r) /\ n * r >= 0 /\ n * r \in Int
    BY <2>1, <1>1
  <2> QED BY <1>1, <1>2, <2>1, <2>2
<1> QED BY <1>1, <1>2, <1>3

LEMMA QuotientIs ==
    ASSUME NEW a \in Nat, NEW n \in Nat, n > 0, NEW q \in Nat,
           n * q <= a, a < n * q + n
    PROVE  a \div n = q
<1> DEFINE p == a \div n
<1>1. p \in Nat /\ n * p <= a /\ a < n * p + n
  BY Quotient
<1> HIDE DEF p
<1>2. ~ (p < q)
  <2> SUFFICES ASSUME p < q PROVE FALSE
    OBVIOUS
  <2>1. PICK r \in Nat : q = p + 1 + r
    <3>1. q - p - 1 \in Nat
      BY <1>1
    <3> QED BY <3>1, <1>1
  <2>2. n * q = n * p + n + n * r /\ n * r >= 0 /\ n * r \in Int /\ n * p \in Int
    BY <2>1, <1>1
  <2> QED BY <2>2, <1>1
<1>3. ~ (q < p)
  <2> SUFFICES ASSUME q < p PROVE FALSE
    OBVIOUS
  <2>1. PICK r \in Nat : p = q + 1 + r
    <3>1. p - q - 1 \in Nat
      BY <1>1
    <3> QED BY <3>1, <1>1
  <2>2. n * p = n * q + n + n * r /\ n * r >= 0 /\ n * r \in Int /\ n * q \in Int
    BY <2>1, <1>1
  <2> QED BY <2>2, <1>1
<1>4. p = q
  BY <1>1, <1>2, <1>3
<1> QED BY <1>4 DEF p

\* A packed entry is taken apart again.
LEMMA Unpacked ==
    ASSUME NEW k \in Nat \ {0}, NEW s \in 0 .. MaxPuts
    PROVE  /\ Packed(k, s) \in Nat \ {0}
           /\ UserKey(Packed(k, s)) = k
           /\ SequenceOf(Packed(k, s)) = s
<1> DEFINE n == MaxPuts + 1
           a == k * n - s + MaxPuts
<1>1. MaxPuts \in Nat /\ n \in Nat /\ n > 0 /\ s \in Nat /\ s <= MaxPuts
  BY IteratorAssumption
<1>2. k * n \in Nat /\ k * n >= n /\ n * k = k * n
  <2>1. PICK r \in Nat : k = r + 1
    BY k - 1 \in Nat
  <2>2. k * n = r * n + n /\ r * n \in Nat /\ n * k = k * n
    BY <2>1, <1>1
  <2> QED BY <2>2, <1>1
<1>3. a \in Nat /\ n * k <= a /\ a < n * k + n
  BY <1>1, <1>2
<1>4. a \div n = k
  <2> HIDE DEF a, n
  <2> QED BY <1>1, <1>3, QuotientIs
<1>5. UserKey(Packed(k, s)) = k
  BY <1>4 DEF UserKey, Packed
<1>6. Packed(k, s) \in Nat \ {0}
  BY <1>1, <1>2 DEF Packed
<1>7. SequenceOf(Packed(k, s)) = k * n - (k * n - s)
  BY <1>5 DEF SequenceOf, Packed
<1>8. SequenceOf(Packed(k, s)) = s
  <2> HIDE DEF n
  <2> QED BY <1>7, <1>2, <1>1
<1> QED BY <1>5, <1>6, <1>8

\* A number is its key and its sequence number.
LEMMA PackedAgain ==
    ASSUME NEW e \in Nat
    PROVE  /\ UserKey(e) \in Nat /\ SequenceOf(e) \in 0 .. MaxPuts
           /\ e = Packed(UserKey(e), SequenceOf(e))
<1> DEFINE n == MaxPuts + 1
           a == e + MaxPuts
           q == a \div n
<1>1. MaxPuts \in Nat /\ n \in Nat /\ n > 0 /\ a \in Nat
  BY IteratorAssumption
<1>2. q \in Nat /\ n * q <= a /\ a < n * q + n
  <2> HIDE DEF a, n
  <2> QED BY <1>1, Quotient
<1>3. n * q \in Int /\ q * n = n * q
  <2> HIDE DEF q, n
  <2> QED BY <1>1, <1>2
<1>4. UserKey(e) = q /\ SequenceOf(e) = q * n - e
  BY DEF UserKey, SequenceOf
<1>5. Packed(UserKey(e), SequenceOf(e)) = q * n - (q * n - e)
  BY <1>4 DEF Packed
<1> HIDE DEF q
<1>6. SequenceOf(e) \in 0 .. MaxPuts
  BY <1>1, <1>2, <1>3, <1>4
<1>7. Packed(UserKey(e), SequenceOf(e)) = e
  BY <1>5, <1>3
<1> QED BY <1>2, <1>4, <1>6, <1>7

\* The entries are in the order of their keys, and under one key the newest first.
LEMMA PackedOrder ==
    ASSUME NEW d \in Nat, NEW e \in Nat
    PROVE  /\ d <= e => UserKey(d) <= UserKey(e)
           /\ UserKey(d) = UserKey(e) => (d <= e <=> SequenceOf(e) <= SequenceOf(d))
<1> DEFINE n == MaxPuts + 1
           j == UserKey(d)
           k == UserKey(e)
           s == SequenceOf(d)
           t == SequenceOf(e)
<1>1. MaxPuts \in Nat /\ n \in Nat /\ n > 0
  BY IteratorAssumption
<1>2. /\ j \in Nat /\ k \in Nat /\ s \in 0 .. MaxPuts /\ t \in 0 .. MaxPuts
      /\ d = j * n - s /\ e = k * n - t
  BY PackedAgain DEF Packed
<1> HIDE DEF j, k, s, t
<1>3. ASSUME k < j PROVE e < d
  <2>1. PICK r \in Nat : j = k + 1 + r
    <3>1. j - k - 1 \in Nat
      BY <1>2, <1>3
    <3> QED BY <3>1, <1>2
  <2>2. j * n = k * n + n + r * n /\ r * n \in Nat /\ k * n \in Nat
    BY <2>1, <1>1, <1>2
  <2> HIDE DEF n
  <2>3. s < n
    BY <1>1, <1>2 DEF n
  <2> QED BY <2>2, <2>3, <1>1, <1>2
<1>4. d <= e => j <= k
  BY <1>2, <1>3
<1>5. j = k => (d <= e <=> t <= s)
  <2>1. j * n \in Int
    BY <1>1, <1>2
  <2> HIDE DEF n
  <2> QED BY <2>1, <1>1, <1>2
<1> QED BY <1>4, <1>5 DEF j, k, s, t

\* What a seek to the newest version of a key in a snapshot stands at or after.
LEMMA PackedSeek ==
    ASSUME NEW e \in Nat, NEW k \in Nat \ {0}, NEW q \in 0 .. MaxPuts
    PROVE  e >= Packed(k, q) <=>
               UserKey(e) > k \/ (UserKey(e) = k /\ SequenceOf(e) <= q)
<1> DEFINE p == Packed(k, q)
<1>1. p \in Nat /\ UserKey(p) = k /\ SequenceOf(p) = q
  BY Unpacked
<1> HIDE DEF p
<1>2. UserKey(e) \in Nat /\ SequenceOf(e) \in Nat
  BY PackedAgain
<1>3. /\ p <= e => k <= UserKey(e)
      /\ UserKey(e) = k => (p <= e <=> SequenceOf(e) <= q)
  BY <1>1, PackedOrder
<1>4. e <= p => UserKey(e) <= k
  BY <1>1, PackedOrder
<1> QED BY <1>1, <1>2, <1>3, <1>4 DEF p

\* A set of naturals has a lowest member, the only one with nothing below it.
LEMMA LowestIs ==
    ASSUME NEW S, S \subseteq Nat
    PROVE  /\ S = {} => Lowest(S) = 0
           /\ S # {} => Lowest(S) \in S /\ \A x \in S : Lowest(S) <= x
           /\ \A m \in S : (\A x \in S : m <= x) => Lowest(S) = m
           /\ Lowest(S) \in Nat
<1>1. ASSUME S # {} PROVE \E m \in S : \A x \in S : m <= x
  <2>1. IsWellFoundedOn({ss \in Nat \X Nat : ss[1] < ss[2]}, Nat)
    BY NatLessThanWellFounded DEF OpToRel
  <2>2. PICK m \in S : \A y \in S : ~ (<<y, m>> \in {ss \in Nat \X Nat : ss[1] < ss[2]})
    BY <1>1, <2>1, WFMin
  <2>3. \A y \in S : ~ (y < m)
    BY <2>2
  <2> QED BY <2>3
<1>2. ASSUME S # {} PROVE Lowest(S) \in S /\ \A x \in S : Lowest(S) <= x
  BY <1>1, <1>2 DEF Lowest, Min
<1>3. S = {} => Lowest(S) = 0
  BY DEF Lowest
<1> DEFINE l == Lowest(S)
<1>4. ASSUME NEW m \in S, \A x \in S : m <= x PROVE l = m
  <2>1. l \in S /\ l <= m
    BY <1>2
  <2> HIDE DEF l
  <2>2. m <= l /\ l \in Nat /\ m \in Nat
    BY <1>4, <2>1
  <2> QED BY <2>1, <2>2
<1>5. l \in Nat
  <2>1. CASE S = {}
    BY <1>3, <2>1
  <2>2. CASE S # {}
    <3>1. l \in S
      BY <1>2, <2>2
    <3> HIDE DEF l
    <3> QED BY <3>1
  <2> QED BY <2>1, <2>2
<1> QED BY <1>2, <1>3, <1>4, <1>5

\* The lowest entry is the one the library's minimum names.
LEMMA MinIs ==
    ASSUME NEW S, S \subseteq Nat, S # {}
    PROVE  /\ Min(S) = Lowest(S)
           /\ Min(S) \in S /\ \A x \in S : Min(S) <= x
<1>1. Min(S) = Lowest(S)
  BY DEF Lowest
<1>2. Lowest(S) \in S /\ \A x \in S : Lowest(S) <= x
  BY LowestIs
<1> QED BY <1>1, <1>2

\* And a topmost one, if there is a bound.
LEMMA TopmostIs ==
    ASSUME NEW S, S \subseteq Nat, NEW b \in Nat, \A x \in S : x <= b
    PROVE  /\ S = {} => Topmost(S) = 0
           /\ S # {} => Topmost(S) \in S /\ \A x \in S : x <= Topmost(S)
           /\ \A m \in S : (\A x \in S : x <= m) => Topmost(S) = m
           /\ Topmost(S) \in Nat
<1>1. ASSUME S # {} PROVE \E m \in S : \A x \in S : x <= m
  <2> DEFINE T == {b - x : x \in S}
  <2>1. T \subseteq Nat
    <3>1. \A x \in S : b - x \in Nat
      OBVIOUS
    <3> QED BY <3>1
  <2>6. T # {}
    BY <1>1
  <2>2. Lowest(T) \in T /\ \A y \in T : Lowest(T) <= y
    <3> HIDE DEF T
    <3> QED BY <2>1, <2>6, LowestIs
  <2>3. PICK m \in S : Lowest(T) = b - m
    BY <2>2
  <2>4. \A x \in S : b - m <= b - x
    BY <2>2, <2>3
  <2>5. \A x \in S : x \in Nat /\ m \in Nat
    OBVIOUS
  <2> HIDE DEF T
  <2> QED BY <2>4, <2>5
<1>2. ASSUME S # {} PROVE Topmost(S) \in S /\ \A x \in S : x <= Topmost(S)
  BY <1>1, <1>2 DEF Topmost, Max
<1>3. S = {} => Topmost(S) = 0
  BY DEF Topmost
<1> DEFINE l == Topmost(S)
<1>4. ASSUME NEW m \in S, \A x \in S : x <= m PROVE l = m
  <2>1. l \in S /\ m <= l
    BY <1>2
  <2> HIDE DEF l
  <2>2. l <= m /\ l \in Nat /\ m \in Nat
    BY <1>4, <2>1
  <2> QED BY <2>1, <2>2
<1>5. l \in Nat
  <2>1. CASE S = {}
    BY <1>3, <2>1
  <2>2. CASE S # {}
    <3>1. l \in S
      BY <1>2, <2>2
    <3> HIDE DEF l
    <3> QED BY <3>1
  <2> QED BY <2>1, <2>2
<1> QED BY <1>2, <1>3, <1>4, <1>5

\* The child that stands first, if one is valid.
LEMMA SmallestIs ==
    ASSUME NEW pos \in [1 .. Children -> Nat]
    PROVE  /\ FindSmallest(pos) = 0 => \A i \in 1 .. Children : pos[i] = 0
           /\ FindSmallest(pos) # 0 =>
                /\ FindSmallest(pos) \in 1 .. Children /\ pos[FindSmallest(pos)] # 0
                /\ \A j \in 1 .. Children : pos[j] # 0 => pos[FindSmallest(pos)] <= pos[j]
<1> DEFINE valid == {i \in 1 .. Children : pos[i] # 0}
           S == {pos[i] : i \in valid}
<1>1. FindSmallest(pos) = IF valid = {} THEN 0
                          ELSE CHOOSE i \in valid : \A j \in valid : pos[i] <= pos[j]
  BY DEF FindSmallest
<1>2. ASSUME valid # {} PROVE \E i \in valid : \A j \in valid : pos[i] <= pos[j]
  <2>1. S \subseteq Nat /\ S # {}
    BY <1>2
  <2>2. Lowest(S) \in S /\ \A x \in S : Lowest(S) <= x
    <3> HIDE DEF S
    <3> QED BY <2>1, LowestIs
  <2>3. PICK i \in valid : Lowest(S) = pos[i]
    BY <2>2
  <2> QED BY <2>2, <2>3
<1>3. ASSUME valid # {}
      PROVE  /\ FindSmallest(pos) \in valid
             /\ \A j \in valid : pos[FindSmallest(pos)] <= pos[j]
  <2> HIDE DEF valid
  <2> QED BY <1>1, <1>2, <1>3
<1>4. CASE valid = {}
  BY <1>1, <1>4
<1>5. CASE valid # {}
  BY <1>3, <1>5
<1> QED BY <1>4, <1>5

\* And the one that stands last.
LEMMA LargestIs ==
    ASSUME NEW pos \in [1 .. Children -> Nat], NEW b \in Nat,
           \A i \in 1 .. Children : pos[i] <= b
    PROVE  /\ FindLargest(pos) = 0 => \A i \in 1 .. Children : pos[i] = 0
           /\ FindLargest(pos) # 0 =>
                /\ FindLargest(pos) \in 1 .. Children /\ pos[FindLargest(pos)] # 0
                /\ \A j \in 1 .. Children : pos[j] # 0 => pos[j] <= pos[FindLargest(pos)]
<1> DEFINE valid == {i \in 1 .. Children : pos[i] # 0}
           S == {pos[i] : i \in valid}
<1>1. FindLargest(pos) = IF valid = {} THEN 0
                         ELSE CHOOSE i \in valid : \A j \in valid : pos[j] <= pos[i]
  BY DEF FindLargest
<1>2. ASSUME valid # {} PROVE \E i \in valid : \A j \in valid : pos[j] <= pos[i]
  <2>1. S \subseteq Nat /\ S # {} /\ \A x \in S : x <= b
    BY <1>2
  <2>2. Topmost(S) \in S /\ \A x \in S : x <= Topmost(S)
    <3> HIDE DEF S
    <3> QED BY <2>1, TopmostIs
  <2>3. PICK i \in valid : Topmost(S) = pos[i]
    BY <2>2
  <2> QED BY <2>2, <2>3
<1>3. ASSUME valid # {}
      PROVE  /\ FindLargest(pos) \in valid
             /\ \A j \in valid : pos[j] <= pos[FindLargest(pos)]
  <2> HIDE DEF valid
  <2> QED BY <1>1, <1>2, <1>3
<1>4. CASE valid = {}
  BY <1>1, <1>4
<1>5. CASE valid # {}
  BY <1>3, <1>5
<1> QED BY <1>4, <1>5

-----------------------------------------------------------------------------
(* The merging iterator *)

\* The entries in the snapshot of the iterator, and the newest one of a key.
Seen == {e \in Entries : SequenceOf(e) <= it.sequence}
Newest(k) == Min(VersionsOf(k))

\* The children hold numbered entries of the user keys, each in one child.
ChildInv ==
    /\ child \in [1 .. Children -> SUBSET Nat]
    /\ IsFiniteSet(Entries) /\ LastSequence \in Nat /\ LastSequence <= MaxPuts
    /\ \A e \in Entries : UserKey(e) \in 1 .. UserKeys /\ SequenceOf(e) \in 1 .. LastSequence
    /\ \A i, j \in 1 .. Children : i # j => child[i] \cap child[j] = {}

\* Heading forward, the merging iterator is at the first of the entries where its
\* children stand, and none of them has passed over an entry in the snapshot that
\* is not before it; in reverse, the same from the other end.
MergerSound(ch, V, pos, cur, dir) ==
    /\ pos \in [1 .. Children -> Nat]
    /\ \A i \in 1 .. Children : pos[i] # 0 => pos[i] \in ch[i]
    /\ cur # 0 => cur \in 1 .. Children /\ pos[cur] # 0
    /\ dir \in {"forward", "reverse"}
    /\ cur # 0 /\ dir = "forward" => \A i \in 1 .. Children :
          /\ pos[i] # 0 => pos[cur] <= pos[i]
          /\ \A e \in ch[i] \cap V : e >= pos[cur] => pos[i] # 0 /\ pos[i] <= e
    /\ cur # 0 /\ dir = "reverse" => \A i \in 1 .. Children :
          /\ pos[i] # 0 => pos[i] <= pos[cur]
          /\ \A e \in ch[i] \cap V : e <= pos[cur] => pos[i] # 0 /\ e <= pos[i]

MergerInv == MergerSound(child, Seen, at, current, heading)

\* The merging iterator is after b, with no entry of V in between, and before b.
Ahead(V, b, pos, cur) ==
    /\ cur # 0 => pos[cur] > b /\ \A e \in V : e <= b \/ pos[cur] <= e
    /\ cur = 0 => \A e \in V : e <= b

Behind(V, b, pos, cur) ==
    /\ cur # 0 => pos[cur] < b /\ \A e \in V : b <= e \/ e <= pos[cur]
    /\ cur = 0 => \A e \in V : b <= e

EntryTop == UserKeys * (MaxPuts + 1)

\* No entry is above the oldest one the highest key may have.
LEMMA EntryFacts ==
    ASSUME ChildInv
    PROVE  /\ EntryTop \in Nat
           /\ \A e \in Entries : /\ e \in Nat /\ e # 0 /\ e <= EntryTop
                                 /\ UserKey(e) \in Nat /\ UserKey(e) # 0 /\ UserKey(e) <= UserKeys
                                 /\ SequenceOf(e) \in Nat /\ SequenceOf(e) # 0
           /\ \A i \in 1 .. Children : child[i] \subseteq Entries /\ child[i] \subseteq Nat
           /\ \A e \in Entries : \E i \in 1 .. Children : e \in child[i]
           /\ Seen \subseteq Entries
<1>1. EntryTop \in Nat /\ UserKeys \in Nat /\ MaxPuts \in Nat
  BY IteratorAssumption DEF EntryTop
<1>2. /\ \A i \in 1 .. Children : child[i] \subseteq Entries /\ child[i] \subseteq Nat
      /\ \A e \in Entries : \E i \in 1 .. Children : e \in child[i]
  BY DEF ChildInv, Entries
<1>3. ASSUME NEW e \in Entries
      PROVE  /\ e \in Nat /\ e # 0 /\ e <= EntryTop
             /\ UserKey(e) \in Nat /\ UserKey(e) # 0 /\ UserKey(e) <= UserKeys
             /\ SequenceOf(e) \in Nat /\ SequenceOf(e) # 0
  <2> DEFINE k == UserKey(e)
             s == SequenceOf(e)
             n == MaxPuts + 1
  <2>1. e \in Nat
    BY <1>2
  <2>2. k \in 1 .. UserKeys /\ s \in 1 .. LastSequence /\ LastSequence \in Nat
    BY DEF ChildInv
  <2>3. s \in 0 .. MaxPuts /\ e = k * n - s
    BY <2>1, PackedAgain DEF Packed
  <2>4. n \in Nat
    BY <1>1
  <2>5. EntryTop = UserKeys * n
    BY DEF EntryTop
  <2> HIDE DEF k, s, n
  <2>6. PICK r \in Nat : UserKeys = k + r
    <3>1. UserKeys - k \in Nat
      BY <1>1, <2>2
    <3> QED BY <3>1, <1>1, <2>2
  <2>7. UserKeys * n = k * n + r * n /\ r * n \in Nat /\ k * n \in Nat
    BY <2>2, <2>4, <2>6
  <2>8. e <= EntryTop
    BY <2>7, <2>5, <2>3, <1>1
  <2>9. e # 0
    <3>1. k \in Nat \ {0}
      BY <2>2
    <3>2. Packed(k, s) \in Nat \ {0}
      BY <3>1, <2>3, Unpacked
    <3> QED BY <3>2, <2>3 DEF Packed, n
  <2>10. k \in Nat /\ k # 0 /\ k <= UserKeys /\ s \in Nat /\ s # 0
    BY <2>2, <2>3, <1>1
  <2> QED BY <2>1, <2>8, <2>9, <2>10 DEF k, s
<1> QED BY <1>1, <1>2, <1>3 DEF Seen

\* Children put after b, each at its first entry there, or at one before the
\* entries in the snapshot.
LEMMA StandsForward ==
    ASSUME NEW ch, NEW V, NEW pos \in [1 .. Children -> Nat], NEW b \in Nat,
           \A i \in 1 .. Children : ch[i] \subseteq Nat,
           \A e \in V : \E i \in 1 .. Children : e \in ch[i],
           \A i \in 1 .. Children : pos[i] # 0 => pos[i] \in ch[i] /\ pos[i] > b,
           \A i \in 1 .. Children : \A e \in ch[i] \cap V :
               e > b => pos[i] # 0 /\ pos[i] <= e
    PROVE  /\ MergerSound(ch, V, pos, FindSmallest(pos), "forward")
           /\ Ahead(V, b, pos, FindSmallest(pos))
<1>1. PICK c : c = FindSmallest(pos)
  OBVIOUS
<1>2. /\ c = 0 => \A i \in 1 .. Children : pos[i] = 0
      /\ c # 0 => /\ c \in 1 .. Children /\ pos[c] # 0
                  /\ \A j \in 1 .. Children : pos[j] # 0 => pos[c] <= pos[j]
  BY <1>1, SmallestIs
<1>3. \A i \in 1 .. Children : pos[i] \in Nat
  OBVIOUS
<1>4. c # 0 => pos[c] > b
  BY <1>2
<1>5. ASSUME NEW e \in V, e > b PROVE c # 0 /\ pos[c] <= e
  <2>1. PICK i \in 1 .. Children : e \in ch[i]
    OBVIOUS
  <2>2. pos[i] # 0 /\ pos[i] <= e
    BY <2>1, <1>5
  <2>3. c # 0 /\ pos[c] <= pos[i] /\ c \in 1 .. Children
    BY <2>2, <1>2
  <2>4. e \in Nat /\ pos[i] \in Nat /\ pos[c] \in Nat
    BY <2>1, <2>3, <1>3
  <2> QED BY <2>2, <2>3, <2>4
<1>6. \A e \in V : e \in Nat
  OBVIOUS
<1>7. Ahead(V, b, pos, c)
  <2>1. \A e \in V : ~(e <= b) => e > b
    BY <1>6
  <2>2. c # 0 => pos[c] > b /\ \A e \in V : e <= b \/ pos[c] <= e
    BY <1>4, <1>5, <2>1
  <2>3. c = 0 => \A e \in V : e <= b
    BY <1>5, <2>1
  <2> QED BY <2>2, <2>3 DEF Ahead
<1>8. ASSUME c # 0, NEW i \in 1 .. Children, NEW e \in ch[i] \cap V, e >= pos[c]
      PROVE  pos[i] # 0 /\ pos[i] <= e
  <2>1. pos[c] \in Nat /\ pos[c] > b /\ e \in Nat
    BY <1>2, <1>3, <1>4, <1>6, <1>8
  <2>2. e > b
    BY <2>1, <1>8
  <2> QED BY <2>2
<1>9. MergerSound(ch, V, pos, c, "forward")
  BY <1>2, <1>8 DEF MergerSound
<1> QED BY <1>1, <1>7, <1>9

\* Children put before b, the other way round.
LEMMA StandsBackward ==
    ASSUME NEW ch, NEW V, NEW pos \in [1 .. Children -> Nat], NEW b \in Nat,
           \A i \in 1 .. Children : ch[i] \subseteq Nat,
           \A e \in V : \E i \in 1 .. Children : e \in ch[i],
           \A i \in 1 .. Children : pos[i] # 0 => pos[i] \in ch[i] /\ pos[i] < b,
           \A i \in 1 .. Children : \A e \in ch[i] \cap V :
               e < b => pos[i] # 0 /\ e <= pos[i]
    PROVE  /\ MergerSound(ch, V, pos, FindLargest(pos), "reverse")
           /\ Behind(V, b, pos, FindLargest(pos))
<1>1. PICK c : c = FindLargest(pos)
  OBVIOUS
<1>3. \A i \in 1 .. Children : pos[i] \in Nat /\ pos[i] <= b
  OBVIOUS
<1>2. /\ c = 0 => \A i \in 1 .. Children : pos[i] = 0
      /\ c # 0 => /\ c \in 1 .. Children /\ pos[c] # 0
                  /\ \A j \in 1 .. Children : pos[j] # 0 => pos[j] <= pos[c]
  BY <1>1, <1>3, LargestIs
<1>4. c # 0 => pos[c] < b
  BY <1>2
<1>5. ASSUME NEW e \in V, e < b PROVE c # 0 /\ e <= pos[c]
  <2>1. PICK i \in 1 .. Children : e \in ch[i]
    OBVIOUS
  <2>2. pos[i] # 0 /\ e <= pos[i]
    BY <2>1, <1>5
  <2>3. c # 0 /\ pos[i] <= pos[c] /\ c \in 1 .. Children
    BY <2>2, <1>2
  <2>4. e \in Nat /\ pos[i] \in Nat /\ pos[c] \in Nat
    BY <2>1, <2>3, <1>3
  <2> QED BY <2>2, <2>3, <2>4
<1>6. \A e \in V : e \in Nat
  OBVIOUS
<1>7. Behind(V, b, pos, c)
  <2>1. \A e \in V : ~(b <= e) => e < b
    BY <1>6
  <2>2. c # 0 => pos[c] < b /\ \A e \in V : b <= e \/ e <= pos[c]
    BY <1>4, <1>5, <2>1
  <2>3. c = 0 => \A e \in V : b <= e
    BY <1>5, <2>1
  <2> QED BY <2>2, <2>3 DEF Behind
<1>8. ASSUME c # 0, NEW i \in 1 .. Children, NEW e \in ch[i] \cap V, e <= pos[c]
      PROVE  pos[i] # 0 /\ e <= pos[i]
  <2>1. pos[c] \in Nat /\ pos[c] < b /\ e \in Nat
    BY <1>2, <1>3, <1>4, <1>6, <1>8
  <2>2. e < b
    BY <2>1, <1>8
  <2> QED BY <2>2
<1>9. MergerSound(ch, V, pos, c, "reverse")
  BY <1>2, <1>8 DEF MergerSound
<1> QED BY <1>1, <1>7, <1>9

\* Where a child iterator is put.
LEMMA ChildSeeks ==
    ASSUME ChildInv, NEW i \in 1 .. Children, NEW b \in Nat
    PROVE  /\ After(i, b) \in Nat
           /\ After(i, b) # 0 => After(i, b) \in child[i] /\ After(i, b) > b
           /\ \A e \in child[i] : e > b => After(i, b) # 0 /\ After(i, b) <= e
           /\ From(i, b) \in Nat
           /\ From(i, b) # 0 => From(i, b) \in child[i] /\ From(i, b) >= b
           /\ \A e \in child[i] : e >= b => From(i, b) # 0 /\ From(i, b) <= e
           /\ Under(i, b) \in Nat
           /\ Under(i, b) # 0 => Under(i, b) \in child[i] /\ Under(i, b) < b
           /\ \A e \in child[i] : e < b => Under(i, b) # 0 /\ e <= Under(i, b)
<1>1. /\ EntryTop \in Nat /\ child[i] \subseteq Nat
      /\ \A e \in child[i] : e \in Nat /\ e # 0 /\ e <= EntryTop
  BY EntryFacts
<1>2. /\ After(i, b) \in Nat
      /\ After(i, b) # 0 => After(i, b) \in child[i] /\ After(i, b) > b
      /\ \A e \in child[i] : e > b => After(i, b) # 0 /\ After(i, b) <= e
  <2> DEFINE S == {d \in child[i] : d > b}
  <2>1. S \subseteq Nat /\ \A d \in S : d \in child[i] /\ d > b /\ d # 0
    BY <1>1
  <2>2. \A e \in child[i] : e > b => e \in S
    OBVIOUS
  <2>3. After(i, b) = Lowest(S)
    BY DEF After
  <2> HIDE DEF S
  <2>4. /\ S = {} => Lowest(S) = 0
        /\ S # {} => Lowest(S) \in S /\ \A x \in S : Lowest(S) <= x
        /\ Lowest(S) \in Nat
    BY <2>1, LowestIs
  <2> QED BY <2>1, <2>2, <2>3, <2>4
<1>3. /\ From(i, b) \in Nat
      /\ From(i, b) # 0 => From(i, b) \in child[i] /\ From(i, b) >= b
      /\ \A e \in child[i] : e >= b => From(i, b) # 0 /\ From(i, b) <= e
  <2> DEFINE S == {d \in child[i] : d >= b}
  <2>1. S \subseteq Nat /\ \A d \in S : d \in child[i] /\ d >= b /\ d # 0
    BY <1>1
  <2>2. \A e \in child[i] : e >= b => e \in S
    OBVIOUS
  <2>3. From(i, b) = Lowest(S)
    BY DEF From
  <2> HIDE DEF S
  <2>4. /\ S = {} => Lowest(S) = 0
        /\ S # {} => Lowest(S) \in S /\ \A x \in S : Lowest(S) <= x
        /\ Lowest(S) \in Nat
    BY <2>1, LowestIs
  <2> QED BY <2>1, <2>2, <2>3, <2>4
<1>4. /\ Under(i, b) \in Nat
      /\ Under(i, b) # 0 => Under(i, b) \in child[i] /\ Under(i, b) < b
      /\ \A e \in child[i] : e < b => Under(i, b) # 0 /\ e <= Under(i, b)
  <2> DEFINE S == {d \in child[i] : d < b}
  <2>1. S \subseteq Nat /\ \A d \in S : d \in child[i] /\ d < b /\ d # 0 /\ d <= EntryTop
    BY <1>1
  <2>2. \A e \in child[i] : e < b => e \in S
    OBVIOUS
  <2>3. Under(i, b) = Topmost(S)
    BY DEF Under
  <2> HIDE DEF S
  <2>4. /\ S = {} => Topmost(S) = 0
        /\ S # {} => Topmost(S) \in S /\ \A x \in S : x <= Topmost(S)
        /\ Topmost(S) \in Nat
    BY <2>1, <1>1, TopmostIs
  <2> QED BY <2>1, <2>2, <2>3, <2>4
<1> QED BY <1>2, <1>3, <1>4

\* What the moves of the merging iterator share.
LEMMA VisibleFacts ==
    ASSUME ChildInv
    PROVE  /\ \A i \in 1 .. Children : child[i] \subseteq Nat
           /\ \A e \in Seen : \E i \in 1 .. Children : e \in child[i]
           /\ \A e \in Seen : e \in Nat /\ e # 0 /\ e <= EntryTop
           /\ EntryTop \in Nat
BY EntryFacts

\* Any positions after b that pass over nothing, taken with Forwards.
LEMMA ForwardMoves ==
    ASSUME ChildInv, NEW pos \in [1 .. Children -> Nat], NEW b \in Nat, Forwards(pos),
           \A i \in 1 .. Children : pos[i] # 0 => pos[i] \in child[i] /\ pos[i] > b,
           \A i \in 1 .. Children : \A e \in child[i] \cap Seen :
               e > b => pos[i] # 0 /\ pos[i] <= e
    PROVE  /\ MergerSound(child, Seen, at', current', heading')
           /\ heading' = "forward" /\ Ahead(Seen, b, at', current')
<1>1. at' = pos /\ current' = FindSmallest(pos) /\ heading' = "forward"
  BY DEF Forwards
<1>2. /\ \A i \in 1 .. Children : child[i] \subseteq Nat
      /\ \A e \in Seen : \E i \in 1 .. Children : e \in child[i]
  BY VisibleFacts
<1>3. /\ MergerSound(child, Seen, pos, FindSmallest(pos), "forward")
      /\ Ahead(Seen, b, pos, FindSmallest(pos))
  BY <1>2, StandsForward
<1> QED BY <1>1, <1>3

LEMMA BackwardMoves ==
    ASSUME ChildInv, NEW pos \in [1 .. Children -> Nat], NEW b \in Nat, Backwards(pos),
           \A i \in 1 .. Children : pos[i] # 0 => pos[i] \in child[i] /\ pos[i] < b,
           \A i \in 1 .. Children : \A e \in child[i] \cap Seen :
               e < b => pos[i] # 0 /\ e <= pos[i]
    PROVE  /\ MergerSound(child, Seen, at', current', heading')
           /\ heading' = "reverse" /\ Behind(Seen, b, at', current')
<1>1. at' = pos /\ current' = FindLargest(pos) /\ heading' = "reverse"
  BY DEF Backwards
<1>2. /\ \A i \in 1 .. Children : child[i] \subseteq Nat
      /\ \A e \in Seen : \E i \in 1 .. Children : e \in child[i]
  BY VisibleFacts
<1>3. /\ MergerSound(child, Seen, pos, FindLargest(pos), "reverse")
      /\ Behind(Seen, b, pos, FindLargest(pos))
  BY <1>2, StandsBackward
<1> QED BY <1>1, <1>3

\* MergingIterator::SeekToFirst, ::SeekToLast and ::Seek.
LEMMA SeekToFirstMoves ==
    ASSUME ChildInv, MergerSeekToFirst
    PROVE  /\ MergerSound(child, Seen, at', current', heading')
           /\ heading' = "forward" /\ Ahead(Seen, 0, at', current')
<1> DEFINE pos == [i \in 1 .. Children |-> Lowest(child[i])]
<1>1. ASSUME NEW i \in 1 .. Children
      PROVE  /\ Lowest(child[i]) \in Nat
             /\ Lowest(child[i]) # 0 => Lowest(child[i]) \in child[i] /\ Lowest(child[i]) > 0
             /\ \A e \in child[i] : Lowest(child[i]) # 0 /\ Lowest(child[i]) <= e
  <2>1. child[i] \subseteq Nat /\ \A e \in child[i] : e # 0
    BY EntryFacts
  <2>2. /\ child[i] = {} => Lowest(child[i]) = 0
        /\ child[i] # {} => /\ Lowest(child[i]) \in child[i]
                            /\ \A x \in child[i] : Lowest(child[i]) <= x
        /\ Lowest(child[i]) \in Nat
    BY <2>1, LowestIs
  <2> QED BY <2>1, <2>2
<1>2. pos \in [1 .. Children -> Nat]
  BY <1>1
<1>3. \A i \in 1 .. Children : pos[i] # 0 => pos[i] \in child[i] /\ pos[i] > 0
  BY <1>1
<1>4. \A i \in 1 .. Children : \A e \in child[i] \cap Seen : e > 0 => pos[i] # 0 /\ pos[i] <= e
  BY <1>1
<1>5. Forwards(pos)
  BY DEF MergerSeekToFirst
<1> HIDE DEF pos
<1> QED BY <1>2, <1>3, <1>4, <1>5, ForwardMoves

LEMMA SeekToLastMoves ==
    ASSUME ChildInv, MergerSeekToLast
    PROVE  /\ MergerSound(child, Seen, at', current', heading')
           /\ heading' = "reverse" /\ Behind(Seen, EntryTop + 1, at', current')
<1> DEFINE pos == [i \in 1 .. Children |-> Topmost(child[i])]
           b == EntryTop + 1
<1>0. EntryTop \in Nat /\ b \in Nat
  BY EntryFacts
<1>1. ASSUME NEW i \in 1 .. Children
      PROVE  /\ Topmost(child[i]) \in Nat
             /\ Topmost(child[i]) # 0 => Topmost(child[i]) \in child[i] /\ Topmost(child[i]) < b
             /\ \A e \in child[i] : Topmost(child[i]) # 0 /\ e <= Topmost(child[i])
  <2>1. child[i] \subseteq Nat /\ \A e \in child[i] : e # 0 /\ e <= EntryTop /\ e \in Nat
    BY EntryFacts
  <2>2. /\ child[i] = {} => Topmost(child[i]) = 0
        /\ child[i] # {} => /\ Topmost(child[i]) \in child[i]
                            /\ \A x \in child[i] : x <= Topmost(child[i])
        /\ Topmost(child[i]) \in Nat
    BY <2>1, <1>0, TopmostIs
  <2> QED BY <2>1, <2>2, <1>0
<1>2. pos \in [1 .. Children -> Nat]
  BY <1>1
<1>3. \A i \in 1 .. Children : pos[i] # 0 => pos[i] \in child[i] /\ pos[i] < b
  BY <1>1
<1>4. \A i \in 1 .. Children : \A e \in child[i] \cap Seen : e < b => pos[i] # 0 /\ e <= pos[i]
  BY <1>1
<1>5. Backwards(pos)
  BY DEF MergerSeekToLast
<1> HIDE DEF pos
<1>6. /\ MergerSound(child, Seen, at', current', heading')
      /\ heading' = "reverse" /\ Behind(Seen, b, at', current')
  <2> HIDE DEF b
  <2> QED BY <1>0, <1>2, <1>3, <1>4, <1>5, BackwardMoves
<1> QED BY <1>6

LEMMA SeekMoves ==
    ASSUME ChildInv, NEW p \in Nat \ {0}, MergerSeek(p)
    PROVE  /\ MergerSound(child, Seen, at', current', heading')
           /\ heading' = "forward" /\ Ahead(Seen, p - 1, at', current')
<1> DEFINE pos == [i \in 1 .. Children |-> From(i, p)]
           b == p - 1
<1>0. b \in Nat /\ \A e \in Nat : e > b <=> e >= p
  OBVIOUS
<1>1. ASSUME NEW i \in 1 .. Children
      PROVE  /\ From(i, p) \in Nat
             /\ From(i, p) # 0 => From(i, p) \in child[i] /\ From(i, p) >= p
             /\ \A e \in child[i] : e >= p => From(i, p) # 0 /\ From(i, p) <= e
             /\ child[i] \subseteq Nat
  BY ChildSeeks, VisibleFacts
<1>2. pos \in [1 .. Children -> Nat]
  BY <1>1
<1>3. \A i \in 1 .. Children : pos[i] # 0 => pos[i] \in child[i] /\ pos[i] > b
  BY <1>0, <1>1
<1>4. \A i \in 1 .. Children : \A e \in child[i] \cap Seen : e > b => pos[i] # 0 /\ pos[i] <= e
  BY <1>0, <1>1
<1>5. Forwards(pos)
  BY DEF MergerSeek
<1> HIDE DEF pos
<1>6. /\ MergerSound(child, Seen, at', current', heading')
      /\ heading' = "forward" /\ Ahead(Seen, b, at', current')
  <2> HIDE DEF b
  <2> QED BY <1>0, <1>2, <1>3, <1>4, <1>5, ForwardMoves
<1> QED BY <1>6

\* Where the merging iterator stands.
LEMMA HereFacts ==
    ASSUME ChildInv, MergerInv, current # 0
    PROVE  /\ current \in 1 .. Children /\ Here \in child[current]
           /\ Here \in Entries /\ Here \in Nat /\ Here # 0
           /\ UserKey(Here) \in Nat /\ UserKey(Here) # 0 /\ SequenceOf(Here) \in Nat
<1>1. current \in 1 .. Children /\ at[current] # 0 /\ at[current] \in child[current]
  BY DEF MergerInv, MergerSound
<1>2. at[current] \in Entries
  BY <1>1, EntryFacts
<1> QED BY <1>1, <1>2, EntryFacts DEF Here

\* MergingIterator::Next: whichever way it was heading, it comes to the next entry
\* and passes over none in the snapshot.
LEMMA NextMoves ==
    ASSUME ChildInv, MergerInv, current # 0, MergerNext
    PROVE  /\ MergerSound(child, Seen, at', current', heading')
           /\ heading' = "forward" /\ Ahead(Seen, Here, at', current')
<1> DEFINE turned(i) == i = current \/ heading = "reverse"
           pos == [i \in 1 .. Children |-> IF turned(i) THEN After(i, Here) ELSE at[i]]
<1>0. /\ current \in 1 .. Children /\ Here \in child[current] /\ Here \in Nat
      /\ Here # 0
  BY HereFacts
<1>1. ASSUME NEW i \in 1 .. Children
      PROVE  /\ After(i, Here) \in Nat
             /\ After(i, Here) # 0 => After(i, Here) \in child[i] /\ After(i, Here) > Here
             /\ \A e \in child[i] : e > Here => After(i, Here) # 0 /\ After(i, Here) <= e
  BY <1>0, ChildSeeks
<1>2. ASSUME NEW i \in 1 .. Children, ~turned(i)
      PROVE  /\ at[i] \in Nat
             /\ at[i] # 0 => at[i] \in child[i] /\ at[i] > Here
             /\ \A e \in child[i] \cap Seen : e > Here => at[i] # 0 /\ at[i] <= e
  <2>1. i # current /\ heading # "reverse"
    BY <1>2
  <2>2. /\ at[i] \in Nat /\ (at[i] # 0 => at[i] \in child[i])
    BY DEF MergerInv, MergerSound
  <2>3. heading = "forward"
    BY <2>1 DEF MergerInv, MergerSound
  <2>4. /\ at[i] # 0 => Here <= at[i]
        /\ \A e \in child[i] \cap Seen : e >= Here => at[i] # 0 /\ at[i] <= e
    BY <2>3 DEF MergerInv, MergerSound, Here
  <2>5. at[i] # 0 => at[i] # Here
    BY <2>1, <2>2, <1>0 DEF ChildInv
  <2>6. \A e \in child[i] \cap Seen : e > Here => e >= Here
    BY <1>0, VisibleFacts
  <2> QED BY <1>0, <2>2, <2>4, <2>5, <2>6
<1>3. pos \in [1 .. Children -> Nat]
  BY <1>1, <1>2
<1>4. \A i \in 1 .. Children : pos[i] # 0 => pos[i] \in child[i] /\ pos[i] > Here
  BY <1>1, <1>2
<1>5. \A i \in 1 .. Children : \A e \in child[i] \cap Seen :
          e > Here => pos[i] # 0 /\ pos[i] <= e
  BY <1>1, <1>2
<1>6. Forwards(pos)
  BY DEF MergerNext
<1> HIDE DEF pos
<1> QED BY <1>0, <1>3, <1>4, <1>5, <1>6, ForwardMoves

\* MergingIterator::Prev: a child that is turned stands at the last of its entries
\* before the key, whether or not it has one at or behind it.
LEMMA PrevMoves ==
    ASSUME ChildInv, MergerInv, current # 0, MergerPrev
    PROVE  /\ MergerSound(child, Seen, at', current', heading')
           /\ heading' = "reverse" /\ Behind(Seen, Here, at', current')
<1> DEFINE first(i) == From(i, Here)
           Turned(i) == IF first(i) = 0 THEN Topmost(child[i]) ELSE Under(i, first(i))
           pos == [i \in 1 .. Children |->
                    IF i = current THEN Under(i, Here)
                    ELSE IF heading = "forward" THEN Turned(i) ELSE at[i]]
<1>0. /\ current \in 1 .. Children /\ Here \in child[current] /\ Here \in Nat
      /\ Here # 0
  BY HereFacts
<1>1. ASSUME NEW i \in 1 .. Children
      PROVE  /\ Under(i, Here) \in Nat
             /\ Under(i, Here) # 0 => Under(i, Here) \in child[i] /\ Under(i, Here) < Here
             /\ \A e \in child[i] : e < Here => Under(i, Here) # 0 /\ e <= Under(i, Here)
  BY <1>0, ChildSeeks
<1>2. ASSUME NEW i \in 1 .. Children
      PROVE  /\ Turned(i) \in Nat
             /\ Turned(i) # 0 => Turned(i) \in child[i] /\ Turned(i) < Here
             /\ \A e \in child[i] : e < Here => Turned(i) # 0 /\ e <= Turned(i)
  <2>1. /\ first(i) \in Nat
        /\ first(i) # 0 => first(i) \in child[i] /\ first(i) >= Here
        /\ \A e \in child[i] : e >= Here => first(i) # 0 /\ first(i) <= e
    BY <1>0, ChildSeeks
  <2>2. /\ child[i] \subseteq Nat /\ EntryTop \in Nat
        /\ \A e \in child[i] : e \in Nat /\ e # 0 /\ e <= EntryTop
    BY EntryFacts
  <2>3. CASE first(i) = 0
    <3>1. \A e \in child[i] : e < Here
      BY <1>0, <2>1, <2>2, <2>3
    <3>2. /\ child[i] = {} => Topmost(child[i]) = 0
          /\ child[i] # {} => /\ Topmost(child[i]) \in child[i]
                              /\ \A x \in child[i] : x <= Topmost(child[i])
          /\ Topmost(child[i]) \in Nat
      BY <2>2, TopmostIs
    <3>3. Turned(i) = Topmost(child[i])
      BY <2>3
    <3> HIDE DEF Turned
    <3> QED BY <3>1, <3>2, <3>3, <2>2
  <2>4. CASE first(i) # 0
    <3>1. PICK f \in Nat : f = first(i)
      BY <2>1
    <3>2. /\ Under(i, f) \in Nat
          /\ Under(i, f) # 0 => Under(i, f) \in child[i] /\ Under(i, f) < f
          /\ \A e \in child[i] : e < f => Under(i, f) # 0 /\ e <= Under(i, f)
      BY ChildSeeks
    <3>3. Turned(i) = Under(i, f)
      BY <2>4, <3>1
    <3>4. \A e \in child[i] : e < f <=> e < Here
      BY <1>0, <2>1, <2>2, <2>4, <3>1
    <3> HIDE DEF Turned
    <3> QED BY <3>2, <3>3, <3>4
  <2> QED BY <2>3, <2>4
<1>3. ASSUME NEW i \in 1 .. Children, i # current, heading # "forward"
      PROVE  /\ at[i] \in Nat
             /\ at[i] # 0 => at[i] \in child[i] /\ at[i] < Here
             /\ \A e \in child[i] \cap Seen : e < Here => at[i] # 0 /\ e <= at[i]
  <2>2. /\ at[i] \in Nat /\ (at[i] # 0 => at[i] \in child[i])
    BY DEF MergerInv, MergerSound
  <2>3. heading = "reverse"
    BY <1>3 DEF MergerInv, MergerSound
  <2>4. /\ at[i] # 0 => at[i] <= Here
        /\ \A e \in child[i] \cap Seen : e <= Here => at[i] # 0 /\ e <= at[i]
    BY <2>3 DEF MergerInv, MergerSound, Here
  <2>5. at[i] # 0 => at[i] # Here
    BY <1>3, <2>2, <1>0 DEF ChildInv
  <2>6. \A e \in child[i] \cap Seen : e < Here => e <= Here
    BY <1>0, VisibleFacts
  <2> QED BY <1>0, <2>2, <2>4, <2>5, <2>6
<1>4. pos \in [1 .. Children -> Nat]
  <2> HIDE DEF Turned
  <2> QED BY <1>1, <1>2, <1>3
<1>5. \A i \in 1 .. Children : pos[i] # 0 => pos[i] \in child[i] /\ pos[i] < Here
  <2> HIDE DEF Turned
  <2> QED BY <1>1, <1>2, <1>3
<1>6. \A i \in 1 .. Children : \A e \in child[i] \cap Seen :
          e < Here => pos[i] # 0 /\ e <= pos[i]
  <2> HIDE DEF Turned
  <2> QED BY <1>1, <1>2, <1>3
<1>7. Backwards(pos)
  BY DEF MergerPrev
<1> HIDE DEF pos
<1> QED BY <1>0, <1>4, <1>5, <1>6, <1>7, BackwardMoves

-----------------------------------------------------------------------------
(* What there is to show *)

\* The deletions in the snapshot, and the newest entries of the live keys.
Deleted == Seen \cap removed
NewestOf == [l \in Live |-> Newest(l)]

\* What the loops of the DBIter rest on about the entries V in the snapshot, the
\* deletions D, the live keys L and the newest entry N[l] of each.
ViewSound(V, D, L, N) ==
    /\ \A e \in V : e \in Nat /\ e # 0 /\ UserKey(e) \in Nat /\ UserKey(e) # 0
    /\ L \subseteq Nat /\ \A l \in L : l # 0 /\ l <= UserKeys
    /\ \A l \in L : /\ N[l] \in V \ D /\ UserKey(N[l]) = l
                    /\ \A e \in V : UserKey(e) = l => N[l] <= e
    /\ \A e \in V \ D : (\A d \in V : UserKey(d) = UserKey(e) => e <= d)
                            => UserKey(e) \in L /\ N[UserKey(e)] = e

LEMMA View ==
    ASSUME ChildInv
    PROVE  ViewSound(Seen, Deleted, Live, NewestOf)
<1>1. /\ \A e \in Seen : e \in Nat /\ e # 0 /\ UserKey(e) \in Nat /\ UserKey(e) # 0
      /\ \A e \in Seen : UserKey(e) \in 1 .. UserKeys
  BY EntryFacts DEF Seen, ChildInv
<1>2. Live \subseteq Nat /\ \A l \in Live : l # 0 /\ l <= UserKeys
  BY IteratorAssumption DEF Live
<1>3. \A k : VersionsOf(k) = {e \in Seen : UserKey(e) = k}
  BY DEF VersionsOf, Seen
<1>4. ASSUME NEW k, VersionsOf(k) # {}
      PROVE  Newest(k) \in VersionsOf(k) /\ \A x \in VersionsOf(k) : Newest(k) <= x
  <2>1. VersionsOf(k) \subseteq Nat
    BY <1>1, <1>3
  <2> QED BY <2>1, <1>4, MinIs DEF Newest
<1>5. ASSUME NEW l \in Live
      PROVE  /\ NewestOf[l] \in Seen \ removed /\ UserKey(NewestOf[l]) = l
             /\ \A e \in Seen : UserKey(e) = l => NewestOf[l] <= e
  <2>1. VersionsOf(l) # {} /\ Newest(l) \notin removed
    BY DEF Live, Newest
  <2>2. Newest(l) \in VersionsOf(l) /\ \A x \in VersionsOf(l) : Newest(l) <= x
    BY <2>1, <1>4
  <2>3. NewestOf[l] = Newest(l)
    BY DEF NewestOf
  <2> QED BY <2>1, <2>2, <2>3, <1>3
<1>6. ASSUME NEW e \in Seen \ removed, \A d \in Seen : UserKey(d) = UserKey(e) => e <= d
      PROVE  UserKey(e) \in Live /\ NewestOf[UserKey(e)] = e
  <2> DEFINE k == UserKey(e)
  <2>1. e \in VersionsOf(k) /\ \A d \in VersionsOf(k) : e <= d /\ d \in Nat
    BY <1>1, <1>3, <1>6
  <2>2. Newest(k) \in VersionsOf(k) /\ \A x \in VersionsOf(k) : Newest(k) <= x
    BY <2>1, <1>4
  <2>3. Newest(k) = e
    <3>1. Newest(k) <= e /\ e <= Newest(k) /\ Newest(k) \in Nat /\ e \in Nat
      BY <2>1, <2>2
    <3> QED BY <3>1
  <2>4. k \in Live
    BY <1>1, <2>1, <2>3 DEF Live, Newest
  <2>5. NewestOf[k] = Newest(k)
    BY <2>4 DEF NewestOf
  <2> QED BY <2>3, <2>4, <2>5
<1>7. Seen \ Deleted = Seen \ removed
  BY DEF Deleted
<1> QED BY <1>1, <1>2, <1>5, <1>6, <1>7 DEF ViewSound

-----------------------------------------------------------------------------
(* The DBIter *)

IterType == [open : BOOLEAN, sequence : Nat, loop : {"none", "next", "prev", "leave"},
             direction : {"forward", "reverse"}, valid : BOOLEAN, saved : Nat, value : Nat,
             skipping : BOOLEAN, type : {"deletion", "value"}]

ItInv ==
    /\ it \in IterType
    /\ it.sequence <= LastSequence /\ want \in Nat
    /\ ~it.open => current = 0 /\ it.loop = "none" /\ ~it.valid /\ want = 0

\* FindNextUserEntry: what is wanted is the lowest of the live keys whose newest
\* entry is still ahead and that are not skipped; an older entry of the key here
\* is skipped, and so is all that is ahead under lower keys than the saved one.
NextSound(V, L, N, pos, cur, head, i, w) ==
    /\ i.direction = "forward" /\ head = "forward" /\ cur # 0
    /\ w = Lowest({l \in L : N[l] >= pos[cur] /\ (i.skipping => l > i.saved)})
    /\ \A e \in V : e < pos[cur] /\ UserKey(e) = UserKey(pos[cur])
                        => i.skipping /\ UserKey(e) <= i.saved
    /\ i.skipping => \A e \in V : e >= pos[cur] => UserKey(e) >= i.saved

\* Prev, while it leaves the entries of the key shown.
LeaveSound(L, pos, cur, i, w) ==
    cur # 0 /\ UserKey(pos[cur]) = i.saved /\ w = Topmost({l \in L : l < i.saved})

\* The entry kept is of the key saved, and the merging iterator is right before it.
Kept(V, D, pos, cur, i) ==
    /\ i.value \in V \ D /\ UserKey(i.value) = i.saved
    /\ cur = 0 => \A e \in V : i.value <= e
    /\ cur # 0 => pos[cur] < i.value /\ \A e \in V : e <= pos[cur] \/ i.value <= e

\* FindPrevUserEntry: what is wanted is the highest of the live keys whose newest
\* entry is still behind, the one kept included.
PrevSound(V, D, L, N, pos, cur, head, i, w) ==
    /\ i.direction = "reverse" /\ head = "reverse"
    /\ i.type = "deletion" => w = Topmost({l \in L : cur # 0 /\ N[l] <= pos[cur]})
    /\ i.type = "value" => Kept(V, D, pos, cur, i) /\ w = Topmost({l \in L : N[l] <= i.value})

\* Between calls: the key wanted is shown, forward by the merging iterator and
\* backward by what was kept, the merging iterator then before all of its entries.
ShownSound(V, D, L, N, pos, cur, head, i, w) ==
    /\ i.valid <=> w # 0
    /\ i.valid /\ i.direction = "forward" =>
          /\ cur # 0 /\ head = "forward" /\ w = UserKey(pos[cur])
          /\ w \in L /\ pos[cur] = N[w]
    /\ i.valid /\ i.direction = "reverse" =>
          /\ head = "reverse" /\ Kept(V, D, pos, cur, i) /\ w = i.saved
          /\ w \in L /\ i.value = N[w]
          /\ cur # 0 => UserKey(pos[cur]) < i.saved

LoopSound(V, D, L, N, pos, cur, head, i, w) ==
    /\ i.loop = "next" => NextSound(V, L, N, pos, cur, head, i, w)
    /\ i.loop = "leave" => LeaveSound(L, pos, cur, i, w)
    /\ i.loop = "prev" => PrevSound(V, D, L, N, pos, cur, head, i, w)
    /\ i.loop = "none" => ShownSound(V, D, L, N, pos, cur, head, i, w)

LoopInv == LoopSound(Seen, Deleted, Live, NewestOf, at, current, heading, it, want)

IteratorInv == ChildInv /\ MergerInv /\ ItInv /\ LoopInv

\* It says what the run checks.
LEMMA IteratorImplies == IteratorInv => ShowsWanted
<1> SUFFICES ASSUME IteratorInv, it.open, it.loop = "none"
             PROVE  /\ it.valid <=> want # 0
                    /\ it.valid => KeyShown = want /\ EntryShown = Min(VersionsOf(want))
  BY DEF ShowsWanted
<1>1. ShownSound(Seen, Deleted, Live, NewestOf, at, current, heading, it, want)
  BY DEF IteratorInv, LoopInv, LoopSound
<1>2. it.direction \in {"forward", "reverse"}
  BY DEF IteratorInv, ItInv, IterType
<1>3. ASSUME NEW l \in Live PROVE NewestOf[l] = Min(VersionsOf(l))
  BY DEF NewestOf, Newest
<1>4. it.valid <=> want # 0
  BY <1>1 DEF ShownSound
<1>5. ASSUME it.valid, it.direction = "forward"
      PROVE  KeyShown = want /\ EntryShown = Min(VersionsOf(want))
  <2>1. want = UserKey(Here) /\ want \in Live /\ Here = NewestOf[want]
    BY <1>1, <1>5 DEF ShownSound, Here
  <2> QED BY <2>1, <1>3, <1>5 DEF KeyShown, EntryShown
<1>6. ASSUME it.valid, it.direction = "reverse"
      PROVE  KeyShown = want /\ EntryShown = Min(VersionsOf(want))
  <2>1. want = it.saved /\ want \in Live /\ it.value = NewestOf[want]
    BY <1>1, <1>6 DEF ShownSound
  <2> QED BY <2>1, <1>3, <1>6 DEF KeyShown, EntryShown
<1> QED BY <1>2, <1>4, <1>5, <1>6

\* The keys are in the order of the entries.
LEMMA KeysInOrder ==
    ASSUME NEW d \in Nat, NEW e \in Nat
    PROVE  /\ d <= e => UserKey(d) <= UserKey(e)
           /\ UserKey(d) < UserKey(e) => d < e
<1>1. /\ d <= e => UserKey(d) <= UserKey(e)
      /\ e <= d => UserKey(e) <= UserKey(d)
      /\ UserKey(d) \in Nat /\ UserKey(e) \in Nat
  BY PackedOrder, PackedAgain
<1> QED BY <1>1

\* The entry here is the newest of its key, and nothing wanted is before it.
LEMMA WantedIsHere ==
    ASSUME NEW V, NEW D, NEW L, NEW N, ViewSound(V, D, L, N),
           NEW pos, NEW cur, NEW head, NEW i, NEW w,
           NextSound(V, L, N, pos, cur, head, i, w), i.saved \in Nat, i.skipping \in BOOLEAN,
           pos[cur] \in V \ D, ~(i.skipping /\ UserKey(pos[cur]) <= i.saved)
    PROVE  w = UserKey(pos[cur]) /\ w \in L /\ pos[cur] = N[w] /\ w # 0
<1>1. PICK h : h = pos[cur]
  OBVIOUS
<1>2. PICK k : k = UserKey(h)
  OBVIOUS
<1>3. h \in V \ D /\ h \in Nat /\ k \in Nat /\ k # 0
  BY <1>1, <1>2 DEF ViewSound
<1>4. \A e \in V : e \in Nat
  BY DEF ViewSound
<1>5. \A e \in V : e < h /\ UserKey(e) = k => i.skipping /\ UserKey(e) <= i.saved
  BY <1>1, <1>2 DEF NextSound
<1>6. \A d \in V : UserKey(d) = UserKey(h) => h <= d
  BY <1>1, <1>2, <1>3, <1>4, <1>5
<1>7. k \in L /\ N[k] = h
  BY <1>2, <1>3, <1>6 DEF ViewSound
<1> DEFINE S == {l \in L : N[l] >= h /\ (i.skipping => l > i.saved)}
<1>8. w = Lowest(S)
  BY <1>1 DEF NextSound
<1>9. S \subseteq Nat
  BY DEF ViewSound
<1>10. k \in S
  BY <1>1, <1>2, <1>3, <1>7
<1>11. ASSUME NEW l \in S PROVE k <= l
  <2>1. l \in L /\ N[l] >= h
    OBVIOUS
  <2>2. N[l] \in V /\ UserKey(N[l]) = l
    BY <2>1 DEF ViewSound
  <2>3. N[l] \in Nat
    BY <2>2, <1>4
  <2> QED BY <2>1, <2>2, <2>3, <1>2, <1>3, KeysInOrder
<1>12. w = k
  <2> HIDE DEF S
  <2> QED BY <1>8, <1>9, <1>10, <1>11, LowestIs
<1> QED BY <1>1, <1>2, <1>3, <1>7, <1>12

\* The entry h is not to be shown by the DBIter i, which is j once it is passed.
Passes(V, D, h, i, j) ==
    /\ i.saved \in Nat /\ i.skipping \in BOOLEAN /\ h \in Nat
    /\ ~(h \in V \ D /\ ~(i.skipping /\ UserKey(h) <= i.saved))
    /\ j.skipping \in BOOLEAN /\ j.saved \in Nat /\ j.direction = "forward"
    /\ h \in D /\ h \in V => j.skipping = TRUE /\ j.saved = UserKey(h)
    /\ ~(h \in D /\ h \in V) => j.skipping = i.skipping /\ j.saved = i.saved

\* Then the same keys stay wanted, with the merging iterator at its next entry.
LEMMA NextStays ==
    ASSUME NEW V, NEW D, NEW L, NEW N, ViewSound(V, D, L, N),
           NEW pos, NEW cur, NEW head, NEW i, NEW w,
           NextSound(V, L, N, pos, cur, head, i, w),
           NEW j, Passes(V, D, pos[cur], i, j),
           NEW pos2, NEW cur2, cur2 # 0, pos2[cur2] \in Nat, Ahead(V, pos[cur], pos2, cur2)
    PROVE  NextSound(V, L, N, pos2, cur2, "forward", j, w)
<1>21. /\ i.saved \in Nat /\ i.skipping \in BOOLEAN /\ pos[cur] \in Nat
       /\ ~(pos[cur] \in V \ D /\ ~(i.skipping /\ UserKey(pos[cur]) <= i.saved))
       /\ j.skipping \in BOOLEAN /\ j.saved \in Nat /\ j.direction = "forward"
       /\ pos[cur] \in D /\ pos[cur] \in V => j.skipping = TRUE /\ j.saved = UserKey(pos[cur])
       /\ ~(pos[cur] \in D /\ pos[cur] \in V)
              => j.skipping = i.skipping /\ j.saved = i.saved
  BY DEF Passes
<1>0. PICK g \in Nat : g = pos2[cur2]
  OBVIOUS
<1> SUFFICES
      /\ w = Lowest({l \in L : N[l] >= g /\ (j.skipping => l > j.saved)})
      /\ \A e \in V : e < g /\ UserKey(e) = UserKey(g) => j.skipping /\ UserKey(e) <= j.saved
      /\ j.skipping => \A e \in V : e >= g => UserKey(e) >= j.saved
  BY <1>0, <1>21 DEF NextSound
<1>20. g > pos[cur] /\ \A e \in V : e <= pos[cur] \/ g <= e
  BY <1>0 DEF Ahead
<1>1. PICK h \in Nat : h = pos[cur]
  BY <1>21
<1>2. PICK k \in Nat : k = UserKey(h)
  BY PackedAgain
<1>3. \A e \in V : e \in Nat /\ UserKey(e) \in Nat
  BY DEF ViewSound
<1>4. UserKey(g) \in Nat
  BY PackedAgain
<1>5. /\ w = Lowest({l \in L : N[l] >= h /\ (i.skipping => l > i.saved)})
      /\ \A e \in V : e < h /\ UserKey(e) = k => i.skipping /\ UserKey(e) <= i.saved
      /\ i.skipping => \A e \in V : e >= h => UserKey(e) >= i.saved
  BY <1>1, <1>2 DEF NextSound
<1>6. \A e \in V : (e <= h \/ g <= e) /\ (e <= h => UserKey(e) <= k) /\ (h <= e => k <= UserKey(e))
  BY <1>20, <1>1, <1>2, <1>3, KeysInOrder
<1>7. \A e \in V : (e < g <=> e <= h) /\ (e >= g <=> e > h)
  BY <1>20, <1>1, <1>3, <1>6
<1>8. h <= g /\ k <= UserKey(g)
  BY <1>20, <1>1, <1>2, KeysInOrder
<1>9. CASE h \in V /\ h \in D
  <2>1. j.skipping = TRUE /\ j.saved = k
    BY <1>21, <1>1, <1>2, <1>9
  <2>2. i.skipping => k >= i.saved
    BY <1>5, <1>9, <1>2
  <2>3. ASSUME NEW l \in L
        PROVE  (N[l] >= h /\ (i.skipping => l > i.saved)) <=> (N[l] >= g /\ l > k)
    <3>1. N[l] \in V \ D /\ UserKey(N[l]) = l /\ l \in Nat
      BY DEF ViewSound
    <3>2. N[l] # h /\ N[l] \in Nat
      BY <3>1, <1>9, <1>3
    <3>3. N[l] >= g <=> N[l] > h
      BY <3>1, <1>7
    <3>4. N[l] > h => l > k
      <4>1. l = k => N[l] <= h
        BY <1>9, <1>2 DEF ViewSound
      <4>2. N[l] > h => k <= l
        BY <1>6, <3>1, <3>2
      <4> QED BY <4>1, <4>2, <3>1, <3>2
    <3>5. l > k => (i.skipping => l > i.saved)
      BY <1>21, <2>2, <3>1
    <3> QED BY <3>2, <3>3, <3>4, <3>5
  <2>4. {l \in L : N[l] >= h /\ (i.skipping => l > i.saved)} = {l \in L : N[l] >= g /\ l > k}
    BY <2>3
  <2>5. {l \in L : N[l] >= g /\ (j.skipping => l > j.saved)} = {l \in L : N[l] >= g /\ l > k}
    BY <2>1
  <2>6. \A e \in V : e < g => UserKey(e) <= k
    BY <1>6, <1>7
  <2>7. \A e \in V : e >= g => UserKey(e) >= k
    BY <1>6, <1>7, <1>3
  <2> QED BY <2>1, <2>4, <2>5, <2>6, <2>7, <1>5
<1>10. CASE ~(h \in V /\ h \in D)
  <2>1. j.skipping = i.skipping /\ j.saved = i.saved
    BY <1>21, <1>1, <1>10
  <2>2. h \in V => i.skipping /\ k <= i.saved
    BY <1>21, <1>1, <1>2, <1>10
  <2>3. ASSUME NEW l \in L
        PROVE  (N[l] >= h /\ (i.skipping => l > i.saved))
                   <=> (N[l] >= g /\ (i.skipping => l > i.saved))
    <3>1. N[l] \in V \ D /\ UserKey(N[l]) = l /\ l \in Nat /\ N[l] \in Nat
      BY <1>3 DEF ViewSound
    <3>2. N[l] >= g <=> N[l] > h
      BY <3>1, <1>7
    <3>3. N[l] = h => l = k /\ i.skipping /\ l <= i.saved
      BY <3>1, <2>2, <1>2
    <3> QED BY <1>21, <3>1, <3>2, <3>3
  <2>4. {l \in L : N[l] >= h /\ (i.skipping => l > i.saved)}
            = {l \in L : N[l] >= g /\ (i.skipping => l > i.saved)}
    BY <2>3
  <2>5. ASSUME NEW e \in V, e < g, UserKey(e) = UserKey(g)
        PROVE  i.skipping /\ UserKey(e) <= i.saved
    <3>1. e <= h /\ UserKey(e) = k
      BY <2>5, <1>6, <1>7, <1>8, <1>3, <1>4
    <3>2. CASE e = h
      BY <3>1, <3>2, <2>2
    <3>3. CASE e < h
      BY <3>1, <3>3, <1>5
    <3> QED BY <3>1, <3>2, <3>3, <1>3
  <2>6. i.skipping => \A e \in V : e >= g => UserKey(e) >= i.saved
    BY <1>5, <1>7, <1>3
  <2>7. w = Lowest({l \in L : N[l] >= g /\ (i.skipping => l > i.saved)})
    BY <2>4, <1>5
  <2>8. \A e \in V : e < g /\ UserKey(e) = UserKey(g) => i.skipping /\ UserKey(e) <= i.saved
    BY <2>5
  <2> QED BY <2>1, <2>7, <2>8, <2>6
<1> QED BY <1>9, <1>10

\* With nothing in the snapshot left ahead, no live key was still wanted.
LEMMA NextEnds ==
    ASSUME NEW V, NEW D, NEW L, NEW N, ViewSound(V, D, L, N),
           NEW pos, NEW cur, NEW head, NEW i, NEW w,
           NextSound(V, L, N, pos, cur, head, i, w), i.saved \in Nat, i.skipping \in BOOLEAN,
           pos[cur] \in Nat,
           ~(pos[cur] \in V \ D /\ ~(i.skipping /\ UserKey(pos[cur]) <= i.saved)),
           \A e \in V : e <= pos[cur]
    PROVE  w = 0
<1> DEFINE S == {l \in L : N[l] >= pos[cur] /\ (i.skipping => l > i.saved)}
<1>1. w = Lowest(S)
  BY DEF NextSound
<1>2. ASSUME NEW l \in S PROVE FALSE
  <2>1. l \in L /\ N[l] >= pos[cur] /\ (i.skipping => l > i.saved)
    OBVIOUS
  <2>2. N[l] \in V \ D /\ UserKey(N[l]) = l /\ N[l] \in Nat /\ l \in Nat
    BY <2>1 DEF ViewSound
  <2>3. N[l] = pos[cur]
    BY <2>1, <2>2
  <2>4. pos[cur] \in V \ D /\ UserKey(pos[cur]) = l
    BY <2>2, <2>3
  <2>5. i.skipping /\ UserKey(pos[cur]) <= i.saved
    BY <2>4
  <2> QED BY <2>1, <2>2, <2>4, <2>5
<1>3. S = {}
  BY <1>2
<1> HIDE DEF S
<1> QED BY <1>1, <1>3, LowestIs

\* The entry h does not end the loop back of the DBIter i, which is j once it is
\* passed.
PassesBack(V, D, h, i, j) ==
    /\ i \in IterType /\ j \in IterType /\ h \in Nat /\ j.direction = "reverse"
    /\ ~(h \in V /\ i.type = "value" /\ UserKey(h) < i.saved)
    /\ IF h \in V
       THEN IF h \in D THEN j.type = "deletion"
            ELSE j.type = "value" /\ j.saved = UserKey(h) /\ j.value = h
       ELSE j.type = i.type /\ j.saved = i.saved /\ j.value = i.value

\* Then the same keys stay wanted, with the merging iterator at the entry before.
LEMMA PrevStays ==
    ASSUME NEW V, NEW D, NEW L, NEW N, ViewSound(V, D, L, N),
           NEW pos, NEW cur, NEW head, NEW i, NEW w,
           PrevSound(V, D, L, N, pos, cur, head, i, w), cur # 0,
           NEW j, PassesBack(V, D, pos[cur], i, j),
           NEW pos2, NEW cur2, cur2 # 0 => pos2[cur2] \in Nat, Behind(V, pos[cur], pos2, cur2)
    PROVE  PrevSound(V, D, L, N, pos2, cur2, "reverse", j, w)
<1>20. /\ i \in IterType /\ j \in IterType /\ j.direction = "reverse" /\ pos[cur] \in Nat
       /\ ~(pos[cur] \in V /\ i.type = "value" /\ UserKey(pos[cur]) < i.saved)
       /\ IF pos[cur] \in V
          THEN IF pos[cur] \in D THEN j.type = "deletion"
               ELSE j.type = "value" /\ j.saved = UserKey(pos[cur]) /\ j.value = pos[cur]
          ELSE j.type = i.type /\ j.saved = i.saved /\ j.value = i.value
  BY DEF PassesBack
<1>1. PICK h \in Nat : h = pos[cur]
  BY <1>20
<1>2. \A e \in V : e \in Nat /\ e # 0 /\ UserKey(e) \in Nat
  BY DEF ViewSound
<1>3. \A l \in L : /\ N[l] \in V \ D /\ UserKey(N[l]) = l /\ N[l] \in Nat
                   /\ \A e \in V : UserKey(e) = l => N[l] <= e
  BY <1>2 DEF ViewSound
<1>4. i.type \in {"deletion", "value"} /\ i.saved \in Nat /\ i.value \in Nat
  BY <1>20 DEF IterType
\* What is wanted is the last of the live keys at or behind the entry here, the
\* one kept apart.
<1>5. i.type = "deletion" => w = Topmost({l \in L : N[l] <= h})
  <2>1. {l \in L : cur # 0 /\ N[l] <= pos[cur]} = {l \in L : N[l] <= h}
    BY <1>1
  <2> QED BY <2>1 DEF PrevSound
<1>6. i.type = "value" => /\ Kept(V, D, pos, cur, i) /\ w = Topmost({l \in L : N[l] <= i.value})
                          /\ h < i.value /\ \A e \in V : e <= h \/ i.value <= e
                          /\ i.value \in V \ D /\ UserKey(i.value) = i.saved
  BY <1>1 DEF PrevSound, Kept
<1>7. /\ cur2 # 0 => pos2[cur2] < h /\ \A e \in V : h <= e \/ e <= pos2[cur2]
      /\ cur2 = 0 => \A e \in V : h <= e
  BY <1>1 DEF Behind
\* The entry here is older than none in the snapshot of the key kept.
<1>8. ASSUME h \in V PROVE w = Topmost({l \in L : N[l] <= h})
  <2>1. CASE i.type = "deletion"
    BY <1>5, <2>1
  <2>2. CASE i.type = "value"
    <3>1. UserKey(h) >= i.saved
      BY <1>20, <1>1, <1>2, <1>4, <1>8, <2>2
    <3>2. UserKey(h) <= UserKey(i.value)
      BY <1>4, <1>6, <2>2, KeysInOrder
    <3>3. UserKey(h) = i.saved
      BY <3>1, <3>2, <1>6, <2>2, <1>4, <1>2, <1>8
    <3>4. ASSUME NEW l \in L PROVE N[l] <= i.value <=> N[l] <= h
      <4>1. N[l] \in V /\ N[l] \in Nat /\ UserKey(N[l]) = l
        BY <1>3
      <4>2. N[l] # i.value
        <5>1. N[l] = i.value => l = UserKey(h)
          BY <4>1, <3>3, <1>6, <2>2
        <5>2. l = UserKey(h) => N[l] <= h
          BY <1>3, <1>8
        <5> QED BY <5>1, <5>2, <1>6, <2>2, <1>4
      <4> QED BY <4>1, <4>2, <1>4, <1>6, <2>2
    <3>5. {l \in L : N[l] <= i.value} = {l \in L : N[l] <= h}
      BY <3>4
    <3> QED BY <3>5, <1>6, <2>2
  <2> QED BY <2>1, <2>2, <1>4
<1>9. CASE h \in V /\ h \in D
  <2>1. j.type = "deletion"
    BY <1>20, <1>1, <1>9
  <2>2. ASSUME NEW l \in L PROVE N[l] <= h <=> (cur2 # 0 /\ N[l] <= pos2[cur2])
    <3>1. N[l] \in V /\ N[l] \in Nat /\ N[l] # h
      BY <1>3, <1>9
    <3> QED BY <3>1, <1>7
  <2>3. {l \in L : N[l] <= h} = {l \in L : cur2 # 0 /\ N[l] <= pos2[cur2]}
    BY <2>2
  <2>4. w = Topmost({l \in L : cur2 # 0 /\ N[l] <= pos2[cur2]})
    BY <1>8, <1>9, <2>3
  <2> QED BY <1>20, <2>1, <2>4 DEF PrevSound
<1>10. CASE h \in V /\ h \notin D
  <2>1. j.type = "value" /\ j.saved = UserKey(h) /\ j.value = h
    BY <1>20, <1>1, <1>10
  <2>2. /\ cur2 = 0 => \A e \in V : h <= e
        /\ cur2 # 0 => pos2[cur2] < h /\ \A e \in V : e <= pos2[cur2] \/ h <= e
    BY <1>7
  <2>3. Kept(V, D, pos2, cur2, j)
    BY <2>1, <2>2, <1>10 DEF Kept
  <2>4. w = Topmost({l \in L : N[l] <= j.value})
    BY <1>8, <1>10, <2>1
  <2> QED BY <1>20, <2>1, <2>3, <2>4 DEF PrevSound
<1>11. CASE h \notin V
  <2>1. j.type = i.type /\ j.saved = i.saved /\ j.value = i.value
    BY <1>20, <1>1, <1>11
  <2>2. CASE i.type = "deletion"
    <3>2. ASSUME NEW l \in L PROVE N[l] <= h <=> (cur2 # 0 /\ N[l] <= pos2[cur2])
      <4>1. N[l] \in V /\ N[l] \in Nat /\ N[l] # h
        BY <1>3, <1>11
      <4> QED BY <4>1, <1>7
    <3>3. {l \in L : N[l] <= h} = {l \in L : cur2 # 0 /\ N[l] <= pos2[cur2]}
      BY <3>2
    <3>4. w = Topmost({l \in L : cur2 # 0 /\ N[l] <= pos2[cur2]})
      BY <1>5, <2>2, <3>3
    <3> QED BY <1>20, <2>1, <2>2, <3>4 DEF PrevSound
  <2>3. CASE i.type = "value"
    <3>1. \A e \in V : e # h
      BY <1>11
    <3>2. /\ cur2 = 0 => \A e \in V : i.value <= e
          /\ cur2 # 0 => pos2[cur2] < i.value /\ \A e \in V : e <= pos2[cur2] \/ i.value <= e
      BY <3>1, <1>2, <1>4, <1>6, <1>7, <2>3
    <3>3. Kept(V, D, pos2, cur2, j)
      BY <2>1, <3>2, <1>6, <2>3 DEF Kept
    <3>4. w = Topmost({l \in L : N[l] <= j.value})
      BY <1>6, <2>3, <2>1
    <3> QED BY <1>20, <2>1, <2>3, <3>3, <3>4 DEF PrevSound
  <2> QED BY <2>2, <2>3, <1>4
<1> QED BY <1>9, <1>10, <1>11

\* The loop back ends with the newest entry of the key that is wanted.
LEMMA PrevEnds ==
    ASSUME NEW V, NEW D, NEW L, NEW N, ViewSound(V, D, L, N), UserKeys \in Nat,
           NEW pos, NEW cur, NEW head, NEW i, NEW w,
           PrevSound(V, D, L, N, pos, cur, head, i, w), i \in IterType,
           cur # 0 => pos[cur] \in Nat,
           cur = 0 \/ (i.type = "value" /\ UserKey(pos[cur]) < i.saved)
    PROVE  /\ i.type = "deletion" => w = 0
           /\ i.type = "value" => /\ w = i.saved /\ w \in L /\ i.value = N[w] /\ w # 0
                                  /\ Kept(V, D, pos, cur, i)
<1>1. ASSUME i.type = "deletion" PROVE w = 0
  <2>1. cur = 0
    BY <1>1
  <2>2. {l \in L : cur # 0 /\ N[l] <= pos[cur]} = {}
    BY <2>1
  <2>3. w = Topmost({})
    BY <1>1, <2>2 DEF PrevSound
  <2> QED BY <2>3 DEF Topmost
<1>2. ASSUME i.type = "value"
      PROVE  /\ w = i.saved /\ w \in L /\ i.value = N[w] /\ w # 0
             /\ Kept(V, D, pos, cur, i)
  <2>1. Kept(V, D, pos, cur, i) /\ w = Topmost({l \in L : N[l] <= i.value})
    BY <1>2 DEF PrevSound
  <2>2. PICK v \in Nat : v = i.value
    BY DEF IterType
  <2>3. PICK k \in Nat : k = i.saved
    BY DEF IterType
  <2>4. \A e \in V : e \in Nat /\ UserKey(e) \in Nat /\ UserKey(e) # 0
    BY DEF ViewSound
  <2>5. /\ v \in V \ D /\ UserKey(v) = k
        /\ cur = 0 => \A e \in V : v <= e
        /\ cur # 0 => pos[cur] < v /\ \A e \in V : e <= pos[cur] \/ v <= e
    BY <2>1, <2>2, <2>3 DEF Kept
  <2>6. ASSUME NEW d \in V, UserKey(d) = k PROVE v <= d
    <3>1. CASE cur = 0
      BY <3>1, <2>5
    <3>2. CASE cur # 0
      <4>1. UserKey(pos[cur]) < k /\ pos[cur] \in Nat
        BY <3>2, <2>3
      <4>2. d <= pos[cur] => UserKey(d) <= UserKey(pos[cur])
        BY <4>1, <2>4, KeysInOrder
      <4>3. UserKey(pos[cur]) \in Nat
        BY <4>1, PackedAgain
      <4> QED BY <4>1, <4>2, <4>3, <2>5, <2>6, <3>2
    <3> QED BY <3>1, <3>2
  <2>7. k \in L /\ N[k] = v
    BY <2>5, <2>6 DEF ViewSound
  <2> DEFINE S == {l \in L : N[l] <= v}
  <2>8. S \subseteq Nat /\ \A l \in S : l <= UserKeys
    BY DEF ViewSound
  <2>9. k \in S
    BY <2>2, <2>7
  <2>10. ASSUME NEW l \in S PROVE l <= k
    <3>1. N[l] \in V /\ UserKey(N[l]) = l /\ N[l] <= v
      BY DEF ViewSound
    <3>2. N[l] \in Nat
      BY <3>1, <2>4
    <3> QED BY <3>1, <3>2, <2>5, KeysInOrder
  <2>11. w = Topmost(S)
    BY <2>1, <2>2
  <2>12. w = k
    <3> HIDE DEF S
    <3> QED BY <2>8, <2>9, <2>10, <2>11, TopmostIs
  <2>13. k # 0
    BY <2>5, <2>4
  <2> QED BY <2>1, <2>2, <2>3, <2>7, <2>12, <2>13
<1> QED BY <1>1, <1>2

-----------------------------------------------------------------------------
(* The steps of the DBIter *)

\* What a step that writes nothing sees is what it saw before.
LEMMA SameView ==
    ASSUME UNCHANGED <<child, removed>>, it'.sequence = it.sequence
    PROVE  /\ Seen' = Seen /\ Deleted' = Deleted /\ Live' = Live /\ NewestOf' = NewestOf
           /\ Entries' = Entries /\ LastSequence' = LastSequence
           /\ ChildInv => ChildInv'
<1>1. Entries' = Entries /\ LastSequence' = LastSequence
  BY DEF Entries, LastSequence
<1>2. \A e : UserKey(e)' = UserKey(e) /\ SequenceOf(e)' = SequenceOf(e)
  BY DEF UserKey, SequenceOf
<1>3. Seen' = Seen /\ Deleted' = Deleted
  BY <1>1 DEF Seen, Deleted
<1>4. \A k : VersionsOf(k)' = VersionsOf(k)
  BY <1>1 DEF VersionsOf
<1>5. \A k : Newest(k)' = Newest(k)
  BY <1>4 DEF Newest
<1>6. Live' = Live
  BY <1>4 DEF Live
<1>7. NewestOf' = NewestOf
  BY <1>5, <1>6 DEF NewestOf
<1>8. ChildInv => ChildInv'
  BY <1>1 DEF ChildInv
<1> QED BY <1>1, <1>3, <1>6, <1>7, <1>8

\* The invariant after a step of an open iterator.
LEMMA AfterStep ==
    ASSUME IteratorInv, UNCHANGED <<child, removed>>, it'.sequence = it.sequence,
           it' \in IterType, it'.open, want' \in Nat,
           MergerSound(child, Seen, at', current', heading'),
           LoopSound(Seen, Deleted, Live, NewestOf, at', current', heading', it', want')
    PROVE  IteratorInv'
<1>1. /\ Seen' = Seen /\ Deleted' = Deleted /\ Live' = Live /\ NewestOf' = NewestOf
      /\ LastSequence' = LastSequence /\ ChildInv'
  BY SameView DEF IteratorInv
<1>2. MergerInv'
  BY <1>1 DEF MergerInv
<1>3. LoopInv'
  BY <1>1 DEF LoopInv
<1>4. it.sequence <= LastSequence
  BY DEF IteratorInv, ItInv
<1>5. ItInv'
  BY <1>1, <1>4 DEF ItInv
<1> QED BY <1>1, <1>2, <1>3, <1>5 DEF IteratorInv

\* What the DBIter is after a call has returned, and at the start of a loop.
LEMMA ReturnFields ==
    ASSUME it \in IterType, NEW v \in BOOLEAN, NEW s \in Nat
    PROVE  /\ Return(v, s) \in IterType
           /\ Return(v, s).loop = "none" /\ Return(v, s).valid = v /\ Return(v, s).saved = s
           /\ Return(v, s).open = it.open /\ Return(v, s).sequence = it.sequence
           /\ Return(v, s).direction = it.direction /\ Return(v, s).value = it.value
BY DEF Return, IterType

LEMMA FindNextFields ==
    ASSUME it \in IterType, NEW b \in BOOLEAN, NEW s \in Nat
    PROVE  LET f == FindNextUserEntry(b, s)
           IN  /\ f \in IterType
               /\ f.loop = "next" /\ f.direction = "forward" /\ f.skipping = b /\ f.saved = s
               /\ f.open = it.open /\ f.sequence = it.sequence
BY DEF FindNextUserEntry, IterType

LEMMA FindPrevFields ==
    ASSUME it \in IterType, NEW s \in Nat
    PROVE  LET f == FindPrevUserEntry(s)
           IN  /\ f \in IterType
               /\ f.loop = "prev" /\ f.direction = "reverse" /\ f.type = "deletion" /\ f.saved = s
               /\ f.open = it.open /\ f.sequence = it.sequence
BY DEF FindPrevUserEntry, IterType

LEMMA ClearFields ==
    ASSUME NEW i \in IterType
    PROVE  LET f == ClearSavedValue(i)
           IN  /\ f \in IterType
               /\ f.loop = i.loop /\ f.direction = i.direction /\ f.skipping = i.skipping
               /\ f.saved = i.saved /\ f.type = i.type /\ f.valid = i.valid
               /\ f.open = i.open /\ f.sequence = i.sequence
BY DEF ClearSavedValue, IterType

LEMMA AheadFields ==
    ASSUME NEW i \in IterType
    PROVE  LET f == [i EXCEPT !.direction = "forward"]
           IN  /\ f \in IterType
               /\ f.loop = i.loop /\ f.direction = "forward"
               /\ f.saved = i.saved /\ f.valid = i.valid
               /\ f.open = i.open /\ f.sequence = i.sequence
BY DEF IterType

\* FindNextUserEntry started where nothing wanted is behind: every live key that
\* is wanted has its newest entry ahead of b, and only those do.
LEMMA StartsNext ==
    ASSUME NEW V, NEW D, NEW L, NEW N, ViewSound(V, D, L, N),
           NEW b \in Nat, NEW pos, NEW cur, NEW i, NEW W,
           Ahead(V, b, pos, cur), cur # 0 => pos[cur] \in Nat,
           i.skipping \in BOOLEAN, i.saved \in Nat,
           \A l \in L : l \in W <=> (N[l] > b /\ (i.skipping => l > i.saved)), W \subseteq L
    PROVE  /\ cur = 0 => Lowest(W) = 0
           /\ cur # 0 => Lowest(W) =
                Lowest({l \in L : N[l] >= pos[cur] /\ (i.skipping => l > i.saved)})
<1>1. \A l \in L : N[l] \in V /\ N[l] \in Nat
  BY DEF ViewSound
<1>2. CASE cur = 0
  <2>1. \A l \in L : ~(N[l] > b)
    BY <1>1, <1>2 DEF Ahead
  <2>2. W = {}
    BY <2>1
  <2> QED BY <2>2, <1>2 DEF Lowest
<1>3. CASE cur # 0
  <2>1. pos[cur] > b /\ \A e \in V : e <= b \/ pos[cur] <= e
    BY <1>3 DEF Ahead
  <2>2. \A l \in L : N[l] > b <=> N[l] >= pos[cur]
    BY <1>1, <1>3, <2>1
  <2>3. W = {l \in L : N[l] >= pos[cur] /\ (i.skipping => l > i.saved)}
    BY <2>2
  <2> QED BY <2>3, <1>3
<1> QED BY <1>2, <1>3

LEMMA LiveLowest ==
    ASSUME ChildInv, NEW S, S \subseteq Live
    PROVE  Lowest(S) \in Nat /\ Topmost(S) \in Nat /\ S \subseteq Nat
<1>1. Live \subseteq Nat /\ UserKeys \in Nat /\ \A l \in Live : l <= UserKeys
  BY View, IteratorAssumption DEF ViewSound
<1> QED BY <1>1, LowestIs, TopmostIs

\* A call that finds where the merging iterator is to go on forward from, b.
LEMMA BeginsNext ==
    ASSUME IteratorInv, UNCHANGED <<child, removed>>, it'.sequence = it.sequence,
           it' \in IterType, it'.open,
           MergerSound(child, Seen, at', current', heading'), heading' = "forward",
           NEW b \in Nat, Ahead(Seen, b, at', current'),
           NEW W \in SUBSET Live, want' = Lowest(W),
           it'.loop = "next", it'.direction = "forward", current' # 0,
           \A l \in Live : l \in W <=> (NewestOf[l] > b /\ (it'.skipping => l > it'.saved)),
           \A e \in Seen : e <= b /\ UserKey(e) = UserKey(at'[current'])
                               => it'.skipping /\ UserKey(e) <= it'.saved,
           it'.skipping => \A e \in Seen : e > b => UserKey(e) >= it'.saved
    PROVE  IteratorInv'
<1>1. PICK pos, cur, i : pos = at' /\ cur = current' /\ i = it'
  OBVIOUS
<1>2. ViewSound(Seen, Deleted, Live, NewestOf) /\ ChildInv
  BY View DEF IteratorInv
<1>3. cur # 0 /\ pos[cur] \in Nat
  BY <1>1 DEF MergerSound
<1>4. i.skipping \in BOOLEAN /\ i.saved \in Nat
  BY <1>1 DEF IterType
<1>5. pos[cur] > b /\ \A e \in Seen : e <= b \/ pos[cur] <= e
  BY <1>1, <1>3 DEF Ahead
<1>6. Lowest(W) = Lowest({l \in Live : NewestOf[l] >= pos[cur] /\ (i.skipping => l > i.saved)})
  <2>1. \A l \in Live : l \in W <=> (NewestOf[l] > b /\ (i.skipping => l > i.saved))
    BY <1>1
  <2>2. Ahead(Seen, b, pos, cur)
    BY <1>1
  <2>3. W \subseteq Live
    OBVIOUS
  <2>4. cur # 0 => pos[cur] \in Nat
    BY <1>3
  <2>5. ViewSound(Seen, Deleted, Live, NewestOf)
    BY <1>2
  <2>6. cur # 0 => Lowest(W) =
           Lowest({l \in Live : NewestOf[l] >= pos[cur] /\ (i.skipping => l > i.saved)})
    BY <1>4, <2>1, <2>2, <2>3, <2>4, <2>5, StartsNext
  <2> QED BY <1>3, <2>6
<1>7. \A e \in Seen : e \in Nat
  BY <1>2 DEF ViewSound
<1>8. \A e \in Seen : e < pos[cur] /\ UserKey(e) = UserKey(pos[cur])
                          => i.skipping /\ UserKey(e) <= i.saved
  <2>1. \A e \in Seen : e < pos[cur] => e <= b
    BY <1>3, <1>5, <1>7
  <2> QED BY <2>1, <1>1
<1>9. i.skipping => \A e \in Seen : e >= pos[cur] => UserKey(e) >= i.saved
  <2>1. \A e \in Seen : e >= pos[cur] => e > b
    BY <1>3, <1>5, <1>7
  <2> QED BY <2>1, <1>1
<1>10. NextSound(Seen, Live, NewestOf, at', current', heading', it', want')
  <2>1. want' = Lowest({l \in Live : NewestOf[l] >= pos[cur] /\ (i.skipping => l > i.saved)})
    BY <1>6
  <2> QED BY <2>1, <1>1, <1>3, <1>8, <1>9 DEF NextSound
<1>11. LoopSound(Seen, Deleted, Live, NewestOf, at', current', heading', it', want')
  BY <1>10 DEF LoopSound
<1>12. want' \in Nat
  BY <1>2, LiveLowest
<1> QED BY <1>11, <1>12, AfterStep

\* And one that comes to the end at once.
LEMMA BeginsNowhere ==
    ASSUME IteratorInv, UNCHANGED <<child, removed>>, it'.sequence = it.sequence,
           it' \in IterType, it'.open,
           MergerSound(child, Seen, at', current', heading'),
           NEW b \in Nat, Ahead(Seen, b, at', current'),
           NEW W \in SUBSET Live, want' = Lowest(W),
           it'.loop = "none", it'.valid = FALSE, current' = 0,
           \A l \in W : NewestOf[l] > b
    PROVE  IteratorInv'
<1>1. ViewSound(Seen, Deleted, Live, NewestOf) /\ ChildInv
  BY View DEF IteratorInv
<1>2. \A e \in Seen : e <= b /\ e \in Nat
  BY <1>1 DEF Ahead, ViewSound
<1>3. W = {}
  <2>1. \A l \in W : NewestOf[l] \in Seen
    BY <1>1 DEF ViewSound
  <2> QED BY <2>1, <1>2
<1>4. want' = 0
  BY <1>3 DEF Lowest
<1>5. LoopSound(Seen, Deleted, Live, NewestOf, at', current', heading', it', want')
  BY <1>4 DEF LoopSound, ShownSound
<1> QED BY <1>4, <1>5, AfterStep

\* DBIter::Seek.
LEMMA SeekToStep ==
    ASSUME IteratorInv, NEW k \in 1 .. UserKeys, SeekTo(k)
    PROVE  IteratorInv'
<1> DEFINE q == it.sequence
           p == Packed(k, q)
           b == p - 1
           W == {l \in Live : l >= k}
<1>1. /\ ChildInv /\ it \in IterType /\ it.open /\ q <= LastSequence /\ q \in Nat
      /\ LastSequence \in Nat /\ LastSequence <= MaxPuts
      /\ ViewSound(Seen, Deleted, Live, NewestOf)
  BY View DEF IteratorInv, ItInv, ChildInv, IterType, SeekTo, MayCall
<1>2. k \in Nat \ {0} /\ q \in 0 .. MaxPuts /\ UserKeys \in Nat
  BY <1>1, IteratorAssumption
<1>3. p \in Nat \ {0} /\ UserKey(p) = k
  BY <1>2, Unpacked
<1>4. /\ MergerSound(child, Seen, at', current', heading')
      /\ heading' = "forward" /\ Ahead(Seen, b, at', current')
  <2>1. MergerSeek(p)
    BY DEF SeekTo
  <2> HIDE DEF p
  <2> QED BY <1>1, <1>3, <2>1, SeekMoves
<1>5. \A e \in Nat : e > b <=> (UserKey(e) > k \/ (UserKey(e) = k /\ SequenceOf(e) <= q))
  <2>1. \A e \in Nat : e >= p <=> (UserKey(e) > k \/ (UserKey(e) = k /\ SequenceOf(e) <= q))
    BY <1>2, PackedSeek
  <2> HIDE DEF p
  <2> QED BY <2>1, <1>3
<1>6. b \in Nat
  <2> HIDE DEF p
  <2> QED BY <1>3
<1>7. \A e \in Seen : e \in Nat /\ UserKey(e) \in Nat /\ SequenceOf(e) <= q
  BY <1>1 DEF ViewSound, Seen
<1>8. \A e \in Seen : e > b <=> UserKey(e) >= k
  BY <1>5, <1>7, <1>2
<1>9. \A l \in Live : l \in W <=> NewestOf[l] > b
  <2>1. \A l \in Live : NewestOf[l] \in Seen /\ UserKey(NewestOf[l]) = l
    BY <1>1 DEF ViewSound
  <2> HIDE DEF b
  <2> QED BY <2>1, <1>8
<1>10. UNCHANGED <<child, removed>> /\ want' = Lowest(W) /\ W \in SUBSET Live
  BY DEF SeekTo
<1>11. CASE current' # 0
  <2>1. it' = ClearSavedValue(FindNextUserEntry(FALSE, k))
    BY <1>11 DEF SeekTo
  <2>2. /\ it' \in IterType /\ it'.loop = "next" /\ it'.direction = "forward"
        /\ it'.skipping = FALSE /\ it'.open = it.open /\ it'.sequence = it.sequence
    <3>1. PICK f : f = FindNextUserEntry(FALSE, k)
      OBVIOUS
    <3>2. /\ f \in IterType /\ f.loop = "next" /\ f.direction = "forward"
          /\ f.skipping = FALSE /\ f.open = it.open /\ f.sequence = it.sequence
      BY <1>1, <1>2, <3>1, FindNextFields
    <3>3. it' = ClearSavedValue(f)
      BY <2>1, <3>1
    <3> QED BY <3>2, <3>3, ClearFields
  <2>3. at'[current'] \in Nat /\ at'[current'] > b
    BY <1>4, <1>11 DEF MergerSound, Ahead
  <2>4. UserKey(at'[current']) >= k
    <3>1. PICK h \in Nat : h = at'[current']
      BY <2>3
    <3>2. p <= h
      <4> HIDE DEF p
      <4> QED BY <3>1, <2>3, <1>3
    <3>3. UserKey(p) <= UserKey(h)
      BY <3>2, <1>3, KeysInOrder
    <3> QED BY <3>1, <3>3, <1>3
  <2>5. \A e \in Seen : e <= b /\ UserKey(e) = UserKey(at'[current'])
                               => it'.skipping /\ UserKey(e) <= it'.saved
    <3>1. PICK j : j = UserKey(at'[current'])
      OBVIOUS
    <3>2. \A e \in Seen : ~(e <= b /\ UserKey(e) = j)
      <4> HIDE DEF b
      <4> QED BY <1>6, <1>7, <1>8, <2>4, <3>1, <1>2
    <3> QED BY <3>1, <3>2
  <2> HIDE DEF b, W
  <2>6. \A l \in Live : l \in W <=> (NewestOf[l] > b /\ (it'.skipping => l > it'.saved))
    BY <1>9, <2>2
  <2>7. it'.open
    BY <2>2, <1>1
  <2>8. it'.skipping => \A e \in Seen : e > b => UserKey(e) >= it'.saved
    BY <2>2
  <2> QED BY <1>4, <1>6, <1>10, <1>11, <2>2, <2>5, <2>6, <2>7, <2>8, BeginsNext
<1>12. CASE current' = 0
  <2>1. it' = ClearSavedValue([Return(FALSE, k) EXCEPT !.direction = "forward"])
    BY <1>12 DEF SeekTo
  <2>2. /\ it' \in IterType /\ it'.loop = "none" /\ it'.valid = FALSE
        /\ it'.open = it.open /\ it'.sequence = it.sequence
    <3>1. PICK r : r = Return(FALSE, k)
      OBVIOUS
    <3>2. /\ r \in IterType /\ r.loop = "none" /\ r.valid = FALSE
          /\ r.open = it.open /\ r.sequence = it.sequence
      BY <3>1, <1>1, <1>2, ReturnFields
    <3>3. PICK f : f = [r EXCEPT !.direction = "forward"]
      OBVIOUS
    <3>4. /\ f \in IterType /\ f.loop = "none" /\ f.valid = FALSE
          /\ f.open = it.open /\ f.sequence = it.sequence
      BY <3>2, <3>3, AheadFields
    <3>5. it' = ClearSavedValue(f)
      BY <2>1, <3>1, <3>3
    <3> QED BY <3>4, <3>5, ClearFields
  <2> HIDE DEF b, W
  <2>6. \A l \in W : NewestOf[l] > b
    BY <1>9, <1>10
  <2>7. it'.open
    BY <2>2, <1>1
  <2> QED BY <1>4, <1>6, <1>10, <1>12, <2>2, <2>6, <2>7, BeginsNowhere
<1> QED BY <1>11, <1>12

\* DBIter::SeekToFirst.
LEMMA ToFirstStep ==
    ASSUME IteratorInv, ToFirst
    PROVE  IteratorInv'
<1> DEFINE W == Live
<1>1. /\ ChildInv /\ it \in IterType /\ it.open /\ it.saved \in Nat
      /\ ViewSound(Seen, Deleted, Live, NewestOf)
  BY View DEF IteratorInv, ItInv, IterType, ToFirst, MayCall
<1>2. /\ MergerSound(child, Seen, at', current', heading')
      /\ heading' = "forward" /\ Ahead(Seen, 0, at', current')
  BY <1>1, SeekToFirstMoves DEF ToFirst
<1>3. \A e \in Seen : e \in Nat /\ e # 0 /\ e > 0
  BY <1>1 DEF ViewSound
<1>4. \A l \in Live : NewestOf[l] > 0
  BY <1>1, <1>3 DEF ViewSound
<1>5. UNCHANGED <<child, removed>> /\ want' = Lowest(Live)
  BY DEF ToFirst
<1>6. CASE current' # 0
  <2>1. it' = ClearSavedValue(FindNextUserEntry(FALSE, it.saved))
    BY <1>6 DEF ToFirst
  <2>2. /\ it' \in IterType /\ it'.loop = "next" /\ it'.direction = "forward"
        /\ it'.skipping = FALSE /\ it'.open = it.open /\ it'.sequence = it.sequence
    <3>1. PICK f : f = FindNextUserEntry(FALSE, it.saved)
      OBVIOUS
    <3>2. /\ f \in IterType /\ f.loop = "next" /\ f.direction = "forward"
          /\ f.skipping = FALSE /\ f.open = it.open /\ f.sequence = it.sequence
      BY <1>1, <3>1, FindNextFields
    <3>3. it' = ClearSavedValue(f)
      BY <2>1, <3>1
    <3> QED BY <3>2, <3>3, ClearFields
  <2>3. \A l \in Live : l \in Live <=> (NewestOf[l] > 0 /\ (it'.skipping => l > it'.saved))
    BY <1>4, <2>2
  <2>4. \A e \in Seen : e <= 0 /\ UserKey(e) = UserKey(at'[current'])
                               => it'.skipping /\ UserKey(e) <= it'.saved
    <3>1. \A e \in Seen : ~(e <= 0)
      BY <1>3
    <3> QED BY <3>1
  <2>5. it'.skipping => \A e \in Seen : e > 0 => UserKey(e) >= it'.saved
    BY <2>2
  <2>6. it'.open
    BY <2>2, <1>1
  <2> QED BY <1>2, <1>5, <1>6, <2>2, <2>3, <2>4, <2>5, <2>6, BeginsNext
<1>7. CASE current' = 0
  <2>1. it' = ClearSavedValue([Return(FALSE, it.saved) EXCEPT !.direction = "forward"])
    BY <1>7 DEF ToFirst
  <2>2. /\ it' \in IterType /\ it'.loop = "none" /\ it'.valid = FALSE
        /\ it'.open = it.open /\ it'.sequence = it.sequence
    <3>1. PICK r : r = Return(FALSE, it.saved)
      OBVIOUS
    <3>2. /\ r \in IterType /\ r.loop = "none" /\ r.valid = FALSE
          /\ r.open = it.open /\ r.sequence = it.sequence
      BY <3>1, <1>1, ReturnFields
    <3>3. PICK f : f = [r EXCEPT !.direction = "forward"]
      OBVIOUS
    <3>4. /\ f \in IterType /\ f.loop = "none" /\ f.valid = FALSE
          /\ f.open = it.open /\ f.sequence = it.sequence
      BY <3>2, <3>3, AheadFields
    <3>5. it' = ClearSavedValue(f)
      BY <2>1, <3>1, <3>3
    <3> QED BY <3>4, <3>5, ClearFields
  <2>3. it'.open
    BY <2>2, <1>1
  <2> QED BY <1>2, <1>4, <1>5, <1>7, <2>2, <2>3, BeginsNowhere
<1> QED BY <1>6, <1>7

\* A call, or the end of a loop, that finds where the merging iterator is to go on
\* backward from, b.
LEMMA BeginsPrev ==
    ASSUME IteratorInv, UNCHANGED <<child, removed>>, it'.sequence = it.sequence,
           it' \in IterType, it'.open,
           MergerSound(child, Seen, at', current', heading'), heading' = "reverse",
           NEW b \in Nat, Behind(Seen, b, at', current'),
           NEW W \in SUBSET Live, want' = Topmost(W),
           it'.loop = "prev", it'.direction = "reverse", it'.type = "deletion",
           \A l \in Live : l \in W <=> NewestOf[l] < b
    PROVE  IteratorInv'
<1>1. PICK pos, cur : pos = at' /\ cur = current'
  OBVIOUS
<1>2. ViewSound(Seen, Deleted, Live, NewestOf) /\ ChildInv
  BY View DEF IteratorInv
<1>3. cur # 0 => pos[cur] \in Nat
  BY <1>1 DEF MergerSound
<1>4. /\ cur # 0 => pos[cur] < b /\ \A e \in Seen : b <= e \/ e <= pos[cur]
      /\ cur = 0 => \A e \in Seen : b <= e
  BY <1>1 DEF Behind
<1>5. ASSUME NEW l \in Live PROVE l \in W <=> (cur # 0 /\ NewestOf[l] <= pos[cur])
  <2>1. NewestOf[l] \in Seen /\ NewestOf[l] \in Nat
    BY <1>2 DEF ViewSound
  <2>2. l \in W <=> NewestOf[l] < b
    OBVIOUS
  <2> QED BY <2>1, <2>2, <1>3, <1>4
<1>6. W = {l \in Live : cur # 0 /\ NewestOf[l] <= pos[cur]}
  BY <1>5
<1>7. PrevSound(Seen, Deleted, Live, NewestOf, at', current', heading', it', want')
  <2>1. want' = Topmost({l \in Live : cur # 0 /\ NewestOf[l] <= pos[cur]})
    BY <1>6
  <2> QED BY <2>1, <1>1 DEF PrevSound
<1>8. LoopSound(Seen, Deleted, Live, NewestOf, at', current', heading', it', want')
  BY <1>7 DEF LoopSound
<1>9. want' \in Nat
  BY <1>2, LiveLowest
<1> QED BY <1>8, <1>9, AfterStep

\* DBIter::SeekToLast.
LEMMA ToLastStep ==
    ASSUME IteratorInv, ToLast
    PROVE  IteratorInv'
<1> DEFINE b == EntryTop + 1
<1>1. /\ ChildInv /\ it \in IterType /\ it.open /\ it.saved \in Nat
      /\ ViewSound(Seen, Deleted, Live, NewestOf)
  BY View DEF IteratorInv, ItInv, IterType, ToLast, MayCall
<1>2. /\ MergerSound(child, Seen, at', current', heading')
      /\ heading' = "reverse" /\ Behind(Seen, b, at', current')
  BY <1>1, SeekToLastMoves DEF ToLast
<1>3. b \in Nat /\ \A e \in Seen : e < b
  <2>1. EntryTop \in Nat /\ \A e \in Seen : e \in Nat /\ e <= EntryTop
    BY <1>1, VisibleFacts
  <2> QED BY <2>1
<1>4. \A l \in Live : l \in Live <=> NewestOf[l] < b
  BY <1>1, <1>3 DEF ViewSound
<1>5. UNCHANGED <<child, removed>> /\ want' = Topmost(Live)
  BY DEF ToLast
<1>6. /\ it' \in IterType /\ it'.loop = "prev" /\ it'.direction = "reverse"
      /\ it'.type = "deletion" /\ it'.open = it.open /\ it'.sequence = it.sequence
  <2>1. PICK f : f = FindPrevUserEntry(it.saved)
    OBVIOUS
  <2>2. /\ f \in IterType /\ f.loop = "prev" /\ f.direction = "reverse"
        /\ f.type = "deletion" /\ f.open = it.open /\ f.sequence = it.sequence
    BY <1>1, <2>1, FindPrevFields
  <2>3. it' = ClearSavedValue(f)
    BY <2>1 DEF ToLast
  <2> QED BY <2>2, <2>3, ClearFields
<1>7. it'.open
  BY <1>1, <1>6
<1> HIDE DEF b
<1> QED BY <1>2, <1>3, <1>4, <1>5, <1>6, <1>7, BeginsPrev

\* What a call finds, on a valid iterator.
LEMMA ShownFacts ==
    ASSUME IteratorInv, MayCall, it.valid
    PROVE  /\ ChildInv /\ MergerInv /\ it \in IterType /\ it.open /\ it.saved \in Nat
           /\ it.direction \in {"forward", "reverse"}
           /\ ViewSound(Seen, Deleted, Live, NewestOf)
           /\ it.direction = "forward" =>
                 /\ current # 0 /\ heading = "forward" /\ KeyShown = UserKey(Here)
                 /\ UserKey(Here) \in Live /\ Here = NewestOf[UserKey(Here)]
           /\ it.direction = "reverse" =>
                 /\ heading = "reverse" /\ Kept(Seen, Deleted, at, current, it)
                 /\ KeyShown = it.saved
                 /\ it.saved \in Live /\ it.value = NewestOf[it.saved]
                 /\ current # 0 => UserKey(Here) < it.saved
<1>1. /\ ChildInv /\ MergerInv /\ it \in IterType /\ it.open /\ it.saved \in Nat
      /\ it.direction \in {"forward", "reverse"}
      /\ ViewSound(Seen, Deleted, Live, NewestOf)
  BY View DEF IteratorInv, ItInv, IterType, MayCall
<1>2. ShownSound(Seen, Deleted, Live, NewestOf, at, current, heading, it, want)
  BY DEF IteratorInv, LoopInv, LoopSound, MayCall
<1>3. ASSUME it.direction = "forward"
      PROVE  /\ current # 0 /\ heading = "forward" /\ KeyShown = UserKey(Here)
             /\ UserKey(Here) \in Live /\ Here = NewestOf[UserKey(Here)]
  BY <1>2, <1>3 DEF ShownSound, KeyShown, Here
<1>4. ASSUME it.direction = "reverse"
      PROVE  /\ heading = "reverse" /\ Kept(Seen, Deleted, at, current, it)
             /\ KeyShown = it.saved
             /\ it.saved \in Live /\ it.value = NewestOf[it.saved]
             /\ current # 0 => UserKey(Here) < it.saved
  BY <1>2, <1>4 DEF ShownSound, KeyShown, Here
<1> QED BY <1>1, <1>3, <1>4

\* DBIter::Next, from where a forward move ended: the key shown is skipped.
LEMMA NextForward ==
    ASSUME IteratorInv, NextEntry, it.direction = "forward"
    PROVE  IteratorInv'
<1> DEFINE b == Here - 1
           k == UserKey(Here)
           W == {l \in Live : l > KeyShown}
<1>1. /\ ChildInv /\ MergerInv /\ it \in IterType /\ it.open
      /\ ViewSound(Seen, Deleted, Live, NewestOf)
      /\ current # 0 /\ heading = "forward" /\ KeyShown = k
      /\ k \in Live /\ Here = NewestOf[k]
  BY ShownFacts DEF NextEntry
<1>2. Here \in Nat /\ Here # 0 /\ k \in Nat
  BY <1>1, HereFacts
<1>3. b \in Nat /\ \A e \in Nat : (e > b <=> e >= Here) /\ (e <= b <=> e < Here)
  BY <1>2
<1>4. UNCHANGED <<child, removed, at, current, heading>> /\ want' = Lowest(W)
      /\ it' = FindNextUserEntry(TRUE, k)
  BY DEF NextEntry, mergerVars
<1>5. /\ it' \in IterType /\ it'.loop = "next" /\ it'.direction = "forward"
      /\ it'.skipping = TRUE /\ it'.saved = k /\ it'.open = it.open /\ it'.sequence = it.sequence
  <2> HIDE DEF k
  <2> QED BY <1>1, <1>2, <1>4, FindNextFields
<1>6. \A e \in Seen : e \in Nat /\ UserKey(e) \in Nat
  BY <1>1 DEF ViewSound
<1>7. \A e \in Seen : (Here <= e => k <= UserKey(e)) /\ (k < UserKey(e) => Here < e)
  BY <1>2, <1>6, KeysInOrder
<1>8. Ahead(Seen, b, at', current')
  <2>1. Here > b /\ \A e \in Seen : e <= b \/ Here <= e
    BY <1>2, <1>3, <1>6
  <2> HIDE DEF b
  <2> QED BY <2>1, <1>1, <1>4 DEF Ahead, Here
<1>9. MergerSound(child, Seen, at', current', heading')
  BY <1>1, <1>4 DEF MergerInv
<1>10. \A l \in Live : l \in W <=> (NewestOf[l] > b /\ (it'.skipping => l > it'.saved))
  <2>1. \A l \in Live : NewestOf[l] \in Seen /\ UserKey(NewestOf[l]) = l
    BY <1>1 DEF ViewSound
  <2>2. \A l \in Live : l > k => NewestOf[l] > b
    BY <2>1, <1>6, <1>7, <1>3, <1>2
  <2> HIDE DEF b, k
  <2> QED BY <2>2, <1>1, <1>5
<1>11. \A e \in Seen : e <= b /\ UserKey(e) = UserKey(at'[current'])
                           => it'.skipping /\ UserKey(e) <= it'.saved
  <2>1. UserKey(at'[current']) = k
    BY <1>4 DEF Here
  <2> HIDE DEF k
  <2> QED BY <2>1, <1>2, <1>5, <1>6
<1>12. it'.skipping => \A e \in Seen : e > b => UserKey(e) >= it'.saved
  <2> HIDE DEF b, k
  <2> QED BY <1>2, <1>3, <1>5, <1>6, <1>7
<1>13. it'.open /\ heading' = "forward" /\ current' # 0
  BY <1>1, <1>4, <1>5
<1>14. W \in SUBSET Live
  OBVIOUS
<1> HIDE DEF b, k, W
<1> QED BY <1>3, <1>4, <1>5, <1>8, <1>9, <1>10, <1>11, <1>12, <1>13, <1>14, BeginsNext

\* And from where a backward move ended: the merging iterator comes forward over
\* the entries of the key shown, and the loop skips them.
LEMMA NextBackward ==
    ASSUME IteratorInv, NextEntry, it.direction = "reverse"
    PROVE  IteratorInv'
<1> DEFINE b == IF current = 0 THEN 0 ELSE Here
           k == it.saved
           W == {l \in Live : l > KeyShown}
<1>1. /\ ChildInv /\ MergerInv /\ it \in IterType /\ it.open /\ k \in Nat
      /\ ViewSound(Seen, Deleted, Live, NewestOf)
      /\ Kept(Seen, Deleted, at, current, it) /\ KeyShown = k
      /\ current # 0 => UserKey(Here) < k
  BY ShownFacts DEF NextEntry
<1>2. current # 0 => Here \in Nat /\ UserKey(Here) \in Nat
  BY <1>1, HereFacts
<1>3. \A e \in Seen : e \in Nat /\ e # 0 /\ UserKey(e) \in Nat
  BY <1>1 DEF ViewSound
<1>4. PICK v \in Seen : v = it.value
  BY <1>1 DEF Kept
<1>5. /\ UserKey(v) = k
      /\ current = 0 => \A e \in Seen : v <= e
      /\ current # 0 => Here < v /\ \A e \in Seen : e <= Here \/ v <= e
  BY <1>1, <1>4 DEF Kept, Here
<1>6. b \in Nat /\ v > b /\ \A e \in Seen : e > b => v <= e
  BY <1>2, <1>3, <1>5
<1>7. \A e \in Seen : (v <= e => k <= UserKey(e)) /\ (k < UserKey(e) => v < e)
  BY <1>3, <1>5, KeysInOrder
<1>8. /\ MergerSound(child, Seen, at', current', heading')
      /\ heading' = "forward" /\ Ahead(Seen, b, at', current')
  <2>1. CASE current = 0
    <3>1. MergerSeekToFirst
      BY <2>1 DEF NextEntry
    <3> QED BY <3>1, <2>1, <1>1, SeekToFirstMoves
  <2>2. CASE current # 0
    <3>1. MergerNext
      BY <2>2 DEF NextEntry
    <3> QED BY <3>1, <2>2, <1>1, NextMoves
  <2> QED BY <2>1, <2>2
<1>9. current' # 0
  <2> SUFFICES ASSUME current' = 0 PROVE FALSE
    OBVIOUS
  <2>1. v <= b
    BY <1>8, <1>4 DEF Ahead
  <2> HIDE DEF b
  <2> QED BY <2>1, <1>6, <1>3
<1>10. UNCHANGED <<child, removed>> /\ want' = Lowest(W) /\ it' = FindNextUserEntry(TRUE, k)
  BY <1>9 DEF NextEntry
<1>11. /\ it' \in IterType /\ it'.loop = "next" /\ it'.direction = "forward"
       /\ it'.skipping = TRUE /\ it'.saved = k /\ it'.open = it.open /\ it'.sequence = it.sequence
  BY <1>1, <1>10, FindNextFields
<1>12. \A l \in Live : l \in W <=> (NewestOf[l] > b /\ (it'.skipping => l > it'.saved))
  <2>1. \A l \in Live : NewestOf[l] \in Seen /\ UserKey(NewestOf[l]) = l
    BY <1>1 DEF ViewSound
  <2> HIDE DEF b
  <2>2. \A l \in Live : l > k => NewestOf[l] > b
    BY <2>1, <1>3, <1>6, <1>7
  <2> QED BY <2>2, <1>1, <1>11
<1>13. \A e \in Seen : e <= b /\ UserKey(e) = UserKey(at'[current'])
                           => it'.skipping /\ UserKey(e) <= it'.saved
  <2>1. \A e \in Seen : e <= b => UserKey(e) <= k
    <3>1. CASE current = 0
      BY <3>1, <1>3
    <3>2. CASE current # 0
      <4>1. \A e \in Seen : e <= Here => UserKey(e) <= UserKey(Here)
        BY <3>2, <1>2, <1>3, KeysInOrder
      <4> QED BY <4>1, <3>2, <1>1, <1>2, <1>3
    <3> QED BY <3>1, <3>2
  <2> HIDE DEF b
  <2> QED BY <2>1, <1>11
<1>14. it'.skipping => \A e \in Seen : e > b => UserKey(e) >= it'.saved
  <2> HIDE DEF b
  <2> QED BY <1>3, <1>6, <1>7, <1>11, <1>1
<1>15. it'.open /\ W \in SUBSET Live
  BY <1>1, <1>11
<1> HIDE DEF b, k, W
<1> QED BY <1>6, <1>8, <1>9, <1>10, <1>11, <1>12, <1>13, <1>14, <1>15, BeginsNext

\* DBIter::Prev.
LEMMA PrevEntryStep ==
    ASSUME IteratorInv, PrevEntry
    PROVE  IteratorInv'
<1>1. /\ ChildInv /\ MergerInv /\ it \in IterType /\ it.open /\ it.saved \in Nat
      /\ ViewSound(Seen, Deleted, Live, NewestOf)
      /\ it.direction \in {"forward", "reverse"}
  BY ShownFacts DEF PrevEntry
<1>2. UNCHANGED <<child, removed, at, current, heading>>
      /\ want' = Topmost({l \in Live : l < KeyShown})
  BY DEF PrevEntry, mergerVars
<1>3. MergerSound(child, Seen, at', current', heading')
  BY <1>1, <1>2 DEF MergerInv
<1>4. CASE it.direction = "forward"
  <2>1. current # 0 /\ KeyShown = UserKey(Here)
    BY <1>4, ShownFacts DEF PrevEntry
  <2>2. UserKey(Here) \in Nat
    BY <1>1, <2>1, HereFacts
  <2>3. it' = [it EXCEPT !.loop = "leave", !.saved = UserKey(Here)]
    BY <1>4 DEF PrevEntry
  <2>4. /\ it' \in IterType /\ it'.loop = "leave" /\ it'.saved = UserKey(Here)
        /\ it'.open = it.open /\ it'.sequence = it.sequence
    BY <2>2, <2>3, <1>1 DEF IterType
  <2>5. LeaveSound(Live, at', current', it', want')
    BY <2>1, <2>4, <1>2 DEF LeaveSound, Here
  <2>6. LoopSound(Seen, Deleted, Live, NewestOf, at', current', heading', it', want')
    BY <2>4, <2>5 DEF LoopSound
  <2>7. want' \in Nat
    BY <1>1, <1>2, LiveLowest
  <2> QED BY <2>4, <2>6, <2>7, <1>1, <1>2, <1>3, AfterStep
<1>5. CASE it.direction = "reverse"
  <2> DEFINE k == it.saved
             W == {l \in Live : l < KeyShown}
  <2>1. /\ heading = "reverse" /\ Kept(Seen, Deleted, at, current, it) /\ KeyShown = k
        /\ k \in Live /\ it.value = NewestOf[k]
    BY <1>5, ShownFacts DEF PrevEntry
  <2>2. it' = FindPrevUserEntry(k)
    BY <1>5 DEF PrevEntry
  <2>3. /\ it' \in IterType /\ it'.loop = "prev" /\ it'.direction = "reverse"
        /\ it'.type = "deletion" /\ it'.open = it.open /\ it'.sequence = it.sequence
    BY <1>1, <2>2, FindPrevFields
  <2>4. PICK v \in Seen : v = it.value
    BY <2>1 DEF Kept
  <2>5. \A e \in Seen : e \in Nat /\ e # 0 /\ UserKey(e) \in Nat
    BY <1>1 DEF ViewSound
  <2>6. v \in Nat /\ UserKey(v) = k
    BY <2>1, <2>4, <2>5 DEF Kept
  <2>7. Behind(Seen, v, at', current')
    <3>1. /\ current # 0 => at[current] < v /\ \A e \in Seen : e <= at[current] \/ v <= e
          /\ current = 0 => \A e \in Seen : v <= e
      BY <2>1, <2>4 DEF Kept
    <3> QED BY <3>1, <1>2 DEF Behind
  <2>8. ASSUME NEW l \in Live PROVE l \in W <=> NewestOf[l] < v
    <3>1. NewestOf[l] \in Seen /\ UserKey(NewestOf[l]) = l /\ l \in Nat
      BY <1>1 DEF ViewSound
    <3>2. /\ l < k => NewestOf[l] < v
          /\ NewestOf[l] <= v => l <= k
      BY <3>1, <2>5, <2>6, KeysInOrder
    <3>3. l = k => NewestOf[l] = v
      BY <2>1, <2>4
    <3>4. l \in W <=> l < k
      BY <2>1
    <3>5. NewestOf[l] \in Nat /\ k \in Nat
      BY <3>1, <2>5, <1>1
    <3> HIDE DEF W, k
    <3> QED BY <3>1, <3>2, <3>3, <3>4, <3>5, <2>6
  <2>9. W \in SUBSET Live /\ want' = Topmost(W) /\ it'.open /\ heading' = "reverse"
    BY <1>1, <1>2, <2>1, <2>3
  <2> HIDE DEF W
  <2> QED BY <1>2, <1>3, <2>3, <2>6, <2>7, <2>8, <2>9, BeginsPrev
<1> QED BY <1>1, <1>4, <1>5

\* What the turns of the loops share.
LEMMA TurnFacts ==
    ASSUME IteratorInv, it.loop # "none"
    PROVE  /\ ChildInv /\ MergerInv /\ it \in IterType /\ it.open
           /\ ViewSound(Seen, Deleted, Live, NewestOf) /\ want \in Nat
           /\ it.saved \in Nat /\ it.skipping \in BOOLEAN
           /\ \A e \in Entries : SequenceOf(e) <= it.sequence <=> e \in Seen
           /\ \A e \in Seen : e \in removed <=> e \in Deleted
           /\ LoopSound(Seen, Deleted, Live, NewestOf, at, current, heading, it, want)
BY View DEF IteratorInv, ItInv, IterType, Seen, Deleted, LoopInv

\* The turn of Prev that leaves the entries of the key shown.
LEMMA LeaveTurnStep ==
    ASSUME IteratorInv, LeaveTurn
    PROVE  IteratorInv'
<1> DEFINE k == it.saved
           W == {l \in Live : l < k}
<1>1. /\ ChildInv /\ MergerInv /\ it \in IterType /\ it.open /\ k \in Nat
      /\ ViewSound(Seen, Deleted, Live, NewestOf) /\ want \in Nat
      /\ LoopSound(Seen, Deleted, Live, NewestOf, at, current, heading, it, want)
  BY TurnFacts DEF LeaveTurn
<1>2. current # 0 /\ UserKey(Here) = k /\ want = Topmost(W)
  BY <1>1 DEF LoopSound, LeaveSound, LeaveTurn, Here
<1>3. Here \in Nat
  BY <1>1, <1>2, HereFacts
<1>4. /\ MergerSound(child, Seen, at', current', heading')
      /\ heading' = "reverse" /\ Behind(Seen, Here, at', current')
  BY <1>1, <1>2, PrevMoves DEF LeaveTurn
<1>5. UNCHANGED <<child, removed, want>>
  BY DEF LeaveTurn
<1>6. \A e \in Seen : e \in Nat /\ UserKey(e) \in Nat
  BY <1>1 DEF ViewSound
<1>7. \A l \in Live : NewestOf[l] \in Seen /\ UserKey(NewestOf[l]) = l /\ l \in Nat
  BY <1>1 DEF ViewSound
<1>8. \A l \in Live : l < k => NewestOf[l] < Here
  BY <1>2, <1>3, <1>6, <1>7, KeysInOrder
<1>9. CASE current' = 0
  <2>1. \A e \in Seen : Here <= e
    BY <1>4, <1>9 DEF Behind
  <2>2. W = {}
    BY <2>1, <1>3, <1>6, <1>7, <1>8
  <2>3. want' = 0
    BY <2>2, <1>2, <1>5 DEF Topmost
  <2>4. PICK r : r = Return(FALSE, 0)
    OBVIOUS
  <2>5. /\ r \in IterType /\ r.loop = "none" /\ r.valid = FALSE
        /\ r.open = it.open /\ r.sequence = it.sequence
    BY <1>1, <2>4, ReturnFields
  <2>6. it' = ClearSavedValue(r)
    BY <1>9, <2>4 DEF LeaveTurn
  <2>7. /\ it' \in IterType /\ it'.loop = "none" /\ it'.valid = FALSE
        /\ it'.open = it.open /\ it'.sequence = it.sequence
    BY <2>5, <2>6, ClearFields
  <2>8. LoopSound(Seen, Deleted, Live, NewestOf, at', current', heading', it', want')
    BY <2>3, <2>7 DEF LoopSound, ShownSound
  <2> QED BY <1>1, <1>4, <1>5, <2>3, <2>7, <2>8, AfterStep
<1>10. CASE current' # 0
  <2>1. PICK g \in Nat : g = at'[current']
    BY <1>4, <1>10 DEF MergerSound
  <2>2. g < Here /\ \A e \in Seen : Here <= e \/ e <= g
    BY <1>4, <1>10, <2>1 DEF Behind
  <2>3. UserKey(g) \in Nat /\ UserKey(g) <= k
    BY <2>1, <2>2, <1>2, <1>3, KeysInOrder, PackedAgain
  <2>4. CASE UserKey(g) < k
    <3>1. it' = FindPrevUserEntry(k)
      BY <1>10, <2>1, <2>4 DEF LeaveTurn
    <3>2. /\ it' \in IterType /\ it'.loop = "prev" /\ it'.direction = "reverse"
          /\ it'.type = "deletion" /\ it'.open = it.open /\ it'.sequence = it.sequence
      BY <1>1, <3>1, FindPrevFields
    <3>3. ASSUME NEW l \in Live PROVE l \in W <=> NewestOf[l] < Here
      <4>1. NewestOf[l] < Here => NewestOf[l] <= g
        BY <2>2, <1>3, <1>6, <1>7
      <4>2. NewestOf[l] <= g => l <= UserKey(g)
        BY <2>1, <1>6, <1>7, KeysInOrder
      <4>3. l \in W <=> l < k
        OBVIOUS
      <4> QED BY <4>1, <4>2, <4>3, <2>3, <2>4, <1>1, <1>7, <1>8
    <3>4. W \in SUBSET Live /\ want' = Topmost(W) /\ it'.open
      BY <1>1, <1>2, <1>5, <3>2
    <3> HIDE DEF W
    <3> QED BY <1>3, <1>4, <1>5, <3>2, <3>3, <3>4, BeginsPrev
  <2>5. CASE ~(UserKey(g) < k)
    <3>1. it' = it
      BY <1>10, <2>1, <2>5 DEF LeaveTurn
    <3>2. UserKey(g) = k
      BY <2>3, <2>5, <1>1
    <3>3. LeaveSound(Live, at', current', it', want')
      BY <1>2, <1>5, <1>10, <2>1, <3>1, <3>2 DEF LeaveSound
    <3>4. it'.loop = "leave"
      BY <3>1 DEF LeaveTurn
    <3>5. LoopSound(Seen, Deleted, Live, NewestOf, at', current', heading', it', want')
      BY <3>3, <3>4 DEF LoopSound
    <3> QED BY <1>1, <1>4, <1>5, <3>1, <3>5, AfterStep
  <2> QED BY <2>4, <2>5
<1> QED BY <1>9, <1>10

\* A turn of FindNextUserEntry.
LEMMA NextTurnStep ==
    ASSUME IteratorInv, NextTurn
    PROVE  IteratorInv'
<1> DEFINE hid == it.skipping /\ UserKey(Here) <= it.saved
           seen == SequenceOf(Here) <= it.sequence
           shows == seen /\ Here \notin removed /\ ~hid
<1>1. /\ ChildInv /\ MergerInv /\ it \in IterType /\ it.open
      /\ ViewSound(Seen, Deleted, Live, NewestOf) /\ want \in Nat
      /\ it.saved \in Nat /\ it.skipping \in BOOLEAN
      /\ \A e \in Entries : SequenceOf(e) <= it.sequence <=> e \in Seen
      /\ \A e \in Seen : e \in removed <=> e \in Deleted
      /\ LoopSound(Seen, Deleted, Live, NewestOf, at, current, heading, it, want)
  BY TurnFacts DEF NextTurn
<1>2. NextSound(Seen, Live, NewestOf, at, current, heading, it, want)
  BY <1>1 DEF LoopSound, NextTurn
<1>3. current # 0 /\ heading = "forward" /\ it.direction = "forward"
  BY <1>2 DEF NextSound
<1>4. Here \in Entries /\ Here \in Nat /\ UserKey(Here) \in Nat /\ Here = at[current]
  BY <1>1, <1>3, HereFacts DEF Here
<1>5. seen <=> Here \in Seen
  BY <1>1, <1>4
<1>6. shows <=> Here \in Seen \ Deleted /\ ~hid
  BY <1>1, <1>5
<1>7. UNCHANGED <<child, removed, want>>
  BY DEF NextTurn
<1>8. CASE shows
  <2>1. it' = Return(TRUE, 0) /\ UNCHANGED <<at, current, heading>>
    BY <1>8 DEF NextTurn, mergerVars
  <2>2. /\ it' \in IterType /\ it'.loop = "none" /\ it'.valid = TRUE
        /\ it'.open = it.open /\ it'.sequence = it.sequence /\ it'.direction = it.direction
    BY <1>1, <2>1, ReturnFields
  <2>3. at[current] \in Seen \ Deleted /\ ~(it.skipping /\ UserKey(at[current]) <= it.saved)
    BY <1>4, <1>6, <1>8
  <2>4. /\ want = UserKey(at[current]) /\ want \in Live
        /\ at[current] = NewestOf[want] /\ want # 0
    BY <1>1, <1>2, <2>3, WantedIsHere
  <2>5. ShownSound(Seen, Deleted, Live, NewestOf, at', current', heading', it', want')
    BY <1>3, <1>7, <2>1, <2>2, <2>4 DEF ShownSound
  <2>6. LoopSound(Seen, Deleted, Live, NewestOf, at', current', heading', it', want')
    BY <2>2, <2>5 DEF LoopSound
  <2>7. MergerSound(child, Seen, at', current', heading')
    BY <1>1, <2>1 DEF MergerInv
  <2> QED BY <1>1, <1>7, <2>2, <2>6, <2>7, AfterStep
<1>9. CASE ~shows
  <2>1. /\ MergerNext
        /\ it' = IF current' = 0 THEN Return(FALSE, 0)
                 ELSE IF seen /\ Here \in removed
                 THEN [it EXCEPT !.skipping = TRUE, !.saved = UserKey(Here)]
                 ELSE it
    BY <1>9 DEF NextTurn
  <2>2. /\ MergerSound(child, Seen, at', current', heading')
        /\ heading' = "forward" /\ Ahead(Seen, Here, at', current')
    BY <1>1, <1>3, <2>1, NextMoves
  <2>3. ~(at[current] \in Seen \ Deleted /\ ~hid)
    BY <1>4, <1>6, <1>9
  <2>4. hid \in BOOLEAN /\ (hid <=> (it.skipping /\ UserKey(at[current]) <= it.saved))
    BY <1>1, <1>4
  <2>5. CASE current' = 0
    <3>1. \A e \in Seen : e <= at[current]
      BY <2>2, <2>5, <1>4 DEF Ahead
    <3>2. ~(at[current] \in Seen \ Deleted /\ ~(it.skipping /\ UserKey(at[current]) <= it.saved))
      BY <2>3, <2>4
    <3>3. want = 0
      <4> HIDE DEF hid
      <4> QED BY <1>1, <1>2, <1>4, <3>1, <3>2, NextEnds
    <3>4. it' = Return(FALSE, 0)
      BY <2>1, <2>5
    <3>5. /\ it' \in IterType /\ it'.loop = "none" /\ it'.valid = FALSE
          /\ it'.open = it.open /\ it'.sequence = it.sequence
      BY <1>1, <3>4, ReturnFields
    <3>6. LoopSound(Seen, Deleted, Live, NewestOf, at', current', heading', it', want')
      BY <3>3, <3>5, <1>7 DEF LoopSound, ShownSound
    <3> QED BY <1>1, <1>7, <2>2, <3>5, <3>6, AfterStep
  <2>6. CASE current' # 0
    <3>1. PICK g \in Nat : g = at'[current']
      BY <2>2, <2>6 DEF MergerSound
    <3>3. /\ it' \in IterType /\ it'.loop = it.loop /\ it'.direction = it.direction
          /\ it'.open = it.open /\ it'.sequence = it.sequence
          /\ it'.skipping \in BOOLEAN /\ it'.saved \in Nat
          /\ IF seen /\ Here \in removed THEN it'.skipping = TRUE /\ it'.saved = UserKey(Here)
             ELSE it'.skipping = it.skipping /\ it'.saved = it.saved
      <4>1. CASE seen /\ Here \in removed
        <5>1. it' = [it EXCEPT !.skipping = TRUE, !.saved = UserKey(Here)]
          BY <2>1, <2>6, <4>1
        <5>2. /\ it' \in IterType /\ it'.loop = it.loop /\ it'.direction = it.direction
              /\ it'.open = it.open /\ it'.sequence = it.sequence
              /\ it'.skipping = TRUE /\ it'.saved = UserKey(Here)
          <6> HIDE DEF seen
          <6> QED BY <5>1, <1>1, <1>4 DEF IterType
        <5> HIDE DEF seen
        <5> QED BY <4>1, <5>2, <1>4
      <4>2. CASE ~(seen /\ Here \in removed)
        <5>1. it' = it
          BY <2>1, <2>6, <4>2
        <5> HIDE DEF seen
        <5> QED BY <4>2, <5>1, <1>1
      <4> QED BY <4>1, <4>2
    <3>4. PICK j : j = it'
      OBVIOUS
    <3>5. /\ at[current] \in Deleted /\ at[current] \in Seen
              => j.skipping = TRUE /\ j.saved = UserKey(at[current])
          /\ ~(at[current] \in Deleted /\ at[current] \in Seen)
              => j.skipping = it.skipping /\ j.saved = it.saved
      <4>1. seen /\ Here \in removed <=> at[current] \in Deleted /\ at[current] \in Seen
        BY <1>1, <1>4, <1>5
      <4>2. CASE seen /\ Here \in removed
        <5>1. it'.skipping = TRUE /\ it'.saved = UserKey(Here)
          BY <3>3, <4>2
        <5> QED BY <5>1, <4>1, <4>2, <3>4, <1>4
      <4>3. CASE ~(seen /\ Here \in removed)
        <5>1. it'.skipping = it.skipping /\ it'.saved = it.saved
          BY <3>3, <4>3
        <5> QED BY <5>1, <4>1, <4>3, <3>4
      <4> QED BY <4>2, <4>3
    <3>6. PICK pos2, cur2 : pos2 = at' /\ cur2 = current'
      OBVIOUS
    <3>7. NextSound(Seen, Live, NewestOf, at', current', heading', it', want')
      <4>1. j.skipping \in BOOLEAN /\ j.saved \in Nat /\ j.direction = "forward"
        BY <3>3, <3>4, <1>3
      <4>2. ~(at[current] \in Seen \ Deleted
                /\ ~(it.skipping /\ UserKey(at[current]) <= it.saved))
        BY <2>3, <2>4
      <4>3. /\ ViewSound(Seen, Deleted, Live, NewestOf) /\ it.saved \in Nat
            /\ it.skipping \in BOOLEAN /\ at[current] \in Nat
        BY <1>1, <1>4
      <4>6. Passes(Seen, Deleted, at[current], it, j)
        <5> HIDE DEF hid
        <5> QED BY <3>5, <4>1, <4>2, <4>3 DEF Passes
      <4>4. cur2 # 0 /\ pos2[cur2] \in Nat /\ Ahead(Seen, at[current], pos2, cur2)
        BY <2>2, <2>6, <3>1, <3>6, <1>4
      <4>5. NextSound(Seen, Live, NewestOf, pos2, cur2, "forward", j, want)
        BY <1>1, <1>2, <4>4, <4>6, NextStays
      <4> QED BY <4>5, <3>4, <3>6, <2>2, <1>7
    <3>8. it'.loop = "next"
      BY <3>3 DEF NextTurn
    <3>9. LoopSound(Seen, Deleted, Live, NewestOf, at', current', heading', it', want')
      BY <3>7, <3>8 DEF LoopSound
    <3> QED BY <1>1, <1>7, <2>2, <3>3, <3>9, AfterStep
  <2> QED BY <2>5, <2>6
<1> QED BY <1>8, <1>9

\* A turn of FindPrevUserEntry.
LEMMA PrevTurnStep ==
    ASSUME IteratorInv, PrevTurn
    PROVE  IteratorInv'
<1> DEFINE seen == SequenceOf(Here) <= it.sequence
           ends == current = 0 \/ (seen /\ it.type = "value" /\ UserKey(Here) < it.saved)
<1>1. /\ ChildInv /\ MergerInv /\ it \in IterType /\ it.open
      /\ ViewSound(Seen, Deleted, Live, NewestOf) /\ want \in Nat
      /\ it.saved \in Nat /\ it.skipping \in BOOLEAN
      /\ \A e \in Entries : SequenceOf(e) <= it.sequence <=> e \in Seen
      /\ \A e \in Seen : e \in removed <=> e \in Deleted
      /\ LoopSound(Seen, Deleted, Live, NewestOf, at, current, heading, it, want)
  BY TurnFacts DEF PrevTurn
<1>2. PrevSound(Seen, Deleted, Live, NewestOf, at, current, heading, it, want)
  BY <1>1 DEF LoopSound, PrevTurn
<1>3. heading = "reverse" /\ it.direction = "reverse" /\ it.type \in {"deletion", "value"}
  BY <1>1, <1>2 DEF PrevSound, IterType
<1>4. current # 0 => Here \in Entries /\ Here \in Nat /\ UserKey(Here) \in Nat
  BY <1>1, HereFacts
<1>5. Here = at[current] /\ (current # 0 => (seen <=> Here \in Seen))
  BY <1>1, <1>4 DEF Here
<1>6. UNCHANGED <<child, removed, want>>
  BY DEF PrevTurn
<1>7. CASE ends
  <2>1. /\ UNCHANGED <<at, current, heading>>
        /\ it' = IF it.type = "value" THEN Return(TRUE, it.saved)
                 ELSE ClearSavedValue([Return(FALSE, 0) EXCEPT !.direction = "forward"])
    BY <1>7 DEF PrevTurn, mergerVars
  <2>2. MergerSound(child, Seen, at', current', heading')
    BY <1>1, <2>1 DEF MergerInv
  <2>3. /\ current # 0 => at[current] \in Nat
        /\ current = 0 \/ (it.type = "value" /\ UserKey(at[current]) < it.saved)
    BY <1>4, <1>5, <1>7
  <2>4. UserKeys \in Nat
    BY IteratorAssumption
  <2> HIDE DEF ends, seen
  <2>5. /\ it.type = "deletion" => want = 0
        /\ it.type = "value" => /\ want = it.saved /\ want \in Live
                                /\ it.value = NewestOf[want] /\ want # 0
                                /\ Kept(Seen, Deleted, at, current, it)
    BY <1>1, <1>2, <2>3, <2>4, PrevEnds
  <2>6. CASE it.type = "value"
    <3>1. it' = Return(TRUE, it.saved)
      BY <2>1, <2>6
    <3>2. /\ it' \in IterType /\ it'.loop = "none" /\ it'.valid = TRUE /\ it'.saved = it.saved
          /\ it'.open = it.open /\ it'.sequence = it.sequence
          /\ it'.direction = it.direction /\ it'.value = it.value
      BY <1>1, <3>1, ReturnFields
    <3>3. Kept(Seen, Deleted, at', current', it')
      BY <2>1, <2>5, <2>6, <3>2 DEF Kept
    <3>4. ShownSound(Seen, Deleted, Live, NewestOf, at', current', heading', it', want')
      <4>1. it'.direction = "reverse" /\ heading' = "reverse" /\ it'.valid = TRUE
        BY <1>3, <2>1, <3>2
      <4>2. want' = it'.saved /\ want' \in Live /\ it'.value = NewestOf[want'] /\ want' # 0
        BY <1>6, <2>5, <2>6, <3>2
      <4>3. current' # 0 => UserKey(at'[current']) < it'.saved
        BY <2>1, <2>3, <3>2
      <4> QED BY <3>3, <4>1, <4>2, <4>3 DEF ShownSound
    <3>5. LoopSound(Seen, Deleted, Live, NewestOf, at', current', heading', it', want')
      BY <3>2, <3>4 DEF LoopSound
    <3> QED BY <1>1, <1>6, <2>2, <3>2, <3>5, AfterStep
  <2>7. CASE it.type = "deletion"
    <3>1. PICK r : r = Return(FALSE, 0)
      OBVIOUS
    <3>2. /\ r \in IterType /\ r.loop = "none" /\ r.valid = FALSE
          /\ r.open = it.open /\ r.sequence = it.sequence
      BY <3>1, <1>1, ReturnFields
    <3>3. PICK f : f = [r EXCEPT !.direction = "forward"]
      OBVIOUS
    <3>4. /\ f \in IterType /\ f.loop = "none" /\ f.valid = FALSE
          /\ f.open = it.open /\ f.sequence = it.sequence
      BY <3>2, <3>3, AheadFields
    <3>5. it' = ClearSavedValue(f)
      <4>1. it' = ClearSavedValue([Return(FALSE, 0) EXCEPT !.direction = "forward"])
        BY <2>1, <2>7
      <4> QED BY <4>1, <3>1, <3>3
    <3>6. /\ it' \in IterType /\ it'.loop = "none" /\ it'.valid = FALSE
          /\ it'.open = it.open /\ it'.sequence = it.sequence
      BY <3>4, <3>5, ClearFields
    <3>7. want' = 0
      BY <1>6, <2>5, <2>7
    <3>8. LoopSound(Seen, Deleted, Live, NewestOf, at', current', heading', it', want')
      BY <3>6, <3>7 DEF LoopSound, ShownSound
    <3> QED BY <1>1, <1>6, <2>2, <3>6, <3>8, AfterStep
  <2> QED BY <1>3, <2>6, <2>7
<1>8. CASE ~ends
  <2>1. /\ MergerPrev
        /\ it' = IF ~seen THEN it
                 ELSE IF Here \in removed
                 THEN [it EXCEPT !.type = "deletion", !.saved = 0, !.value = 0]
                 ELSE [it EXCEPT !.type = "value", !.saved = UserKey(Here), !.value = Here]
    BY <1>8 DEF PrevTurn
  <2>2. current # 0 /\ (seen <=> Here \in Seen) /\ Here \in Nat /\ UserKey(Here) \in Nat
    BY <1>4, <1>5, <1>8
  <2>3. /\ MergerSound(child, Seen, at', current', heading')
        /\ heading' = "reverse" /\ Behind(Seen, Here, at', current')
    BY <1>1, <2>1, <2>2, PrevMoves
  <2>4. /\ it' \in IterType /\ it'.loop = it.loop /\ it'.direction = it.direction
        /\ it'.open = it.open /\ it'.sequence = it.sequence
        /\ IF Here \in Seen
           THEN IF Here \in Deleted THEN it'.type = "deletion"
                ELSE it'.type = "value" /\ it'.saved = UserKey(Here) /\ it'.value = Here
           ELSE it'.type = it.type /\ it'.saved = it.saved /\ it'.value = it.value
    <3>1. CASE ~seen
      <4>1. it' = it /\ Here \notin Seen
        BY <2>1, <2>2, <3>1
      <4> HIDE DEF seen
      <4> QED BY <4>1, <1>1
    <3>2. CASE seen /\ Here \in removed
      <4>1. it' = [it EXCEPT !.type = "deletion", !.saved = 0, !.value = 0]
        BY <2>1, <3>2
      <4>2. Here \in Seen /\ Here \in Deleted
        BY <2>2, <3>2, <1>1
      <4>3. /\ it' \in IterType /\ it'.loop = it.loop /\ it'.direction = it.direction
            /\ it'.open = it.open /\ it'.sequence = it.sequence /\ it'.type = "deletion"
        BY <4>1, <1>1 DEF IterType
      <4> QED BY <4>2, <4>3
    <3>3. CASE seen /\ Here \notin removed
      <4>1. it' = [it EXCEPT !.type = "value", !.saved = UserKey(Here), !.value = Here]
        BY <2>1, <3>3
      <4>2. Here \in Seen /\ Here \notin Deleted
        BY <2>2, <3>3, <1>1
      <4>3. /\ it' \in IterType /\ it'.loop = it.loop /\ it'.direction = it.direction
            /\ it'.open = it.open /\ it'.sequence = it.sequence /\ it'.type = "value"
            /\ it'.saved = UserKey(Here) /\ it'.value = Here
        <5> HIDE DEF seen
        <5> QED BY <4>1, <1>1, <2>2 DEF IterType
      <4> QED BY <4>2, <4>3
    <3> QED BY <3>1, <3>2, <3>3
  <2>5. PICK pos2, cur2, j : pos2 = at' /\ cur2 = current' /\ j = it'
    OBVIOUS
  <2>6. cur2 # 0 => pos2[cur2] \in Nat
    BY <2>3, <2>5 DEF MergerSound
  <2>7. PassesBack(Seen, Deleted, at[current], it, j)
    <3>1. ~(Here \in Seen /\ it.type = "value" /\ UserKey(Here) < it.saved)
      BY <1>8, <2>2
    <3> HIDE DEF ends, seen
    <3> QED BY <1>1, <1>3, <1>5, <2>2, <2>4, <2>5, <3>1 DEF PassesBack
  <2>8. PrevSound(Seen, Deleted, Live, NewestOf, pos2, cur2, "reverse", j, want)
    <3>1. Behind(Seen, at[current], pos2, cur2)
      BY <2>3, <2>5, <1>5
    <3> HIDE DEF ends, seen
    <3> QED BY <1>1, <1>2, <2>2, <2>6, <2>7, <3>1, PrevStays
  <2>9. PrevSound(Seen, Deleted, Live, NewestOf, at', current', heading', it', want')
    BY <2>8, <2>5, <2>3, <1>6
  <2>10. it'.loop = "prev"
    BY <2>4 DEF PrevTurn
  <2>11. LoopSound(Seen, Deleted, Live, NewestOf, at', current', heading', it', want')
    BY <2>9, <2>10 DEF LoopSound
  <2> QED BY <1>1, <1>6, <2>3, <2>4, <2>11, AfterStep
<1> QED BY <1>7, <1>8

\* What is written while an iterator is open is not in its snapshot.
LEMMA PutStep ==
    ASSUME IteratorInv, NEW i \in 1 .. Children, NEW k \in 1 .. UserKeys, NEW del \in BOOLEAN,
           Put(i, k, del)
    PROVE  IteratorInv'
<1> DEFINE n == LastSequence + 1
           e == Packed(k, n)
<1>1. /\ ChildInv /\ MergerInv /\ ItInv /\ LoopInv
      /\ LastSequence \in Nat /\ LastSequence < MaxPuts /\ MaxPuts \in Nat
      /\ it \in IterType /\ it.sequence <= LastSequence /\ it.sequence \in Nat
      /\ child \in [1 .. Children -> SUBSET Nat] /\ IsFiniteSet(Entries)
  BY IteratorAssumption DEF IteratorInv, ChildInv, ItInv, IterType, Put
<1>2. e \in Nat /\ UserKey(e) = k /\ SequenceOf(e) = n
  <2>1. k \in Nat \ {0} /\ n \in 0 .. MaxPuts
    BY <1>1, IteratorAssumption
  <2> HIDE DEF n
  <2> QED BY <2>1, Unpacked
<1>3. /\ child' = [child EXCEPT ![i] = @ \cup {e}]
      /\ removed' = removed \/ removed' = removed \cup {e}
      /\ UNCHANGED <<at, current, heading, it, want>>
  BY DEF Put, mergerVars
<1> HIDE DEF e
<1>4. \A j \in 1 .. Children : child'[j] = child[j] \cup (IF j = i THEN {e} ELSE {})
  BY <1>1, <1>3
<1>5. Entries' = Entries \cup {e}
  BY <1>4 DEF Entries
<1>6. e \notin Entries /\ e \notin Seen
  <2>1. e \in Entries => SequenceOf(e) <= LastSequence
    BY <1>1 DEF ChildInv
  <2> QED BY <2>1, <1>1, <1>2, EntryFacts
<1>7. IsFiniteSet(Entries') /\ LastSequence' = n
  BY <1>1, <1>5, <1>6, FS_AddElement DEF LastSequence
<1>8. ChildInv'
  <2>1. child' \in [1 .. Children -> SUBSET Nat]
    BY <1>1, <1>2, <1>3
  <2>2. LastSequence' \in Nat /\ LastSequence' <= MaxPuts
    BY <1>1, <1>7
  <2>3. ASSUME NEW d \in Entries'
        PROVE  UserKey(d) \in 1 .. UserKeys /\ SequenceOf(d) \in 1 .. LastSequence'
    <3>1. CASE d = e
      BY <3>1, <1>1, <1>2, <1>7
    <3>2. CASE d \in Entries
      <4>1. UserKey(d) \in 1 .. UserKeys /\ SequenceOf(d) \in 1 .. LastSequence
        BY <1>1, <3>2 DEF ChildInv
      <4> QED BY <4>1, <1>1, <1>7
    <3> QED BY <3>1, <3>2, <1>5
  <2>4. \A a, b \in 1 .. Children : a # b => child'[a] \cap child'[b] = {}
    <3>1. \A a, b \in 1 .. Children : a # b => child[a] \cap child[b] = {}
      BY <1>1 DEF ChildInv
    <3>2. \A a \in 1 .. Children : e \notin child[a]
      BY <1>1, <1>6, EntryFacts
    <3> QED BY <3>1, <3>2, <1>4
  <2>5. \A d : UserKey(d)' = UserKey(d) /\ SequenceOf(d)' = SequenceOf(d)
    BY DEF UserKey, SequenceOf
  <2> QED BY <1>7, <2>1, <2>2, <2>3, <2>4, <2>5 DEF ChildInv
<1>9. Seen' = Seen
  <2>1. ~(SequenceOf(e) <= it.sequence)
    BY <1>1, <1>2
  <2> QED BY <2>1, <1>3, <1>5 DEF Seen
<1>10. Deleted' = Deleted
  BY <1>3, <1>6, <1>9 DEF Deleted
<1>11. \A l : VersionsOf(l) = {d \in Seen : UserKey(d) = l}
  BY DEF VersionsOf, Seen
<1>12. \A l : VersionsOf(l)' = VersionsOf(l)
  <2>1. \A l : VersionsOf(l)' = {d \in Seen' : UserKey(d) = l}
    BY DEF VersionsOf, Seen
  <2> QED BY <2>1, <1>9, <1>11
<1>13. ASSUME NEW l, VersionsOf(l) # {} PROVE Min(VersionsOf(l)) # e
  <2>1. VersionsOf(l) \subseteq Seen /\ VersionsOf(l) \subseteq Nat
    BY <1>1, <1>11, VisibleFacts
  <2>2. Min(VersionsOf(l)) \in VersionsOf(l)
    BY <1>13, <2>1, MinIs
  <2> QED BY <1>6, <2>1, <2>2
<1>14. Live' = Live
  BY <1>3, <1>12, <1>13 DEF Live
<1>15. NewestOf' = NewestOf
  <2>1. \A l : Newest(l)' = Newest(l)
    BY <1>12 DEF Newest
  <2> QED BY <2>1, <1>14 DEF NewestOf
<1>16. LoopInv'
  BY <1>1, <1>3, <1>9, <1>10, <1>14, <1>15 DEF LoopInv
<1>17. MergerInv'
  <2>1. MergerSound(child, Seen, at, current, heading)
    BY <1>1 DEF MergerInv
  <2>2. \A j \in 1 .. Children : child'[j] \cap Seen = child[j] \cap Seen
    BY <1>4, <1>6
  <2>3. \A j \in 1 .. Children : at[j] \in child[j] => at[j] \in child'[j]
    BY <1>4
  <2>4. MergerSound(child', Seen, at, current, heading)
    BY <2>1, <2>2, <2>3 DEF MergerSound
  <2> QED BY <2>4, <1>3, <1>9 DEF MergerInv
<1>18. ItInv'
  <2>1. it'.sequence <= LastSequence'
    BY <1>1, <1>3, <1>7
  <2>2. it' \in IterType /\ want' \in Nat
    BY <1>1, <1>3 DEF ItInv
  <2>3. ~it'.open => current' = 0 /\ it'.loop = "none" /\ ~it'.valid /\ want' = 0
    BY <1>1, <1>3 DEF ItInv
  <2> QED BY <2>1, <2>2, <2>3 DEF ItInv
<1> QED BY <1>8, <1>16, <1>17, <1>18 DEF IteratorInv

\* DBImpl::NewIterator.
LEMMA NewIteratorStep ==
    ASSUME IteratorInv, NEW s \in Max({0, LastSequence - MaxBehind}) .. LastSequence,
           NewIterator(s)
    PROVE  IteratorInv'
<1>1. /\ ChildInv /\ MergerInv /\ ItInv /\ LoopInv /\ it \in IterType
      /\ LastSequence \in Nat /\ MaxBehind \in Nat
      /\ current = 0 /\ it.loop = "none" /\ ~it.valid /\ want = 0
  BY IteratorAssumption DEF IteratorInv, ItInv, ChildInv, NewIterator
<1>2. s \in Nat /\ s <= LastSequence
  <2> DEFINE a == LastSequence - MaxBehind
  <2>1. a \in Int
    BY <1>1
  <2>2. \E x \in {0, a} : \A y \in {0, a} : x >= y
    <3> HIDE DEF a
    <3>1. CASE a <= 0
      BY <2>1, <3>1
    <3>2. CASE a >= 0
      BY <2>1, <3>2
    <3> QED BY <2>1, <3>1, <3>2
  <2>3. Max({0, a}) \in {0, a} /\ Max({0, a}) >= 0
    <3> HIDE DEF a
    <3> QED BY <2>2 DEF Max
  <2>4. PICK m \in Int : m = Max({0, a}) /\ m >= 0
    BY <2>1, <2>3
  <2>5. s \in m .. LastSequence
    BY <2>4
  <2> QED BY <2>4, <2>5, <1>1
<1>3. /\ it' = [it EXCEPT !.open = TRUE, !.sequence = s]
      /\ UNCHANGED <<child, removed, at, current, heading, want>>
  BY DEF NewIterator, mergerVars
<1>4. /\ it' \in IterType /\ it'.open = TRUE /\ it'.sequence = s /\ it'.loop = it.loop
      /\ it'.valid = it.valid
  BY <1>1, <1>2, <1>3 DEF IterType
<1>5. Entries' = Entries /\ LastSequence' = LastSequence
  BY <1>3 DEF Entries, LastSequence
<1>6. ChildInv'
  BY <1>1, <1>3, <1>5 DEF ChildInv, UserKey, SequenceOf
<1>7. MergerInv'
  <2>1. MergerSound(child, Seen, at, current, heading)
    BY <1>1 DEF MergerInv
  <2>2. MergerSound(child, Seen', at, current, heading)
    BY <2>1, <1>1 DEF MergerSound
  <2> QED BY <2>2, <1>3 DEF MergerInv
<1>8. LoopInv'
  <2>1. it'.loop = "none" /\ it'.valid = FALSE /\ want' = 0
    BY <1>1, <1>3, <1>4 DEF IterType
  <2> QED BY <2>1 DEF LoopInv, LoopSound, ShownSound
<1>9. ItInv'
  BY <1>1, <1>2, <1>3, <1>4, <1>5 DEF ItInv
<1> QED BY <1>6, <1>7, <1>8, <1>9 DEF IteratorInv

LEMMA IteratorInitially == IteratorInit => IteratorInv
<1> SUFFICES ASSUME IteratorInit PROVE IteratorInv
  OBVIOUS
<1>1. Entries = {} /\ Seen = {}
  BY DEF IteratorInit, Entries, Seen
<1>2. IsFiniteSet(Entries) /\ LastSequence = 0
  BY <1>1, FS_EmptySet DEF LastSequence
<1>3. MaxPuts \in Nat
  BY IteratorAssumption
<1>4. ChildInv
  BY <1>1, <1>2, <1>3 DEF ChildInv, IteratorInit
<1>5. MergerInv
  BY DEF MergerInv, MergerSound, IteratorInit
<1>6. ItInv
  BY <1>2 DEF ItInv, IterType, IteratorInit
<1>7. LoopInv
  BY DEF LoopInv, LoopSound, ShownSound, IteratorInit
<1> QED BY <1>4, <1>5, <1>6, <1>7 DEF IteratorInv

LEMMA IteratorStep == IteratorInv /\ [IteratorNext]_iterVars => IteratorInv'
<1> SUFFICES ASSUME IteratorInv, [IteratorNext]_iterVars PROVE IteratorInv'
  OBVIOUS
<1>1. ASSUME NEW i \in 1 .. Children, NEW k \in 1 .. UserKeys, NEW del \in BOOLEAN, Put(i, k, del)
      PROVE  IteratorInv'
  BY <1>1, PutStep
<1>2. ASSUME NEW s \in Max({0, LastSequence - MaxBehind}) .. LastSequence, NewIterator(s)
      PROVE  IteratorInv'
  BY <1>2, NewIteratorStep
<1>3. ASSUME NEW k \in 1 .. UserKeys, SeekTo(k) PROVE IteratorInv'
  BY <1>3, SeekToStep
<1>4. CASE ToFirst
  BY <1>4, ToFirstStep
<1>5. CASE ToLast
  BY <1>5, ToLastStep
<1>6. CASE NextEntry
  <2>1. it.direction \in {"forward", "reverse"}
    BY DEF IteratorInv, ItInv, IterType
  <2> QED BY <1>6, <2>1, NextForward, NextBackward
<1>7. CASE PrevEntry
  BY <1>7, PrevEntryStep
<1>8. CASE LeaveTurn
  BY <1>8, LeaveTurnStep
<1>9. CASE NextTurn
  BY <1>9, NextTurnStep
<1>10. CASE PrevTurn
  BY <1>10, PrevTurnStep
<1>11. CASE UNCHANGED iterVars
  <2>1. UNCHANGED <<child, removed, at, current, heading, it, want>>
    BY <1>11 DEF iterVars, mergerVars
  <2>2. /\ Seen' = Seen /\ Deleted' = Deleted /\ Live' = Live /\ NewestOf' = NewestOf
        /\ LastSequence' = LastSequence /\ (ChildInv => ChildInv')
    BY <2>1, SameView
  <2>3. MergerInv' /\ ItInv' /\ LoopInv'
    BY <2>1, <2>2 DEF IteratorInv, MergerInv, ItInv, LoopInv
  <2> QED BY <2>2, <2>3 DEF IteratorInv
<1> QED BY <1>1, <1>2, <1>3, <1>4, <1>5, <1>6, <1>7, <1>8, <1>9, <1>10, <1>11
        DEF IteratorNext, IteratorCalls

\* For any number of keys, entries and children, and any calls in either direction
\* between any writes, an iterator ends each call at the live key that is next in
\* its direction, with its newest entry in the snapshot (db/db_iter.cc over
\* table/merger.cc).
THEOREM IteratorsCorrect == IteratorSpec => []ShowsWanted
<1>1. IteratorInit => IteratorInv
  BY IteratorInitially
<1>2. IteratorInv /\ [IteratorNext]_iterVars => IteratorInv'
  BY IteratorStep
<1>3. IteratorInv => ShowsWanted
  BY IteratorImplies
<1> QED BY <1>1, <1>2, <1>3, PTL DEF IteratorSpec
-----------------------------------------------------------------------------
(* The cache: lists *)

\* The list holds what is in S, each once.
Lines(list, S) ==
    /\ list \in Seq(Nat)
    /\ \A i \in 1 .. Len(list) : list[i] \in S
    /\ \A e \in S : \E i \in 1 .. Len(list) : list[i] = e
    /\ \A i, j \in 1 .. Len(list) : list[i] = list[j] => i = j

LEMMA LinesSet ==
    ASSUME NEW list, NEW S, Lines(list, S)
    PROVE  ToSet(list) = S
<1>1. DOMAIN list = 1 .. Len(list)
  BY LenProperties DEF Lines
<1> QED BY <1>1 DEF Lines, ToSet

LEMMA LinesFirst ==
    ASSUME NEW list, NEW S, Lines(list, S), list # <<>>
    PROVE  Head(list) \in S
<1>1. Len(list) \in Nat \ {0} /\ Head(list) = list[1]
  BY EmptySeq DEF Lines
<1> QED BY <1>1 DEF Lines

LEMMA LinesAppend ==
    ASSUME NEW list, NEW S, Lines(list, S), NEW e \in Nat, e \notin S
    PROVE  Lines(Append(list, e), S \cup {e})
<1>1. PICK more : more = Append(list, e)
  OBVIOUS
<1>2. list \in Seq(Nat) /\ Len(list) \in Nat
  BY LenProperties DEF Lines
<1>3. /\ more \in Seq(Nat) /\ Len(more) = Len(list) + 1
      /\ \A i \in 1 .. Len(list) : more[i] = list[i]
      /\ more[Len(list) + 1] = e
  BY <1>1, <1>2, AppendProperties
<1>4. \A i \in 1 .. Len(more) : i \in 1 .. Len(list) \/ i = Len(list) + 1
  BY <1>2, <1>3
<1>5. \A i \in 1 .. Len(list) : i \in 1 .. Len(more)
  BY <1>2, <1>3
<1>6. Len(list) + 1 \in 1 .. Len(more)
  BY <1>2, <1>3
<1>7. \A i \in 1 .. Len(more) : more[i] \in S \cup {e}
  BY <1>3, <1>4 DEF Lines
<1>8. \A d \in S \cup {e} : \E i \in 1 .. Len(more) : more[i] = d
  BY <1>3, <1>5, <1>6 DEF Lines
<1>9. ASSUME NEW i \in 1 .. Len(more), NEW j \in 1 .. Len(more), more[i] = more[j]
      PROVE  i = j
  <2>1. \A k \in 1 .. Len(list) : more[k] # e
    BY <1>3 DEF Lines
  <2> QED BY <1>3, <1>4, <1>9, <2>1 DEF Lines
<1> QED BY <1>1, <1>3, <1>7, <1>8, <1>9 DEF Lines

\* What is left of a list without its place k.
LEMMA WithoutPlace ==
    ASSUME NEW list \in Seq(Nat), NEW k \in 1 .. Len(list)
    PROVE  /\ RemoveAt(list, k) \in Seq(Nat) /\ Len(RemoveAt(list, k)) = Len(list) - 1
           /\ \A i \in 1 .. Len(list) - 1 :
                 RemoveAt(list, k)[i] = IF i < k THEN list[i] ELSE list[i + 1]
<1>1. Len(list) \in Nat /\ k \in Nat
  BY LenProperties
<1>2. PICK a, b : a = SubSeq(list, 1, k - 1) /\ b = SubSeq(list, k + 1, Len(list))
  OBVIOUS
<1>3. /\ a \in Seq(Nat) /\ Len(a) = k - 1
      /\ \A i \in 1 .. k - 1 : a[i] = list[i]
  <2>1. \A i \in 1 .. k - 1 : list[i] \in Nat
    BY <1>1, ElementOfSeq
  <2>2. /\ a \in Seq(Nat) /\ Len(a) = (IF 1 <= k - 1 THEN (k - 1) - 1 + 1 ELSE 0)
        /\ \A i \in 1 .. (k - 1) - 1 + 1 : a[i] = list[1 + i - 1]
    BY <1>1, <1>2, <2>1, SubSeqProperties
  <2> QED BY <1>1, <2>2
<1>4. /\ b \in Seq(Nat) /\ Len(b) = Len(list) - k
      /\ \A i \in 1 .. Len(list) - k : b[i] = list[k + i]
  <2>1. \A i \in k + 1 .. Len(list) : list[i] \in Nat
    BY <1>1, ElementOfSeq
  <2>2. PICK m, n : m = k + 1 /\ n = Len(list)
    OBVIOUS
  <2>m. m \in Int /\ n \in Int /\ b = SubSeq(list, m, n) /\ \A i \in m .. n : list[i] \in Nat
    BY <1>1, <1>2, <2>1, <2>2
  <2>n. /\ b \in Seq(Nat) /\ Len(b) = (IF m <= n THEN n - m + 1 ELSE 0)
        /\ \A i \in 1 .. n - m + 1 : b[i] = list[m + i - 1]
    BY <2>m, SubSeqProperties
  <2>3. \A i \in 1 .. Len(list) - k : m + i - 1 = k + i
    BY <1>1, <2>2
  <2>4. n - m + 1 = Len(list) - k /\ (m <= n <=> k # Len(list))
    BY <1>1, <2>2
  <2>5. Len(b) = Len(list) - k
    BY <1>1, <2>n, <2>4
  <2>6. ASSUME NEW i \in 1 .. Len(list) - k PROVE b[i] = list[k + i]
    <3>1. i \in 1 .. n - m + 1
      BY <2>4
    <3>2. b[i] = list[m + i - 1]
      BY <2>n, <3>1
    <3> QED BY <2>3, <3>2
  <2> QED BY <2>n, <2>5, <2>6
<1>5. RemoveAt(list, k) = a \o b
  BY <1>2 DEF RemoveAt
<1>6. /\ a \o b \in Seq(Nat) /\ Len(a \o b) = (k - 1) + (Len(list) - k)
      /\ \A i \in 1 .. (k - 1) + (Len(list) - k) :
            (a \o b)[i] = IF i <= k - 1 THEN a[i] ELSE b[i - (k - 1)]
  <2>1. /\ a \o b \in Seq(Nat) /\ Len(a \o b) = Len(a) + Len(b)
        /\ \A i \in 1 .. Len(a) + Len(b) :
              (a \o b)[i] = IF i <= Len(a) THEN a[i] ELSE b[i - Len(a)]
    BY <1>3, <1>4, ConcatProperties
  <2>2. Len(a) = k - 1 /\ Len(b) = Len(list) - k
    BY <1>3, <1>4
  <2> QED BY <2>1, <2>2
<1>7. ASSUME NEW i \in 1 .. Len(list) - 1
      PROVE  (a \o b)[i] = IF i < k THEN list[i] ELSE list[i + 1]
  <2>1. i \in 1 .. (k - 1) + (Len(list) - k)
    BY <1>1
  <2>2. CASE i < k
    BY <1>1, <1>3, <1>6, <2>1, <2>2
  <2>3. CASE ~(i < k)
    <3>1. i - (k - 1) \in 1 .. Len(list) - k /\ k + (i - (k - 1)) = i + 1 /\ ~(i <= k - 1)
      BY <1>1, <2>3
    <3> QED BY <1>4, <1>6, <2>1, <2>3, <3>1
  <2> QED BY <2>2, <2>3
<1> QED BY <1>1, <1>5, <1>6, <1>7

LEMMA LinesUnlinked ==
    ASSUME NEW list, NEW S, Lines(list, S), NEW e
    PROVE  Lines(Unlinked(list, e), S \ {e})
<1>1. list \in Seq(Nat) /\ Len(list) \in Nat /\ DOMAIN list = 1 .. Len(list) /\ ToSet(list) = S
  BY LenProperties, LinesSet DEF Lines
<1>2. CASE e \notin S
  BY <1>1, <1>2 DEF Unlinked, Lines
<1>3. CASE e \in S
  <2>1. PICK k : k \in 1 .. Len(list) /\ list[k] = e /\ Unlinked(list, e) = RemoveAt(list, k)
    <3>1. \E i \in DOMAIN list : list[i] = e
      BY <1>1, <1>3 DEF Lines
    <3> QED BY <1>1, <1>3, <3>1 DEF Unlinked
  <2>2. PICK less : less = RemoveAt(list, k)
    OBVIOUS
  <2>3. /\ less \in Seq(Nat) /\ Len(less) = Len(list) - 1
        /\ \A i \in 1 .. Len(list) - 1 : less[i] = IF i < k THEN list[i] ELSE list[i + 1]
    BY <1>1, <2>1, <2>2, WithoutPlace
  <2>4. \A i \in 1 .. Len(less) : i \in Nat /\ i \in 1 .. Len(list) /\ i + 1 \in 1 .. Len(list)
    BY <1>1, <2>3
  <2>5. ASSUME NEW i \in 1 .. Len(less) PROVE less[i] \in S \ {e}
    <3>1. CASE i < k
      <4>1. i # k /\ i \in 1 .. Len(list) /\ less[i] = list[i]
        BY <2>1, <2>3, <2>4, <3>1
      <4> QED BY <2>1, <4>1 DEF Lines
    <3>2. CASE ~(i < k)
      <4>1. i + 1 # k
        BY <2>1, <2>4, <3>2
      <4> QED BY <1>1, <2>1, <2>3, <2>4, <3>2, <4>1 DEF Lines
    <3> QED BY <3>1, <3>2
  <2>6. ASSUME NEW d \in S \ {e} PROVE \E i \in 1 .. Len(less) : less[i] = d
    <3>1. PICK j \in 1 .. Len(list) : list[j] = d
      BY DEF Lines
    <3>2. j # k /\ j \in Nat /\ k \in Nat
      BY <1>1, <2>1, <3>1
    <3>3. CASE j < k
      <4>1. j \in 1 .. Len(less) /\ j \in 1 .. Len(list) - 1
        BY <1>1, <2>1, <2>3, <3>2, <3>3
      <4> QED BY <2>3, <3>1, <3>3, <4>1
    <3>4. CASE k < j
      <4>1. /\ j - 1 \in 1 .. Len(less) /\ j - 1 \in 1 .. Len(list) - 1
            /\ ~(j - 1 < k) /\ (j - 1) + 1 = j
        BY <1>1, <2>1, <2>3, <3>2, <3>4
      <4> QED BY <2>3, <3>1, <4>1
    <3> QED BY <3>2, <3>3, <3>4
  <2>7. ASSUME NEW i \in 1 .. Len(less), NEW j \in 1 .. Len(less), less[i] = less[j]
        PROVE  i = j
    <3> DEFINE from(n) == IF n < k THEN n ELSE n + 1
    <3>1. \A n \in 1 .. Len(less) : from(n) \in 1 .. Len(list) /\ less[n] = list[from(n)]
      BY <1>1, <2>3, <2>4
    <3>2. \A m, n \in 1 .. Len(less) : from(m) = from(n) => m = n
      BY <2>1, <2>4
    <3> HIDE DEF from
    <3>3. list[from(i)] = list[from(j)] /\ from(i) \in 1 .. Len(list) /\ from(j) \in 1 .. Len(list)
      BY <2>7, <3>1
    <3>4. from(i) = from(j)
      <4>1. \A x, y \in 1 .. Len(list) : list[x] = list[y] => x = y
        BY DEF Lines
      <4>2. PICK x, y : x = from(i) /\ y = from(j)
        OBVIOUS
      <4> QED BY <3>3, <4>1, <4>2
    <3> QED BY <3>2, <3>4
  <2>8. Lines(less, S \ {e})
    <3>1. less \in Seq(Nat)
      BY <2>3
    <3> QED BY <2>5, <2>6, <2>7, <3>1 DEF Lines
  <2> QED BY <2>1, <2>2, <2>8
<1> QED BY <1>2, <1>3

-----------------------------------------------------------------------------
(* The cache: who holds a handle *)

\* How many hold each handle.
Counts == [e \in Nat |-> Holders(e)]

LEMMA CountsType ==
    ASSUME IsFiniteSet(CacheUser)
    PROVE  Counts \in [Nat -> Nat]
<1>1. ASSUME NEW e \in Nat PROVE Holders(e) \in Nat
  <2> DEFINE S == {u \in CacheUser : held[u] = e}
  <2>1. S \in SUBSET CacheUser
    OBVIOUS
  <2>2. IsFiniteSet(S)
    <3> HIDE DEF S
    <3> QED BY <2>1, FS_Subset
  <2>3. Cardinality(S) \in Nat
    <3> HIDE DEF S
    <3> QED BY <2>2, FS_CardinalityType
  <2> QED BY <2>3 DEF Holders
<1> QED BY <1>1 DEF Counts

\* Those who hold e after u has changed from one handle to another.
LEMMA HoldersChange ==
    ASSUME IsFiniteSet(CacheUser), NEW u \in CacheUser, held \in [CacheUser -> Nat],
           NEW e \in Nat, held' = [held EXCEPT ![u] = e], NEW d \in Nat
    PROVE  Holders(d)' = Holders(d) + (IF e = d THEN 1 ELSE 0) - (IF held[u] = d THEN 1 ELSE 0)
<1>1. PICK S, T : S = {v \in CacheUser : held[v] = d} /\ T = {v \in CacheUser : held'[v] = d}
  OBVIOUS
<1>2. S \in SUBSET CacheUser /\ T \in SUBSET CacheUser
  BY <1>1
<1>3. IsFiniteSet(S) /\ Cardinality(S) \in Nat
  BY <1>2, FS_Subset, FS_CardinalityType
<1>4. Holders(d) = Cardinality(S) /\ Holders(d)' = Cardinality(T)
  BY <1>1 DEF Holders
<1>5. held'[u] = e /\ \A v \in CacheUser : v # u => held'[v] = held[v]
  OBVIOUS
<1>6. CASE e = d /\ held[u] = d
  <2>1. S = T
    BY <1>1, <1>5, <1>6
  <2> QED BY <1>3, <1>4, <1>6, <2>1
<1>7. CASE e # d /\ held[u] # d
  <2>1. S = T
    BY <1>1, <1>5, <1>7
  <2> QED BY <1>3, <1>4, <1>7, <2>1
<1>8. CASE e = d /\ held[u] # d
  <2>1. T = S \cup {u} /\ u \notin S
    BY <1>1, <1>5, <1>8
  <2>2. Cardinality(T) = Cardinality(S) + 1
    BY <1>3, <2>1, FS_AddElement
  <2> QED BY <1>3, <1>4, <1>8, <2>2
<1>9. CASE e # d /\ held[u] = d
  <2>1. T = S \ {u} /\ u \in S
    BY <1>1, <1>5, <1>9
  <2>2. Cardinality(T) = Cardinality(S) - 1
    BY <1>3, <2>1, FS_RemoveElement
  <2> QED BY <1>3, <1>4, <1>9, <2>2
<1> QED BY <1>6, <1>7, <1>8, <1>9

-----------------------------------------------------------------------------
(* The cache: recursive functions *)

\* What is computed in n steps from a, within a set.
StepsIn(F, V) == F \in [Nat \X V -> V]

Computes(F, V, a, n, f) ==
    /\ f \in [0 .. n -> V] /\ f[0] = a
    /\ \A m \in 1 .. n : f[m] = F[<<m, f[m - 1]>>]

LEMMA StepByStep ==
    ASSUME NEW V, NEW a \in V, NEW F, StepsIn(F, V), NEW n \in Nat
    PROVE  \E f : Computes(F, V, a, n, f)
<1> DEFINE Far(k, f) == /\ f \in [0 .. k -> V] /\ f[0] = a
                        /\ \A m \in 1 .. k : f[m] = F[<<m, f[m - 1]>>]
           T == {k \in Nat : \E f : Far(k, f)}
<1>f. F \in [Nat \X V -> V]
  BY DEF StepsIn
<1>1. 0 \in T
  <2> DEFINE f == [m \in 0 .. 0 |-> a]
  <2>1. Far(0, f)
    OBVIOUS
  <2> QED BY <2>1
<1>2. ASSUME NEW k \in T \cap Nat PROVE k + 1 \in T
  <2>1. PICK g : Far(k, g)
    OBVIOUS
  <2>2. k \in Nat /\ 0 \in 0 .. k /\ k \in 0 .. k
    OBVIOUS
  <2>3. g[k] \in V /\ F[<<k + 1, g[k]>>] \in V
    BY <1>f, <2>1, <2>2
  <2> DEFINE f == [m \in 0 .. k + 1 |-> IF m = k + 1 THEN F[<<k + 1, g[k]>>] ELSE g[m]]
  <2>4. /\ \A m \in 0 .. k : m \in 0 .. k + 1 /\ m # k + 1
        /\ \A m \in 0 .. k + 1 : m \in 0 .. k \/ m = k + 1
        /\ k + 1 \in 0 .. k + 1 /\ (k + 1) - 1 = k
    OBVIOUS
  <2>5. f[k + 1] = F[<<k + 1, g[k]>>] /\ \A m \in 0 .. k : f[m] = g[m]
    BY <2>4
  <2>6. f \in [0 .. k + 1 -> V]
    <3>1. \A m \in 0 .. k + 1 : f[m] \in V
      BY <2>1, <2>3, <2>4, <2>5
    <3>2. f = [m \in 0 .. k + 1 |-> f[m]]
      OBVIOUS
    <3> HIDE DEF f
    <3> QED BY <3>1, <3>2
  <2> HIDE DEF f
  <2>7. ASSUME NEW m \in 1 .. k + 1 PROVE f[m] = F[<<m, f[m - 1]>>]
    <3>1. CASE m = k + 1
      BY <2>2, <2>4, <2>5, <3>1
    <3>2. CASE m # k + 1
      <4>1. m \in 1 .. k /\ m \in 0 .. k /\ m - 1 \in 0 .. k
        BY <2>2, <3>2
      <4> QED BY <2>1, <2>5, <4>1
    <3> QED BY <3>1, <3>2
  <2>8. f[0] = a
    BY <2>1, <2>2, <2>5
  <2>9. Far(k + 1, f)
    BY <2>6, <2>7, <2>8
  <2> HIDE DEF Far
  <2> QED BY <2>2, <2>9
<1> HIDE DEF T
<1>3. Nat \subseteq T
  BY <1>1, <1>2, NaturalsFrom0
<1>4. PICK f : Far(n, f)
  BY <1>3 DEF T
<1>5. Computes(F, V, a, n, f)
  BY <1>4 DEF Computes
<1> QED BY <1>5

\* What handle m adds to the usage.
Share(h, m) == IF h[m].inCache THEN h[m].charge ELSE 0

Metered(h) == \A m \in 1 .. Len(h) : Share(h, m) \in Nat

Totals(h, f) ==
    /\ f \in [0 .. Len(h) -> Nat] /\ f[0] = 0
    /\ \A m \in 1 .. Len(h) : f[m] = f[m - 1] + Share(h, m)

Summing(h, f) ==
    f = [m \in 0 .. Len(h) |->
            IF m = 0 THEN 0 ELSE f[m - 1] + IF h[m].inCache THEN h[m].charge ELSE 0]

LEMMA SummingExists ==
    ASSUME NEW h, Len(h) \in Nat, Metered(h)
    PROVE  \E f : Summing(h, f)
<1> DEFINE F == [p \in Nat \X Nat |-> IF p[1] \in 1 .. Len(h) THEN p[2] + Share(h, p[1]) ELSE 0]
<1>1. StepsIn(F, Nat)
  BY DEF Metered, StepsIn
<1>2. \A m \in 1 .. Len(h), x \in Nat : F[<<m, x>>] = x + Share(h, m)
  OBVIOUS
<1> HIDE DEF F
<1>z. 0 \in Nat
  OBVIOUS
<1>y. PICK f : Computes(F, Nat, 0, Len(h), f)
  BY <1>1, <1>z, StepByStep
<1>3. /\ f \in [0 .. Len(h) -> Nat] /\ f[0] = 0
      /\ \A m \in 1 .. Len(h) : f[m] = F[<<m, f[m - 1]>>]
  BY <1>y DEF Computes
<1>4. ASSUME NEW m \in 0 .. Len(h)
      PROVE  f[m] = IF m = 0 THEN 0 ELSE f[m - 1] + Share(h, m)
  <2>1. CASE m = 0
    BY <1>3, <2>1
  <2>2. CASE m # 0
    <3>1. m \in 1 .. Len(h) /\ m - 1 \in 0 .. Len(h)
      BY <2>2
    <3>2. f[m - 1] \in Nat
      BY <1>3, <3>1
    <3> QED BY <1>2, <1>3, <2>2, <3>1, <3>2
  <2> QED BY <2>1, <2>2
<1>5. f = [m \in 0 .. Len(h) |-> IF m = 0 THEN 0 ELSE f[m - 1] + Share(h, m)]
  <2>1. f = [m \in 0 .. Len(h) |-> f[m]]
    BY <1>3
  <2> QED BY <1>4, <2>1
<1>6. Summing(h, f)
  BY <1>5 DEF Summing, Share
<1> QED BY <1>6

LEMMA SummingIs ==
    ASSUME NEW h, Len(h) \in Nat, Metered(h), NEW f, Summing(h, f)
    PROVE  Totals(h, f)
<1> DEFINE W(m) == IF m = 0 THEN 0 ELSE f[m - 1] + Share(h, m)
<1>1. \A m \in 0 .. Len(h) : f[m] = W(m)
  <2>1. f = [m \in 0 .. Len(h) |-> W(m)]
    BY DEF Summing, Share
  <2> HIDE DEF W
  <2> QED BY <2>1
<1>2. f[0] = 0
  BY <1>1
<1>3. \A m \in 1 .. Len(h) : f[m] = f[m - 1] + Share(h, m)
  <2>1. \A m \in 1 .. Len(h) : m \in 0 .. Len(h) /\ m # 0
    OBVIOUS
  <2> QED BY <1>1, <2>1
<1> DEFINE T == {k \in Nat : k <= Len(h) => f[k] \in Nat}
<1>4. 0 \in T
  BY <1>2
<1>5. ASSUME NEW k \in T \cap Nat PROVE k + 1 \in T
  <2>1. SUFFICES ASSUME k + 1 <= Len(h) PROVE f[k + 1] \in Nat
    OBVIOUS
  <2>2. k \in Nat /\ k <= Len(h) /\ k + 1 \in 1 .. Len(h) /\ (k + 1) - 1 = k
    BY <2>1
  <2>3. f[k] \in Nat /\ f[k + 1] = f[k] + Share(h, k + 1) /\ Share(h, k + 1) \in Nat
    BY <1>3, <2>2 DEF Metered
  <2> QED BY <2>3
<1> HIDE DEF T
<1>6. Nat \subseteq T
  BY <1>4, <1>5, NaturalsFrom0
<1>7. \A m \in 0 .. Len(h) : f[m] \in Nat
  BY <1>6 DEF T
<1>8. DOMAIN f = 0 .. Len(h) /\ f = [m \in 0 .. Len(h) |-> f[m]]
  <2>1. f = [m \in 0 .. Len(h) |-> W(m)]
    BY DEF Summing, Share
  <2> HIDE DEF W
  <2>2. DOMAIN f = 0 .. Len(h)
    BY <2>1
  <2> QED BY <1>1, <2>1, <2>2
<1>9. f \in [0 .. Len(h) -> Nat]
  BY <1>7, <1>8
<1> QED BY <1>2, <1>3, <1>9 DEF Totals

LEMMA ChargeIs ==
    ASSUME NEW h, Len(h) \in Nat, Metered(h)
    PROVE  \E f : Totals(h, f) /\ ChargeInCache(h) = f[Len(h)]
<1> DEFINE g == CHOOSE f : Summing(h, f)
<1>1. Summing(h, g)
  BY SummingExists
<1>2. ChargeInCache(h) = g[Len(h)]
  BY DEF ChargeInCache, Summing
<1> HIDE DEF g
<1> QED BY <1>1, <1>2, SummingIs

\* The sum when one handle's share has changed by x.
LEMMA ChargeChange ==
    ASSUME NEW h, NEW g, Len(h) \in Nat, Len(g) = Len(h), Metered(h), Metered(g),
           NEW e \in Nat \ {0}, NEW x \in Nat,
           \A m \in 1 .. Len(h) : Share(h, m) = Share(g, m) + IF m = e THEN x ELSE 0
    PROVE  ChargeInCache(h) = ChargeInCache(g) + IF e <= Len(h) THEN x ELSE 0
<1>1. PICK a : Totals(h, a) /\ ChargeInCache(h) = a[Len(h)]
  BY ChargeIs
<1>2. PICK b : Totals(g, b) /\ ChargeInCache(g) = b[Len(h)]
  BY ChargeIs
<1> DEFINE T == {k \in Nat : k <= Len(h) => a[k] = b[k] + IF e <= k THEN x ELSE 0}
<1>3. 0 \in T
  BY <1>1, <1>2 DEF Totals
<1>4. ASSUME NEW k \in T \cap Nat PROVE k + 1 \in T
  <2>1. SUFFICES ASSUME k + 1 <= Len(h) PROVE a[k + 1] = b[k + 1] + IF e <= k + 1 THEN x ELSE 0
    OBVIOUS
  <2>2. k \in Nat /\ k <= Len(h) /\ k \in 0 .. Len(h) /\ k + 1 \in 1 .. Len(h) /\ (k + 1) - 1 = k
    BY <2>1
  <2>3. a[k] = b[k] + IF e <= k THEN x ELSE 0
    BY <2>2
  <2>4. a[k + 1] = a[k] + Share(h, k + 1) /\ b[k + 1] = b[k] + Share(g, k + 1)
    BY <1>1, <1>2, <2>2 DEF Totals
  <2>5. Share(h, k + 1) = Share(g, k + 1) + IF k + 1 = e THEN x ELSE 0
    BY <2>2
  <2>6. Share(g, k + 1) \in Nat /\ b[k] \in Nat
    BY <1>2, <2>2 DEF Metered, Totals
  <2> QED BY <2>2, <2>3, <2>4, <2>5, <2>6
<1> HIDE DEF T
<1>5. Nat \subseteq T
  BY <1>3, <1>4, NaturalsFrom0
<1> QED BY <1>1, <1>2, <1>5 DEF T

\* The sum with one handle more.
LEMMA ChargeAppend ==
    ASSUME NEW h, NEW g, Len(h) \in Nat, Len(g) = Len(h) + 1, Metered(h), Metered(g),
           \A m \in 1 .. Len(h) : Share(g, m) = Share(h, m)
    PROVE  ChargeInCache(g) = ChargeInCache(h) + Share(g, Len(h) + 1)
<1>1. PICK a : Totals(h, a) /\ ChargeInCache(h) = a[Len(h)]
  BY ChargeIs
<1>2. PICK b : Totals(g, b) /\ ChargeInCache(g) = b[Len(h) + 1]
  BY ChargeIs
<1> DEFINE T == {k \in Nat : k <= Len(h) => a[k] = b[k]}
<1>3. 0 \in T
  BY <1>1, <1>2 DEF Totals
<1>4. ASSUME NEW k \in T \cap Nat PROVE k + 1 \in T
  <2>1. SUFFICES ASSUME k + 1 <= Len(h) PROVE a[k + 1] = b[k + 1]
    OBVIOUS
  <2>2. k \in Nat /\ k <= Len(h) /\ k + 1 \in 1 .. Len(h) /\ k + 1 \in 1 .. Len(g) /\ (k + 1) - 1 = k
    BY <2>1
  <2>3. a[k] = b[k]
    BY <2>2
  <2>4. a[k + 1] = a[k] + Share(h, k + 1) /\ b[k + 1] = b[k] + Share(g, k + 1)
    BY <1>1, <1>2, <2>2 DEF Totals
  <2> QED BY <2>2, <2>3, <2>4
<1> HIDE DEF T
<1>5. Nat \subseteq T
  BY <1>3, <1>4, NaturalsFrom0
<1>6. a[Len(h)] = b[Len(h)]
  BY <1>5 DEF T
<1>7. b[Len(h) + 1] = b[Len(h)] + Share(g, Len(h) + 1)
  <2>1. Len(h) + 1 \in 1 .. Len(g) /\ (Len(h) + 1) - 1 = Len(h)
    OBVIOUS
  <2> QED BY <1>2, <2>1 DEF Totals
<1> QED BY <1>1, <1>2, <1>6, <1>7

-----------------------------------------------------------------------------
(* The cache: a shard *)

Handles == [key : Cached, charge : Nat, refs : Nat, inCache : BOOLEAN]

Shards == [handle : Seq(Handles), table : [Cached -> Nat], lru : Seq(Nat), inUse : SUBSET Nat,
           usage : Int, freed : SUBSET Nat]

\* The handles of c.
Of(c) == 1 .. Len(c.handle)

\* H says how many hold each handle; x, or 0 for none, has left the hash table
\* but not yet the cache.
Referenced(c, H, x) ==
    \A e \in Of(c) :
        /\ c.handle[e].refs = H[e] + IF c.handle[e].inCache THEN 1 ELSE 0
        /\ e \in c.freed <=> c.handle[e].refs = 0
        /\ c.handle[e].inCache /\ e # x => c.table[c.handle[e].key] = e

Tabled(c, x) ==
    \A k \in Cached : c.table[k] # 0 =>
        /\ c.table[k] \in Of(c) /\ c.table[k] # x
        /\ c.handle[c.table[k]].inCache /\ c.handle[c.table[k]].key = k

Unheld(c, H) == {e \in Of(c) : c.handle[e].inCache /\ H[e] = 0}
InUse(c, H) == {e \in Of(c) : c.handle[e].inCache /\ H[e] # 0}

Good(c, H, x) ==
    /\ c \in Shards /\ c.freed \subseteq Of(c)
    /\ x # 0 => x \in Of(c) /\ c.handle[x].inCache
    /\ Referenced(c, H, x) /\ Tabled(c, x)
    /\ Lines(c.lru, Unheld(c, H)) /\ c.inUse = InUse(c, H)
    /\ c.usage = ChargeInCache(c.handle)

LEMMA ShardFacts ==
    ASSUME NEW c \in Shards
    PROVE  /\ c.handle \in Seq(Handles) /\ Len(c.handle) \in Nat /\ Of(c) \subseteq Nat \ {0}
           /\ \A e \in Of(c) : /\ c.handle[e] \in Handles /\ c.handle[e].refs \in Nat
                               /\ c.handle[e].key \in Cached /\ c.handle[e].charge \in Nat
                               /\ c.handle[e].inCache \in BOOLEAN
           /\ Metered(c.handle)
<1>1. c.handle \in Seq(Handles)
  BY DEF Shards
<1>2. Len(c.handle) \in Nat
  BY <1>1, LenProperties
<1>3. \A e \in Of(c) : c.handle[e] \in Handles
  BY <1>1, ElementOfSeq DEF Of
<1>4. \A e \in Of(c) : /\ c.handle[e].refs \in Nat /\ c.handle[e].key \in Cached
                       /\ c.handle[e].charge \in Nat /\ c.handle[e].inCache \in BOOLEAN
  BY <1>3 DEF Handles
<1>5. Metered(c.handle)
  BY <1>4 DEF Metered, Share, Of
<1> QED BY <1>1, <1>2, <1>3, <1>4, <1>5 DEF Of

\* d is c with r in the place of handle e.
Touched(c, d, e, r) ==
    /\ d \in Shards /\ Len(d.handle) = Len(c.handle) /\ d.table = c.table
    /\ \A i \in Of(c) : i # e => d.handle[i] = c.handle[i]
    /\ d.handle[e] = r /\ r.key = c.handle[e].key /\ r.charge = c.handle[e].charge

LEMMA TouchedFacts ==
    ASSUME NEW c \in Shards, NEW d, NEW e \in Of(c), NEW r, Touched(c, d, e, r)
    PROVE  /\ Of(d) = Of(c)
           /\ \A i \in Of(c) : /\ d.handle[i].key = c.handle[i].key
                               /\ d.handle[i].charge = c.handle[i].charge
                               /\ i # e => d.handle[i].refs = c.handle[i].refs
                               /\ i # e => d.handle[i].inCache = c.handle[i].inCache
BY DEF Touched, Of

\* A handle changed in place.
LEMMA HandleChange ==
    ASSUME NEW h \in Seq(Handles), NEW e \in 1 .. Len(h), NEW r \in Handles, NEW g,
           g = [h EXCEPT ![e] = r]
    PROVE  /\ g \in Seq(Handles) /\ Len(g) = Len(h) /\ g[e] = r
           /\ \A i \in 1 .. Len(h) : i # e => g[i] = h[i]
<1>1. /\ [h EXCEPT ![e] = r] \in Seq(Handles) /\ Len([h EXCEPT ![e] = r]) = Len(h)
      /\ \A j \in 1 .. Len(h) : [h EXCEPT ![e] = r][j] = IF j = e THEN r ELSE h[j]
  BY ExceptSeq
<1> QED BY <1>1


LEMMA UnlinkedType ==
    ASSUME NEW list \in Seq(Nat), NEW e
    PROVE  Unlinked(list, e) \in Seq(Nat)
<1>1. CASE e \notin ToSet(list)
  BY <1>1 DEF Unlinked
<1>2. CASE e \in ToSet(list)
  <2>1. DOMAIN list = 1 .. Len(list)
    BY LenProperties
  <2>2. \E i \in DOMAIN list : list[i] = e
    BY <1>2 DEF ToSet
  <2>3. PICK k : k \in 1 .. Len(list) /\ Unlinked(list, e) = RemoveAt(list, k)
    BY <1>2, <2>1, <2>2 DEF Unlinked
  <2> QED BY <2>3, WithoutPlace
<1> QED BY <1>1, <1>2

\* d has these fields.
Fields(d, handle, table, lru, inUse, usage, freed) ==
    d = [handle |-> handle, table |-> table, lru |-> lru, inUse |-> inUse, usage |-> usage,
         freed |-> freed]

Bookkeeping(lru, inUse, usage, freed) ==
    lru \in Seq(Nat) /\ inUse \in SUBSET Nat /\ usage \in Int /\ freed \in SUBSET Nat

LEMMA FieldsFacts ==
    ASSUME NEW d, NEW handle, NEW table, NEW lru, NEW inUse, NEW usage, NEW freed,
           Fields(d, handle, table, lru, inUse, usage, freed)
    PROVE  /\ d.handle = handle /\ d.table = table /\ d.lru = lru /\ d.inUse = inUse
           /\ d.usage = usage /\ d.freed = freed
           /\ handle \in Seq(Handles) /\ table \in [Cached -> Nat]
                  /\ Bookkeeping(lru, inUse, usage, freed) => d \in Shards
BY DEF Fields, Bookkeeping, Shards

\* A shard is what its fields are.
LEMMA ShardIs ==
    ASSUME NEW c \in Shards
    PROVE  /\ Fields(c, c.handle, c.table, c.lru, c.inUse, c.usage, c.freed)
           /\ c.table \in [Cached -> Nat] /\ c.handle \in Seq(Handles)
           /\ Bookkeeping(c.lru, c.inUse, c.usage, c.freed)
BY DEF Shards, Fields, Bookkeeping

\* Handle e of c becomes r.
Becomes(c, e, r, g) ==
    /\ g = [c.handle EXCEPT ![e] = r] /\ r \in Handles
    /\ r.key = c.handle[e].key /\ r.charge = c.handle[e].charge

\* A shard with one handle and its lists changed.
LEMMA ShardChange ==
    ASSUME NEW c \in Shards, NEW e \in Of(c), NEW r, NEW g, Becomes(c, e, r, g),
           NEW lru, NEW inUse, NEW usage, NEW freed, Bookkeeping(lru, inUse, usage, freed),
           NEW d, Fields(d, g, c.table, lru, inUse, usage, freed)
    PROVE  /\ Touched(c, d, e, r)
           /\ d.lru = lru /\ d.inUse = inUse /\ d.usage = usage /\ d.freed = freed
<1>1. c.handle \in Seq(Handles) /\ r \in Handles /\ c.table \in [Cached -> Nat]
  BY ShardIs DEF Becomes
<1>2. /\ g \in Seq(Handles) /\ Len(g) = Len(c.handle) /\ g[e] = r
      /\ \A i \in 1 .. Len(c.handle) : i # e => g[i] = c.handle[i]
  <2>1. g = [c.handle EXCEPT ![e] = r]
    BY DEF Becomes
  <2> QED BY <1>1, <2>1, HandleChange DEF Of
<1>3. /\ d.handle = g /\ d.table = c.table /\ d \in Shards
      /\ d.lru = lru /\ d.inUse = inUse /\ d.usage = usage /\ d.freed = freed
  BY <1>1, <1>2, FieldsFacts
<1> QED BY <1>2, <1>3 DEF Touched, Becomes, Of

LEMMA LRURemoveIs ==
    ASSUME NEW c \in Shards, NEW e, NEW b, b = LRURemove(c, e)
    PROVE  Fields(b, c.handle, c.table, Unlinked(c.lru, e), c.inUse \ {e}, c.usage, c.freed)
<1>1. PICK handle, table, lru, inUse, usage, freed :
          /\ handle = c.handle /\ table = c.table /\ lru = c.lru /\ inUse = c.inUse
          /\ usage = c.usage /\ freed = c.freed
  OBVIOUS
<1>2. c = [handle |-> handle, table |-> table, lru |-> lru, inUse |-> inUse, usage |-> usage,
           freed |-> freed]
  BY <1>1, ShardIs DEF Fields
<1>3. b = [c EXCEPT !.lru = Unlinked(@, e), !.inUse = @ \ {e}]
  BY DEF LRURemove
<1>4. b = [handle |-> handle, table |-> table, lru |-> Unlinked(lru, e), inUse |-> inUse \ {e},
           usage |-> usage, freed |-> freed]
  BY <1>2, <1>3
<1> QED BY <1>1, <1>4 DEF Fields

\* What Unref does.
LEMMA UnrefIs ==
    ASSUME NEW c \in Shards, NEW e \in Of(c), c.handle[e].refs # 0, NEW d, d = Unref(c, e)
    PROVE  /\ Touched(c, d, e, [c.handle[e] EXCEPT !.refs = @ - 1]) /\ d.usage = c.usage
           /\ d.freed = IF c.handle[e].refs = 1 THEN c.freed \cup {e} ELSE c.freed
           /\ IF c.handle[e].refs = 2 /\ c.handle[e].inCache
              THEN d.lru = Append(Unlinked(c.lru, e), e) /\ d.inUse = c.inUse \ {e}
              ELSE d.lru = c.lru /\ d.inUse = c.inUse
<1>1. PICK h : h = c.handle[e]
  OBVIOUS
<1>2. h \in Handles /\ h.refs \in Nat \ {0} /\ h.refs - 1 \in Nat /\ h.inCache \in BOOLEAN
  BY <1>1, ShardFacts
<1>3. PICK r : r = [h EXCEPT !.refs = @ - 1]
  OBVIOUS
<1>4. r \in Handles /\ r.key = h.key /\ r.charge = h.charge
  BY <1>2, <1>3 DEF Handles
<1>5. PICK g : g = [c.handle EXCEPT ![e] = r]
  OBVIOUS
<1>6. Becomes(c, e, r, g)
  BY <1>1, <1>4, <1>5 DEF Becomes
<1>7. PICK less : less = [c EXCEPT !.handle[e].refs = @ - 1]
  OBVIOUS
<1>8. Fields(less, g, c.table, c.lru, c.inUse, c.usage, c.freed)
  <2>1. less = [c EXCEPT !.handle = g]
    BY <1>1, <1>3, <1>5, <1>7
  <2> QED BY <2>1, ShardIs DEF Fields
<1>9. /\ c.lru \in Seq(Nat) /\ c.inUse \in SUBSET Nat /\ c.usage \in Int /\ c.freed \in SUBSET Nat
      /\ e \in Nat
  BY ShardFacts DEF Shards
<1>b. Bookkeeping(c.lru, c.inUse, c.usage, c.freed)
  BY ShardIs
<1>10. CASE h.refs = 1
  <2>1. d = [less EXCEPT !.freed = @ \cup {e}]
    BY <1>1, <1>7, <1>10 DEF Unref
  <2>2. Fields(d, g, c.table, c.lru, c.inUse, c.usage, c.freed \cup {e})
    BY <1>8, <2>1 DEF Fields
  <2>3. Bookkeeping(c.lru, c.inUse, c.usage, c.freed \cup {e})
    BY <1>9 DEF Bookkeeping
  <2>4. /\ Touched(c, d, e, r)
        /\ d.lru = c.lru /\ d.inUse = c.inUse /\ d.usage = c.usage /\ d.freed = c.freed \cup {e}
    BY <1>6, <2>2, <2>3, ShardChange
  <2> QED BY <1>1, <1>3, <1>10, <2>4
<1>11. CASE h.refs = 2 /\ h.inCache
  <2>1. d = [LRURemove(less, e) EXCEPT !.lru = Append(@, e)]
    BY <1>1, <1>7, <1>11 DEF Unref
  <2>2. PICK lru : lru = Append(Unlinked(c.lru, e), e)
    OBVIOUS
  <2>3. Fields(d, g, c.table, lru, c.inUse \ {e}, c.usage, c.freed)
    BY <1>8, <2>1, <2>2 DEF LRURemove, Fields
  <2>4. Bookkeeping(lru, c.inUse \ {e}, c.usage, c.freed)
    <3>1. lru \in Seq(Nat)
      BY <1>9, <2>2, UnlinkedType, AppendProperties
    <3> QED BY <1>9, <3>1 DEF Bookkeeping
  <2>5. /\ Touched(c, d, e, r)
        /\ d.lru = lru /\ d.inUse = c.inUse \ {e} /\ d.usage = c.usage /\ d.freed = c.freed
    BY <1>6, <2>3, <2>4, ShardChange
  <2> QED BY <1>1, <1>3, <1>11, <2>2, <2>5
<1>12. CASE h.refs # 1 /\ ~(h.refs = 2 /\ h.inCache)
  <2>1. d = less
    BY <1>1, <1>7, <1>12 DEF Unref
  <2>4. /\ Touched(c, d, e, r)
        /\ d.lru = c.lru /\ d.inUse = c.inUse /\ d.usage = c.usage /\ d.freed = c.freed
    BY <1>6, <1>8, <1>b, <2>1, ShardChange
  <2> QED BY <1>1, <1>3, <1>12, <2>4
<1> QED BY <1>10, <1>11, <1>12

\* What Ref does to a handle in the cache.
LEMMA RefIs ==
    ASSUME NEW c \in Shards, NEW e \in Of(c), c.handle[e].inCache, NEW d, d = Ref(c, e)
    PROVE  /\ Touched(c, d, e, [c.handle[e] EXCEPT !.refs = @ + 1])
           /\ d.usage = c.usage /\ d.freed = c.freed
           /\ IF c.handle[e].refs = 1
              THEN d.lru = Unlinked(c.lru, e) /\ d.inUse = (c.inUse \ {e}) \cup {e}
              ELSE d.lru = c.lru /\ d.inUse = c.inUse
<1>1. PICK h : h = c.handle[e]
  OBVIOUS
<1>2. h \in Handles /\ h.refs \in Nat /\ h.refs + 1 \in Nat /\ h.inCache = TRUE /\ TRUE \in BOOLEAN
  BY <1>1, ShardFacts DEF Handles
<1>3. PICK r : r = [h EXCEPT !.refs = @ + 1]
  OBVIOUS
<1>4. r \in Handles /\ r.key = h.key /\ r.charge = h.charge
  BY <1>2, <1>3 DEF Handles
<1>5. PICK g : g = [c.handle EXCEPT ![e] = r]
  OBVIOUS
<1>6. Becomes(c, e, r, g)
  BY <1>1, <1>4, <1>5 DEF Becomes
<1>9. /\ c.lru \in Seq(Nat) /\ c.inUse \in SUBSET Nat /\ c.usage \in Int /\ c.freed \in SUBSET Nat
      /\ e \in Nat
  BY ShardFacts DEF Shards
<1>b. Bookkeeping(c.lru, c.inUse, c.usage, c.freed)
  BY ShardIs
<1>10. CASE h.refs = 1
  <2>1. PICK lru, inUse : lru = Unlinked(c.lru, e) /\ inUse = (c.inUse \ {e}) \cup {e}
    OBVIOUS
  <2>2. PICK moved : moved = [LRURemove(c, e) EXCEPT !.inUse = @ \cup {e}]
    OBVIOUS
  <2>3. Fields(moved, c.handle, c.table, lru, inUse, c.usage, c.freed)
    <3>1. PICK b : b = LRURemove(c, e)
      OBVIOUS
    <3>2. Fields(b, c.handle, c.table, lru, c.inUse \ {e}, c.usage, c.freed)
      BY <2>1, <3>1, LRURemoveIs
    <3>3. moved = [b EXCEPT !.inUse = @ \cup {e}]
      BY <2>2, <3>1
    <3> QED BY <2>1, <3>2, <3>3 DEF Fields
  <2>4. d = [moved EXCEPT !.handle[e].refs = @ + 1]
    BY <1>1, <1>2, <1>10, <2>2 DEF Ref
  <2>5. Fields(d, g, c.table, lru, inUse, c.usage, c.freed)
    BY <1>1, <1>3, <1>5, <2>3, <2>4 DEF Fields
  <2>6. Bookkeeping(lru, inUse, c.usage, c.freed)
    <3>1. lru \in Seq(Nat)
      BY <1>9, <2>1, UnlinkedType
    <3> QED BY <1>9, <2>1, <3>1 DEF Bookkeeping
  <2>7. /\ Touched(c, d, e, r)
        /\ d.lru = lru /\ d.inUse = inUse /\ d.usage = c.usage /\ d.freed = c.freed
    BY <1>6, <2>5, <2>6, ShardChange
  <2> QED BY <1>1, <1>3, <1>10, <2>1, <2>7
<1>11. CASE h.refs # 1
  <2>1. d = [c EXCEPT !.handle[e].refs = @ + 1]
    BY <1>1, <1>11 DEF Ref
  <2>2. d = [c EXCEPT !.handle = g]
    BY <1>1, <1>3, <1>5, <2>1
  <2>3. Fields(d, g, c.table, c.lru, c.inUse, c.usage, c.freed)
    BY <2>2, ShardIs DEF Fields
  <2>4. /\ Touched(c, d, e, r)
        /\ d.lru = c.lru /\ d.inUse = c.inUse /\ d.usage = c.usage /\ d.freed = c.freed
    BY <1>6, <1>b, <2>3, ShardChange
  <2> QED BY <1>1, <1>3, <1>11, <2>4
<1> QED BY <1>10, <1>11

\* What FinishErase does to a handle in the cache.
Finished(c, d, e) ==
    /\ Touched(c, d, e, [c.handle[e] EXCEPT !.refs = @ - 1, !.inCache = FALSE])
    /\ d.lru = Unlinked(c.lru, e) /\ d.inUse = c.inUse \ {e}
    /\ d.usage = c.usage - c.handle[e].charge
    /\ d.freed = IF c.handle[e].refs = 1 THEN c.freed \cup {e} ELSE c.freed

LEMMA FinishEraseIs ==
    ASSUME NEW c \in Shards, NEW e \in Of(c), c.handle[e].refs # 0, NEW d, d = FinishErase(c, e)
    PROVE  Finished(c, d, e)
<1>1. PICK h : h = c.handle[e]
  OBVIOUS
<1>2. /\ h \in Handles /\ h.refs \in Nat \ {0} /\ h.refs - 1 \in Nat /\ h.charge \in Nat
      /\ e \in Nat /\ e # 0
  BY <1>1, ShardFacts
<1>3. PICK r : r = [h EXCEPT !.inCache = FALSE]
  OBVIOUS
<1>4. r \in Handles /\ r.key = h.key /\ r.charge = h.charge /\ r.inCache = FALSE /\ r.refs = h.refs
  BY <1>2, <1>3 DEF Handles
<1>5. PICK g : g = [c.handle EXCEPT ![e] = r]
  OBVIOUS
<1>6. Becomes(c, e, r, g)
  BY <1>1, <1>4, <1>5 DEF Becomes
<1>7. PICK lru : lru = Unlinked(c.lru, e)
  OBVIOUS
<1>8. PICK b : b = LRURemove(c, e)
  OBVIOUS
<1>9. Fields(b, c.handle, c.table, lru, c.inUse \ {e}, c.usage, c.freed)
  BY <1>7, <1>8, LRURemoveIs
<1>10. PICK out : out = [LRURemove(c, e) EXCEPT !.handle[e].inCache = FALSE,
                                               !.usage = @ - c.handle[e].charge]
  OBVIOUS
<1>11. PICK usage : usage = c.usage - h.charge
  OBVIOUS
<1>12. Fields(out, g, c.table, lru, c.inUse \ {e}, usage, c.freed)
  <2>1. PICK mid : mid = [b EXCEPT !.handle[e].inCache = FALSE]
    OBVIOUS
  <2>2. out = [mid EXCEPT !.usage = @ - h.charge]
    BY <1>1, <1>8, <1>10, <2>1
  <2>3. b.handle = c.handle
    BY <1>9, FieldsFacts
  <2>4. mid = [b EXCEPT !.handle = g]
    BY <1>1, <1>3, <1>5, <2>1, <2>3
  <2>5. Fields(mid, g, c.table, lru, c.inUse \ {e}, c.usage, c.freed)
    BY <1>9, <2>4 DEF Fields
  <2> QED BY <1>11, <2>2, <2>5 DEF Fields
<1>13. Bookkeeping(lru, c.inUse \ {e}, usage, c.freed)
  <2>1. lru \in Seq(Nat)
    BY <1>7, UnlinkedType DEF Shards
  <2>2. usage \in Int
    BY <1>2, <1>11 DEF Shards
  <2> QED BY <2>1, <2>2 DEF Shards, Bookkeeping
<1>14. /\ Touched(c, out, e, r)
       /\ out.lru = lru /\ out.inUse = c.inUse \ {e} /\ out.usage = usage /\ out.freed = c.freed
  BY <1>6, <1>12, <1>13, ShardChange
<1>15. out \in Shards /\ Of(out) = Of(c) /\ out.handle[e] = r
  BY <1>14, TouchedFacts DEF Touched
<1>16. d = Unref(out, e)
  BY <1>2, <1>10 DEF FinishErase
<1>17. /\ Touched(out, d, e, [out.handle[e] EXCEPT !.refs = @ - 1]) /\ d.usage = out.usage
       /\ d.freed = IF out.handle[e].refs = 1 THEN out.freed \cup {e} ELSE out.freed
       /\ IF out.handle[e].refs = 2 /\ out.handle[e].inCache
          THEN d.lru = Append(Unlinked(out.lru, e), e) /\ d.inUse = out.inUse \ {e}
          ELSE d.lru = out.lru /\ d.inUse = out.inUse
  <2>1. out.handle[e].refs # 0 /\ e \in Of(out)
    BY <1>2, <1>4, <1>15
  <2> QED BY <1>15, <1>16, <2>1, UnrefIs
<1>18. d.lru = lru /\ d.inUse = c.inUse \ {e} /\ d.usage = usage
  BY <1>4, <1>14, <1>15, <1>17
<1>19. d.freed = IF h.refs = 1 THEN c.freed \cup {e} ELSE c.freed
  BY <1>4, <1>14, <1>15, <1>17
<1>20. Touched(c, d, e, [h EXCEPT !.refs = @ - 1, !.inCache = FALSE])
  <2>1. [r EXCEPT !.refs = @ - 1] = [h EXCEPT !.refs = @ - 1, !.inCache = FALSE]
    BY <1>2, <1>3 DEF Handles
  <2>2. Touched(out, d, e, [r EXCEPT !.refs = @ - 1])
    BY <1>15, <1>17
  <2>3. PICK q : q = [r EXCEPT !.refs = @ - 1]
    OBVIOUS
  <2>4. Touched(c, d, e, q)
    BY <1>14, <1>15, <2>2, <2>3 DEF Touched
  <2> QED BY <2>1, <2>3, <2>4
<1> QED BY <1>1, <1>7, <1>11, <1>18, <1>19, <1>20 DEF Finished

\* What FinishErase leaves is good again: e, which had left the hash table, is in
\* the cache no more, and gone if nobody holds it.
LEMMA FinishEraseKeeps ==
    ASSUME NEW c, NEW H, H \in [Nat -> Nat], NEW e, Good(c, H, e)
    PROVE  Good(FinishErase(c, e), H, 0) /\ Len(FinishErase(c, e).handle) = Len(c.handle)
<1>1. CASE e = 0
  BY <1>1 DEF FinishErase
<1>2. CASE e # 0
  <2>1. PICK d : d = FinishErase(c, e)
    OBVIOUS
  <2>2. /\ c \in Shards /\ e \in Of(c) /\ c.handle[e].inCache
        /\ Referenced(c, H, e) /\ Tabled(c, e) /\ c.freed \subseteq Of(c)
        /\ Lines(c.lru, Unheld(c, H)) /\ c.inUse = InUse(c, H)
        /\ c.usage = ChargeInCache(c.handle)
    BY <1>2 DEF Good
  <2>3. /\ \A i \in Of(c) : i \in Nat /\ i # 0 /\ H[i] \in Nat
        /\ c.handle[e] \in Handles /\ c.handle[e].refs = H[e] + 1
    BY <2>2, ShardFacts DEF Referenced
  <2>4. /\ Touched(c, d, e, [c.handle[e] EXCEPT !.refs = @ - 1, !.inCache = FALSE])
        /\ d.lru = Unlinked(c.lru, e) /\ d.inUse = c.inUse \ {e}
        /\ d.usage = c.usage - c.handle[e].charge
        /\ d.freed = IF c.handle[e].refs = 1 THEN c.freed \cup {e} ELSE c.freed
    <3>1. c.handle[e].refs # 0
      BY <2>2, <2>3
    <3>2. Finished(c, d, e)
      BY <2>1, <2>2, <3>1, FinishEraseIs
    <3> QED BY <3>2 DEF Finished
  <2>5. PICK r : r = [c.handle[e] EXCEPT !.refs = @ - 1, !.inCache = FALSE]
    OBVIOUS
  <2>6. r.refs = H[e] /\ r.inCache = FALSE
    BY <2>2, <2>3, <2>5 DEF Handles
  <2>7. Touched(c, d, e, r)
    BY <2>4, <2>5
  <2>8. /\ d \in Shards /\ Of(d) = Of(c) /\ d.table = c.table /\ Len(d.handle) = Len(c.handle)
        /\ d.handle[e].refs = H[e] /\ ~d.handle[e].inCache
        /\ \A i \in Of(c) : /\ d.handle[i].key = c.handle[i].key
                            /\ d.handle[i].charge = c.handle[i].charge
                            /\ i # e => d.handle[i].refs = c.handle[i].refs
                            /\ i # e => d.handle[i].inCache = c.handle[i].inCache
    BY <2>2, <2>6, <2>7, TouchedFacts DEF Touched
  <2>9. /\ d.freed \subseteq Of(c) /\ \A i \in Of(c) : i # e => (i \in d.freed <=> i \in c.freed)
        /\ e \in d.freed <=> H[e] = 0
    <3>1. e \in c.freed <=> c.handle[e].refs = 0
      BY <2>2 DEF Referenced
    <3>2. c.handle[e].refs = 1 <=> H[e] = 0
      BY <2>2, <2>3
    <3>3. c.handle[e].refs # 0
      BY <2>2, <2>3
    <3> QED BY <2>2, <2>4, <3>1, <3>2, <3>3
  <2>10. Referenced(d, H, 0)
    <3>1. ASSUME NEW i \in Of(c)
          PROVE  /\ d.handle[i].refs = H[i] + IF d.handle[i].inCache THEN 1 ELSE 0
                 /\ i \in d.freed <=> d.handle[i].refs = 0
                 /\ d.handle[i].inCache /\ i # 0 => d.table[d.handle[i].key] = i
      <4>1. CASE i = e
        <5>1. d.handle[i].refs = H[i] /\ ~d.handle[i].inCache /\ H[i] \in Nat
          BY <2>3, <2>8, <4>1
        <5>2. i \in d.freed <=> d.handle[i].refs = 0
          BY <2>9, <4>1, <5>1
        <5> QED BY <5>1, <5>2
      <4>2. CASE i # e
        BY <2>2, <2>8, <2>9, <4>2 DEF Referenced
      <4> QED BY <4>1, <4>2
    <3> QED BY <2>8, <3>1 DEF Referenced
  <2>11. Tabled(d, 0)
    <3>1. ASSUME NEW k \in Cached, d.table[k] # 0
          PROVE  /\ d.table[k] \in Of(d) /\ d.table[k] # 0
                 /\ d.handle[d.table[k]].inCache /\ d.handle[d.table[k]].key = k
      <4>1. /\ c.table[k] \in Of(c) /\ c.table[k] # e
            /\ c.handle[c.table[k]].inCache /\ c.handle[c.table[k]].key = k
        BY <2>2, <2>8, <3>1 DEF Tabled
      <4> QED BY <2>8, <3>1, <4>1
    <3> QED BY <3>1 DEF Tabled
  <2>12. Unheld(d, H) = Unheld(c, H) \ {e} /\ InUse(d, H) = InUse(c, H) \ {e}
    BY <2>2, <2>8 DEF Unheld, InUse
  <2>13. Lines(d.lru, Unheld(d, H)) /\ d.inUse = InUse(d, H)
    BY <2>2, <2>4, <2>12, LinesUnlinked
  <2>14. d.usage = ChargeInCache(d.handle)
    <3>1. PICK h, g, x : h = c.handle /\ g = d.handle /\ x = c.handle[e].charge
      OBVIOUS
    <3>2. /\ Len(h) \in Nat /\ Len(g) = Len(h) /\ Metered(h) /\ Metered(g) /\ x \in Nat
          /\ e \in Nat \ {0} /\ e <= Len(h) /\ c.usage \in Int
      <4>1. /\ Len(h) \in Nat /\ Metered(h) /\ Metered(g) /\ Len(g) = Len(h)
        BY <2>2, <2>8, <3>1, ShardFacts
      <4>2. x \in Nat /\ e \in Nat \ {0}
        BY <2>2, <3>1, ShardFacts
      <4>3. e <= Len(h)
        BY <2>2, <3>1 DEF Of
      <4>4. c.usage \in Int
        BY <2>2 DEF Shards
      <4> QED BY <4>1, <4>2, <4>3, <4>4
    <3>3. ASSUME NEW m \in 1 .. Len(h)
          PROVE  Share(h, m) = Share(g, m) + IF m = e THEN x ELSE 0
      <4>1. m \in Of(c)
        BY <3>1 DEF Of
      <4>2. CASE m = e
        <5>1. Share(h, m) = x
          BY <2>2, <3>1, <4>2 DEF Share
        <5>2. Share(g, m) = 0
          BY <2>8, <3>1, <4>2 DEF Share
        <5> QED BY <3>2, <4>2, <5>1, <5>2
      <4>3. CASE m # e
        <5>1. Share(h, m) = Share(g, m) /\ Share(g, m) \in Nat
          BY <2>8, <3>1, <3>2, <4>1, <4>3 DEF Share, Metered
        <5> QED BY <4>3, <5>1
      <4> QED BY <4>2, <4>3
    <3>4. ChargeInCache(h) = ChargeInCache(g) + IF e <= Len(h) THEN x ELSE 0
      BY <3>2, <3>3, ChargeChange
    <3>5. PICK n : n = ChargeInCache(g)
      OBVIOUS
    <3>6. n \in Nat
      <4>1. PICK f : Totals(g, f) /\ n = f[Len(g)]
        BY <3>2, <3>5, ChargeIs
      <4>2. Len(g) \in 0 .. Len(g)
        BY <3>2
      <4> QED BY <4>1, <4>2 DEF Totals
    <3>7. c.usage = n + x
      BY <2>2, <3>1, <3>2, <3>4, <3>5
    <3>8. d.usage = c.usage - x
      BY <2>4, <3>1
    <3>9. d.usage = n
      BY <3>2, <3>6, <3>7, <3>8
    <3> QED BY <3>1, <3>5, <3>9
  <2> QED BY <2>1, <2>8, <2>9, <2>10, <2>11, <2>13, <2>14 DEF Good
<1> QED BY <1>1, <1>2

\* The usage stays when a handle stays in the cache, or out of it.
LEMMA SameCharge ==
    ASSUME NEW c \in Shards, NEW d, NEW e \in Of(c), NEW r, Touched(c, d, e, r),
           r.inCache = c.handle[e].inCache
    PROVE  ChargeInCache(d.handle) = ChargeInCache(c.handle)
<1>1. PICK h, g : h = d.handle /\ g = c.handle
  OBVIOUS
<1>2. /\ d \in Shards /\ Len(h) = Len(g) /\ Of(d) = Of(c)
      /\ \A i \in Of(c) : h[i].charge = g[i].charge /\ h[i].inCache = g[i].inCache
  <2>1. d.handle[e].inCache = c.handle[e].inCache
    BY DEF Touched
  <2> QED BY <1>1, <2>1, TouchedFacts DEF Touched
<1>3. Len(h) \in Nat /\ Metered(h) /\ Metered(g)
  BY <1>1, <1>2, ShardFacts
<1>4. ASSUME NEW m \in 1 .. Len(h)
      PROVE  Share(h, m) = Share(g, m) + IF m = 1 THEN 0 ELSE 0
  <2>1. m \in Of(c) /\ m \in 1 .. Len(g)
    BY <1>1, <1>2 DEF Of
  <2>2. Share(h, m) = Share(g, m) /\ Share(g, m) \in Nat
    BY <1>2, <1>3, <2>1 DEF Share, Metered
  <2> QED BY <2>2
<1>5. PICK z \in Nat, o \in Nat \ {0} : z = 0 /\ o = 1
  OBVIOUS
<1>6. \A m \in 1 .. Len(h) : Share(h, m) = Share(g, m) + IF m = o THEN z ELSE 0
  BY <1>4, <1>5
<1>7. ChargeInCache(h) = ChargeInCache(g) + IF o <= Len(h) THEN z ELSE 0
  BY <1>2, <1>3, <1>6, ChargeChange
<1>8. ChargeInCache(g) \in Nat
  <2>1. PICK f : Totals(g, f) /\ ChargeInCache(g) = f[Len(g)]
    BY <1>2, <1>3, ChargeIs
  <2>2. Len(g) \in 0 .. Len(g)
    BY <1>2, <1>3
  <2> QED BY <2>1, <2>2 DEF Totals
<1> QED BY <1>1, <1>5, <1>7, <1>8

\* G counts as H does, but for e.
SameBut(H, G, e) == \A i \in Nat \ {0} : i # e => G[i] = H[i]

\* r has the references that G says, and the cache's; it is freed without any.
Recounted(c, d, G, e, r) ==
    /\ r.refs = G[e] + IF c.handle[e].inCache THEN 1 ELSE 0
    /\ r.inCache = c.handle[e].inCache /\ d.usage = c.usage
    /\ d.freed \subseteq Of(c) /\ (e \in d.freed <=> r.refs = 0)
    /\ \A i \in Of(c) : i # e => (i \in d.freed <=> i \in c.freed)

\* All of a good shard but its lists.
ButLists(c, d, G) ==
    /\ d \in Shards /\ Of(d) = Of(c) /\ Len(d.handle) = Len(c.handle) /\ d.freed \subseteq Of(d)
    /\ Referenced(d, G, 0) /\ Tabled(d, 0) /\ d.usage = ChargeInCache(d.handle)
    /\ \A i \in Of(c) : d.handle[i].inCache = c.handle[i].inCache

\* A handle gets or loses a reference, and the table and the usage stay.
LEMMA ReferenceKeeps ==
    ASSUME NEW c, NEW H, Good(c, H, 0), NEW d, NEW e \in Of(c), NEW r,
           Touched(c, d, e, r), NEW G, SameBut(H, G, e), Recounted(c, d, G, e, r)
    PROVE  ButLists(c, d, G)
<1>1. /\ c \in Shards /\ Referenced(c, H, 0) /\ Tabled(c, 0) /\ c.usage = ChargeInCache(c.handle)
  BY DEF Good
<1>r. /\ r.refs = G[e] + IF c.handle[e].inCache THEN 1 ELSE 0
      /\ r.inCache = c.handle[e].inCache /\ d.usage = c.usage
      /\ d.freed \subseteq Of(c) /\ (e \in d.freed <=> r.refs = 0)
      /\ \A i \in Of(c) : i # e => (i \in d.freed <=> i \in c.freed)
  BY DEF Recounted
<1>2. /\ d \in Shards /\ Of(d) = Of(c) /\ d.table = c.table /\ d.handle[e] = r
      /\ Len(d.handle) = Len(c.handle)
      /\ \A i \in Of(c) : /\ d.handle[i].key = c.handle[i].key
                          /\ i # e => d.handle[i].refs = c.handle[i].refs
                          /\ i # e => d.handle[i].inCache = c.handle[i].inCache
  BY <1>1, TouchedFacts DEF Touched
<1>3. \A i \in Of(c) : d.handle[i].inCache = c.handle[i].inCache
  BY <1>2, <1>r
<1>4. \A i \in Of(c) : i \in Nat \ {0}
  BY <1>1, ShardFacts
<1>5. ASSUME NEW i \in Of(c)
      PROVE  /\ d.handle[i].refs = G[i] + IF d.handle[i].inCache THEN 1 ELSE 0
             /\ i \in d.freed <=> d.handle[i].refs = 0
             /\ d.handle[i].inCache /\ i # 0 => d.table[d.handle[i].key] = i
  <2>1. c.handle[i].inCache /\ i # 0 => c.table[c.handle[i].key] = i
    BY <1>1 DEF Referenced
  <2>2. d.handle[i].inCache /\ i # 0 => d.table[d.handle[i].key] = i
    BY <1>2, <1>3, <2>1
  <2>3. CASE i = e
    <3>1. /\ d.handle[i].refs = G[i] + IF c.handle[i].inCache THEN 1 ELSE 0
          /\ i \in d.freed <=> d.handle[i].refs = 0
      <4>1. d.handle[i].refs = r.refs
        BY <1>2, <2>3
      <4>2. i \in d.freed <=> r.refs = 0
        BY <1>r, <2>3
      <4>3. r.refs = G[i] + IF c.handle[i].inCache THEN 1 ELSE 0
        BY <1>r, <2>3
      <4> QED BY <4>1, <4>2, <4>3
    <3> QED BY <1>3, <2>2, <3>1
  <2>4. CASE i # e
    <3>1. /\ c.handle[i].refs = H[i] + IF c.handle[i].inCache THEN 1 ELSE 0
          /\ i \in c.freed <=> c.handle[i].refs = 0
      BY <1>1 DEF Referenced
    <3>2. G[i] = H[i]
      BY <1>4, <2>4 DEF SameBut
    <3> QED BY <1>2, <1>3, <1>r, <2>2, <2>4, <3>1, <3>2
  <2> QED BY <2>3, <2>4
<1>6. Referenced(d, G, 0)
  BY <1>2, <1>5 DEF Referenced
<1>7. Tabled(d, 0)
  <2>1. ASSUME NEW k \in Cached, d.table[k] # 0
        PROVE  /\ d.table[k] \in Of(d) /\ d.table[k] # 0
               /\ d.handle[d.table[k]].inCache /\ d.handle[d.table[k]].key = k
    <3>1. /\ c.table[k] \in Of(c)
          /\ c.handle[c.table[k]].inCache /\ c.handle[c.table[k]].key = k
      BY <1>1, <1>2, <2>1 DEF Tabled
    <3> QED BY <1>2, <1>3, <2>1, <3>1
  <2> QED BY <2>1 DEF Tabled
<1>8. d.usage = ChargeInCache(d.handle)
  BY <1>1, <1>r, SameCharge
<1>9. d.freed \subseteq Of(d)
  BY <1>2, <1>r
<1> QED BY <1>2, <1>3, <1>6, <1>7, <1>8, <1>9 DEF ButLists

\* A holder lets e go.
LEMMA UnrefKeeps ==
    ASSUME NEW c, NEW H, H \in [Nat -> Nat], Good(c, H, 0), NEW e \in Of(c), H[e] # 0,
           NEW G, SameBut(H, G, e), G[e] = H[e] - 1
    PROVE  Good(Unref(c, e), G, 0) /\ Len(Unref(c, e).handle) = Len(c.handle)
<1>1. PICK d : d = Unref(c, e)
  OBVIOUS
<1>2. /\ c \in Shards /\ Referenced(c, H, 0) /\ c.freed \subseteq Of(c)
      /\ Lines(c.lru, Unheld(c, H)) /\ c.inUse = InUse(c, H)
  BY DEF Good
<1>3. /\ e \in Nat /\ e # 0 /\ H[e] \in Nat \ {0}
      /\ c.handle[e] \in Handles /\ c.handle[e].refs \in Nat
      /\ \A i \in Of(c) : i \in Nat \ {0}
  BY <1>2, ShardFacts
<1>4. /\ c.handle[e].refs = H[e] + IF c.handle[e].inCache THEN 1 ELSE 0
      /\ e \in c.freed <=> c.handle[e].refs = 0
  BY <1>2 DEF Referenced
<1>5. c.handle[e].refs # 0
  BY <1>3, <1>4
<1>6. /\ Touched(c, d, e, [c.handle[e] EXCEPT !.refs = @ - 1]) /\ d.usage = c.usage
      /\ d.freed = IF c.handle[e].refs = 1 THEN c.freed \cup {e} ELSE c.freed
      /\ IF c.handle[e].refs = 2 /\ c.handle[e].inCache
         THEN d.lru = Append(Unlinked(c.lru, e), e) /\ d.inUse = c.inUse \ {e}
         ELSE d.lru = c.lru /\ d.inUse = c.inUse
  BY <1>1, <1>2, <1>5, UnrefIs
<1>7. PICK r : r = [c.handle[e] EXCEPT !.refs = @ - 1]
  OBVIOUS
<1>8. r.refs = c.handle[e].refs - 1 /\ r.inCache = c.handle[e].inCache
  BY <1>3, <1>7 DEF Handles
<1>9. /\ r.refs = G[e] + IF c.handle[e].inCache THEN 1 ELSE 0
      /\ d.freed \subseteq Of(c) /\ (e \in d.freed <=> r.refs = 0)
      /\ \A i \in Of(c) : i # e => (i \in d.freed <=> i \in c.freed)
  <2>1. r.refs = G[e] + IF c.handle[e].inCache THEN 1 ELSE 0
    BY <1>3, <1>4, <1>8
  <2>2. r.refs = 0 <=> c.handle[e].refs = 1
    BY <1>3, <1>8
  <2> QED BY <1>2, <1>4, <1>5, <1>6, <2>1, <2>2
<1>10. Touched(c, d, e, r)
  BY <1>6, <1>7
<1>a. Recounted(c, d, G, e, r)
  BY <1>6, <1>8, <1>9 DEF Recounted
<1>b. ButLists(c, d, G)
  BY <1>10, <1>a, ReferenceKeeps
<1>11. Of(d) = Of(c) /\ \A i \in Of(c) : d.handle[i].inCache = c.handle[i].inCache
  BY <1>b DEF ButLists
<1>12. \A i \in Of(c) : i # e => G[i] = H[i]
  BY <1>3 DEF SameBut
<1>13. Lines(d.lru, Unheld(d, G)) /\ d.inUse = InUse(d, G)
  <2>1. CASE c.handle[e].refs = 2 /\ c.handle[e].inCache
    <3>1. H[e] = 1 /\ G[e] = 0
      BY <1>3, <1>4, <2>1
    <3>2. PICK S : S = Unheld(c, H) \ {e}
      OBVIOUS
    <3>3. Unheld(d, G) = S \cup {e} /\ InUse(d, G) = InUse(c, H) \ {e}
      BY <1>11, <1>12, <2>1, <3>1, <3>2 DEF Unheld, InUse
    <3>4. PICK list : list = Unlinked(c.lru, e)
      OBVIOUS
    <3>5. Lines(list, S)
      BY <1>2, <3>2, <3>4, LinesUnlinked
    <3>6. Lines(Append(list, e), S \cup {e})
      BY <1>3, <3>2, <3>5, LinesAppend
    <3>7. d.lru = Append(list, e) /\ d.inUse = c.inUse \ {e}
      BY <1>6, <2>1, <3>4
    <3> QED BY <1>2, <3>3, <3>6, <3>7
  <2>2. CASE ~(c.handle[e].refs = 2 /\ c.handle[e].inCache)
    <3>1. d.lru = c.lru /\ d.inUse = c.inUse
      BY <1>6, <2>2
    <3>2. c.handle[e].inCache => H[e] # 0 /\ G[e] # 0
      BY <1>3, <1>4, <2>2
    <3>3. Unheld(d, G) = Unheld(c, H) /\ InUse(d, G) = InUse(c, H)
      BY <1>11, <1>12, <3>2 DEF Unheld, InUse
    <3> QED BY <1>2, <3>1, <3>3
  <2> QED BY <2>1, <2>2
<1>14. Good(d, G, 0) /\ Len(d.handle) = Len(c.handle)
  BY <1>b, <1>13 DEF ButLists, Good
<1> QED BY <1>1, <1>14

\* Another holder takes e, which is in the cache.
LEMMA RefKeeps ==
    ASSUME NEW c, NEW H, H \in [Nat -> Nat], Good(c, H, 0), NEW e \in Of(c),
           c.handle[e].inCache, NEW G, SameBut(H, G, e), G[e] = H[e] + 1
    PROVE  Good(Ref(c, e), G, 0) /\ Len(Ref(c, e).handle) = Len(c.handle)
<1>1. PICK d : d = Ref(c, e)
  OBVIOUS
<1>2. /\ c \in Shards /\ Referenced(c, H, 0) /\ c.freed \subseteq Of(c)
      /\ Lines(c.lru, Unheld(c, H)) /\ c.inUse = InUse(c, H)
  BY DEF Good
<1>3. /\ e \in Nat /\ e # 0 /\ H[e] \in Nat
      /\ c.handle[e] \in Handles /\ c.handle[e].refs \in Nat
      /\ \A i \in Of(c) : i \in Nat \ {0}
  BY <1>2, ShardFacts
<1>4. c.handle[e].refs = H[e] + 1 /\ (e \in c.freed <=> c.handle[e].refs = 0)
  BY <1>2 DEF Referenced
<1>5. /\ Touched(c, d, e, [c.handle[e] EXCEPT !.refs = @ + 1])
      /\ d.usage = c.usage /\ d.freed = c.freed
      /\ IF c.handle[e].refs = 1
         THEN d.lru = Unlinked(c.lru, e) /\ d.inUse = (c.inUse \ {e}) \cup {e}
         ELSE d.lru = c.lru /\ d.inUse = c.inUse
  BY <1>1, <1>2, RefIs
<1>6. PICK r : r = [c.handle[e] EXCEPT !.refs = @ + 1]
  OBVIOUS
<1>7. r.refs = c.handle[e].refs + 1 /\ r.inCache = c.handle[e].inCache
  BY <1>3, <1>6 DEF Handles
<1>8. /\ r.refs = G[e] + IF c.handle[e].inCache THEN 1 ELSE 0
      /\ d.freed \subseteq Of(c) /\ (e \in d.freed <=> r.refs = 0)
      /\ \A i \in Of(c) : i # e => (i \in d.freed <=> i \in c.freed)
  <2>1. r.refs = G[e] + IF c.handle[e].inCache THEN 1 ELSE 0
    BY <1>3, <1>4, <1>7
  <2>2. r.refs # 0 /\ c.handle[e].refs # 0
    BY <1>3, <1>4, <1>7
  <2> QED BY <1>2, <1>4, <1>5, <2>1, <2>2
<1>9. Touched(c, d, e, r)
  BY <1>5, <1>6
<1>a. Recounted(c, d, G, e, r)
  BY <1>5, <1>7, <1>8 DEF Recounted
<1>b. ButLists(c, d, G)
  BY <1>9, <1>a, ReferenceKeeps
<1>10. Of(d) = Of(c) /\ \A i \in Of(c) : d.handle[i].inCache = c.handle[i].inCache
  BY <1>b DEF ButLists
<1>11. \A i \in Of(c) : i # e => G[i] = H[i]
  BY <1>3 DEF SameBut
<1>12. G[e] # 0
  BY <1>3
<1>13. Lines(d.lru, Unheld(d, G)) /\ d.inUse = InUse(d, G)
  <2>1. CASE c.handle[e].refs = 1
    <3>1. H[e] = 0
      BY <1>3, <1>4, <2>1
    <3>2. Unheld(d, G) = Unheld(c, H) \ {e} /\ InUse(d, G) = (InUse(c, H) \ {e}) \cup {e}
      BY <1>10, <1>11, <1>12, <3>1 DEF Unheld, InUse
    <3>3. d.lru = Unlinked(c.lru, e) /\ d.inUse = (c.inUse \ {e}) \cup {e}
      BY <1>5, <2>1
    <3> QED BY <1>2, <3>2, <3>3, LinesUnlinked
  <2>2. CASE c.handle[e].refs # 1
    <3>1. H[e] # 0
      BY <1>3, <1>4, <2>2
    <3>2. Unheld(d, G) = Unheld(c, H) /\ InUse(d, G) = InUse(c, H)
      BY <1>10, <1>11, <1>12, <3>1 DEF Unheld, InUse
    <3>3. d.lru = c.lru /\ d.inUse = c.inUse
      BY <1>5, <2>2
    <3> QED BY <1>2, <3>2, <3>3
  <2> QED BY <2>1, <2>2
<1>14. Good(d, G, 0) /\ Len(d.handle) = Len(c.handle)
  BY <1>b, <1>13 DEF ButLists, Good
<1> QED BY <1>1, <1>14

LEMMA RemoveKeyKeeps ==
    ASSUME NEW c, NEW H, H \in [Nat -> Nat], Good(c, H, 0), NEW k \in Cached
    PROVE  Good(RemoveKey(c, k), H, 0) /\ Len(RemoveKey(c, k).handle) = Len(c.handle)
<1>1. PICK x : x = c.table[k]
  OBVIOUS
<1>2. PICK t : t = [c.table EXCEPT ![k] = 0]
  OBVIOUS
<1>3. PICK b : b = [c EXCEPT !.table[k] = 0]
  OBVIOUS
<1>4. /\ c \in Shards /\ Referenced(c, H, 0) /\ Tabled(c, 0) /\ c.freed \subseteq Of(c)
      /\ Lines(c.lru, Unheld(c, H)) /\ c.inUse = InUse(c, H)
      /\ c.usage = ChargeInCache(c.handle)
  BY DEF Good
<1>5. /\ c.table \in [Cached -> Nat] /\ c.handle \in Seq(Handles)
      /\ Bookkeeping(c.lru, c.inUse, c.usage, c.freed)
  BY <1>4, ShardIs
<1>6. t \in [Cached -> Nat] /\ t[k] = 0 /\ \A j \in Cached : j # k => t[j] = c.table[j]
  BY <1>2, <1>5
<1>7. PICK h, lru, inUse, usage, freed :
          /\ h = c.handle /\ lru = c.lru /\ inUse = c.inUse /\ usage = c.usage /\ freed = c.freed
  OBVIOUS
<1>a. Fields(b, h, t, lru, inUse, usage, freed)
  <2>1. c = [handle |-> h, table |-> c.table, lru |-> lru, inUse |-> inUse, usage |-> usage,
             freed |-> freed]
    BY <1>4, <1>7, ShardIs DEF Fields
  <2>2. b = [c EXCEPT !.table = t]
    BY <1>2, <1>3
  <2> QED BY <2>1, <2>2 DEF Fields
<1>8. /\ b.handle = c.handle /\ b.table = t /\ b.lru = c.lru /\ b.inUse = c.inUse
      /\ b.usage = c.usage /\ b.freed = c.freed /\ b \in Shards
  <2>1. /\ b.handle = h /\ b.table = t /\ b.lru = lru /\ b.inUse = inUse
        /\ b.usage = usage /\ b.freed = freed
        /\ h \in Seq(Handles) /\ t \in [Cached -> Nat]
           /\ Bookkeeping(lru, inUse, usage, freed) => b \in Shards
    BY <1>a, FieldsFacts
  <2>2. h \in Seq(Handles) /\ Bookkeeping(lru, inUse, usage, freed)
    BY <1>5, <1>7
  <2> QED BY <1>6, <1>7, <2>1, <2>2
<1>9. Of(b) = Of(c)
  BY <1>8 DEF Of
<1>10. \A i \in Of(c) : i \in Nat \ {0} /\ c.handle[i].key \in Cached
  BY <1>4, ShardFacts
<1>11. x # 0 => x \in Of(c) /\ c.handle[x].inCache /\ c.handle[x].key = k
  BY <1>1, <1>4 DEF Tabled
<1>12. Referenced(b, H, x)
  <2>1. ASSUME NEW i \in Of(c)
        PROVE  /\ b.handle[i].refs = H[i] + IF b.handle[i].inCache THEN 1 ELSE 0
               /\ i \in b.freed <=> b.handle[i].refs = 0
               /\ b.handle[i].inCache /\ i # x => b.table[b.handle[i].key] = i
    <3>1. /\ c.handle[i].refs = H[i] + IF c.handle[i].inCache THEN 1 ELSE 0
          /\ i \in c.freed <=> c.handle[i].refs = 0
          /\ c.handle[i].inCache /\ i # 0 => c.table[c.handle[i].key] = i
      BY <1>4 DEF Referenced
    <3>2. ASSUME c.handle[i].inCache, i # x PROVE t[c.handle[i].key] = i
      <4>1. c.table[c.handle[i].key] = i
        BY <1>10, <3>1, <3>2
      <4>2. c.handle[i].key # k
        BY <1>1, <3>2, <4>1
      <4> QED BY <1>6, <1>10, <4>1, <4>2
    <3> QED BY <1>8, <3>1, <3>2
  <2> QED BY <1>9, <2>1 DEF Referenced
<1>13. Tabled(b, x)
  <2>1. ASSUME NEW j \in Cached, b.table[j] # 0
        PROVE  /\ b.table[j] \in Of(b) /\ b.table[j] # x
               /\ b.handle[b.table[j]].inCache /\ b.handle[b.table[j]].key = j
    <3>1. j # k /\ b.table[j] = c.table[j]
      BY <1>6, <1>8, <2>1
    <3>2. /\ c.table[j] \in Of(c)
          /\ c.handle[c.table[j]].inCache /\ c.handle[c.table[j]].key = j
      BY <1>4, <2>1, <3>1 DEF Tabled
    <3>3. c.table[j] # x
      BY <1>10, <1>11, <3>1, <3>2
    <3> QED BY <1>8, <1>9, <3>1, <3>2, <3>3
  <2> QED BY <2>1 DEF Tabled
<1>14. Unheld(b, H) = Unheld(c, H) /\ InUse(b, H) = InUse(c, H)
  BY <1>8, <1>9 DEF Unheld, InUse
<1>15. Good(b, H, x)
  <2>1. x # 0 => x \in Of(b) /\ b.handle[x].inCache
    BY <1>8, <1>9, <1>11
  <2>2. b.freed \subseteq Of(b) /\ Lines(b.lru, Unheld(b, H)) /\ b.inUse = InUse(b, H)
    BY <1>4, <1>8, <1>9, <1>14
  <2>3. b.usage = ChargeInCache(b.handle)
    BY <1>4, <1>8
  <2> QED BY <1>8, <1>12, <1>13, <2>1, <2>2, <2>3 DEF Good
<1>16. Good(FinishErase(b, x), H, 0) /\ Len(FinishErase(b, x).handle) = Len(b.handle)
  BY <1>15, FinishEraseKeeps
<1>17. RemoveKey(c, k) = FinishErase(b, x)
  BY <1>1, <1>3 DEF RemoveKey
<1> QED BY <1>8, <1>16, <1>17

-----------------------------------------------------------------------------
(* The cache: the oldest entries go *)

\* One round of OldestGo.
OneGoes(d, all) ==
    IF d.lru # <<>> /\ (all \/ d.usage > capacity)
    THEN RemoveKey(d, d.handle[Head(d.lru)].key) ELSE d

\* Good shards with n handles.
GoodShards(H, n) == {d \in Shards : Good(d, H, 0) /\ Len(d.handle) = n}

Rounds(c, all, f) ==
    f = [n \in 0 .. Len(c.lru) |->
            IF n = 0 THEN c
            ELSE LET d == f[n - 1]
                 IN  IF d.lru # <<>> /\ (all \/ d.usage > capacity)
                     THEN RemoveKey(d, d.handle[Head(d.lru)].key)
                     ELSE d]

LEMMA OneGoesKeeps ==
    ASSUME NEW H, H \in [Nat -> Nat], NEW n, NEW d \in GoodShards(H, n), NEW all
    PROVE  OneGoes(d, all) \in GoodShards(H, n)
<1>1. d \in Shards /\ Good(d, H, 0) /\ Len(d.handle) = n
  BY DEF GoodShards
<1>2. CASE ~(d.lru # <<>> /\ (all \/ d.usage > capacity))
  BY <1>2 DEF OneGoes
<1>3. CASE d.lru # <<>> /\ (all \/ d.usage > capacity)
  <2>1. PICK k : k = d.handle[Head(d.lru)].key
    OBVIOUS
  <2>2. k \in Cached
    <3>1. Lines(d.lru, Unheld(d, H))
      BY <1>1 DEF Good
    <3>2. Head(d.lru) \in Unheld(d, H)
      BY <1>3, <3>1, LinesFirst
    <3>3. Head(d.lru) \in Of(d)
      BY <3>2 DEF Unheld
    <3> QED BY <1>1, <2>1, <3>3, ShardFacts
  <2>3. PICK r : r = RemoveKey(d, k)
    OBVIOUS
  <2>4. Good(r, H, 0) /\ Len(r.handle) = n
    BY <1>1, <2>2, <2>3, RemoveKeyKeeps
  <2>5. OneGoes(d, all) = r
    BY <1>3, <2>1, <2>3 DEF OneGoes
  <2> QED BY <2>4, <2>5 DEF GoodShards, Good
<1> QED BY <1>2, <1>3

LEMMA RoundsExist ==
    ASSUME NEW H, H \in [Nat -> Nat], NEW n, NEW c \in GoodShards(H, n), NEW all
    PROVE  \E f : Rounds(c, all, f)
<1> DEFINE V == GoodShards(H, n)
           F == [p \in Nat \X V |-> OneGoes(p[2], all)]
<1>1. Len(c.lru) \in Nat
  BY LenProperties DEF GoodShards, Shards
<1>2. \A d \in V : OneGoes(d, all) \in V
  BY OneGoesKeeps
<1>3. c \in V
  OBVIOUS
<1> HIDE DEF V
<1>4. StepsIn(F, V)
  BY <1>2 DEF StepsIn
<1>5. \A m \in Nat, d \in V : F[<<m, d>>] = OneGoes(d, all)
  OBVIOUS
<1> HIDE DEF F
<1>6. PICK f : Computes(F, V, c, Len(c.lru), f)
  BY <1>1, <1>3, <1>4, StepByStep
<1>7. /\ f \in [0 .. Len(c.lru) -> V] /\ f[0] = c
      /\ \A m \in 1 .. Len(c.lru) : f[m] = F[<<m, f[m - 1]>>]
  BY <1>6 DEF Computes
<1>8. ASSUME NEW m \in 0 .. Len(c.lru)
      PROVE  f[m] = IF m = 0 THEN c ELSE OneGoes(f[m - 1], all)
  <2>1. CASE m = 0
    BY <1>7, <2>1
  <2>2. CASE m # 0
    <3>1. m \in 1 .. Len(c.lru) /\ m - 1 \in 0 .. Len(c.lru) /\ m \in Nat
      BY <1>1, <2>2
    <3>2. f[m - 1] \in V
      BY <1>7, <3>1
    <3> QED BY <1>5, <1>7, <2>2, <3>1, <3>2
  <2> QED BY <2>1, <2>2
<1>9. f = [m \in 0 .. Len(c.lru) |-> IF m = 0 THEN c ELSE OneGoes(f[m - 1], all)]
  <2>1. f = [m \in 0 .. Len(c.lru) |-> f[m]]
    BY <1>7
  <2> QED BY <1>8, <2>1
<1> QED BY <1>9 DEF Rounds, OneGoes

LEMMA OldestGoKeeps ==
    ASSUME NEW H, H \in [Nat -> Nat], NEW n, NEW c \in GoodShards(H, n), NEW all
    PROVE  OldestGo(c, all) \in GoodShards(H, n)
<1> DEFINE V == GoodShards(H, n)
           g == CHOOSE f : Rounds(c, all, f)
<1>1. Rounds(c, all, g)
  BY RoundsExist
<1>2. OldestGo(c, all) = g[Len(c.lru)]
  BY DEF OldestGo, Rounds
<1> HIDE DEF g
<1>3. Len(c.lru) \in Nat
  BY LenProperties DEF GoodShards, Shards
<1> DEFINE W(m) == IF m = 0 THEN c ELSE OneGoes(g[m - 1], all)
<1>4. \A m \in 0 .. Len(c.lru) : g[m] = W(m)
  <2>1. g = [m \in 0 .. Len(c.lru) |-> W(m)]
    BY <1>1 DEF Rounds, OneGoes
  <2> HIDE DEF W
  <2> QED BY <2>1
<1>5. \A d \in V : OneGoes(d, all) \in V
  BY OneGoesKeeps
<1>6. c \in V
  OBVIOUS
<1> HIDE DEF V
<1> DEFINE T == {k \in Nat : k <= Len(c.lru) => g[k] \in V}
<1>7. 0 \in T
  BY <1>3, <1>4, <1>6
<1>8. ASSUME NEW k \in T \cap Nat PROVE k + 1 \in T
  <2>1. SUFFICES ASSUME k + 1 <= Len(c.lru) PROVE g[k + 1] \in V
    OBVIOUS
  <2>2. k \in Nat /\ k <= Len(c.lru) /\ k + 1 \in 0 .. Len(c.lru) /\ k + 1 # 0 /\ (k + 1) - 1 = k
    BY <1>3, <2>1
  <2>3. g[k] \in V
    BY <2>2
  <2>4. g[k + 1] = OneGoes(g[k], all)
    BY <1>4, <2>2
  <2> QED BY <1>5, <2>3, <2>4
<1> HIDE DEF T
<1>9. Nat \subseteq T
  BY <1>7, <1>8, NaturalsFrom0
<1>10. g[Len(c.lru)] \in V
  BY <1>3, <1>9 DEF T
<1> QED BY <1>2, <1>10 DEF V

-----------------------------------------------------------------------------
(* The cache: Insert *)

NewHandle(k, charge) == [key |-> k, charge |-> charge, refs |-> 2, inCache |-> TRUE]

\* The shard with the new handle in its place, before the one it replaces goes.
Placed(c, k, charge, b) ==
    b = [c EXCEPT !.handle = Append(@, [key |-> k, charge |-> charge, refs |-> 2,
                                        inCache |-> TRUE]),
                  !.inUse = @ \cup {Len(c.handle) + 1}, !.usage = @ + charge,
                  !.table[k] = Len(c.handle) + 1]

\* What is in it.
PlacedAt(c, k, charge, e, b) ==
    /\ b \in Shards /\ Len(b.handle) = e /\ Of(b) = Of(c) \cup {e}
    /\ \A i \in Of(c) : b.handle[i] = c.handle[i]
    /\ b.handle[e] = NewHandle(k, charge)
    /\ b.table[k] = e /\ \A j \in Cached : j # k => b.table[j] = c.table[j]
    /\ b.lru = c.lru /\ b.inUse = c.inUse \cup {e} /\ b.freed = c.freed
    /\ b.usage = c.usage + charge

LEMMA PlacedIs ==
    ASSUME NEW c \in Shards, NEW k \in Cached, NEW charge \in Nat, NEW b, Placed(c, k, charge, b),
           NEW e, e = Len(c.handle) + 1
    PROVE  PlacedAt(c, k, charge, e, b)
<1>1. PICK r : r = NewHandle(k, charge)
  OBVIOUS
<1>2. r \in Handles
  BY <1>1 DEF Handles, NewHandle
<1>3. /\ c.table \in [Cached -> Nat] /\ c.handle \in Seq(Handles) /\ Len(c.handle) \in Nat
      /\ Of(c) \subseteq Nat \ {0}
  BY ShardIs, ShardFacts
<1>4. PICK t : t = [c.table EXCEPT ![k] = e]
  OBVIOUS
<1>5. t \in [Cached -> Nat] /\ t[k] = e /\ \A j \in Cached : j # k => t[j] = c.table[j]
  BY <1>3, <1>4
<1>6. PICK g : g = Append(c.handle, r)
  OBVIOUS
<1>7. /\ g \in Seq(Handles) /\ Len(g) = e /\ g[e] = r
      /\ \A i \in 1 .. Len(c.handle) : g[i] = c.handle[i]
  BY <1>2, <1>3, <1>6, AppendProperties
<1>8. PICK lru, inUse, usage, freed :
          /\ lru = c.lru /\ inUse = c.inUse \cup {e} /\ usage = c.usage + charge
          /\ freed = c.freed
  OBVIOUS
<1>9. Fields(b, g, t, lru, inUse, usage, freed)
  <2>1. c = [handle |-> c.handle, table |-> c.table, lru |-> lru, inUse |-> c.inUse,
             usage |-> c.usage, freed |-> freed]
    BY <1>8, ShardIs DEF Fields
  <2>2. PICK h, m, u, s : h = c.handle /\ m = c.table /\ u = c.inUse /\ s = c.usage
    OBVIOUS
  <2>3. c = [handle |-> h, table |-> m, lru |-> lru, inUse |-> u, usage |-> s, freed |-> freed]
    BY <2>1, <2>2
  <2>4. b = [c EXCEPT !.handle = Append(@, r), !.inUse = @ \cup {e}, !.usage = @ + charge,
                      !.table[k] = e]
    BY <1>1 DEF Placed, NewHandle
  <2>5. b = [handle |-> Append(h, r), table |-> [m EXCEPT ![k] = e], lru |-> lru,
             inUse |-> u \cup {e}, usage |-> s + charge, freed |-> freed]
    BY <2>3, <2>4
  <2> QED BY <1>4, <1>6, <1>8, <2>2, <2>5 DEF Fields
<1>10. Bookkeeping(lru, inUse, usage, freed)
  <2>1. Bookkeeping(c.lru, c.inUse, c.usage, c.freed) /\ e \in Nat
    BY <1>3, ShardIs
  <2> QED BY <1>8, <2>1 DEF Bookkeeping
<1>11. /\ b.handle = g /\ b.table = t /\ b.lru = lru /\ b.inUse = inUse
       /\ b.usage = usage /\ b.freed = freed /\ b \in Shards
  BY <1>5, <1>7, <1>9, <1>10, FieldsFacts
<1>12. Of(b) = Of(c) \cup {e}
  BY <1>3, <1>7, <1>11 DEF Of
<1> QED BY <1>1, <1>5, <1>7, <1>8, <1>11, <1>12 DEF PlacedAt, Of

LEMMA NotBefore ==
    ASSUME NEW n \in Nat
    PROVE  n + 1 \notin 1 .. n /\ n + 1 \in Nat \ {0}
OBVIOUS

LEMMA PlacedKeeps ==
    ASSUME NEW c, NEW H, H \in [Nat -> Nat], Good(c, H, 0), NEW k \in Cached, NEW charge \in Nat,
           NEW b, NEW e, e = Len(c.handle) + 1, PlacedAt(c, k, charge, e, b),
           NEW G, SameBut(H, G, e), G[e] = 1
    PROVE  Good(b, G, c.table[k])
<1>1. PICK x : x = c.table[k]
  OBVIOUS
<1>2. /\ c \in Shards /\ Referenced(c, H, 0) /\ Tabled(c, 0) /\ c.freed \subseteq Of(c)
      /\ Lines(c.lru, Unheld(c, H)) /\ c.inUse = InUse(c, H)
      /\ c.usage = ChargeInCache(c.handle)
  BY DEF Good
<1>3. /\ b \in Shards /\ Len(b.handle) = e /\ Of(b) = Of(c) \cup {e}
      /\ \A i \in Of(c) : b.handle[i] = c.handle[i]
      /\ b.table[k] = e /\ \A j \in Cached : j # k => b.table[j] = c.table[j]
      /\ b.lru = c.lru /\ b.inUse = c.inUse \cup {e} /\ b.freed = c.freed
      /\ b.usage = c.usage + charge
  BY DEF PlacedAt
<1>4. /\ b.handle[e].key = k /\ b.handle[e].charge = charge /\ b.handle[e].refs = 2
      /\ b.handle[e].inCache
  BY DEF PlacedAt, NewHandle
<1>5. /\ \A i \in Of(c) : i \in Nat \ {0} /\ c.handle[i].key \in Cached
      /\ Len(c.handle) \in Nat /\ e \notin Of(c) /\ e \in Nat \ {0}
  <2>1. /\ \A i \in Of(c) : i \in Nat \ {0} /\ c.handle[i].key \in Cached
        /\ Len(c.handle) \in Nat
    BY <1>2, ShardFacts
  <2>2. PICK n \in Nat : n = Len(c.handle)
    BY <2>1
  <2>3. e = n + 1
    BY <2>2
  <2>4. n + 1 \notin 1 .. n /\ n + 1 \in Nat \ {0}
    BY NotBefore
  <2>5. e \notin 1 .. n /\ e \in Nat \ {0}
    BY <2>3, <2>4
  <2> QED BY <2>1, <2>2, <2>5 DEF Of
<1>6. \A i \in Of(c) : i # e /\ G[i] = H[i]
  BY <1>5 DEF SameBut
<1>7. x # 0 => x \in Of(c) /\ c.handle[x].inCache /\ c.handle[x].key = k
  BY <1>1, <1>2 DEF Tabled
<1>8. Referenced(b, G, x)
  <2>1. ASSUME NEW i \in Of(b)
        PROVE  /\ b.handle[i].refs = G[i] + IF b.handle[i].inCache THEN 1 ELSE 0
               /\ i \in b.freed <=> b.handle[i].refs = 0
               /\ b.handle[i].inCache /\ i # x => b.table[b.handle[i].key] = i
    <3>1. CASE i = e
      <4>1. b.handle[i].refs = 2 /\ b.handle[i].inCache /\ G[i] = 1
        BY <1>4, <3>1
      <4>2. i \notin b.freed
        BY <1>2, <1>3, <1>5, <3>1
      <4>3. b.table[b.handle[i].key] = i
        BY <1>3, <1>4, <3>1
      <4> QED BY <4>1, <4>2, <4>3
    <3>2. CASE i # e
      <4>1. i \in Of(c)
        BY <1>3, <3>2
      <4>2. /\ c.handle[i].refs = H[i] + IF c.handle[i].inCache THEN 1 ELSE 0
            /\ i \in c.freed <=> c.handle[i].refs = 0
            /\ c.handle[i].inCache /\ i # 0 => c.table[c.handle[i].key] = i
        BY <1>2, <4>1 DEF Referenced
      <4>3. ASSUME c.handle[i].inCache, i # x PROVE b.table[c.handle[i].key] = i
        <5>1. c.table[c.handle[i].key] = i
          BY <1>5, <4>1, <4>2, <4>3
        <5>2. c.handle[i].key # k
          BY <1>1, <4>3, <5>1
        <5> QED BY <1>3, <1>5, <4>1, <5>1, <5>2
      <4>4. b.handle[i] = c.handle[i] /\ G[i] = H[i] /\ b.freed = c.freed
        BY <1>3, <1>6, <4>1
      <4> QED BY <4>2, <4>3, <4>4
    <3> QED BY <3>1, <3>2
  <2> QED BY <2>1 DEF Referenced
<1>9. Tabled(b, x)
  <2>1. ASSUME NEW j \in Cached, b.table[j] # 0
        PROVE  /\ b.table[j] \in Of(b) /\ b.table[j] # x
               /\ b.handle[b.table[j]].inCache /\ b.handle[b.table[j]].key = j
    <3>1. CASE j = k
      <4>1. e # x
        BY <1>5, <1>7
      <4> QED BY <1>3, <1>4, <3>1, <4>1
    <3>2. CASE j # k
      <4>1. b.table[j] = c.table[j]
        BY <1>3, <3>2
      <4>2. /\ c.table[j] \in Of(c)
            /\ c.handle[c.table[j]].inCache /\ c.handle[c.table[j]].key = j
        BY <1>2, <2>1, <4>1 DEF Tabled
      <4>3. c.table[j] # x
        BY <1>5, <1>7, <3>2, <4>2
      <4>4. b.handle[c.table[j]] = c.handle[c.table[j]] /\ c.table[j] \in Of(b)
        BY <1>3, <4>2
      <4> QED BY <4>1, <4>2, <4>3, <4>4
    <3> QED BY <3>1, <3>2
  <2> QED BY <2>1 DEF Tabled
<1>a. /\ \A i : i \in Of(b) <=> i \in Of(c) \/ i = e
      /\ \A i \in Of(c) : b.handle[i].inCache = c.handle[i].inCache
  BY <1>3
<1>10. Unheld(b, G) = Unheld(c, H)
  <2>1. \A i : i \in Unheld(b, G) <=> i \in Unheld(c, H)
    <3>1. G[e] # 0
      OBVIOUS
    <3> QED BY <1>6, <1>a, <3>1 DEF Unheld
  <2> QED BY <2>1
<1>11. InUse(b, G) = InUse(c, H) \cup {e}
  <2>1. \A i : i \in InUse(b, G) <=> i \in InUse(c, H) \/ i = e
    <3>1. G[e] # 0
      OBVIOUS
    <3> QED BY <1>4, <1>6, <1>a, <3>1 DEF InUse
  <2> QED BY <2>1
<1>12. b.usage = ChargeInCache(b.handle)
  <2>1. PICK h, g : h = c.handle /\ g = b.handle
    OBVIOUS
  <2>2. Len(h) \in Nat /\ Len(g) = Len(h) + 1 /\ Metered(h) /\ Metered(g)
    BY <1>2, <1>3, <2>1, ShardFacts
  <2>3. \A m \in 1 .. Len(h) : Share(g, m) = Share(h, m)
    BY <1>3, <2>1 DEF Share, Of
  <2>4. ChargeInCache(g) = ChargeInCache(h) + Share(g, Len(h) + 1)
    BY <2>2, <2>3, ChargeAppend
  <2>5. Share(g, Len(h) + 1) = charge
    BY <1>4, <2>1 DEF Share
  <2> QED BY <1>2, <1>3, <2>1, <2>4, <2>5
<1>13. b.freed \subseteq Of(b) /\ Lines(b.lru, Unheld(b, G)) /\ b.inUse = InUse(b, G)
  BY <1>2, <1>3, <1>10, <1>11
<1>14. x # 0 => x \in Of(b) /\ b.handle[x].inCache
  BY <1>3, <1>7
<1>15. Good(b, G, x)
  BY <1>3, <1>8, <1>9, <1>12, <1>13, <1>14 DEF Good
<1> QED BY <1>1, <1>15

\* The new handle e has a holder, and every other keeps those it has.
HoldsNew(c, H, G, e) ==
    /\ H \in [Nat -> Nat] /\ G \in [Nat -> Nat] /\ e = Len(c.handle) + 1
    /\ SameBut(H, G, e) /\ G[e] = 1

Grown(d, G, e) == Good(d, G, 0) /\ Len(d.handle) = e

LEMMA InsertedKeeps ==
    ASSUME NEW c, NEW H, Good(c, H, 0), NEW k \in Cached, NEW charge \in Nat,
           NEW G, NEW e, HoldsNew(c, H, G, e)
    PROVE  Grown(Inserted(c, k, charge), G, e)
<1> USE DEF HoldsNew
<1>1. PICK b : Placed(c, k, charge, b)
  BY DEF Placed
<1>2. c \in Shards
  BY DEF Good
<1>3. PlacedAt(c, k, charge, e, b)
  BY <1>1, <1>2, PlacedIs
<1>4. Good(b, G, c.table[k])
  BY <1>3, PlacedKeeps
<1>5. Len(b.handle) = e
  BY <1>3 DEF PlacedAt
<1>6. PICK x : x = c.table[k]
  OBVIOUS
<1>7. PICK d : d = FinishErase(b, x)
  OBVIOUS
<1>8. Good(d, G, 0) /\ Len(d.handle) = e
  <2>1. Good(b, G, x)
    BY <1>4, <1>6
  <2>2. Good(FinishErase(b, x), G, 0) /\ Len(FinishErase(b, x).handle) = Len(b.handle)
    BY <2>1, FinishEraseKeeps
  <2> QED BY <1>5, <1>7, <2>2
<1>9. d \in GoodShards(G, e)
  BY <1>8 DEF GoodShards, Good
<1>10. PICK no : no = FALSE
  OBVIOUS
<1>11. OldestGo(d, no) \in GoodShards(G, e)
  BY <1>9, OldestGoKeeps
<1>12. Inserted(c, k, charge) = OldestGo(d, FALSE)
  BY <1>1, <1>6, <1>7 DEF Inserted, Placed
<1>13. OldestGo(d, FALSE) \in GoodShards(G, e)
  BY <1>10, <1>11
<1> QED BY <1>12, <1>13 DEF GoodShards, Grown

-----------------------------------------------------------------------------
(* The cache: the inductive invariant, and its steps *)

\* Those who hold a handle hold one that was made, one who opens a file holds
\* none, and the shard is good for what they hold.
CacheInv ==
    /\ held \in [CacheUser -> Nat] /\ \A u \in CacheUser : held[u] <= Len(cache.handle)
    /\ opening \in [CacheUser -> Cached \cup {NoTable}]
    /\ \A u \in CacheUser : opening[u] # NoTable => held[u] = 0
    /\ Good(cache, Counts, 0)

LEMMA CacheFacts ==
    ASSUME CacheInv
    PROVE  /\ cache \in Shards /\ IsFiniteSet(CacheUser) /\ Counts \in [Nat -> Nat]
           /\ Len(cache.handle) \in Nat /\ cache.handle \in Seq(Handles)
           /\ \A e \in Nat : Counts[e] = Holders(e)
           /\ \A u \in CacheUser : held[u] # 0 => held[u] \in Of(cache)
<1>1. cache \in Shards /\ IsFiniteSet(CacheUser)
  BY CacheAssumption DEF CacheInv, Good
<1>2. Len(cache.handle) \in Nat /\ cache.handle \in Seq(Handles)
  BY <1>1, ShardFacts
<1>3. Counts \in [Nat -> Nat] /\ \A e \in Nat : Counts[e] = Holders(e)
  BY <1>1, CountsType DEF Counts
<1>4. \A u \in CacheUser : held[u] # 0 => held[u] \in Of(cache)
  BY <1>2 DEF CacheInv, Of
<1> QED BY <1>1, <1>2, <1>3, <1>4

\* The counts when one goes from a handle to another, 0 for none.
Moved(H, G, from, to) ==
    /\ G \in [Nat -> Nat]
    /\ \A d \in Nat : G[d] = H[d] + (IF to = d THEN 1 ELSE 0) - (IF from = d THEN 1 ELSE 0)

LEMMA TakesOne ==
    ASSUME NEW H, H \in [Nat -> Nat], NEW G, NEW e \in Nat \ {0}, Moved(H, G, 0, e)
    PROVE  G \in [Nat -> Nat] /\ SameBut(H, G, e) /\ G[e] = H[e] + 1
<1>1. \A d \in Nat : H[d] \in Nat
  OBVIOUS
<1>2. \A d \in Nat : G[d] = H[d] + (IF e = d THEN 1 ELSE 0) - (IF 0 = d THEN 1 ELSE 0)
  BY DEF Moved
<1>3. ASSUME NEW d \in Nat \ {0}, d # e PROVE G[d] = H[d]
  BY <1>1, <1>2, <1>3
<1>4. G[e] = H[e] + 1
  BY <1>1, <1>2
<1> QED BY <1>3, <1>4 DEF Moved, SameBut

LEMMA LosesOne ==
    ASSUME NEW H, H \in [Nat -> Nat], NEW G, NEW e \in Nat \ {0}, Moved(H, G, e, 0)
    PROVE  G \in [Nat -> Nat] /\ SameBut(H, G, e) /\ G[e] = H[e] - 1
<1>1. \A d \in Nat : H[d] \in Nat
  OBVIOUS
<1>2. \A d \in Nat : G[d] = H[d] + (IF 0 = d THEN 1 ELSE 0) - (IF e = d THEN 1 ELSE 0)
  BY DEF Moved
<1>3. ASSUME NEW d \in Nat \ {0}, d # e PROVE G[d] = H[d]
  BY <1>1, <1>2, <1>3
<1>4. G[e] = H[e] - 1
  BY <1>1, <1>2
<1> QED BY <1>3, <1>4 DEF Moved, SameBut

LEMMA CountsChange ==
    ASSUME CacheInv, NEW u \in CacheUser, NEW e \in Nat, held' = [held EXCEPT ![u] = e]
    PROVE  Moved(Counts, Counts', held[u], e)
<1>1. /\ IsFiniteSet(CacheUser) /\ Counts \in [Nat -> Nat]
      /\ \A d \in Nat : Counts[d] = Holders(d)
  BY CacheFacts
<1>2. held \in [CacheUser -> Nat]
  BY DEF CacheInv
<1>3. ASSUME NEW d \in Nat
      PROVE  Holders(d)' = Holders(d) + (IF e = d THEN 1 ELSE 0) - (IF held[u] = d THEN 1 ELSE 0)
  BY <1>1, <1>2, HoldersChange
<1>4. held' \in [CacheUser -> Nat]
  BY <1>2
<1>5. ASSUME NEW d \in Nat PROVE Counts'[d] = Holders(d)'
  BY DEF Counts
<1>6. ASSUME NEW d \in Nat PROVE Holders(d)' \in Nat
  <2> DEFINE S == {v \in CacheUser : held'[v] = d}
  <2>1. S \in SUBSET CacheUser
    OBVIOUS
  <2>2. Cardinality(S) \in Nat
    <3> HIDE DEF S
    <3> QED BY <1>1, <2>1, FS_Subset, FS_CardinalityType
  <2> QED BY <2>2 DEF Holders
<1>7. Counts' \in [Nat -> Nat]
  BY <1>6 DEF Counts
<1>8. \A d \in Nat : Counts'[d] = Counts[d] + (IF e = d THEN 1 ELSE 0)
                                   - (IF held[u] = d THEN 1 ELSE 0)
  BY <1>1, <1>3, <1>5
<1> QED BY <1>7, <1>8 DEF Moved

LEMMA CacheStarts ==
    ASSUME CacheInit
    PROVE  CacheInv
<1>1. IsFiniteSet(CacheUser) /\ capacity \in Nat
  BY CacheAssumption
<1>2. /\ held \in [CacheUser -> Nat] /\ opening \in [CacheUser -> Cached \cup {NoTable}]
      /\ \A u \in CacheUser : held[u] = 0
  BY DEF CacheInit
<1>3. PICK h, t : h = <<>> /\ t = [k \in Cached |-> 0]
  OBVIOUS
<1>4. h \in Seq(Handles) /\ Len(h) = 0 /\ t \in [Cached -> Nat] /\ \A k \in Cached : t[k] = 0
  BY <1>3
<1>5. PICK lru, none, z : lru = <<>> /\ none = {} /\ z = 0
  OBVIOUS
<1>6. Fields(cache, h, t, lru, none, z, none)
  BY <1>3, <1>5 DEF CacheInit, Fields
<1>7. lru \in Seq(Nat) /\ Len(lru) = 0 /\ Bookkeeping(lru, none, z, none)
  BY <1>5 DEF Bookkeeping
<1>8. /\ cache.handle = h /\ cache.table = t /\ cache.lru = lru /\ cache.inUse = none
      /\ cache.usage = z /\ cache.freed = none /\ cache \in Shards
  <2>1. PICK d, out : d = cache /\ out = none
    OBVIOUS
  <2>2. Fields(d, h, t, lru, none, z, out)
    BY <1>6, <2>1
  <2>3. /\ d.handle = h /\ d.table = t /\ d.lru = lru /\ d.inUse = none
        /\ d.usage = z /\ d.freed = out
        /\ h \in Seq(Handles) /\ t \in [Cached -> Nat]
           /\ Bookkeeping(lru, none, z, out) => d \in Shards
    BY <2>2, FieldsFacts
  <2>4. h \in Seq(Handles) /\ t \in [Cached -> Nat] /\ Bookkeeping(lru, none, z, out)
    BY <1>4, <1>7, <2>1
  <2> QED BY <2>1, <2>3, <2>4
<1>9. Of(cache) = {}
  BY <1>4, <1>8 DEF Of
<1>10. Referenced(cache, Counts, 0) /\ Tabled(cache, 0)
  BY <1>4, <1>8, <1>9 DEF Referenced, Tabled
<1>11. Unheld(cache, Counts) = {} /\ InUse(cache, Counts) = {}
  BY <1>9 DEF Unheld, InUse
<1>12. Lines(cache.lru, {})
  BY <1>7, <1>8 DEF Lines
<1>13. ChargeInCache(h) = 0
  <2>1. Metered(h) /\ Len(h) \in Nat
    BY <1>4 DEF Metered
  <2>2. PICK f : Totals(h, f) /\ ChargeInCache(h) = f[Len(h)]
    BY <2>1, ChargeIs
  <2> QED BY <1>4, <2>2 DEF Totals
<1>14. Good(cache, Counts, 0)
  BY <1>5, <1>8, <1>10, <1>11, <1>12, <1>13 DEF Good
<1>15. \A u \in CacheUser : held[u] <= Len(cache.handle)
  BY <1>2, <1>4, <1>8
<1> QED BY <1>2, <1>14, <1>15 DEF CacheInv

LEMMA FindKeeps ==
    ASSUME CacheInv, NEW u \in CacheUser, NEW k \in Cached, FindTable(u, k)
    PROVE  CacheInv'
<1>1. /\ held \in [CacheUser -> Nat] /\ opening \in [CacheUser -> Cached \cup {NoTable}]
      /\ \A v \in CacheUser : held[v] <= Len(cache.handle)
      /\ Good(cache, Counts, 0) /\ held[u] = 0 /\ opening[u] = NoTable
      /\ \A v \in CacheUser : opening[v] # NoTable => held[v] = 0
  BY DEF CacheInv, FindTable
<1>2. /\ cache \in Shards /\ Counts \in [Nat -> Nat] /\ Len(cache.handle) \in Nat
  BY CacheFacts
<1>3. CASE cache.table[k] # 0
  <2>1. PICK e : e = cache.table[k]
    OBVIOUS
  <2>2. e \in Of(cache) /\ cache.handle[e].inCache
    BY <1>1, <1>3, <2>1 DEF Good, Tabled
  <2>3. e \in Nat \ {0} /\ e <= Len(cache.handle)
    BY <1>2, <2>2 DEF Of
  <2>4. cache' = Ref(cache, e) /\ held' = [held EXCEPT ![u] = e] /\ opening' = opening
    BY <1>3, <2>1 DEF FindTable
  <2>5. PICK H, G : H = Counts /\ G = Counts'
    OBVIOUS
  <2>6. Moved(H, G, 0, e)
    BY <1>1, <2>3, <2>4, <2>5, CountsChange
  <2>7. G \in [Nat -> Nat] /\ SameBut(H, G, e) /\ G[e] = H[e] + 1
    BY <1>2, <2>3, <2>5, <2>6, TakesOne
  <2>8. Good(Ref(cache, e), G, 0) /\ Len(Ref(cache, e).handle) = Len(cache.handle)
    BY <1>1, <1>2, <2>2, <2>5, <2>7, RefKeeps
  <2>9. Good(cache', G, 0) /\ Len(cache'.handle) = Len(cache.handle)
    BY <2>4, <2>8
  <2>10. held' \in [CacheUser -> Nat] /\ \A v \in CacheUser : held'[v] <= Len(cache.handle)
    BY <1>1, <2>3, <2>4
  <2>11. \A v \in CacheUser : opening'[v] # NoTable => held'[v] = 0
    BY <1>1, <2>4
  <2> QED BY <1>1, <2>4, <2>5, <2>9, <2>10, <2>11 DEF CacheInv
<1>4. CASE cache.table[k] = 0
  <2>1. cache' = cache /\ held' = held /\ opening' = [opening EXCEPT ![u] = k]
    BY <1>4 DEF FindTable
  <2>2. Counts' = Counts
    BY <2>1 DEF Counts, Holders
  <2>3. opening' \in [CacheUser -> Cached \cup {NoTable}]
    BY <1>1, <2>1
  <2>4. \A v \in CacheUser : opening'[v] # NoTable => held'[v] = 0
    BY <1>1, <2>1
  <2> QED BY <1>1, <2>1, <2>2, <2>3, <2>4 DEF CacheInv
<1> QED BY <1>3, <1>4

LEMMA OpenedKeeps ==
    ASSUME CacheInv, NEW u \in CacheUser, Opened(u)
    PROVE  CacheInv'
<1>1. /\ held \in [CacheUser -> Nat] /\ opening \in [CacheUser -> Cached \cup {NoTable}]
      /\ \A v \in CacheUser : held[v] <= Len(cache.handle)
      /\ Good(cache, Counts, 0) /\ held[u] = 0
      /\ \A v \in CacheUser : opening[v] # NoTable => held[v] = 0
  BY DEF CacheInv, Opened
<1>2. /\ cache \in Shards /\ Counts \in [Nat -> Nat] /\ Len(cache.handle) \in Nat
  BY CacheFacts
<1>3. PICK k : k = opening[u]
  OBVIOUS
<1>4. k \in Cached
  BY <1>1, <1>3 DEF Opened
<1>5. PICK e : e = Len(cache.handle) + 1
  OBVIOUS
<1>6. e \in Nat \ {0} /\ \A v \in CacheUser : held[v] <= e /\ held[v] # e
  <2>1. PICK n \in Nat : n = Len(cache.handle)
    BY <1>2
  <2>2. ASSUME NEW v \in CacheUser PROVE held[v] \in Nat /\ held[v] <= n
    BY <1>1, <2>1
  <2>3. e = n + 1
    BY <1>5, <2>1
  <2> QED BY <2>2, <2>3
<1>7. PICK charge \in Charges : cache' = Inserted(cache, k, charge)
  BY <1>3 DEF Opened
<1>8. charge \in Nat
  BY CacheAssumption
<1>9. /\ held' = [held EXCEPT ![u] = e] /\ opening' = [opening EXCEPT ![u] = NoTable]
  BY <1>5 DEF Opened
<1>10. PICK H, G : H = Counts /\ G = Counts'
  OBVIOUS
<1>11. Moved(H, G, 0, e)
  <2>1. e \in Nat /\ held' = [held EXCEPT ![u] = e]
    BY <1>6, <1>9
  <2>2. Moved(Counts, Counts', held[u], e)
    BY <2>1, CountsChange
  <2>3. held[u] = 0
    BY <1>1
  <2> QED BY <1>10, <2>2, <2>3
<1>12. H[e] = 0
  <2>1. Counts[e] = Holders(e)
    BY <1>6, CacheFacts
  <2>2. {v \in CacheUser : held[v] = e} = {}
    BY <1>6
  <2>3. Cardinality({v \in CacheUser : held[v] = e}) = 0
    BY <2>2, FS_EmptySet
  <2> QED BY <1>10, <2>1, <2>3 DEF Holders
<1>13. G \in [Nat -> Nat] /\ SameBut(H, G, e) /\ G[e] = 1
  <2>1. G \in [Nat -> Nat] /\ SameBut(H, G, e) /\ G[e] = H[e] + 1
    BY <1>2, <1>6, <1>10, <1>11, TakesOne
  <2> QED BY <1>12, <2>1
<1>14. Good(Inserted(cache, k, charge), G, 0) /\ Len(Inserted(cache, k, charge).handle) = e
  <2>1. Good(cache, H, 0) /\ H \in [Nat -> Nat]
    BY <1>1, <1>2, <1>10
  <2>2. HoldsNew(cache, H, G, e)
    BY <1>5, <1>13, <2>1 DEF HoldsNew
  <2>3. Grown(Inserted(cache, k, charge), G, e)
    BY <1>4, <1>8, <2>1, <2>2, InsertedKeeps
  <2> QED BY <2>3 DEF Grown
<1>15. Good(cache', G, 0) /\ Len(cache'.handle) = e
  BY <1>7, <1>14
<1>16. held' \in [CacheUser -> Nat] /\ \A v \in CacheUser : held'[v] <= e
  BY <1>1, <1>6, <1>9
<1>17. opening' \in [CacheUser -> Cached \cup {NoTable}]
  BY <1>1, <1>9
<1>18. \A v \in CacheUser : opening'[v] # NoTable => held'[v] = 0
  BY <1>1, <1>9
<1> QED BY <1>10, <1>15, <1>16, <1>17, <1>18 DEF CacheInv

LEMMA ReleaseKeeps ==
    ASSUME CacheInv, NEW u \in CacheUser, Release(u)
    PROVE  CacheInv'
<1>1. /\ held \in [CacheUser -> Nat] /\ opening \in [CacheUser -> Cached \cup {NoTable}]
      /\ \A v \in CacheUser : held[v] <= Len(cache.handle)
      /\ Good(cache, Counts, 0)
      /\ \A v \in CacheUser : opening[v] # NoTable => held[v] = 0
  BY DEF CacheInv
<1>2. /\ cache \in Shards /\ Counts \in [Nat -> Nat] /\ IsFiniteSet(CacheUser)
      /\ \A e \in Nat : Counts[e] = Holders(e)
      /\ Len(cache.handle) \in Nat
  BY CacheFacts
<1>3. PICK e : e = held[u]
  OBVIOUS
<1>4. e \in Of(cache) /\ e \in Nat \ {0}
  <2>1. e \in Of(cache)
    BY <1>3, CacheFacts DEF Release
  <2> QED BY <1>2, <2>1, ShardFacts
<1>5. cache' = Unref(cache, e) /\ held' = [held EXCEPT ![u] = 0] /\ opening' = opening
  BY <1>3 DEF Release
<1>6. PICK H, G : H = Counts /\ G = Counts'
  OBVIOUS
<1>7. Moved(H, G, e, 0)
  <2>1. 0 \in Nat
    OBVIOUS
  <2> QED BY <1>3, <1>5, <1>6, <2>1, CountsChange
<1>8. G \in [Nat -> Nat] /\ SameBut(H, G, e) /\ G[e] = H[e] - 1
  BY <1>2, <1>4, <1>6, <1>7, LosesOne
<1>9. H[e] # 0
  <2>1. PICK S : S = {v \in CacheUser : held[v] = e}
    OBVIOUS
  <2>2. S \in SUBSET CacheUser /\ u \in S
    BY <1>3, <2>1
  <2>3. IsFiniteSet(S)
    BY <1>2, <2>2, FS_Subset
  <2>4. Cardinality(S) # 0
    BY <2>2, <2>3, FS_EmptySet
  <2> QED BY <1>2, <1>4, <1>6, <2>1, <2>4 DEF Holders
<1>10. Good(Unref(cache, e), G, 0) /\ Len(Unref(cache, e).handle) = Len(cache.handle)
  <2>1. Good(cache, H, 0) /\ H \in [Nat -> Nat]
    BY <1>1, <1>2, <1>6
  <2> QED BY <1>4, <1>8, <1>9, <2>1, UnrefKeeps
<1>11. Good(cache', G, 0) /\ Len(cache'.handle) = Len(cache.handle)
  BY <1>5, <1>10
<1>12. held' \in [CacheUser -> Nat] /\ \A v \in CacheUser : held'[v] <= Len(cache.handle)
  <2>1. PICK n \in Nat : n = Len(cache.handle)
    BY <1>2
  <2>2. \A v \in CacheUser : held'[v] = 0 \/ held'[v] = held[v]
    BY <1>1, <1>5
  <2>3. held' \in [CacheUser -> Nat]
    BY <1>1, <1>5
  <2>4. 0 <= n
    OBVIOUS
  <2> QED BY <1>1, <2>1, <2>2, <2>3, <2>4
<1>13. \A v \in CacheUser : opening'[v] # NoTable => held'[v] = 0
  BY <1>1, <1>5
<1> QED BY <1>1, <1>5, <1>6, <1>11, <1>12, <1>13 DEF CacheInv

\* A step of the shard that leaves the number of handles, while nobody moves.
LEMMA ShardKeeps ==
    ASSUME CacheInv, UNCHANGED <<held, opening>>,
           cache' \in GoodShards(Counts, Len(cache.handle))
    PROVE  CacheInv'
<1>1. Counts' = Counts
  BY DEF Counts, Holders
<1> QED BY <1>1 DEF CacheInv, GoodShards

LEMMA CacheStep ==
    ASSUME CacheInv, [CacheNext]_cacheVars
    PROVE  CacheInv'
<1>1. /\ cache \in Shards /\ Counts \in [Nat -> Nat] /\ Good(cache, Counts, 0)
  BY CacheFacts DEF CacheInv
<1>2. PICK H, n : H = Counts /\ n = Len(cache.handle)
  OBVIOUS
<1>3. cache \in GoodShards(H, n) /\ H \in [Nat -> Nat]
  BY <1>1, <1>2 DEF GoodShards
<1>4. ASSUME NEW u \in CacheUser, NEW k \in Cached, FindTable(u, k) PROVE CacheInv'
  BY <1>4, FindKeeps
<1>5. ASSUME NEW u \in CacheUser, Opened(u) PROVE CacheInv'
  BY <1>5, OpenedKeeps
<1>6. ASSUME NEW u \in CacheUser, OpeningFails(u) PROVE CacheInv'
  <2>1. cache' = cache /\ held' = held /\ opening' = [opening EXCEPT ![u] = NoTable]
    BY <1>6 DEF OpeningFails
  <2>2. Counts' = Counts
    BY <2>1 DEF Counts, Holders
  <2>3. opening' \in [CacheUser -> Cached \cup {NoTable}]
    BY <2>1 DEF CacheInv
  <2>4. \A v \in CacheUser : opening'[v] # NoTable => held'[v] = 0
    BY <2>1 DEF CacheInv
  <2> QED BY <2>1, <2>2, <2>3, <2>4 DEF CacheInv
<1>7. ASSUME NEW u \in CacheUser, Release(u) PROVE CacheInv'
  BY <1>7, ReleaseKeeps
<1>8. ASSUME NEW k \in Cached, Evict(k) PROVE CacheInv'
  <2>1. Good(RemoveKey(cache, k), H, 0) /\ Len(RemoveKey(cache, k).handle) = Len(cache.handle)
    BY <1>1, <1>2, <1>3, RemoveKeyKeeps
  <2>2. cache' = RemoveKey(cache, k) /\ UNCHANGED <<held, opening>>
    BY <1>8 DEF Evict
  <2>3. cache' \in GoodShards(H, n)
    BY <1>2, <2>1, <2>2 DEF GoodShards, Good
  <2> QED BY <1>2, <2>2, <2>3, ShardKeeps
<1>9. ASSUME Prune PROVE CacheInv'
  <2>1. PICK all : all = TRUE
    OBVIOUS
  <2>2. OldestGo(cache, all) \in GoodShards(H, n)
    BY <1>3, OldestGoKeeps
  <2>3. cache' = OldestGo(cache, TRUE) /\ UNCHANGED <<held, opening>>
    BY <1>9 DEF Prune
  <2>4. cache' \in GoodShards(H, n)
    BY <2>1, <2>2, <2>3
  <2> QED BY <1>2, <2>3, <2>4, ShardKeeps
<1>10. CASE UNCHANGED cacheVars
  <2>1. cache' = cache /\ held' = held /\ opening' = opening
    BY <1>10 DEF cacheVars
  <2>2. Counts' = Counts
    BY <2>1 DEF Counts, Holders
  <2> QED BY <2>1, <2>2 DEF CacheInv
<1> QED BY <1>4, <1>5, <1>6, <1>7, <1>8, <1>9, <1>10 DEF CacheNext

LEMMA CacheInvImplies ==
    ASSUME CacheInv
    PROVE  CacheSound
<1>1. /\ cache \in Shards /\ Referenced(cache, Counts, 0) /\ Tabled(cache, 0)
      /\ Lines(cache.lru, Unheld(cache, Counts)) /\ cache.inUse = InUse(cache, Counts)
      /\ cache.usage = ChargeInCache(cache.handle)
  BY DEF CacheInv, Good
<1>2. /\ \A e \in Nat : Counts[e] = Holders(e)
      /\ \A e \in Of(cache) : e \in Nat \ {0} /\ cache.handle[e].key \in Cached
      /\ cache.handle \in Seq(Handles)
  BY <1>1, CacheFacts, ShardFacts
<1>3. Made = Of(cache)
  BY <1>2, LenProperties DEF Made, Of
<1>4. ASSUME NEW e \in Made
      PROVE  /\ cache.handle[e].refs = Holders(e) + IF e \in InCache THEN 1 ELSE 0
             /\ e \in cache.freed <=> cache.handle[e].refs = 0
             /\ e \in InCache <=> cache.table[cache.handle[e].key] = e
  <2>1. /\ cache.handle[e].refs = Counts[e] + IF cache.handle[e].inCache THEN 1 ELSE 0
        /\ e \in cache.freed <=> cache.handle[e].refs = 0
        /\ cache.handle[e].inCache /\ e # 0 => cache.table[cache.handle[e].key] = e
    BY <1>1, <1>3 DEF Referenced
  <2>2. e \in InCache <=> cache.handle[e].inCache
    BY DEF InCache
  <2>3. e # 0 /\ cache.handle[e].key \in Cached /\ Counts[e] = Holders(e)
    BY <1>2, <1>3
  <2>4. cache.table[cache.handle[e].key] = e => cache.handle[e].inCache
    BY <1>1, <2>3 DEF Tabled
  <2>5. cache.handle[e].refs = Holders(e) + IF e \in InCache THEN 1 ELSE 0
    BY <2>1, <2>2, <2>3
  <2> QED BY <2>1, <2>2, <2>3, <2>4, <2>5
<1>5. ToSet(cache.lru) = {e \in InCache : Holders(e) = 0}
  <2>1. ToSet(cache.lru) = Unheld(cache, Counts)
    BY <1>1, LinesSet
  <2>2. \A e : e \in Unheld(cache, Counts) <=> e \in InCache /\ Holders(e) = 0
    BY <1>2, <1>3 DEF Unheld, InCache
  <2> QED BY <2>1, <2>2
<1>6. cache.inUse = InCache \ ToSet(cache.lru)
  <2>1. \A e : e \in InUse(cache, Counts) <=> e \in InCache /\ Holders(e) # 0
    BY <1>2, <1>3 DEF InUse, InCache
  <2> QED BY <1>1, <1>5, <2>1
<1> QED BY <1>1, <1>4, <1>5, <1>6 DEF CacheSound

\* In every behaviour of the table cache a handle lives exactly as long as somebody
\* holds it or the cache has it, the lists hold what they should and the usage is
\* the sum of what is cached, however many use it and whatever they open at once.
THEOREM CacheCorrect == CacheSpec => []CacheSound
<1>1. CacheInit => CacheInv
  BY CacheStarts
<1>2. CacheInv /\ [CacheNext]_cacheVars => CacheInv'
  BY CacheStep
<1>3. CacheInv => CacheSound
  BY CacheInvImplies
<1> QED BY <1>1, <1>2, <1>3, PTL DEF CacheSpec

-----------------------------------------------------------------------------
(* The log: the invariant *)

Piece == [rec : Nat \ {0}, type : {"full", "first", "middle", "last"}, len : Nat, left : Nat]
Size(p) == kHeaderSize + p.len

\* The bytes of a log, here F: each belongs to a physical record and follows the
\* one before it there.
Bytes == {Filler} \cup [piece : Piece, at : Nat]
Real(F) == {k \in DOMAIN F : F[k] # Filler}
Begun(F) == {k \in Real(F) : F[k].at = 0}

Runs(F) ==
    \A k \in Real(F) :
        /\ F[k].at < Size(F[k].piece) /\ F[k].at < k
        /\ \A j \in 0 .. F[k].at : F[k - j] = [piece |-> F[k].piece, at |-> F[k].at - j]

\* A physical record says how much of its record is left, and is the first of it or
\* stands right behind the one before it, which is all there.
Told(p, sizes) ==
    /\ p.rec \in DOMAIN sizes
    /\ p.left = 0 <=> p.type \in {"full", "last"}
    /\ p.type \in {"full", "first"} => p.len + p.left = sizes[p.rec]

GoesOn(p, byte) ==
    LET q == byte.piece
    IN  /\ byte.at = Size(q) - 1 /\ q.rec = p.rec
        /\ q.type \in {"first", "middle"} /\ q.left = p.len + p.left

Chained(F, sizes) ==
    \A k \in Begun(F) :
        /\ Told(F[k].piece, sizes)
        /\ F[k].piece.type \in {"middle", "last"} => k - 1 \in Real(F) /\ GoesOn(F[k].piece, F[k - 1])

\* Records follow each other, and nothing follows the end of one but others.
InTurn(F) ==
    \A k, l \in Real(F) : k < l =>
        /\ F[k].piece.rec <= F[l].piece.rec
        /\ F[k].at = 0 /\ F[l].at = 0 /\ F[k].piece.left = 0 => F[k].piece.rec < F[l].piece.rec

BytesInv(F, sizes) ==
    F \in Seq(Bytes) /\ sizes \in Seq(Nat) /\ Runs(F) /\ Chained(F, sizes) /\ InTurn(F)

\* What holds besides while no write has failed: a physical record lies in one
\* block, one that goes on with a record at its start, fillers at its end, and only
\* in blocks that were cut is one not all there.
InBlocks(F) ==
    /\ \A k \in Real(F) :
          LET start == k - F[k].at
          IN  /\ (BlockOf(k) - 1) * kBlockSize < start
              /\ start + Size(F[k].piece) - 1 <= BlockOf(k) * kBlockSize
    /\ \A k \in Begun(F) : F[k].piece.type \in {"middle", "last"} =>
          k = (BlockOf(k) - 1) * kBlockSize + 1
    /\ \A k \in DOMAIN F \ Real(F) : BlockOf(k) * kBlockSize - k + 1 < kHeaderSize

Uncut(F, cut) ==
    \A k \in Real(F) : BlockOf(k) \notin cut =>
        \A j \in 0 .. Size(F[k].piece) - 1 :
            /\ k - F[k].at + j \in DOMAIN F
            /\ F[k - F[k].at + j] = [piece |-> F[k].piece, at |-> j]

InStep(F, ends) == \E b \in 0 .. Len(F) : Len(F) = b * kBlockSize + ends

StepInv(F, ends, cut) == InBlocks(F) /\ Uncut(F, cut) /\ InStep(F, ends)

LogInv ==
    /\ BytesInv(file, records) /\ blockOffset \in 0 .. kBlockSize
    /\ ~failed => StepInv(file, blockOffset, torn)
    /\ \A r \in whole : \E k \in Begun(file) : file[k].piece.rec = r /\ file[k].piece.left = 0

-----------------------------------------------------------------------------
(* The log: blocks *)

\* Where the block of a byte begins.
Base(k) == (BlockOf(k) - 1) * kBlockSize

LEMMA BlockAt ==
    ASSUME NEW b \in Nat, NEW k \in Nat, b * kBlockSize < k, k <= b * kBlockSize + kBlockSize
    PROVE  BlockOf(k) = b + 1 /\ Base(k) = b * kBlockSize
<1>1. kBlockSize \in Nat /\ kBlockSize > 0 /\ k - 1 \in Nat /\ b * kBlockSize \in Nat
  BY LogAssumption
<1>2. kBlockSize * b = b * kBlockSize
  BY <1>1
<1>3. kBlockSize * b <= k - 1 /\ k - 1 < kBlockSize * b + kBlockSize
  BY <1>1, <1>2
<1>4. (k - 1) \div kBlockSize = b
  BY <1>1, <1>3, QuotientIs
<1> QED BY <1>4 DEF BlockOf, Base

LEMMA Edges ==
    ASSUME NEW k \in Nat \ {0}
    PROVE  /\ BlockOf(k) \in Nat \ {0} /\ Base(k) \in Nat
           /\ Base(k) < k /\ k <= Base(k) + kBlockSize
           /\ BlockOf(k) * kBlockSize = Base(k) + kBlockSize
<1> DEFINE q == (k - 1) \div kBlockSize
<1>1. kBlockSize \in Nat /\ kBlockSize > 0 /\ k - 1 \in Nat
  BY LogAssumption
<1>2. q \in Nat /\ kBlockSize * q <= k - 1 /\ k - 1 < kBlockSize * q + kBlockSize
  BY <1>1, Quotient
<1>3. BlockOf(k) = q + 1
  BY DEF BlockOf
<1> HIDE DEF q
<1>4. BlockOf(k) - 1 = q
  BY <1>2, <1>3
<1>5. Base(k) = q * kBlockSize
  BY <1>4 DEF Base
<1>6. /\ q * kBlockSize = kBlockSize * q /\ q * kBlockSize \in Nat
      /\ (q + 1) * kBlockSize = q * kBlockSize + kBlockSize
  BY <1>1, <1>2
<1> QED BY <1>1, <1>2, <1>3, <1>5, <1>6

\* A byte lies in the block, before it or behind it.
LEMMA Blocks ==
    ASSUME NEW k \in Nat \ {0}, NEW l \in Nat \ {0}
    PROVE  /\ Base(k) < l /\ l <= Base(k) + kBlockSize =>
                BlockOf(l) = BlockOf(k) /\ Base(l) = Base(k)
           /\ l > Base(k) + kBlockSize => Base(l) >= Base(k) + kBlockSize
           /\ l <= Base(k) => Base(l) + kBlockSize <= Base(k)
<1>1. /\ BlockOf(k) \in Nat \ {0} /\ Base(k) \in Nat
      /\ BlockOf(l) \in Nat \ {0} /\ Base(l) \in Nat
      /\ Base(l) < l /\ l <= Base(l) + kBlockSize
  BY Edges
<1>2. kBlockSize \in Nat /\ kBlockSize > 0
  BY LogAssumption
<1>3. PICK b \in Nat : BlockOf(k) = b + 1 /\ Base(k) = b * kBlockSize
  <2>1. BlockOf(k) - 1 \in Nat /\ BlockOf(k) = (BlockOf(k) - 1) + 1
    BY <1>1
  <2> QED BY <2>1 DEF Base
<1>4. PICK c \in Nat : BlockOf(l) = c + 1 /\ Base(l) = c * kBlockSize
  <2>1. BlockOf(l) - 1 \in Nat /\ BlockOf(l) = (BlockOf(l) - 1) + 1
    BY <1>1
  <2> QED BY <2>1 DEF Base
<1>5. Base(k) < l /\ l <= Base(k) + kBlockSize => BlockOf(l) = b + 1 /\ Base(l) = b * kBlockSize
  BY <1>3, BlockAt
<1>6. ASSUME NEW m \in Nat, NEW n \in Nat, m < n
      PROVE  m * kBlockSize + kBlockSize <= n * kBlockSize
  <2>1. PICK d \in Nat : n = m + 1 + d
    <3>1. n - m - 1 \in Nat
      BY <1>6
    <3> QED BY <3>1
  <2>2. n * kBlockSize = m * kBlockSize + kBlockSize + d * kBlockSize /\ d * kBlockSize \in Nat
    BY <1>2, <2>1
  <2> QED BY <1>2, <2>2
<1>7. ASSUME l > Base(k) + kBlockSize PROVE Base(l) >= Base(k) + kBlockSize
  <2>1. ~ (c <= b)
    <3>1. ASSUME c <= b PROVE FALSE
      <4>1. c = b \/ c * kBlockSize + kBlockSize <= b * kBlockSize
        BY <1>6, <3>1
      <4> QED BY <1>1, <1>2, <1>3, <1>4, <1>7, <4>1
    <3> QED BY <3>1
  <2> QED BY <1>3, <1>4, <1>6, <2>1
<1>8. ASSUME l <= Base(k) PROVE Base(l) + kBlockSize <= Base(k)
  <2>1. ~ (b <= c)
    <3>1. ASSUME b <= c PROVE FALSE
      <4>1. c = b \/ b * kBlockSize + kBlockSize <= c * kBlockSize
        BY <1>6, <3>1
      <4> QED BY <1>1, <1>2, <1>3, <1>4, <1>8, <4>1
    <3> QED BY <3>1
  <2> QED BY <1>3, <1>4, <1>6, <2>1
<1> QED BY <1>3, <1>5, <1>7, <1>8

-----------------------------------------------------------------------------
(* The log: its bytes *)

LEMMA HeaderSize ==
    kHeaderSize \in Nat /\ kHeaderSize > 0 /\ kBlockSize \in Nat /\ kBlockSize > kHeaderSize
BY LogAssumption

LEMMA PieceIs ==
    ASSUME NEW p \in Piece
    PROVE  /\ p.rec \in Nat /\ p.rec # 0 /\ p.len \in Nat /\ p.left \in Nat
           /\ p.type \in {"full", "first", "middle", "last"}
           /\ Size(p) \in Nat /\ Size(p) >= kHeaderSize /\ Size(p) > 0 /\ Size(p) = kHeaderSize + p.len
           /\ \A i : [piece |-> p, at |-> i] # Filler
<1>1. /\ p.rec \in Nat /\ p.rec # 0 /\ p.len \in Nat /\ p.left \in Nat
      /\ p.type \in {"full", "first", "middle", "last"}
  BY DEF Piece
<1>2. ASSUME NEW i PROVE [piece |-> p, at |-> i] # Filler
  <2>1. [piece |-> p, at |-> i].piece.rec # Filler.piece.rec
    BY <1>1 DEF Filler
  <2> QED BY <2>1
<1> QED BY <1>1, <1>2, HeaderSize DEF Size

LEMMA ByteIs ==
    ASSUME NEW F \in Seq(Bytes), NEW k \in Real(F)
    PROVE  /\ k \in DOMAIN F /\ k \in Nat /\ k > 0 /\ k <= Len(F)
           /\ F[k].piece \in Piece /\ F[k].at \in Nat
           /\ F[k] = [piece |-> F[k].piece, at |-> F[k].at]
<1>1. k \in DOMAIN F /\ F[k] # Filler
  BY DEF Real
<1>2. F[k] \in Bytes /\ k \in 1 .. Len(F) /\ Len(F) \in Nat
  BY <1>1, LenProperties, ElementOfSeq
<1>3. F[k] \in [piece : Piece, at : Nat]
  BY <1>1, <1>2 DEF Bytes
<1> QED BY <1>1, <1>2, <1>3

\* Less of a log is one as well.
LEMMA PrefixIs ==
    ASSUME NEW F \in Seq(Bytes), NEW n \in 0 .. Len(F)
    PROVE  /\ SubSeq(F, 1, n) \in Seq(Bytes) /\ Len(SubSeq(F, 1, n)) = n
           /\ \A k \in 1 .. n : k \in DOMAIN F /\ SubSeq(F, 1, n)[k] = F[k]
           /\ DOMAIN SubSeq(F, 1, n) = 1 .. n
           /\ \A k : k \in Real(SubSeq(F, 1, n)) <=> k \in 1 .. n /\ k \in Real(F)
           /\ \A k : k \in Begun(SubSeq(F, 1, n)) <=> k \in 1 .. n /\ k \in Begun(F)
<1>1. Len(F) \in Nat /\ DOMAIN F = 1 .. Len(F)
  BY LenProperties
<1> DEFINE G == SubSeq(F, 1, n)
<1>2. n \in Nat /\ G \in Seq(Bytes) /\ Len(G) = n /\ \A k \in 1 .. n : G[k] = F[k]
  BY <1>1
<1>3. DOMAIN G = 1 .. n
  BY <1>2, LenProperties
<1>4. \A k \in 1 .. n : k \in DOMAIN F
  BY <1>1
<1> HIDE DEF G
<1>5. \A k : k \in Real(G) <=> k \in 1 .. n /\ k \in Real(F)
  BY <1>2, <1>3, <1>4 DEF Real
<1>6. \A k : k \in Begun(G) <=> k \in 1 .. n /\ k \in Begun(F)
  BY <1>2, <1>5 DEF Begun
<1> QED BY <1>2, <1>3, <1>4, <1>5, <1>6 DEF G

LEMMA PrefixKeeps ==
    ASSUME NEW F, NEW sizes, BytesInv(F, sizes), NEW n \in 0 .. Len(F)
    PROVE  BytesInv(SubSeq(F, 1, n), sizes)
<1> DEFINE G == SubSeq(F, 1, n)
<1>1. F \in Seq(Bytes) /\ Runs(F) /\ Chained(F, sizes) /\ InTurn(F) /\ sizes \in Seq(Nat)
  BY DEF BytesInv
<1>2. /\ G \in Seq(Bytes)
      /\ \A k \in 1 .. n : G[k] = F[k]
      /\ \A k : k \in Real(G) <=> k \in 1 .. n /\ k \in Real(F)
      /\ \A k : k \in Begun(G) <=> k \in 1 .. n /\ k \in Begun(F)
  BY <1>1, PrefixIs
<1>3. n \in Nat
  BY <1>1, LenProperties
<1> HIDE DEF G
<1>4. Runs(G)
  <2> SUFFICES ASSUME NEW k \in Real(G)
               PROVE  /\ G[k].at < Size(G[k].piece) /\ G[k].at < k
                      /\ \A j \in 0 .. G[k].at : G[k - j] = [piece |-> G[k].piece, at |-> G[k].at - j]
    BY DEF Runs
  <2>1. k \in Real(F) /\ k \in 1 .. n /\ G[k] = F[k] /\ F[k].at \in Nat
    BY <1>1, <1>2, ByteIs
  <2>2. /\ F[k].at < Size(F[k].piece) /\ F[k].at < k
        /\ \A j \in 0 .. F[k].at : F[k - j] = [piece |-> F[k].piece, at |-> F[k].at - j]
    BY <1>1, <2>1 DEF Runs
  <2>3. \A j \in 0 .. F[k].at : k - j \in 1 .. n
    BY <1>3, <2>1, <2>2
  <2> QED BY <1>2, <2>1, <2>2, <2>3
<1>5. Chained(G, sizes)
  <2> SUFFICES ASSUME NEW k \in Begun(G)
               PROVE  /\ Told(G[k].piece, sizes)
                      /\ G[k].piece.type \in {"middle", "last"} =>
                            k - 1 \in Real(G) /\ GoesOn(G[k].piece, G[k - 1])
    BY DEF Chained
  <2>1. k \in Begun(F) /\ k \in 1 .. n /\ G[k] = F[k]
    BY <1>2
  <2>2. ASSUME k - 1 \in Real(F) PROVE k - 1 \in Real(G) /\ G[k - 1] = F[k - 1]
    <3>0. k - 1 > 0
      BY <1>1, <2>2, ByteIs
    <3>1. k - 1 \in 1 .. n
      BY <1>3, <2>1, <3>0
    <3> QED BY <1>2, <2>2, <3>1
  <2> QED BY <1>1, <2>1, <2>2 DEF Chained
<1>6. InTurn(G)
  BY <1>1, <1>2 DEF InTurn
<1> QED BY <1>1, <1>2, <1>4, <1>5, <1>6 DEF BytesInv, G

\* A longer list of sizes says the same of the records there are.
LEMMA MoreSizes ==
    ASSUME NEW F, NEW sizes, BytesInv(F, sizes), NEW size \in Nat
    PROVE  BytesInv(F, Append(sizes, size))
<1> DEFINE more == Append(sizes, size)
<1>1. sizes \in Seq(Nat)
  BY DEF BytesInv
<1>2. /\ more \in Seq(Nat) /\ \A r \in DOMAIN sizes : r \in DOMAIN more /\ more[r] = sizes[r]
  <2>1. /\ Len(sizes) \in Nat /\ DOMAIN sizes = 1 .. Len(sizes)
        /\ more \in Seq(Nat) /\ Len(more) = Len(sizes) + 1
        /\ \A r \in 1 .. Len(sizes) : more[r] = sizes[r]
    BY <1>1, LenProperties, AppendProperties
  <2>2. DOMAIN more = 1 .. Len(sizes) + 1
    BY <2>1, LenProperties
  <2> HIDE DEF more
  <2> QED BY <2>1, <2>2
<1> HIDE DEF more
<1>3. Chained(F, more)
  BY <1>2 DEF BytesInv, Chained, Told
<1> QED BY <1>2, <1>3 DEF BytesInv, more

-----------------------------------------------------------------------------
(* The log: writing a physical record *)

\* A log, a trailer and a physical record.
Longer(F, fill, p) ==
    F \o [i \in 1 .. fill |-> Filler]
      \o [i \in 1 .. Size(p) |-> [piece |-> p, at |-> i - 1]]

LEMMA LongerIs ==
    ASSUME NEW F \in Seq(Bytes), NEW fill \in Nat, NEW p \in Piece
    PROVE  /\ Longer(F, fill, p) \in Seq(Bytes)
           /\ Len(Longer(F, fill, p)) = Len(F) + fill + Size(p)
           /\ \A k \in 1 .. Len(F) : Longer(F, fill, p)[k] = F[k]
           /\ \A k \in Len(F) + 1 .. Len(F) + fill : Longer(F, fill, p)[k] = Filler
           /\ \A k \in Len(F) + fill + 1 .. Len(F) + fill + Size(p) :
                 Longer(F, fill, p)[k] = [piece |-> p, at |-> k - (Len(F) + fill + 1)]
<1> DEFINE T == [i \in 1 .. fill |-> Filler]
           P == [i \in 1 .. Size(p) |-> [piece |-> p, at |-> i - 1]]
<1>1. Size(p) \in Nat /\ Len(F) \in Nat
  BY PieceIs, LenProperties
<1>2. T \in Seq(Bytes) /\ Len(T) = fill /\ \A i \in 1 .. fill : T[i] = Filler
  <2>1. \A i \in 1 .. fill : Filler \in Bytes
    BY DEF Bytes
  <2> QED BY <2>1, IsASeq
<1>3. P \in Seq(Bytes) /\ Len(P) = Size(p) /\ \A i \in 1 .. Size(p) : P[i] = [piece |-> p, at |-> i - 1]
  <2>1. \A i \in 1 .. Size(p) : [piece |-> p, at |-> i - 1] \in Bytes
    BY <1>1 DEF Bytes
  <2> QED BY <1>1, <2>1, IsASeq
<1>4. Longer(F, fill, p) = (F \o T) \o P
  BY DEF Longer
<1> HIDE DEF T, P
<1>5. /\ F \o T \in Seq(Bytes) /\ Len(F \o T) = Len(F) + fill
      /\ \A k \in 1 .. Len(F) + fill : (F \o T)[k] = IF k <= Len(F) THEN F[k] ELSE T[k - Len(F)]
  BY <1>2, ConcatProperties
<1> DEFINE G == F \o T
<1>6. /\ G \in Seq(Bytes) /\ Len(G) = Len(F) + fill
      /\ \A k \in 1 .. Len(F) + fill : G[k] = IF k <= Len(F) THEN F[k] ELSE T[k - Len(F)]
  BY <1>5
<1> HIDE DEF G
<1>7. /\ G \o P \in Seq(Bytes) /\ Len(G \o P) = Len(G) + Len(P)
      /\ \A k \in 1 .. Len(G) + Len(P) : (G \o P)[k] = IF k <= Len(G) THEN G[k] ELSE P[k - Len(G)]
  BY <1>3, <1>6, ConcatProperties
<1> DEFINE H == G \o P
<1>8. /\ H \in Seq(Bytes) /\ Len(H) = Len(F) + fill + Size(p)
      /\ \A k \in 1 .. Len(F) + fill + Size(p) :
            H[k] = IF k <= Len(F) + fill THEN G[k] ELSE P[k - (Len(F) + fill)]
  BY <1>1, <1>3, <1>6, <1>7
<1>9. Longer(F, fill, p) = H
  BY <1>4 DEF G
<1> HIDE DEF H
<1>10. \A k \in 1 .. Len(F) : H[k] = F[k]
  BY <1>1, <1>6, <1>8
<1>11. \A k \in Len(F) + 1 .. Len(F) + fill : H[k] = Filler
  <2> SUFFICES ASSUME NEW k \in Len(F) + 1 .. Len(F) + fill PROVE H[k] = Filler
    OBVIOUS
  <2>1. k \in 1 .. Len(F) + fill /\ ~ (k <= Len(F)) /\ k - Len(F) \in 1 .. fill
    BY <1>1
  <2>2. k \in 1 .. Len(F) + fill + Size(p) /\ k <= Len(F) + fill
    BY <1>1, <2>1
  <2> QED BY <1>2, <1>6, <1>8, <2>1, <2>2
<1>12. \A k \in Len(F) + fill + 1 .. Len(F) + fill + Size(p) :
          H[k] = [piece |-> p, at |-> k - (Len(F) + fill + 1)]
  <2> SUFFICES ASSUME NEW k \in Len(F) + fill + 1 .. Len(F) + fill + Size(p)
               PROVE  H[k] = [piece |-> p, at |-> k - (Len(F) + fill + 1)]
    OBVIOUS
  <2>1. /\ k \in 1 .. Len(F) + fill + Size(p) /\ ~ (k <= Len(F) + fill)
        /\ k - (Len(F) + fill) \in 1 .. Size(p)
        /\ (k - (Len(F) + fill)) - 1 = k - (Len(F) + fill + 1)
    BY <1>1
  <2> QED BY <1>3, <1>8, <2>1
<1> QED BY <1>8, <1>9, <1>10, <1>11, <1>12

\* Where the bytes of a longer log come from.
LongerBy(F, G, base, p) ==
    /\ base \in Nat /\ base > 0 /\ base > Len(F) /\ Len(F) \in Nat
    /\ DOMAIN G = 1 .. base + Size(p) - 1 /\ Len(G) = base + Size(p) - 1
    /\ \A k \in Real(F) : k \in Real(G) /\ G[k] = F[k] /\ k < base /\ k <= Len(F)
    /\ \A k \in base .. base + Size(p) - 1 :
          /\ k \in Real(G) /\ G[k] = [piece |-> p, at |-> k - base]
          /\ G[k].piece = p /\ G[k].at = k - base
    /\ \A k \in Real(G) : (k \in Real(F) /\ G[k] = F[k]) \/ k \in base .. base + Size(p) - 1
    /\ \A k \in Begun(G) : k \in Begun(F) \/ k = base
    /\ \A k \in DOMAIN G \ Real(G) : k \in DOMAIN F \ Real(F) \/ k \in Len(F) + 1 .. base - 1

LEMMA LongerReal ==
    ASSUME NEW F \in Seq(Bytes), NEW fill \in Nat, NEW p \in Piece, NEW G, G = Longer(F, fill, p),
           NEW base, base = Len(F) + fill + 1
    PROVE  LongerBy(F, G, base, p)
<1>1. /\ G \in Seq(Bytes) /\ Len(G) = Len(F) + fill + Size(p)
      /\ \A k \in 1 .. Len(F) : G[k] = F[k]
      /\ \A k \in Len(F) + 1 .. Len(F) + fill : G[k] = Filler
      /\ \A k \in Len(F) + fill + 1 .. Len(F) + fill + Size(p) :
            G[k] = [piece |-> p, at |-> k - (Len(F) + fill + 1)]
  BY LongerIs
<1>2. /\ Size(p) \in Nat /\ Size(p) > 0 /\ Len(F) \in Nat /\ DOMAIN F = 1 .. Len(F)
      /\ \A i : [piece |-> p, at |-> i] # Filler
  BY PieceIs, LenProperties
<1>3. base \in Nat /\ base > 0 /\ base > Len(F) /\ Len(G) = base + Size(p) - 1
  BY <1>1, <1>2
<1>4. DOMAIN G = 1 .. base + Size(p) - 1
  BY <1>1, <1>3, LenProperties
<1>5. ASSUME NEW k \in Real(F) PROVE k \in Real(G) /\ G[k] = F[k] /\ k < base /\ k <= Len(F)
  <2>1. k \in 1 .. Len(F) /\ F[k] # Filler
    BY <1>2 DEF Real
  <2>2. k \in 1 .. base + Size(p) - 1 /\ k < base
    BY <1>2, <1>3, <2>1
  <2> QED BY <1>1, <1>2, <1>4, <2>1, <2>2 DEF Real
<1>6. ASSUME NEW k \in base .. base + Size(p) - 1
      PROVE  k \in Real(G) /\ G[k] = [piece |-> p, at |-> k - base]
  <2>1. k \in Len(F) + fill + 1 .. Len(F) + fill + Size(p) /\ k \in 1 .. base + Size(p) - 1
    BY <1>2, <1>3
  <2>2. G[k] = [piece |-> p, at |-> k - (Len(F) + fill + 1)]
    BY <1>1, <2>1
  <2>3. G[k] = [piece |-> p, at |-> k - base] /\ k \in DOMAIN G
    BY <1>4, <2>1, <2>2
  <2> QED BY <1>2, <2>3 DEF Real
<1>7. ASSUME NEW k \in DOMAIN G
      PROVE  k \in 1 .. Len(F) \/ k \in Len(F) + 1 .. base - 1 \/ k \in base .. base + Size(p) - 1
  BY <1>2, <1>3, <1>4
<1>8. \A k \in Len(F) + 1 .. base - 1 : G[k] = Filler
  BY <1>1, <1>2
<1>9. ASSUME NEW k \in Real(G)
      PROVE  (k \in Real(F) /\ G[k] = F[k]) \/ k \in base .. base + Size(p) - 1
  BY <1>1, <1>2, <1>7, <1>8 DEF Real
<1>10. ASSUME NEW k \in Begun(G) PROVE k \in Begun(F) \/ k = base
  <2>1. k \in Real(G) /\ G[k].at = 0
    BY DEF Begun
  <2>2. ASSUME k \in base .. base + Size(p) - 1 PROVE k = base
    <3>1. G[k] = [piece |-> p, at |-> k - base]
      BY <1>6, <2>2
    <3>2. k - base = 0 /\ k \in Nat
      BY <1>2, <1>3, <2>1, <2>2, <3>1
    <3> QED BY <1>3, <3>2
  <2>3. k \in Real(F) /\ G[k] = F[k] => k \in Begun(F)
    BY <2>1 DEF Begun
  <2> QED BY <1>9, <2>1, <2>2, <2>3
<1>11. ASSUME NEW k \in DOMAIN G \ Real(G)
       PROVE  k \in DOMAIN F \ Real(F) \/ k \in Len(F) + 1 .. base - 1
  BY <1>2, <1>5, <1>6, <1>7 DEF Real
<1>12. \A k \in base .. base + Size(p) - 1 : G[k].piece = p /\ G[k].at = k - base
  <2> SUFFICES ASSUME NEW k \in base .. base + Size(p) - 1
               PROVE  G[k].piece = p /\ G[k].at = k - base
    OBVIOUS
  <2>1. G[k] = [piece |-> p, at |-> k - base]
    BY <1>6
  <2> QED BY <2>1
<1> QED BY <1>2, <1>3, <1>4, <1>5, <1>6, <1>9, <1>10, <1>11, <1>12 DEF LongerBy

LEMMA LongerKeeps ==
    ASSUME NEW F, NEW sizes, BytesInv(F, sizes), NEW fill \in Nat, NEW p \in Piece, Told(p, sizes),
           p.type \in {"middle", "last"} => fill = 0 /\ Len(F) \in Real(F) /\ GoesOn(p, F[Len(F)]),
           \A k \in Real(F) : F[k].piece.rec <= p.rec,
           \A k \in Begun(F) : F[k].piece.left = 0 => F[k].piece.rec < p.rec
    PROVE  BytesInv(Longer(F, fill, p), sizes)
<1> DEFINE G == Longer(F, fill, p)
           base == Len(F) + fill + 1
<1>1. F \in Seq(Bytes) /\ Runs(F) /\ Chained(F, sizes) /\ InTurn(F) /\ sizes \in Seq(Nat)
  BY DEF BytesInv
<1>2. /\ Size(p) \in Nat /\ Size(p) > 0 /\ p.rec \in Nat
      /\ G \in Seq(Bytes)
  BY <1>1, PieceIs, LongerIs
<1>l. LongerBy(F, G, base, p)
  BY <1>1, LongerReal
<1>4. fill = 0 => base - 1 = Len(F)
  BY <1>1, LenProperties
<1> HIDE DEF G, base
<1>3. /\ base \in Nat /\ base > 0 /\ base > Len(F) /\ Len(F) \in Nat
      /\ \A k \in Real(F) : k \in Real(G) /\ G[k] = F[k] /\ k < base /\ k <= Len(F)
      /\ \A k \in base .. base + Size(p) - 1 :
            /\ k \in Real(G) /\ G[k] = [piece |-> p, at |-> k - base]
            /\ G[k].piece = p /\ G[k].at = k - base
      /\ \A k \in Real(G) : (k \in Real(F) /\ G[k] = F[k]) \/ k \in base .. base + Size(p) - 1
      /\ \A k \in Begun(G) : k \in Begun(F) \/ k = base
  BY <1>l DEF LongerBy
<1>5. base \in base .. base + Size(p) - 1 /\ base - base = 0
  BY <1>2, <1>3
<1>6. G[base].piece = p /\ G[base].at = 0
  BY <1>3, <1>5
<1>7. Runs(G)
  <2> SUFFICES ASSUME NEW k \in Real(G)
               PROVE  /\ G[k].at < Size(G[k].piece) /\ G[k].at < k
                      /\ \A j \in 0 .. G[k].at : G[k - j] = [piece |-> G[k].piece, at |-> G[k].at - j]
    BY DEF Runs
  <2>1. CASE k \in Real(F) /\ G[k] = F[k]
    <3>1. /\ F[k].at < Size(F[k].piece) /\ F[k].at < k /\ F[k].at \in Nat /\ k \in Nat
          /\ \A j \in 0 .. F[k].at : F[k - j] = [piece |-> F[k].piece, at |-> F[k].at - j]
      BY <1>1, <2>1, ByteIs DEF Runs
    <3>2. ASSUME NEW j \in 0 .. F[k].at PROVE G[k - j] = F[k - j]
      <4>1. k - j \in DOMAIN F
        <5>1. DOMAIN F = 1 .. Len(F) /\ k \in DOMAIN F
          BY <1>1, <2>1, LenProperties DEF Real
        <5> QED BY <1>3, <3>1, <5>1
      <4>2. F[k - j] # Filler
        <5>1. F[k].piece \in Piece
          BY <1>1, <2>1, ByteIs
        <5>2. F[k - j] = [piece |-> F[k].piece, at |-> F[k].at - j]
          BY <3>1
        <5> QED BY <5>1, <5>2, PieceIs
      <4> QED BY <1>3, <4>1, <4>2 DEF Real
    <3> QED BY <2>1, <3>1, <3>2
  <2>2. CASE k \in base .. base + Size(p) - 1
    <3>1. k \in Nat /\ k - base \in Nat /\ G[k] = [piece |-> p, at |-> k - base]
      BY <1>2, <1>3, <2>2
    <3>2. G[k].piece = p /\ G[k].at = k - base
      BY <3>1
    <3>3. k - base < Size(p) /\ k - base < k
      BY <1>2, <1>3, <2>2
    <3>4. ASSUME NEW j \in 0 .. k - base PROVE G[k - j] = [piece |-> p, at |-> (k - base) - j]
      <4>1. k - j \in base .. base + Size(p) - 1 /\ (k - j) - base = (k - base) - j
        BY <1>2, <1>3, <2>2, <3>1
      <4>2. G[k - j] = [piece |-> p, at |-> (k - j) - base]
        BY <1>3, <4>1
      <4> QED BY <4>1, <4>2
    <3> QED BY <3>2, <3>3, <3>4
  <2> QED BY <1>3, <2>1, <2>2
<1>8. Chained(G, sizes)
  <2> SUFFICES ASSUME NEW k \in Begun(G)
               PROVE  /\ Told(G[k].piece, sizes)
                      /\ G[k].piece.type \in {"middle", "last"} =>
                            k - 1 \in Real(G) /\ GoesOn(G[k].piece, G[k - 1])
    BY DEF Chained
  <2>1. CASE k \in Begun(F)
    <3>1. k \in Real(F) /\ G[k] = F[k]
      BY <1>3, <2>1 DEF Begun
    <3> QED BY <1>1, <1>3, <2>1, <3>1 DEF Chained
  <2>2. CASE k = base
    <3>1. p.type \in {"middle", "last"} => base - 1 \in Real(F) /\ GoesOn(p, F[base - 1])
      BY <1>4
    <3> QED BY <1>3, <1>6, <2>2, <3>1
  <2> QED BY <1>3, <2>1, <2>2
<1>9. InTurn(G)
  <2> SUFFICES ASSUME NEW k \in Real(G), NEW l \in Real(G), k < l
               PROVE  /\ G[k].piece.rec <= G[l].piece.rec
                      /\ G[k].at = 0 /\ G[l].at = 0 /\ G[k].piece.left = 0 =>
                            G[k].piece.rec < G[l].piece.rec
    BY DEF InTurn
  <2>1. CASE k \in Real(F) /\ l \in Real(F)
    BY <1>1, <1>3, <2>1 DEF InTurn
  <2>2. CASE k \in Real(F) /\ l \in base .. base + Size(p) - 1
    <3>1. G[l].piece = p
      BY <1>3, <2>2
    <3>2. G[k] = F[k] /\ (F[k].at = 0 => k \in Begun(F))
      BY <1>3, <2>2 DEF Begun
    <3> QED BY <2>2, <3>1, <3>2
  <2>3. CASE k \in base .. base + Size(p) - 1 /\ l \in base .. base + Size(p) - 1
    <3>1. G[l].piece = p /\ G[k].piece = p /\ G[l].at = l - base
      BY <1>3, <2>3
    <3>2. l - base # 0
      BY <1>2, <1>3, <2>3
    <3> QED BY <1>2, <3>1, <3>2
  <2>4. CASE k \in base .. base + Size(p) - 1 /\ l \in Real(F)
    <3>1. l < base /\ l \in Nat
      BY <1>1, <1>3, <2>4, ByteIs
    <3> QED BY <1>2, <1>3, <2>4, <3>1
  <2> QED BY <1>3, <2>1, <2>2, <2>3, <2>4
<1> QED BY <1>1, <1>2, <1>7, <1>8, <1>9 DEF BytesInv, G

LEMMA LongerInStep ==
    ASSUME NEW F \in Seq(Bytes), NEW cut, InBlocks(F), Uncut(F, cut), Runs(F),
           NEW ends \in Nat, ends <= kBlockSize, InStep(F, ends),
           NEW fill \in Nat, NEW start \in Nat, NEW p \in Piece, start + Size(p) <= kBlockSize,
           \/ fill = 0 /\ start = ends
           \/ start = 0 /\ fill = kBlockSize - ends /\ fill < kHeaderSize,
           p.type \in {"middle", "last"} => start = 0
    PROVE  StepInv(Longer(F, fill, p), start + Size(p), cut)
<1> DEFINE G == Longer(F, fill, p)
           base == Len(F) + fill + 1
<1>1. /\ Size(p) \in Nat /\ Size(p) > 0
      /\ G \in Seq(Bytes)
  BY PieceIs, LongerIs
<1>l. LongerBy(F, G, base, p)
  BY LongerReal
<1>0. Len(F) \in Nat
  BY LenProperties
<1>3. DOMAIN F = 1 .. Len(F)
  BY LenProperties
<1>4. PICK b \in 0 .. Len(F) : Len(F) = b * kBlockSize + ends
  BY DEF InStep
<1>h. /\ kHeaderSize \in Nat /\ kHeaderSize > 0 /\ kBlockSize \in Nat /\ kBlockSize > kHeaderSize
  BY HeaderSize
<1>5. PICK c \in Nat : base = c * kBlockSize + start + 1
  <2>1. CASE fill = 0 /\ start = ends
    <3>1. b \in Nat /\ b * kBlockSize \in Nat
      BY <1>0, <1>4, <1>h
    <3> QED BY <1>4, <2>1, <3>1
  <2>2. CASE start = 0 /\ fill = kBlockSize - ends
    <3>1. b \in Nat /\ b + 1 \in Nat
      BY <1>0, <1>4
    <3>2. (b + 1) * kBlockSize = b * kBlockSize + kBlockSize /\ b * kBlockSize \in Nat
      BY <1>h, <3>1
    <3>3. base = (b + 1) * kBlockSize + start + 1
      BY <1>0, <1>4, <1>h, <2>2, <3>2
    <3> QED BY <3>1, <3>3
  <2> QED BY <2>1, <2>2
<1>fills. \A k \in Len(F) + 1 .. base - 1 :
             k > b * kBlockSize /\ k <= b * kBlockSize + kBlockSize
             /\ b * kBlockSize + kBlockSize - k + 1 < kHeaderSize
  <2>1. b * kBlockSize \in Nat
    BY <1>0, <1>4, <1>h
  <2> QED BY <1>0, <1>4, <1>h, <2>1
<1> HIDE DEF G, base
<1>2. /\ base \in Nat /\ base > 0 /\ base > Len(F) /\ Len(F) \in Nat
      /\ \A k \in Real(F) : k \in Real(G) /\ G[k] = F[k] /\ k < base /\ k <= Len(F)
      /\ \A k \in base .. base + Size(p) - 1 :
            /\ k \in Real(G) /\ G[k] = [piece |-> p, at |-> k - base]
            /\ G[k].piece = p /\ G[k].at = k - base
      /\ \A k \in Real(G) : (k \in Real(F) /\ G[k] = F[k]) \/ k \in base .. base + Size(p) - 1
      /\ \A k \in Begun(G) : k \in Begun(F) \/ k = base
      /\ DOMAIN G = 1 .. base + Size(p) - 1 /\ Len(G) = base + Size(p) - 1
      /\ \A k \in DOMAIN G \ Real(G) : k \in DOMAIN F \ Real(F) \/ k \in Len(F) + 1 .. base - 1
  BY <1>l DEF LongerBy
<1>6. c * kBlockSize \in Nat /\ c <= c * kBlockSize
  <2>1. PICK m \in Nat : kBlockSize = m + 1
    <3>1. kBlockSize - 1 \in Nat
      BY <1>h
    <3> QED BY <1>h, <3>1
  <2>2. c * kBlockSize = c * m + c /\ c * m \in Nat
    BY <2>1
  <2> QED BY <1>h, <2>2
<1>7. ASSUME NEW k \in base .. base + Size(p) - 1
      PROVE  /\ BlockOf(k) = c + 1 /\ Base(k) = c * kBlockSize /\ k - (k - base) = base
             /\ G[k].piece = p /\ G[k].at = k - base /\ k \in Nat /\ k > 0
  <2>1. k \in Nat /\ c * kBlockSize < k /\ k <= c * kBlockSize + kBlockSize /\ k - (k - base) = base
    <3> DEFINE d == c * kBlockSize
    <3>1. d \in Nat /\ base = d + start + 1 /\ base \in Nat /\ Size(p) \in Nat
      BY <1>1, <1>2, <1>5, <1>6
    <3> HIDE DEF d
    <3>2. k \in Nat /\ d < k /\ k <= d + kBlockSize /\ k - (k - base) = base
      BY <1>h, <3>1
    <3> QED BY <3>2 DEF d
  <2>2. G[k].piece = p /\ G[k].at = k - base
    BY <1>2
  <2> QED BY <1>6, <2>1, <2>2, BlockAt
<1>8. ASSUME NEW k \in Real(G)
      PROVE  LET s == k - G[k].at
             IN  /\ (BlockOf(k) - 1) * kBlockSize < s
                 /\ s + Size(G[k].piece) - 1 <= BlockOf(k) * kBlockSize
  <2>1. CASE k \in Real(F) /\ G[k] = F[k]
    BY <2>1 DEF InBlocks
  <2>2. CASE k \in base .. base + Size(p) - 1
    <3>1. /\ Base(k) = c * kBlockSize /\ G[k].piece = p /\ k - G[k].at = base
          /\ BlockOf(k) * kBlockSize = Base(k) + kBlockSize
      BY <1>7, <2>2, Edges
    <3>2. c * kBlockSize < base /\ base + Size(p) - 1 <= c * kBlockSize + kBlockSize
      BY <1>1, <1>5, <1>6, <1>h
    <3> QED BY <3>1, <3>2 DEF Base
  <2> QED BY <1>2, <2>1, <2>2
<1>9. ASSUME NEW k \in Begun(G), G[k].piece.type \in {"middle", "last"}
      PROVE  k = (BlockOf(k) - 1) * kBlockSize + 1
  <2>1. CASE k \in Begun(F)
    <3>1. G[k] = F[k]
      BY <1>2, <2>1 DEF Begun
    <3> QED BY <1>9, <2>1, <3>1 DEF InBlocks
  <2>2. CASE k = base
    <3>1. base \in base .. base + Size(p) - 1
      BY <1>1, <1>2
    <3>2. G[base].piece = p /\ Base(base) = c * kBlockSize
      BY <1>7, <3>1
    <3>3. start = 0
      BY <1>9, <2>2, <3>2
    <3> QED BY <1>5, <1>6, <2>2, <3>2, <3>3 DEF Base
  <2> QED BY <1>2, <2>1, <2>2
<1>10. ASSUME NEW k \in DOMAIN G \ Real(G) PROVE BlockOf(k) * kBlockSize - k + 1 < kHeaderSize
  <2>1. CASE k \in DOMAIN F \ Real(F)
    BY <2>1 DEF InBlocks
  <2>2. CASE k \in Len(F) + 1 .. base - 1
    <3>1. k \in Nat /\ k # 0 /\ b \in Nat
      BY <1>2, <1>4, <2>2
    <3>2. BlockOf(k) = b + 1 /\ Base(k) = b * kBlockSize
      BY <1>fills, <2>2, <3>1, BlockAt
    <3>3. BlockOf(k) * kBlockSize = b * kBlockSize + kBlockSize
      BY <3>1, <3>2, Edges
    <3>4. b * kBlockSize + kBlockSize - k + 1 < kHeaderSize
      BY <1>fills, <2>2
    <3>5. b * kBlockSize \in Nat
      BY <1>h, <3>1
    <3> QED BY <1>h, <3>1, <3>3, <3>4, <3>5
  <2> QED BY <1>2, <2>1, <2>2
<1>11. InBlocks(G)
  BY <1>8, <1>9, <1>10 DEF InBlocks
<1>12. Uncut(G, cut)
  <2> SUFFICES ASSUME NEW k \in Real(G), BlockOf(k) \notin cut,
                      NEW j \in 0 .. Size(G[k].piece) - 1
               PROVE  /\ k - G[k].at + j \in DOMAIN G
                      /\ G[k - G[k].at + j] = [piece |-> G[k].piece, at |-> j]
    BY DEF Uncut
  <2>1. CASE k \in Real(F) /\ G[k] = F[k]
    <3>1. /\ k - F[k].at + j \in DOMAIN F
          /\ F[k - F[k].at + j] = [piece |-> F[k].piece, at |-> j]
      BY <2>1 DEF Uncut
    <3>2. k - F[k].at + j \in Real(F)
      BY <2>1, <3>1, ByteIs, PieceIs DEF Real
    <3> QED BY <1>2, <2>1, <3>1, <3>2 DEF Real
  <2>2. CASE k \in base .. base + Size(p) - 1
    <3>1. G[k].piece = p /\ k - G[k].at = base
      BY <1>7, <2>2
    <3>2. j \in Nat /\ base + j \in base .. base + Size(p) - 1 /\ (base + j) - base = j
      BY <1>1, <1>2, <3>1
    <3>3. base + j \in DOMAIN G /\ G[base + j] = [piece |-> p, at |-> j]
      BY <1>2, <3>2 DEF Real
    <3> QED BY <3>1, <3>3
  <2> QED BY <1>2, <2>1, <2>2
<1>13. InStep(G, start + Size(p))
  <2>1. Len(G) = c * kBlockSize + (start + Size(p))
    BY <1>1, <1>2, <1>5, <1>6
  <2>2. c \in 0 .. Len(G)
    BY <1>1, <1>6, <2>1
  <2> QED BY <2>1, <2>2 DEF InStep
<1> QED BY <1>11, <1>12, <1>13 DEF StepInv, G

-----------------------------------------------------------------------------
(* The log: the turns of AddRecord's loop *)

Writer == [left : Nat, ends : 0 .. kBlockSize, bytes : Seq(Bytes)]

\* What a turn adds.
Emits(rec, w, begin, fill, start, p) ==
    /\ Emit(rec, w, begin) = [left |-> p.left, ends |-> start + Size(p),
                              bytes |-> Longer(w.bytes, fill, p)]
    /\ p.rec = rec /\ p.len + p.left = w.left /\ start + Size(p) <= kBlockSize
    /\ \/ fill = 0 /\ start = w.ends
       \/ start = 0 /\ fill = kBlockSize - w.ends /\ fill < kHeaderSize
    /\ p.type \in IF begin THEN {"full", "first"} ELSE {"middle", "last"}
    /\ p.left = 0 <=> p.type \in {"full", "last"}
    /\ p.left > 0 => start + Size(p) = kBlockSize
    /\ w.ends = kBlockSize => start = 0 /\ fill = 0 /\ (w.left > 0 => p.len > 0)

LEMMA EmitIs ==
    ASSUME NEW rec \in Nat \ {0}, NEW w \in Writer, NEW begin \in BOOLEAN
    PROVE  \E fill \in Nat, start \in Nat, p \in Piece : Emits(rec, w, begin, fill, start, p)
<1> DEFINE room  == kBlockSize - w.ends
           fill  == IF room < kHeaderSize THEN room ELSE 0
           start == IF room < kHeaderSize THEN 0 ELSE w.ends
           most  == kBlockSize - start - kHeaderSize
           n     == Min({w.left, most})
           type  == IF begin THEN IF n = w.left THEN "full" ELSE "first"
                    ELSE IF n = w.left THEN "last" ELSE "middle"
           p     == [rec |-> rec, type |-> type, len |-> n, left |-> w.left - n]
<1>h. /\ kHeaderSize \in Nat /\ kHeaderSize > 0 /\ kBlockSize \in Nat /\ kBlockSize > kHeaderSize
  BY HeaderSize
<1>1. w.left \in Nat /\ w.ends \in 0 .. kBlockSize /\ w.bytes \in Seq(Bytes)
  BY DEF Writer
<1>2. /\ fill \in Nat /\ start \in Nat /\ most \in Nat /\ most + start + kHeaderSize = kBlockSize
      /\ \/ fill = 0 /\ start = w.ends
         \/ start = 0 /\ fill = kBlockSize - w.ends /\ fill < kHeaderSize
      /\ w.ends = kBlockSize => start = 0 /\ fill = 0 /\ most > 0
  <2>1. room \in Nat /\ room = kBlockSize - w.ends /\ w.ends \in Nat
    BY <1>1, <1>h
  <2>2. CASE room < kHeaderSize
    <3>1. fill = room /\ start = 0
      BY <2>2
    <3> HIDE DEF room, fill, start
    <3> QED BY <1>h, <2>1, <2>2, <3>1
  <2>3. CASE ~ (room < kHeaderSize)
    <3>1. fill = 0 /\ start = w.ends
      BY <2>3
    <3> HIDE DEF room, fill, start
    <3> QED BY <1>h, <2>1, <2>3, <3>1
  <2> QED BY <2>2, <2>3
<1>3. Emit(rec, w, begin) =
        [left |-> w.left - n, ends |-> start + kHeaderSize + n,
         bytes |-> w.bytes \o [i \in 1 .. fill |-> Filler]
                           \o [i \in 1 .. kHeaderSize + n |-> [piece |-> p, at |-> i - 1]]]
  BY DEF Emit
<1> HIDE DEF room, fill, start, most
<1>4. n \in Nat /\ n <= w.left /\ n <= most /\ (n = w.left \/ n = most)
  <2>1. {w.left, most} \subseteq Nat /\ {w.left, most} # {}
    BY <1>1, <1>2
  <2>2. n \in {w.left, most} /\ \A x \in {w.left, most} : n <= x
    BY <2>1, MinIs
  <2> HIDE DEF n
  <2> QED BY <1>1, <1>2, <2>2
<1> HIDE DEF n
<1>5. /\ type \in IF begin THEN {"full", "first"} ELSE {"middle", "last"}
      /\ n = w.left <=> type \in {"full", "last"}
  OBVIOUS
<1> HIDE DEF type
<1>6. w.left - n \in Nat /\ (w.left - n = 0 <=> n = w.left)
  BY <1>1, <1>4
<1>7. type \in {"full", "first", "middle", "last"}
  BY <1>5
<1>8. p \in Piece /\ p.rec = rec /\ p.type = type /\ p.len = n /\ p.left = w.left - n
  BY <1>4, <1>6, <1>7 DEF Piece
<1>9. Size(p) = kHeaderSize + n
  BY <1>8 DEF Size
<1>10. Emit(rec, w, begin) = [left |-> p.left, ends |-> start + Size(p),
                              bytes |-> Longer(w.bytes, fill, p)]
  <2>1. start + kHeaderSize + n = start + Size(p)
    BY <1>2, <1>4, <1>9, <1>h
  <2>2. Longer(w.bytes, fill, p) = w.bytes \o [i \in 1 .. fill |-> Filler]
                           \o [i \in 1 .. kHeaderSize + n |-> [piece |-> p, at |-> i - 1]]
    BY <1>9 DEF Longer
  <2> HIDE DEF p
  <2> QED BY <1>3, <1>8, <2>1, <2>2
<1> HIDE DEF p
<1>11. /\ p.len + p.left = w.left /\ start + Size(p) <= kBlockSize
       /\ p.left > 0 => start + Size(p) = kBlockSize
       /\ w.ends = kBlockSize /\ w.left > 0 => p.len > 0
  BY <1>1, <1>2, <1>4, <1>8, <1>9, <1>h
<1>12. Emits(rec, w, begin, fill, start, p)
  BY <1>2, <1>5, <1>6, <1>8, <1>10, <1>11 DEF Emits
<1> QED BY <1>2, <1>8, <1>12

\* What a turn leaves: the record's last byte so far, with more to come from the
\* start of a block or nothing.
Turned(rec, sizes, w) ==
    /\ w \in Writer /\ BytesInv(w.bytes, sizes)
    /\ \A k \in Real(w.bytes) : w.bytes[k].piece.rec <= rec
    /\ \A k \in Begun(w.bytes) : w.bytes[k].piece.left = 0 /\ w.left > 0 => w.bytes[k].piece.rec < rec
    /\ Len(w.bytes) \in Real(w.bytes)
    /\ LET byte == w.bytes[Len(w.bytes)]
       IN  /\ byte.at = Size(byte.piece) - 1 /\ byte.piece.rec = rec /\ byte.piece.left = w.left
           /\ w.left > 0 => w.ends = kBlockSize /\ byte.piece.type \in {"first", "middle"}
    /\ \E k \in Begun(w.bytes) : w.bytes[k].piece.rec = rec /\ w.bytes[k].piece.left = w.left

\* The log before is the beginning of the log after.
Grows(F, G) ==
    /\ Len(F) \in Nat /\ Len(G) \in Nat /\ Len(F) <= Len(G)
    /\ \A k \in Real(F) : k \in Real(G) /\ G[k] = F[k]

LEMMA TurnKeeps ==
    ASSUME NEW rec \in Nat \ {0}, NEW sizes, rec \in DOMAIN sizes, NEW w \in Writer,
           BytesInv(w.bytes, sizes), NEW begin \in BOOLEAN, NEW cut,
           \A k \in Real(w.bytes) : w.bytes[k].piece.rec <= rec,
           \A k \in Begun(w.bytes) : w.bytes[k].piece.left = 0 => w.bytes[k].piece.rec < rec,
           begin => w.left = sizes[rec],
           ~begin => Turned(rec, sizes, w) /\ w.left > 0
    PROVE  LET v == Emit(rec, w, begin)
           IN  /\ Turned(rec, sizes, v) /\ v.left <= w.left /\ (~begin => v.left < w.left)
               /\ Grows(w.bytes, v.bytes)
               /\ StepInv(w.bytes, w.ends, cut) => StepInv(v.bytes, v.ends, cut)
<1> DEFINE v == Emit(rec, w, begin)
           F == w.bytes
<1>1. w.left \in Nat /\ w.ends \in 0 .. kBlockSize /\ F \in Seq(Bytes)
  BY DEF Writer
<1>2. PICK fill \in Nat, start \in Nat, p \in Piece : Emits(rec, w, begin, fill, start, p)
  BY EmitIs
<1> DEFINE G == Longer(F, fill, p)
           base == Len(F) + fill + 1
<1>3. v = [left |-> p.left, ends |-> start + Size(p), bytes |-> G]
  BY <1>2 DEF Emits
<1>4. /\ p.rec = rec /\ p.len + p.left = w.left /\ start + Size(p) <= kBlockSize
      /\ \/ fill = 0 /\ start = w.ends
         \/ start = 0 /\ fill = kBlockSize - w.ends /\ fill < kHeaderSize
      /\ p.type \in IF begin THEN {"full", "first"} ELSE {"middle", "last"}
      /\ p.left = 0 <=> p.type \in {"full", "last"}
      /\ p.left > 0 => start + Size(p) = kBlockSize
      /\ w.ends = kBlockSize => start = 0 /\ fill = 0 /\ (w.left > 0 => p.len > 0)
  BY <1>2 DEF Emits
<1>5. p.left \in Nat /\ p.len \in Nat /\ Size(p) \in Nat /\ Size(p) > 0
  BY PieceIs
<1>6. v.left = p.left /\ v.ends = start + Size(p) /\ v.bytes = G
  BY <1>3
<1>h. kHeaderSize \in Nat /\ kHeaderSize > 0 /\ kBlockSize \in Nat /\ kBlockSize > kHeaderSize
  BY HeaderSize
<1>7. v \in Writer
  <2>1. G \in Seq(Bytes)
    BY <1>1, LongerIs
  <2> HIDE DEF G, F, v
  <2> QED BY <1>3, <1>4, <1>5, <1>h, <2>1 DEF Writer
<1>8. LongerBy(F, G, base, p)
  BY <1>1, LongerReal
<1>9. Told(p, sizes)
  <2>1. begin => p.len + p.left = sizes[p.rec]
    BY <1>4
  <2>2. p.type \in {"full", "first"} => begin
    BY <1>4
  <2> QED BY <1>4, <2>1, <2>2 DEF Told
<1>10. ~begin => fill = 0 /\ start = 0 /\ Len(F) \in Real(F) /\ GoesOn(p, F[Len(F)])
  <2> SUFFICES ASSUME ~begin
               PROVE  fill = 0 /\ start = 0 /\ Len(F) \in Real(F) /\ GoesOn(p, F[Len(F)])
    OBVIOUS
  <2>1. /\ Len(F) \in Real(F) /\ w.ends = kBlockSize
        /\ F[Len(F)].at = Size(F[Len(F)].piece) - 1 /\ F[Len(F)].piece.rec = rec
        /\ F[Len(F)].piece.left = w.left /\ F[Len(F)].piece.type \in {"first", "middle"}
    BY DEF Turned
  <2> QED BY <1>4, <2>1 DEF GoesOn
<1>11. p.type \in {"middle", "last"} => ~begin
  BY <1>4
<1>12. BytesInv(G, sizes)
  <2> HIDE DEF F
  <2>1. BytesInv(F, sizes)
    BY DEF F
  <2>2. /\ \A k \in Real(F) : F[k].piece.rec <= p.rec
        /\ \A k \in Begun(F) : F[k].piece.left = 0 => F[k].piece.rec < p.rec
    BY <1>4 DEF F
  <2> QED BY <1>9, <1>10, <1>11, <2>1, <2>2, LongerKeeps
<1>13. StepInv(F, w.ends, cut) => StepInv(G, start + Size(p), cut)
  <2> SUFFICES ASSUME StepInv(F, w.ends, cut) PROVE StepInv(G, start + Size(p), cut)
    OBVIOUS
  <2> HIDE DEF F
  <2>1. InBlocks(F) /\ Uncut(F, cut) /\ InStep(F, w.ends) /\ Runs(F)
    BY DEF StepInv, BytesInv, F
  <2>2. w.ends \in Nat /\ w.ends <= kBlockSize
    BY <1>1, <1>h
  <2> QED BY <1>1, <1>4, <1>10, <1>11, <2>1, <2>2, LongerInStep
<1>14. v.left <= w.left /\ (~begin => v.left < w.left)
  <2>1. ~begin => w.ends = kBlockSize /\ w.left > 0
    BY DEF Turned
  <2> QED BY <1>1, <1>4, <1>5, <1>6, <2>1
<1> HIDE DEF v, base, G
<1>15. /\ base \in Nat /\ base > 0 /\ base > Len(F) /\ Len(F) \in Nat
       /\ DOMAIN G = 1 .. base + Size(p) - 1 /\ Len(G) = base + Size(p) - 1
       /\ \A k \in Real(F) : k \in Real(G) /\ G[k] = F[k] /\ k < base /\ k <= Len(F)
       /\ \A k \in base .. base + Size(p) - 1 :
             /\ k \in Real(G) /\ G[k] = [piece |-> p, at |-> k - base]
             /\ G[k].piece = p /\ G[k].at = k - base
       /\ \A k \in Real(G) : (k \in Real(F) /\ G[k] = F[k]) \/ k \in base .. base + Size(p) - 1
       /\ \A k \in Begun(G) : k \in Begun(F) \/ k = base
  BY <1>8 DEF LongerBy
<1>16. Grows(F, G)
  BY <1>5, <1>15 DEF Grows
<1>17. \A k \in Real(G) : G[k].piece.rec <= rec
  <2>1. rec <= rec
    OBVIOUS
  <2> QED BY <1>4, <1>15, <2>1
<1>18. base \in base .. base + Size(p) - 1 /\ base + Size(p) - 1 \in base .. base + Size(p) - 1
       /\ base - base = 0 /\ (base + Size(p) - 1) - base = Size(p) - 1
  BY <1>5, <1>15
<1>19. base \in Begun(G) /\ G[base].piece = p
  BY <1>15, <1>18 DEF Begun
<1>20. \A k \in Begun(G) : G[k].piece.left = 0 /\ p.left > 0 => G[k].piece.rec < rec
  <2> SUFFICES ASSUME NEW k \in Begun(G), G[k].piece.left = 0, p.left > 0
               PROVE  G[k].piece.rec < rec
    OBVIOUS
  <2>1. k # base
    BY <1>5, <1>19
  <2>2. k \in Begun(F) /\ G[k] = F[k]
    BY <1>15, <2>1 DEF Begun
  <2> QED BY <2>2
<1>21. /\ Len(G) \in Real(G) /\ G[Len(G)].at = Size(p) - 1 /\ G[Len(G)].piece = p
  BY <1>15, <1>18
<1>22. p.left > 0 => start + Size(p) = kBlockSize /\ p.type \in {"first", "middle"}
  BY <1>4, <1>5
<1>23. Turned(rec, sizes, v)
  BY <1>4, <1>6, <1>7, <1>12, <1>17, <1>19, <1>20, <1>21, <1>22 DEF Turned
<1> QED BY <1>6, <1>13, <1>14, <1>16, <1>23 DEF v

\* The turns are what the recursive function says.
LEMMA TurnsAre ==
    ASSUME file \in Seq(Bytes), blockOffset \in 0 .. kBlockSize, records \in Seq(Nat), NEW size \in Nat
    PROVE  /\ Turns(size)[0] = [left |-> size, ends |-> blockOffset, bytes |-> file]
           /\ \A i \in 0 .. size + 1 : Turns(size)[i] \in Writer
           /\ \A i \in 1 .. size + 1 :
                 Turns(size)[i] = Emit(Len(records) + 1, Turns(size)[i - 1], i = 1)
<1> DEFINE rec == Len(records) + 1
           a == [left |-> size, ends |-> blockOffset, bytes |-> file]
           F == [q \in Nat \X Writer |-> Emit(rec, q[2], q[1] = 1)]
           Is(f) == f = [i \in 0 .. size + 1 |-> IF i = 0 THEN a ELSE Emit(rec, f[i - 1], i = 1)]
<1>1. rec \in Nat \ {0} /\ size + 1 \in Nat
  BY LenProperties
<1>2. a \in Writer
  BY DEF Writer
<1>3. \A i \in Nat, w \in Writer : Emit(rec, w, i = 1) \in Writer
  <2> SUFFICES ASSUME NEW i \in Nat, NEW w \in Writer PROVE Emit(rec, w, i = 1) \in Writer
    OBVIOUS
  <2> DEFINE begin == i = 1
  <2>1. begin \in BOOLEAN
    OBVIOUS
  <2> HIDE DEF rec, begin
  <2>2. PICK fill \in Nat, start \in Nat, p \in Piece : Emits(rec, w, begin, fill, start, p)
    BY <1>1, <2>1, EmitIs
  <2>3. w.bytes \in Seq(Bytes)
    BY DEF Writer
  <2>4. Longer(w.bytes, fill, p) \in Seq(Bytes)
    BY <2>3, LongerIs
  <2>5. p.left \in Nat /\ start + Size(p) \in 0 .. kBlockSize
    BY <2>2, PieceIs, HeaderSize DEF Emits
  <2>6. Emit(rec, w, begin) = [left |-> p.left, ends |-> start + Size(p),
                              bytes |-> Longer(w.bytes, fill, p)]
    BY <2>2 DEF Emits
  <2>7. Emit(rec, w, begin) \in Writer
    BY <2>4, <2>5, <2>6 DEF Writer
  <2> QED BY <2>7 DEF begin
<1> HIDE DEF rec, a
<1>4. StepsIn(F, Writer)
  BY <1>3 DEF StepsIn
<1>5. \A i \in Nat, w \in Writer : F[<<i, w>>] = Emit(rec, w, i = 1)
  OBVIOUS
<1> HIDE DEF F
<1>6. PICK g : Computes(F, Writer, a, size + 1, g)
  BY <1>1, <1>2, <1>4, StepByStep
<1>7. /\ g \in [0 .. size + 1 -> Writer] /\ g[0] = a
      /\ \A i \in 1 .. size + 1 : g[i] = F[<<i, g[i - 1]>>]
  BY <1>6 DEF Computes
<1>8. ASSUME NEW i \in 0 .. size + 1
      PROVE  g[i] = IF i = 0 THEN a ELSE Emit(rec, g[i - 1], i = 1)
  <2>1. CASE i = 0
    BY <1>7, <2>1
  <2>2. CASE i # 0
    <3>1. i \in 1 .. size + 1 /\ i - 1 \in 0 .. size + 1 /\ i \in Nat
      BY <1>1, <2>2
    <3>2. g[i - 1] \in Writer
      BY <1>7, <3>1
    <3> QED BY <1>5, <1>7, <2>2, <3>1, <3>2
  <2> QED BY <2>1, <2>2
<1>9. Is(g)
  <2>1. g = [i \in 0 .. size + 1 |-> g[i]]
    BY <1>7
  <2> QED BY <1>8, <2>1
<1> DEFINE turn == CHOOSE f : Is(f)
<1>10. Is(turn)
  BY <1>9
<1>11. Turns(size) = turn
  BY DEF Turns, a, rec
<1> HIDE DEF turn
<1>12. \A i \in 0 .. size + 1 : turn[i] = IF i = 0 THEN a ELSE Emit(rec, turn[i - 1], i = 1)
  <2> DEFINE W(i) == IF i = 0 THEN a ELSE Emit(rec, turn[i - 1], i = 1)
  <2>1. turn = [i \in 0 .. size + 1 |-> W(i)]
    BY <1>10
  <2> HIDE DEF W
  <2>2. \A i \in 0 .. size + 1 : turn[i] = W(i)
    BY <2>1
  <2> QED BY <2>2 DEF W
<1> HIDE DEF Is
<1> DEFINE T == {i \in Nat : i <= size + 1 => turn[i] \in Writer}
<1>13. 0 \in T
  <2>1. 0 \in 0 .. size + 1
    BY <1>1
  <2> QED BY <1>2, <1>12, <2>1
<1>14. ASSUME NEW i \in T \cap Nat PROVE i + 1 \in T
  <2> SUFFICES ASSUME i + 1 <= size + 1 PROVE turn[i + 1] \in Writer
    OBVIOUS
  <2>1. i \in Nat /\ i + 1 \in 0 .. size + 1 /\ i + 1 # 0 /\ (i + 1) - 1 = i /\ i <= size + 1 /\ i + 1 \in Nat
    BY <1>1
  <2>2. turn[i] \in Writer
    BY <2>1
  <2>3. turn[i + 1] = Emit(rec, turn[(i + 1) - 1], i + 1 = 1)
    BY <1>12, <2>1
  <2>4. Emit(rec, turn[i], i + 1 = 1) \in Writer
    BY <1>3, <2>1, <2>2
  <2> QED BY <2>1, <2>3, <2>4
<1>15. Nat \subseteq T
  <2> HIDE DEF T
  <2> QED BY <1>13, <1>14, NaturalsFrom0
<1>16. \A i \in 0 .. size + 1 : turn[i] \in Writer
  BY <1>1, <1>15
<1>17. turn[0] = a
  <2>1. 0 \in 0 .. size + 1
    BY <1>1
  <2> QED BY <1>12, <2>1
<1>18. \A i \in 1 .. size + 1 : turn[i] = Emit(rec, turn[i - 1], i = 1)
  BY <1>1, <1>12
<1> QED BY <1>11, <1>16, <1>17, <1>18 DEF a, rec

\* After each turn up to the last.
TurnedTo(size, turn, i) ==
    /\ Turned(Len(records) + 1, Append(records, size), turn[i])
    /\ turn[i].left <= size + 1 - i
    /\ Grows(turn[i - 1].bytes, turn[i].bytes) /\ Grows(file, turn[i - 1].bytes)
    /\ Grows(file, turn[i].bytes)
    /\ ~failed => StepInv(turn[i].bytes, turn[i].ends, torn)

LEMMA Grown3 ==
    ASSUME NEW F, NEW G, NEW H, Grows(F, G), Grows(G, H)
    PROVE  Grows(F, H)
<1>1. Len(F) <= Len(H)
  BY DEF Grows
<1> QED BY <1>1 DEF Grows

LEMMA LogFacts ==
    ASSUME LogInv
    PROVE  /\ file \in Seq(Bytes) /\ records \in Seq(Nat) /\ blockOffset \in 0 .. kBlockSize
           /\ Runs(file) /\ Chained(file, records) /\ InTurn(file)
           /\ Len(records) \in Nat /\ DOMAIN records = 1 .. Len(records)
           /\ Len(file) \in Nat /\ DOMAIN file = 1 .. Len(file)
           /\ \A k \in Real(file) : file[k].piece.rec <= Len(records)
<1>1. /\ file \in Seq(Bytes) /\ records \in Seq(Nat) /\ blockOffset \in 0 .. kBlockSize
      /\ Runs(file) /\ Chained(file, records) /\ InTurn(file)
  BY DEF LogInv, BytesInv
<1>2. /\ Len(records) \in Nat /\ DOMAIN records = 1 .. Len(records)
      /\ Len(file) \in Nat /\ DOMAIN file = 1 .. Len(file)
  BY <1>1, LenProperties
<1>3. ASSUME NEW k \in Real(file) PROVE file[k].piece.rec <= Len(records)
  <2> DEFINE p == file[k].piece
             i == file[k].at
  <2>1. p \in Piece /\ i \in Nat /\ k \in Nat /\ k \in 1 .. Len(file)
    BY <1>1, <1>2, ByteIs
  <2>2. i < k /\ file[k - i] = [piece |-> p, at |-> i - i]
    <3>1. i \in 0 .. i
      BY <2>1
    <3> QED BY <1>1, <3>1 DEF Runs
  <2> HIDE DEF p, i
  <2>3. k - i \in DOMAIN file /\ i - i = 0
    BY <1>2, <2>1, <2>2
  <2>4. k - i \in Begun(file) /\ file[k - i].piece = p
    BY <2>1, <2>2, <2>3, PieceIs DEF Begun, Real
  <2>5. p.rec \in 1 .. Len(records)
    BY <1>1, <1>2, <2>4 DEF Chained, Told
  <2> QED BY <1>2, <2>5 DEF p
<1> QED BY <1>1, <1>2, <1>3

LEMMA TurnsKeep ==
    ASSUME LogInv, NEW size \in Nat
    PROVE  LET turn == Turns(size)
               last == LastTurn(turn, size)
           IN  /\ last \in 1 .. size + 1 /\ turn[last].left = 0
               /\ \A i \in 1 .. last : TurnedTo(size, turn, i)
<1> DEFINE turn == Turns(size)
           last == LastTurn(turn, size)
           rec == Len(records) + 1
           sizes == Append(records, size)
           ended == {i \in 1 .. size + 1 : turn[i].left = 0}
<1>1. /\ file \in Seq(Bytes) /\ records \in Seq(Nat) /\ blockOffset \in 0 .. kBlockSize
      /\ Len(records) \in Nat /\ DOMAIN records = 1 .. Len(records)
      /\ \A k \in Real(file) : file[k].piece.rec <= Len(records)
  BY LogFacts
<1>2. /\ turn[0] = [left |-> size, ends |-> blockOffset, bytes |-> file]
      /\ \A i \in 0 .. size + 1 : turn[i] \in Writer
      /\ \A i \in 1 .. size + 1 : turn[i] = Emit(rec, turn[i - 1], i = 1)
  BY <1>1, TurnsAre
<1>3. rec \in Nat \ {0} /\ size + 1 \in Nat
  BY <1>1
<1>4. BytesInv(file, sizes)
  BY MoreSizes DEF LogInv
<1>5. rec \in DOMAIN sizes /\ sizes[rec] = size
  <2>1. sizes \in Seq(Nat) /\ Len(sizes) = rec /\ sizes[rec] = size
    BY <1>1, AppendProperties
  <2>2. DOMAIN sizes = 1 .. rec
    BY <2>1, LenProperties
  <2> QED BY <1>3, <2>1, <2>2
<1>6. turn[0].left = size /\ turn[0].ends = blockOffset /\ turn[0].bytes = file
  BY <1>2
<1>7. last = Min(ended)
  BY DEF LastTurn
<1>g. Grows(file, file)
  BY <1>1, LenProperties DEF Grows
<1> HIDE DEF turn, rec, sizes
<1> DEFINE To(i) == /\ Turned(rec, sizes, turn[i]) /\ turn[i].left <= size + 1 - i
                    /\ Grows(turn[i - 1].bytes, turn[i].bytes) /\ Grows(file, turn[i - 1].bytes)
                    /\ Grows(file, turn[i].bytes)
                    /\ ~failed => StepInv(turn[i].bytes, turn[i].ends, torn)
<1>8. ASSUME 1 \in 1 .. size + 1 PROVE To(1)
  <2>1. 1 - 1 = 0 /\ 0 \in 0 .. size + 1 /\ (1 = 1) = TRUE
    BY <1>3
  <2>2. turn[0] \in Writer /\ turn[1] = Emit(rec, turn[0], TRUE)
    BY <1>2, <1>8, <2>1
  <2>3. \A k \in Real(file) : file[k].piece.rec <= rec /\ file[k].piece.rec < rec
    <3> SUFFICES ASSUME NEW k \in Real(file) PROVE file[k].piece.rec <= rec /\ file[k].piece.rec < rec
      OBVIOUS
    <3>1. file[k].piece.rec \in Nat /\ file[k].piece.rec <= Len(records)
      BY <1>1, ByteIs, PieceIs
    <3> QED BY <1>1, <3>1 DEF rec
  <2>4. \A k \in Begun(file) : file[k].piece.rec < rec
    BY <2>3 DEF Begun
  <2> DEFINE w == turn[0]
             v == Emit(rec, w, TRUE)
  <2>5. w \in Writer /\ w.left = size /\ w.bytes = file /\ w.ends = blockOffset
    BY <1>6, <2>2
  <2> HIDE DEF w
  <2>6. /\ Turned(rec, sizes, v) /\ v.left <= w.left
        /\ Grows(w.bytes, v.bytes)
        /\ StepInv(w.bytes, w.ends, torn) => StepInv(v.bytes, v.ends, torn)
    <3>1. TRUE \in BOOLEAN /\ BytesInv(w.bytes, sizes) /\ w.left = sizes[rec]
          /\ (\A k \in Real(w.bytes) : w.bytes[k].piece.rec <= rec)
          /\ (\A k \in Begun(w.bytes) : w.bytes[k].piece.left = 0 => w.bytes[k].piece.rec < rec)
      BY <1>4, <1>5, <2>3, <2>4, <2>5
    <3> QED BY <1>3, <1>5, <2>5, <3>1, TurnKeeps
  <2>7. ~failed => StepInv(w.bytes, w.ends, torn)
    BY <2>5 DEF LogInv
  <2>8. turn[1] = v /\ turn[1 - 1] = w
    BY <2>1, <2>2 DEF w
  <2>9. size <= size + 1 - 1
    BY <1>3
  <2> HIDE DEF v
  <2> QED BY <1>g, <2>5, <2>6, <2>7, <2>8, <2>9
<1>9. ASSUME NEW i \in Nat, i + 2 <= size + 1, To(i + 1), turn[i + 1].left # 0
      PROVE  To(i + 2)
  <2>1. /\ i + 1 \in 0 .. size + 1 /\ i + 2 \in 1 .. size + 1 /\ (i + 2) - 1 = i + 1
        /\ (i + 2 = 1) = FALSE /\ i + 1 \in Nat
    BY <1>3, <1>9
  <2> DEFINE w == turn[i + 1]
             v == Emit(rec, w, FALSE)
  <2>2. w \in Writer /\ turn[i + 2] = v
    BY <1>2, <2>1
  <2>3. w.left \in Nat /\ w.left > 0 /\ w.left # 0
    BY <1>9, <2>2 DEF Writer
  <2>4. /\ Turned(rec, sizes, w) /\ w.left <= size + 1 - (i + 1) /\ Grows(file, w.bytes)
        /\ ~failed => StepInv(w.bytes, w.ends, torn)
    BY <1>9
  <2> HIDE DEF w, To
  <2>5. /\ BytesInv(w.bytes, sizes)
        /\ \A k \in Real(w.bytes) : w.bytes[k].piece.rec <= rec
        /\ \A k \in Begun(w.bytes) : w.bytes[k].piece.left = 0 => w.bytes[k].piece.rec < rec
    BY <2>3, <2>4 DEF Turned
  <2>6. /\ Turned(rec, sizes, v) /\ v.left < w.left
        /\ Grows(w.bytes, v.bytes)
        /\ StepInv(w.bytes, w.ends, torn) => StepInv(v.bytes, v.ends, torn)
    <3>1. FALSE \in BOOLEAN
      OBVIOUS
    <3> QED BY <1>3, <1>5, <2>2, <2>3, <2>4, <2>5, <3>1, TurnKeeps
  <2>7. v.left \in Nat
    BY <2>6 DEF Turned, Writer
  <2>8. v.left <= size + 1 - (i + 2)
    <3> DEFINE x == v.left
               y == w.left
    <3>1. x \in Nat /\ y \in Nat /\ x < y /\ y <= size + 1 - (i + 1)
      BY <2>3, <2>4, <2>6, <2>7
    <3> HIDE DEF x, y
    <3>2. x <= size + 1 - (i + 2)
      BY <3>1
    <3> QED BY <3>2 DEF x
  <2>9. Grows(file, v.bytes)
    BY <2>4, <2>6, Grown3
  <2>10. turn[i + 2] = v /\ turn[(i + 2) - 1] = w
    BY <2>1, <2>2 DEF w
  <2> HIDE DEF v
  <2> QED BY <2>4, <2>6, <2>8, <2>9, <2>10 DEF To
<1> HIDE DEF To
<1> DEFINE T == {i \in Nat : i + 1 <= size + 1 /\ (\A j \in 1 .. i : turn[j].left # 0) => To(i + 1)}
<1>10. 0 \in T
  <2>1. 1 \in 1 .. size + 1 /\ 0 + 1 = 1
    BY <1>3
  <2> QED BY <1>8, <2>1
<1>11. ASSUME NEW i \in T \cap Nat PROVE i + 1 \in T
  <2> SUFFICES ASSUME (i + 1) + 1 <= size + 1, \A j \in 1 .. i + 1 : turn[j].left # 0
               PROVE  To((i + 1) + 1)
    OBVIOUS
  <2>1. i + 1 <= size + 1 /\ (i + 1) + 1 = i + 2 /\ i + 1 \in 1 .. i + 1
        /\ (\A j \in 1 .. i : j \in 1 .. i + 1)
    BY <1>3
  <2>2. To(i + 1)
    BY <2>1
  <2> QED BY <1>9, <2>1, <2>2
<1>12. Nat \subseteq T
  <2> HIDE DEF T
  <2> QED BY <1>10, <1>11, NaturalsFrom0
<1>13. ASSUME NEW i \in 1 .. size + 1, \A j \in 1 .. i - 1 : turn[j].left # 0
       PROVE  To(i)
  <2>1. i - 1 \in Nat /\ (i - 1) + 1 = i /\ i <= size + 1
    BY <1>3
  <2>2. i - 1 \in T
    BY <1>12, <2>1
  <2> QED BY <1>13, <2>1, <2>2
<1> HIDE DEF T
<1>14. ended # {}
  <2> SUFFICES ASSUME ended = {} PROVE FALSE
    OBVIOUS
  <2>1. size + 1 \in 1 .. size + 1 /\ \A j \in 1 .. (size + 1) - 1 : j \in 1 .. size + 1
    BY <1>3
  <2>2. To(size + 1) /\ turn[size + 1].left # 0
    BY <1>13, <2>1
  <2>3. turn[size + 1].left \in Nat
    BY <1>2, <1>3 DEF Writer
  <2> QED BY <1>3, <2>2, <2>3 DEF To
<1>15. last \in ended /\ \A x \in ended : last <= x
  <2>1. ended \subseteq Nat
    BY <1>3
  <2> HIDE DEF ended
  <2> QED BY <1>7, <1>14, <2>1, MinIs
<1>16. ASSUME NEW i \in 1 .. last PROVE TurnedTo(size, turn, i)
  <2>1. last \in Nat /\ last <= size + 1
    BY <1>3, <1>15
  <2>2. i \in 1 .. size + 1
    BY <1>3, <2>1
  <2>3. \A j \in 1 .. i - 1 : turn[j].left # 0
    <3> SUFFICES ASSUME NEW j \in 1 .. i - 1, turn[j].left = 0 PROVE FALSE
      OBVIOUS
    <3>1. j \in 1 .. size + 1 /\ j < last
      BY <1>3, <2>1, <2>2
    <3> QED BY <1>15, <2>1, <3>1
  <2>4. To(i)
    BY <1>13, <2>2, <2>3
  <2> QED BY <2>4 DEF To, TurnedTo, rec, sizes
<1> QED BY <1>15, <1>16 DEF turn

-----------------------------------------------------------------------------
(* The log: every step keeps the invariant *)

LEMMA GrownWhole ==
    ASSUME LogInv, NEW G, Grows(file, G), NEW r \in whole
    PROVE  \E k \in Begun(G) : k <= Len(file) /\ G[k].piece.rec = r /\ G[k].piece.left = 0
<1>1. PICK k \in Begun(file) : file[k].piece.rec = r /\ file[k].piece.left = 0
  BY DEF LogInv
<1>2. k \in Real(file) /\ file[k].at = 0
  BY DEF Begun
<1>3. k \in Real(G) /\ G[k] = file[k]
  BY <1>2 DEF Grows
<1>4. k <= Len(file)
  BY <1>2, LogFacts, ByteIs
<1>5. k \in Begun(G)
  BY <1>2, <1>3 DEF Begun
<1> QED BY <1>1, <1>3, <1>4, <1>5

LEMMA AddRecordKeeps ==
    ASSUME LogInv, NEW size \in Nat, AddRecord(size)
    PROVE  LogInv'
<1> DEFINE turn == Turns(size)
           last == LastTurn(turn, size)
           end  == turn[last]
<1>1. /\ file' = end.bytes /\ blockOffset' = end.ends /\ records' = Append(records, size)
      /\ whole' = whole \cup {Len(records) + 1} /\ torn' = torn /\ failed' = failed
  BY DEF AddRecord
<1>2. last \in 1 .. size + 1 /\ end.left = 0 /\ TurnedTo(size, turn, last)
  <2>1. last \in 1 .. size + 1 /\ end.left = 0 /\ \A i \in 1 .. last : TurnedTo(size, turn, i)
    BY TurnsKeep
  <2> HIDE DEF last, turn, end
  <2>2. last \in 1 .. last
    BY <2>1
  <2> QED BY <2>1, <2>2
<1> HIDE DEF turn, last
<1>3. /\ Turned(Len(records) + 1, Append(records, size), end)
      /\ Grows(file, end.bytes)
      /\ ~failed => StepInv(end.bytes, end.ends, torn)
  BY <1>2 DEF TurnedTo
<1> HIDE DEF end
<1>4. BytesInv(file', records') /\ blockOffset' \in 0 .. kBlockSize
  BY <1>1, <1>3 DEF Turned, Writer
<1>5. ~failed' => StepInv(file', blockOffset', torn')
  BY <1>1, <1>3
<1>6. ASSUME NEW r \in whole'
      PROVE  \E k \in Begun(file') : file'[k].piece.rec = r /\ file'[k].piece.left = 0
  <2>1. CASE r \in whole
    BY <1>1, <1>3, <2>1, GrownWhole
  <2>2. CASE r = Len(records) + 1
    <3>1. \E k \in Begun(end.bytes) : end.bytes[k].piece.rec = Len(records) + 1
                                      /\ end.bytes[k].piece.left = end.left
      BY <1>3 DEF Turned
    <3> QED BY <1>1, <1>2, <2>2, <3>1
  <2> QED BY <1>1, <2>1, <2>2
<1> QED BY <1>4, <1>5, <1>6 DEF LogInv

LEMMA AddRecordFailsKeeps ==
    ASSUME LogInv, NEW size \in Nat, AddRecordFails(size)
    PROVE  LogInv'
<1> DEFINE turn == Turns(size)
           last == LastTurn(turn, size)
<1>1. PICK i \in 1 .. last :
         \E n \in Len(turn[i - 1].bytes) .. Len(turn[i].bytes) :
            file' = SubSeq(turn[i].bytes, 1, n) /\ blockOffset' = turn[i].ends
  BY DEF AddRecordFails
<1>2. PICK n \in Len(turn[i - 1].bytes) .. Len(turn[i].bytes) :
         file' = SubSeq(turn[i].bytes, 1, n) /\ blockOffset' = turn[i].ends
  BY <1>1
<1>3. records' = Append(records, size) /\ failed' = TRUE /\ whole' = whole
  BY DEF AddRecordFails
<1>4. TurnedTo(size, turn, i)
  <2>1. \A j \in 1 .. last : TurnedTo(size, turn, j)
    BY TurnsKeep
  <2> QED BY <2>1
<1> HIDE DEF turn, last
<1> DEFINE G == turn[i].bytes
<1>5. /\ turn[i] \in Writer /\ BytesInv(G, Append(records, size)) /\ Grows(file, G)
      /\ Grows(file, turn[i - 1].bytes)
  BY <1>4 DEF TurnedTo, Turned
<1>6. Len(file) <= n /\ n \in 0 .. Len(G) /\ Len(file) \in Nat
  BY <1>5 DEF Grows
<1>7. turn[i].ends \in 0 .. kBlockSize /\ G \in Seq(Bytes)
  BY <1>5 DEF Writer
<1> HIDE DEF G
<1>8. file' = SubSeq(G, 1, n)
  BY <1>2 DEF G
<1>9. BytesInv(file', records')
  BY <1>3, <1>5, <1>6, <1>8, PrefixKeeps
<1>10. ASSUME NEW r \in whole'
       PROVE  \E k \in Begun(file') : file'[k].piece.rec = r /\ file'[k].piece.left = 0
  <2>1. PICK k \in Begun(G) : k <= Len(file) /\ G[k].piece.rec = r /\ G[k].piece.left = 0
    BY <1>3, <1>5, GrownWhole
  <2>2. k \in 1 .. n
    <3>1. k \in Nat /\ k > 0
      BY <1>7, ByteIs DEF Begun
    <3> QED BY <1>6, <2>1, <3>1
  <2>3. k \in Begun(file') /\ file'[k] = G[k]
    BY <1>6, <1>7, <1>8, <2>2, PrefixIs
  <2> QED BY <2>1, <2>3
<1> QED BY <1>2, <1>3, <1>7, <1>9, <1>10 DEF LogInv

LEMMA Remainder ==
    ASSUME NEW n \in Nat
    PROVE  /\ n % kBlockSize \in 0 .. kBlockSize
           /\ \E b \in 0 .. n : n = b * kBlockSize + (n % kBlockSize)
<1>h. kBlockSize \in Nat /\ kBlockSize > 0
  BY HeaderSize
<1> DEFINE q == n \div kBlockSize
           m == n % kBlockSize
<1>1. q \in Nat /\ kBlockSize * q <= n
  BY <1>h, Quotient
<1>2. m \in Int /\ n = kBlockSize * q + m /\ 0 <= m /\ m < kBlockSize
  BY <1>h
<1> HIDE DEF q, m
<1>3. q <= kBlockSize * q
  <2>1. PICK d \in Nat : kBlockSize = d + 1
    <3>1. kBlockSize - 1 \in Nat
      BY <1>h
    <3> QED BY <1>h, <3>1
  <2>2. kBlockSize * q = d * q + q /\ d * q \in Nat
    BY <1>1, <2>1
  <2> QED BY <1>1, <2>2
<1>4. q \in 0 .. n /\ n = q * kBlockSize + m
  <2>1. kBlockSize * q = q * kBlockSize /\ kBlockSize * q \in Nat
    BY <1>1, <1>h
  <2> QED BY <1>1, <1>2, <1>3, <1>h, <2>1
<1>5. m \in 0 .. kBlockSize
  BY <1>2, <1>h
<1> QED
  <2>1. m \in 0 .. kBlockSize /\ \E b \in 0 .. n : n = b * kBlockSize + m
    BY <1>4, <1>5
  <2> QED BY <2>1 DEF m

\* What a crash cuts is in the block that becomes torn.
LEMMA CutTorn ==
    ASSUME LogInv, StepInv(file, blockOffset, torn), NEW n \in 0 .. Len(file), NEW k \in Real(file), k <= n,
           BlockOf(k) \notin {b \in torn : (b - 1) * kBlockSize < n}
                             \cup IF n < Len(file) /\ file[n + 1].at > 0 THEN {BlockOf(n)} ELSE {}
    PROVE  \A j \in 0 .. Size(file[k].piece) - 1 :
              /\ k - file[k].at + j \in 1 .. n
              /\ file[k - file[k].at + j] = [piece |-> file[k].piece, at |-> j]
<1> DEFINE p == file[k].piece
           i == file[k].at
           s == k - i
<1>1. /\ file \in Seq(Bytes) /\ Len(file) \in Nat /\ DOMAIN file = 1 .. Len(file) /\ Runs(file)
  BY LogFacts
<1>2. k \in Nat /\ k > 0 /\ k \in Nat \ {0} /\ p \in Piece /\ i \in Nat
  <2>1. k \in Nat /\ k > 0 /\ file[k].piece \in Piece /\ file[k].at \in Nat
    BY <1>1, ByteIs
  <2> QED BY <2>1
<1>3. Size(p) \in Nat /\ Size(p) > 0
  BY <1>2, PieceIs
<1>4. i < Size(p) /\ i < k
  BY <1>1 DEF Runs
<1>5. Base(k) < k /\ Base(k) \in Nat /\ BlockOf(k) * kBlockSize = Base(k) + kBlockSize
  BY <1>2, Edges
<1>6. Base(k) < s /\ s + Size(p) - 1 <= Base(k) + kBlockSize
  BY <1>5 DEF StepInv, InBlocks, Base
<1>7. BlockOf(k) \notin torn
  BY <1>2, <1>5 DEF Base
<1>8. \A j \in 0 .. Size(p) - 1 : s + j \in DOMAIN file /\ file[s + j] = [piece |-> p, at |-> j]
  BY <1>7 DEF StepInv, Uncut
<1> HIDE DEF p, i
<1>9. s \in Nat /\ s > 0 /\ s <= n
  BY <1>2, <1>4
<1>10. s + Size(p) - 1 <= n
  <2> SUFFICES ASSUME s + Size(p) - 1 > n PROVE FALSE
    BY <1>3, <1>9
  <2> DEFINE j == n + 1 - s
  <2>1. j \in 0 .. Size(p) - 1 /\ j > 0 /\ s + j = n + 1
    BY <1>3, <1>9
  <2>2. n + 1 \in DOMAIN file /\ file[n + 1] = [piece |-> p, at |-> j]
    BY <1>8, <2>1
  <2> HIDE DEF j
  <2>3. n < Len(file) /\ file[n + 1].at > 0
    BY <1>1, <2>1, <2>2
  <2>4. BlockOf(n) = BlockOf(k)
    <3>1. n \in Nat \ {0} /\ Base(k) < n /\ n <= Base(k) + kBlockSize
      BY <1>1, <1>3, <1>5, <1>6, <1>9, HeaderSize
    <3> QED BY <1>2, <3>1, Blocks
  <2> QED BY <2>3, <2>4
<1>11. ASSUME NEW j \in 0 .. Size(p) - 1 PROVE s + j \in 1 .. n
  BY <1>3, <1>9, <1>10
<1> QED BY <1>8, <1>11 DEF p, i

LEMMA TakeUpKeeps ==
    ASSUME LogInv, TakeUp
    PROVE  LogInv'
<1>1. PICK n \in 0 .. Len(file) :
          /\ file' = SubSeq(file, 1, n)
          /\ blockOffset' = n % kBlockSize
          /\ torn' = {b \in torn : (b - 1) * kBlockSize < n}
                     \cup IF n < Len(file) /\ file[n + 1].at > 0 THEN {BlockOf(n)} ELSE {}
          /\ whole' = {r \in whole : \A k \in n + 1 .. Len(file) : file[k].piece.rec # r}
  BY DEF TakeUp
<1>2. records' = records /\ failed' = failed
  BY DEF TakeUp
<1>3. /\ file \in Seq(Bytes) /\ Len(file) \in Nat /\ DOMAIN file = 1 .. Len(file)
      /\ n \in Nat
  BY LogFacts
<1> DEFINE G == SubSeq(file, 1, n)
<1>4. /\ G \in Seq(Bytes) /\ Len(G) = n
      /\ \A k \in 1 .. n : G[k] = file[k]
      /\ DOMAIN G = 1 .. n
      /\ \A k : k \in Real(G) <=> k \in 1 .. n /\ k \in Real(file)
      /\ \A k : k \in Begun(G) <=> k \in 1 .. n /\ k \in Begun(file)
  BY <1>3, PrefixIs
<1>5. BytesInv(G, records)
  BY PrefixKeeps DEF LogInv
<1>6. n % kBlockSize \in 0 .. kBlockSize /\ \E b \in 0 .. n : n = b * kBlockSize + (n % kBlockSize)
  BY <1>3, Remainder
<1>7. file' = G
  BY <1>1
<1> HIDE DEF G
<1>8. ASSUME ~failed PROVE StepInv(G, n % kBlockSize, torn')
  <2>1. StepInv(file, blockOffset, torn)
    BY <1>8 DEF LogInv
  <2>2. InBlocks(G)
    <3>1. InBlocks(file)
      BY <2>1 DEF StepInv
    <3>2. \A k \in DOMAIN G \ Real(G) : k \in DOMAIN file \ Real(file)
      BY <1>3, <1>4
    <3> QED BY <1>4, <3>1, <3>2 DEF InBlocks
  <2>3. Uncut(G, torn')
    <3> SUFFICES ASSUME NEW k \in Real(G), BlockOf(k) \notin torn', NEW j \in 0 .. Size(G[k].piece) - 1
                 PROVE  /\ k - G[k].at + j \in DOMAIN G
                        /\ G[k - G[k].at + j] = [piece |-> G[k].piece, at |-> j]
      BY DEF Uncut
    <3>1. k \in Real(file) /\ k \in 1 .. n /\ G[k] = file[k] /\ k <= n
      BY <1>3, <1>4
    <3>2. BlockOf(k) \notin {b \in torn : (b - 1) * kBlockSize < n}
                             \cup IF n < Len(file) /\ file[n + 1].at > 0 THEN {BlockOf(n)} ELSE {}
      BY <1>1
    <3>3. \A m \in 0 .. Size(file[k].piece) - 1 :
              /\ k - file[k].at + m \in 1 .. n
              /\ file[k - file[k].at + m] = [piece |-> file[k].piece, at |-> m]
      BY <2>1, <3>1, <3>2, CutTorn
    <3> QED BY <1>4, <3>1, <3>3
  <2>4. InStep(G, n % kBlockSize)
    <3>1. PICK b \in 0 .. n : n = b * kBlockSize + (n % kBlockSize)
      BY <1>6
    <3>2. b \in 0 .. Len(G) /\ Len(G) = b * kBlockSize + (n % kBlockSize)
      BY <1>4, <3>1
    <3> QED BY <3>2 DEF InStep
  <2> QED BY <2>2, <2>3, <2>4 DEF StepInv
<1>9. ASSUME NEW r \in whole'
      PROVE  \E k \in Begun(G) : G[k].piece.rec = r /\ G[k].piece.left = 0
  <2>1. r \in whole /\ \A k \in n + 1 .. Len(file) : file[k].piece.rec # r
    BY <1>1
  <2>2. PICK k \in Begun(file) : file[k].piece.rec = r /\ file[k].piece.left = 0
    BY <2>1 DEF LogInv
  <2>3. k \in 1 .. Len(file) /\ k \notin n + 1 .. Len(file)
    BY <1>3, <2>1, <2>2 DEF Begun, Real
  <2>4. k \in 1 .. n
    BY <1>3, <2>3
  <2> QED BY <1>4, <2>2, <2>4
<1> QED BY <1>1, <1>2, <1>5, <1>6, <1>7, <1>8, <1>9 DEF LogInv

LEMMA LogStarts ==
    ASSUME LogInit
    PROVE  LogInv
<1>1. file = <<>> /\ records = <<>> /\ blockOffset = 0 /\ whole = {} /\ torn = {}
  BY DEF LogInit
<1>2. DOMAIN file = {} /\ Len(file) = 0 /\ file \in Seq(Bytes) /\ records \in Seq(Nat)
  BY <1>1
<1>3. Real(file) = {} /\ Begun(file) = {}
  BY <1>2 DEF Real, Begun
<1>4. BytesInv(file, records)
  BY <1>2, <1>3 DEF BytesInv, Runs, Chained, InTurn
<1>5. blockOffset \in 0 .. kBlockSize
  BY <1>1, HeaderSize
<1>6. StepInv(file, blockOffset, torn)
  <2>1. InBlocks(file) /\ Uncut(file, torn)
    BY <1>2, <1>3 DEF InBlocks, Uncut
  <2>2. InStep(file, blockOffset)
    <3>1. 0 \in 0 .. Len(file) /\ Len(file) = 0 * kBlockSize + blockOffset
      BY <1>1, <1>2, HeaderSize
    <3> QED BY <3>1 DEF InStep
  <2> QED BY <2>1, <2>2 DEF StepInv
<1> QED BY <1>1, <1>4, <1>5, <1>6 DEF LogInv

LEMMA LogStep ==
    ASSUME LogInv, [LogNext]_logVars
    PROVE  LogInv'
<1>1. CASE UNCHANGED logVars
  BY <1>1 DEF logVars, LogInv
<1>2. ASSUME NEW size \in RecordSizes, AddRecord(size) \/ AddRecordFails(size) PROVE LogInv'
  <2>1. size \in Nat
    BY LogAssumption
  <2> QED BY <1>2, <2>1, AddRecordKeeps, AddRecordFailsKeeps
<1>3. CASE TakeUp
  BY <1>3, TakeUpKeeps
<1> QED BY <1>1, <1>2, <1>3 DEF LogNext

-----------------------------------------------------------------------------
(* The log: the invariant of its reader *)

Reader == [at : Nat \ {0}, part : Seq(Piece), out : Seq(Seq(Piece))]

\* One physical record after the other of the same record, from its first bytes.
Linked(pieces) ==
    /\ \A j \in DOMAIN pieces : pieces[j].rec = Owner(pieces)
    /\ pieces[1].len + pieces[1].left = records[Owner(pieces)]
    /\ \A j \in 2 .. Len(pieces) : pieces[j].len + pieces[j].left = pieces[j - 1].left

\* A block begins at a byte.
Starts(k) == k = (BlockOf(k) - 1) * kBlockSize + 1

\* What is handed out ended before the reader's place.
Handed(r) ==
    /\ \A i \in DOMAIN r.out :
          /\ r.out[i] # <<>> /\ Complete(r.out[i])
          /\ \E k \in Begun(file) : /\ k < r.at /\ file[k].piece.left = 0
                                    /\ file[k].piece.rec = Owner(r.out[i])
    /\ \A i, j \in DOMAIN r.out : i < j => Owner(r.out[i]) < Owner(r.out[j])

EndsAt(e, p) == e \in Real(file) /\ file[e] = [piece |-> p, at |-> Size(p) - 1]

\* What is gathered ends at the reader's place but for a trailer.
Gathered(r) ==
    r.part # <<>> =>
        /\ Linked(r.part)
        /\ r.at <= Len(file) =>
              \E e \in 1 .. r.at - 1 : /\ EndsAt(e, Last(r.part)) /\ r.at - e <= kHeaderSize
                                       /\ e = r.at - 1 \/ Starts(r.at)

ReadInv(r) == Handed(r) /\ Gathered(r)

\* What holds besides while no write has failed: the reader is where a physical
\* record could begin, but in a cut block, and has all it passed of the records that
\* have no part in such a block.
Spared(k) == BlocksOf(file[k].piece.rec) \cap torn = {}

Lined(r) ==
    r.at <= Len(file) /\ BlockOf(r.at) \notin torn =>
        \/ Starts(r.at)
        \/ r.at - 1 \in Real(file) /\ file[r.at - 1].at = Size(file[r.at - 1].piece) - 1

Got(r, k) == \E i \in DOMAIN r.out : Owner(r.out[i]) = file[k].piece.rec

\* No byte but a trailer's is between the physical record at byte k and the reader.
Latest(r, k) == \A l \in Real(file) : l < r.at => l < k + Size(file[k].piece)

Passed(r) ==
    \A k \in Begun(file) : k < r.at /\ Spared(k) =>
        IF file[k].piece.left = 0 THEN Got(r, k) ELSE Latest(r, k) => r.part # <<>>

SparedInv(r) == Lined(r) /\ Passed(r)

-----------------------------------------------------------------------------
(* The log: a step of its reader *)

NextBlock(k) == BlockOf(k) * kBlockSize + 1

LEMMA BlockEndIs ==
    ASSUME LogInv, NEW k \in 1 .. Len(file)
    PROVE  /\ BlockEnd(k) \in Nat /\ k <= BlockEnd(k) /\ k \in Nat \ {0} /\ k \in DOMAIN file
           /\ BlockEnd(k) <= Base(k) + kBlockSize /\ BlockEnd(k) <= Len(file)
           /\ BlockEnd(k) = Base(k) + kBlockSize \/ BlockEnd(k) = Len(file)
           /\ NextBlock(k) = Base(k) + kBlockSize + 1 /\ NextBlock(k) \in Nat \ {0} /\ NextBlock(k) > k
<1>1. Len(file) \in Nat /\ DOMAIN file = 1 .. Len(file)
  BY LogFacts
<1>2. k \in Nat \ {0}
  BY <1>1
<1>3. /\ Base(k) \in Nat /\ Base(k) < k /\ k <= Base(k) + kBlockSize
      /\ BlockOf(k) * kBlockSize = Base(k) + kBlockSize
  BY <1>2, Edges
<1>h. kBlockSize \in Nat
  BY HeaderSize
<1> DEFINE S == {BlockOf(k) * kBlockSize, Len(file)}
<1>4. S = {Base(k) + kBlockSize, Len(file)} /\ S \subseteq Nat /\ S # {}
  BY <1>1, <1>3, <1>h
<1> HIDE DEF S
<1>5. Min(S) \in S /\ \A x \in S : Min(S) <= x
  BY <1>4, MinIs
<1>6. BlockEnd(k) = Min(S)
  BY DEF BlockEnd, S
<1> HIDE DEF BlockEnd
<1>7. BlockEnd(k) \in S /\ \A x \in S : BlockEnd(k) <= x
  BY <1>5, <1>6
<1>8. NextBlock(k) = Base(k) + kBlockSize + 1
  BY <1>3 DEF NextBlock
<1> QED BY <1>1, <1>2, <1>3, <1>4, <1>7, <1>8, <1>h

LEMMA ThereIs ==
    ASSUME LogInv, NEW k \in 1 .. Len(file), AllThere(k), NEW p, p = file[k].piece
    PROVE  /\ p \in Piece /\ k \in Begun(file)
           /\ k + Size(p) - 1 <= Len(file) /\ k + Size(p) - 1 <= Base(k) + kBlockSize
           /\ \A i \in 0 .. Size(p) - 1 : k + i \in Real(file) /\ file[k + i] = [piece |-> p, at |-> i]
           /\ EndsAt(k + Size(p) - 1, p)
<1>1. file \in Seq(Bytes) /\ Len(file) \in Nat /\ DOMAIN file = 1 .. Len(file) /\ k \in Nat /\ k > 0
  BY LogFacts
<1>2. k \in Real(file) /\ k \in Begun(file)
  BY <1>1 DEF AllThere, Real, Begun
<1>3. p \in Piece
  BY <1>1, <1>2, ByteIs
<1>4. Size(p) \in Nat /\ Size(p) > 0 /\ \A i : [piece |-> p, at |-> i] # Filler
  BY <1>3, PieceIs
<1>5. /\ BlockEnd(k) \in Nat /\ BlockEnd(k) <= Base(k) + kBlockSize /\ BlockEnd(k) <= Len(file)
      /\ Base(k) + kBlockSize \in Nat
  <2>1. k \in Nat \ {0}
    BY <1>1
  <2>2. Base(k) \in Nat
    BY <2>1, Edges
  <2> QED BY <2>2, BlockEndIs, HeaderSize
<1>6. k + Size(p) - 1 <= BlockEnd(k) /\ \A i \in 0 .. Size(p) - 1 : file[k + i] = [piece |-> p, at |-> i]
  BY DEF AllThere, Size
<1>7. k + Size(p) - 1 <= Len(file) /\ k + Size(p) - 1 <= Base(k) + kBlockSize
  BY <1>1, <1>4, <1>5, <1>6
<1>8. ASSUME NEW i \in 0 .. Size(p) - 1
      PROVE  k + i \in Real(file) /\ file[k + i] = [piece |-> p, at |-> i]
  <2>1. k + i \in DOMAIN file
    BY <1>1, <1>4, <1>7
  <2> QED BY <1>4, <1>6, <2>1 DEF Real
<1>9. EndsAt(k + Size(p) - 1, p)
  <2> DEFINE i == Size(p) - 1
  <2>1. i \in 0 .. Size(p) - 1 /\ k + i = k + Size(p) - 1
    BY <1>1, <1>4
  <2>2. k + i \in Real(file) /\ file[k + i] = [piece |-> p, at |-> i]
    BY <1>8, <2>1
  <2> QED BY <2>1, <2>2 DEF EndsAt
<1> QED BY <1>2, <1>3, <1>7, <1>8, <1>9

\* What ReadRecord does with a physical record.
LEMMA TakeIs ==
    ASSUME NEW r \in Reader, NEW p \in Piece
    PROVE  /\ Take(r, p) \in Reader /\ Take(r, p).at = r.at
           /\ p.type = "full" => Take(r, p).part = <<>> /\ Take(r, p).out = Append(r.out, <<p>>)
           /\ p.type = "first" => Take(r, p).part = <<p>> /\ Take(r, p).out = r.out
           /\ p.type \in {"middle", "last"} /\ r.part = <<>> => Take(r, p) = r
           /\ p.type = "middle" /\ r.part # <<>> =>
                 Take(r, p).part = Append(r.part, p) /\ Take(r, p).out = r.out
           /\ p.type = "last" /\ r.part # <<>> =>
                 Take(r, p).part = <<>> /\ Take(r, p).out = Append(r.out, Append(r.part, p))
<1>1. r.at \in Nat \ {0} /\ r.part \in Seq(Piece) /\ r.out \in Seq(Seq(Piece))
      /\ r = [at |-> r.at, part |-> r.part, out |-> r.out]
  BY DEF Reader
<1>2. <<>> \in Seq(Piece) /\ <<p>> \in Seq(Piece) /\ Append(r.part, p) \in Seq(Piece)
  BY <1>1
<1>3. /\ Append(r.out, <<p>>) \in Seq(Seq(Piece)) /\ Append(r.out, Append(r.part, p)) \in Seq(Seq(Piece))
  BY <1>1, <1>2, AppendProperties
<1>4. p.type \in {"full", "first", "middle", "last"}
  BY PieceIs
<1>5. CASE p.type = "full"
  <2>1. Take(r, p) = [at |-> r.at, part |-> <<>>, out |-> Append(r.out, <<p>>)]
    BY <1>1, <1>5 DEF Take
  <2> QED BY <1>1, <1>2, <1>3, <1>5, <2>1 DEF Reader
<1>6. CASE p.type = "first"
  <2>1. Take(r, p) = [at |-> r.at, part |-> <<p>>, out |-> r.out]
    BY <1>1, <1>6 DEF Take
  <2> QED BY <1>1, <1>2, <1>6, <2>1 DEF Reader
<1>7. CASE p.type \in {"middle", "last"} /\ r.part = <<>>
  <2>1. Take(r, p) = r
    BY <1>7 DEF Take
  <2> QED BY <1>7, <2>1
<1>8. CASE p.type = "middle" /\ r.part # <<>>
  <2>1. Take(r, p) = [at |-> r.at, part |-> Append(r.part, p), out |-> r.out]
    BY <1>1, <1>8 DEF Take
  <2> QED BY <1>1, <1>2, <1>8, <2>1 DEF Reader
<1>9. CASE p.type = "last" /\ r.part # <<>>
  <2>1. Take(r, p) = [at |-> r.at, part |-> <<>>, out |-> Append(r.out, Append(r.part, p))]
    BY <1>1, <1>9 DEF Take
  <2> QED BY <1>1, <1>2, <1>3, <1>9, <2>1 DEF Reader
<1> QED BY <1>4, <1>5, <1>6, <1>7, <1>8, <1>9

\* The three things the reader does at a byte, and that it stops behind the last.
Skips(r, s) ==
    /\ BlockEnd(r.at) - r.at + 1 < kHeaderSize
    /\ s = [at |-> NextBlock(r.at), part |-> r.part, out |-> r.out]

Takes(r, s) ==
    LET p == file[r.at].piece
    IN  /\ AllThere(r.at)
        /\ s = [at |-> r.at + Size(p), part |-> Take(r, p).part, out |-> Take(r, p).out]

Drops(r, s) ==
    /\ BlockEnd(r.at) - r.at + 1 >= kHeaderSize /\ ~AllThere(r.at)
    /\ s = [at |-> NextBlock(r.at), part |-> <<>>, out |-> r.out]

LEMMA ReadOnIs ==
    ASSUME LogInv, NEW r \in Reader
    PROVE  /\ r.at > Len(file) => ReadOn(r) = r
           /\ r.at <= Len(file) => /\ r.at \in 1 .. Len(file)
                                   /\ ReadOn(r) \in Reader /\ ReadOn(r).at > r.at
                                   /\ Skips(r, ReadOn(r)) \/ Takes(r, ReadOn(r)) \/ Drops(r, ReadOn(r))
<1>1. r.at \in Nat \ {0} /\ r.part \in Seq(Piece) /\ r.out \in Seq(Seq(Piece))
      /\ r = [at |-> r.at, part |-> r.part, out |-> r.out]
  BY DEF Reader
<1>2. Len(file) \in Nat
  BY LogFacts
<1>3. ASSUME r.at > Len(file) PROVE ReadOn(r) = r
  BY <1>3 DEF ReadOn
<1>4. ASSUME r.at <= Len(file)
      PROVE  /\ r.at \in 1 .. Len(file) /\ ReadOn(r) \in Reader /\ ReadOn(r).at > r.at
             /\ Skips(r, ReadOn(r)) \/ Takes(r, ReadOn(r)) \/ Drops(r, ReadOn(r))
  <2>1. r.at \in 1 .. Len(file) /\ ~(r.at > Len(file))
    BY <1>1, <1>2, <1>4
  <2>2. /\ NextBlock(r.at) \in Nat \ {0} /\ NextBlock(r.at) > r.at /\ BlockEnd(r.at) \in Nat
    BY <2>1, BlockEndIs
  <2> DEFINE p == file[r.at].piece
  <2>3. CASE BlockEnd(r.at) - r.at + 1 < kHeaderSize
    <3>1. ReadOn(r) = [at |-> NextBlock(r.at), part |-> r.part, out |-> r.out]
      BY <1>1, <2>1, <2>3 DEF ReadOn, NextBlock
    <3>2. ReadOn(r) \in Reader /\ ReadOn(r).at > r.at
      BY <1>1, <2>2, <3>1 DEF Reader
    <3> QED BY <2>1, <2>3, <3>1, <3>2 DEF Skips
  <2>4. CASE ~(BlockEnd(r.at) - r.at + 1 < kHeaderSize) /\ AllThere(r.at)
    <3>1. p \in Piece /\ Size(p) \in Nat /\ Size(p) > 0 /\ p.len \in Nat /\ Size(p) = kHeaderSize + p.len
      BY <2>1, <2>4, ThereIs, PieceIs
    <3>2. ReadOn(r) = [Take(r, p) EXCEPT !.at = @ + kHeaderSize + p.len]
      BY <2>1, <2>4 DEF ReadOn
    <3> HIDE DEF p
    <3> DEFINE t == Take(r, p)
    <3>3. t \in Reader /\ t.at = r.at
      BY <3>1, TakeIs
    <3>4. ReadOn(r) = [t EXCEPT !.at = @ + kHeaderSize + p.len]
      BY <3>2
    <3> HIDE DEF t
    <3>5. ReadOn(r) = [at |-> r.at + kHeaderSize + p.len, part |-> t.part, out |-> t.out]
      BY <3>3, <3>4 DEF Reader
    <3>6. r.at + kHeaderSize + p.len = r.at + Size(p) /\ r.at + Size(p) \in Nat \ {0}
          /\ r.at + Size(p) > r.at
      BY <1>1, <3>1, HeaderSize
    <3>7. ReadOn(r) \in Reader /\ ReadOn(r).at > r.at
      BY <3>3, <3>5, <3>6 DEF Reader
    <3> QED BY <2>1, <2>4, <3>5, <3>6, <3>7 DEF Takes, t, p
  <2>5. CASE ~(BlockEnd(r.at) - r.at + 1 < kHeaderSize) /\ ~AllThere(r.at)
    <3>1. ReadOn(r) = [at |-> NextBlock(r.at), part |-> <<>>, out |-> r.out]
      BY <1>1, <2>1, <2>5 DEF ReadOn, NextBlock
    <3>2. ReadOn(r) \in Reader /\ ReadOn(r).at > r.at
      BY <1>1, <2>2, <3>1 DEF Reader
    <3>3. BlockEnd(r.at) - r.at + 1 >= kHeaderSize
      BY <1>1, <2>2, <2>5, HeaderSize
    <3> QED BY <2>1, <2>5, <3>1, <3>2, <3>3 DEF Drops
  <2> QED BY <2>3, <2>4, <2>5
<1> QED BY <1>3, <1>4

-----------------------------------------------------------------------------
(* The log: what is handed out is what was added *)

LEMMA LastIs ==
    ASSUME NEW S, NEW s \in Seq(S), NEW x \in S
    PROVE  /\ s # <<>> => Last(s) \in S /\ Last(s) = s[Len(s)] /\ Len(s) \in Nat /\ Len(s) > 0
           /\ Append(s, x) \in Seq(S) /\ Append(s, x) # <<>> /\ Len(Append(s, x)) = Len(s) + 1
           /\ Last(Append(s, x)) = x /\ Append(s, x)[Len(s) + 1] = x
           /\ \A i \in DOMAIN s : i \in DOMAIN Append(s, x) /\ Append(s, x)[i] = s[i]
           /\ \A i \in DOMAIN Append(s, x) : i \in DOMAIN s \/ i = Len(s) + 1
<1>1. Len(s) \in Nat /\ DOMAIN s = 1 .. Len(s)
  BY LenProperties
<1>2. /\ Append(s, x) \in Seq(S) /\ Append(s, x) # <<>> /\ Len(Append(s, x)) = Len(s) + 1
      /\ Append(s, x)[Len(s) + 1] = x /\ \A i \in 1 .. Len(s) : Append(s, x)[i] = s[i]
  BY <1>1, AppendProperties
<1>3. DOMAIN Append(s, x) = 1 .. Len(s) + 1
  BY <1>1, <1>2, LenProperties
<1>4. Last(Append(s, x)) = x
  BY <1>2 DEF Last
<1>5. s # <<>> => Last(s) \in S /\ Last(s) = s[Len(s)] /\ Len(s) > 0
  BY <1>1, EmptySeq, ElementOfSeq DEF Last
<1> QED BY <1>1, <1>2, <1>3, <1>4, <1>5

LEMMA LinkedMore ==
    ASSUME NEW s \in Seq(Piece), s # <<>>, Linked(s), NEW p \in Piece,
           p.rec = Last(s).rec, p.len + p.left = Last(s).left
    PROVE  /\ Linked(Append(s, p)) /\ Owner(Append(s, p)) = Owner(s) /\ Owner(s) = p.rec
           /\ p.left = 0 => Complete(Append(s, p))
<1> DEFINE t == Append(s, p)
<1>1. /\ Last(s) = s[Len(s)] /\ Len(s) \in Nat /\ Len(s) > 0
      /\ t \in Seq(Piece) /\ Len(t) = Len(s) + 1 /\ Last(t) = p /\ t[Len(s) + 1] = p
      /\ \A i \in DOMAIN s : i \in DOMAIN t /\ t[i] = s[i]
      /\ \A i \in DOMAIN t : i \in DOMAIN s \/ i = Len(s) + 1
      /\ DOMAIN s = 1 .. Len(s)
  BY LastIs, LenProperties
<1> HIDE DEF t
<1>2. t[1] = s[1] /\ Owner(t) = Owner(s) /\ Len(s) \in DOMAIN s
  <2>1. 1 \in DOMAIN s /\ Len(s) \in DOMAIN s
    BY <1>1
  <2> QED BY <1>1, <2>1 DEF Owner
<1>3. Owner(s) = p.rec
  BY <1>1, <1>2 DEF Linked
<1>4. \A j \in DOMAIN t : t[j].rec = Owner(t)
  BY <1>1, <1>2, <1>3 DEF Linked
<1>5. t[1].len + t[1].left = records[Owner(t)]
  BY <1>2 DEF Linked
<1>6. ASSUME NEW j \in 2 .. Len(t) PROVE t[j].len + t[j].left = t[j - 1].left
  <2>1. CASE j \in 2 .. Len(s)
    <3>1. j \in DOMAIN s /\ j - 1 \in DOMAIN s
      BY <1>1, <2>1
    <3>2. t[j] = s[j] /\ t[j - 1] = s[j - 1]
      BY <1>1, <3>1
    <3> QED BY <2>1, <3>2 DEF Linked
  <2>2. CASE j = Len(s) + 1
    <3>1. j - 1 = Len(s) /\ t[j - 1] = Last(s) /\ t[j] = p
      BY <1>1, <1>2, <2>2
    <3> QED BY <3>1
  <2> QED BY <1>1, <2>1, <2>2
<1>7. Linked(t)
  BY <1>4, <1>5, <1>6 DEF Linked
<1> QED BY <1>1, <1>2, <1>3, <1>4, <1>5, <1>6, <1>7 DEF Complete, t

LEMMA LinkedOne ==
    ASSUME NEW p \in Piece, p.len + p.left = records[p.rec]
    PROVE  /\ <<p>> \in Seq(Piece) /\ <<p>> # <<>> /\ Linked(<<p>>) /\ Owner(<<p>>) = p.rec /\ Last(<<p>>) = p
           /\ p.left = 0 => Complete(<<p>>)
<1>1. <<p>> \in Seq(Piece) /\ Len(<<p>>) = 1 /\ DOMAIN <<p>> = {1} /\ <<p>>[1] = p /\ <<p>> # <<>>
  OBVIOUS
<1>2. Owner(<<p>>) = p.rec /\ Last(<<p>>) = p
  BY <1>1 DEF Owner, Last
<1>3. \A j \in 2 .. Len(<<p>>) : FALSE
  BY <1>1
<1> QED BY <1>1, <1>2, <1>3 DEF Linked, Complete

\* Nothing but a trailer is before a physical record that goes on with a record: what
\* ends there is what it goes on from.
LEMMA GoesOnFrom ==
    ASSUME LogInv, NEW k \in Begun(file), file[k].piece.type \in {"middle", "last"},
           NEW q \in Piece, NEW e \in 1 .. k - 1, EndsAt(e, q), k - e <= kHeaderSize
    PROVE  q.rec = file[k].piece.rec /\ file[k].piece.len + file[k].piece.left = q.left
<1> DEFINE p == file[k].piece
           c == file[k - 1].piece
<1>1. file \in Seq(Bytes) /\ Len(file) \in Nat /\ Runs(file) /\ Chained(file, records)
  BY LogFacts DEF LogInv, BytesInv
<1>2. k \in Nat /\ k > 0 /\ e \in Nat /\ e > 0 /\ e < k
  <2>1. k \in Nat /\ k > 0
    BY <1>1, ByteIs DEF Begun
  <2> QED BY <2>1
<1>3. k - 1 \in Real(file) /\ GoesOn(p, file[k - 1])
  BY <1>1 DEF Chained
<1>4. file[k - 1].at = Size(c) - 1 /\ c.rec = p.rec /\ c.left = p.len + p.left
  BY <1>3 DEF GoesOn
<1>5. c \in Piece /\ Size(c) \in Nat /\ Size(c) >= kHeaderSize
  BY <1>1, <1>3, ByteIs, PieceIs
<1>6. Size(q) \in Nat /\ Size(q) >= kHeaderSize
  BY PieceIs
<1> DEFINE j == (k - 1) - e
<1>7. j \in 0 .. file[k - 1].at /\ (k - 1) - j = e
  BY <1>2, <1>4, <1>5, HeaderSize
<1>8. file[(k - 1) - j] = [piece |-> c, at |-> file[k - 1].at - j]
  BY <1>1, <1>3, <1>7 DEF Runs
<1> HIDE DEF j, c
<1>9. file[e] = [piece |-> c, at |-> file[k - 1].at - j]
  BY <1>7, <1>8
<1>10. file[e] = [piece |-> q, at |-> Size(q) - 1]
  BY DEF EndsAt
<1>11. c = q
  <2>1. [piece |-> c, at |-> file[k - 1].at - j].piece = [piece |-> q, at |-> Size(q) - 1].piece
    BY <1>9, <1>10
  <2> QED BY <2>1
<1> QED BY <1>4, <1>11

\* What is read at a byte, if it goes on with what was gathered.
LEMMA Continues ==
    ASSUME LogInv, NEW r \in Reader, ReadInv(r), r.at \in 1 .. Len(file), NEW p, p = file[r.at].piece,
           AllThere(r.at), p.type \in {"middle", "last"}, r.part # <<>>
    PROVE  p.rec = Last(r.part).rec /\ p.len + p.left = Last(r.part).left /\ Linked(r.part)
<1>1. r.part \in Seq(Piece) /\ r.at \in Nat
  BY DEF Reader
<1>2. Linked(r.part) /\ \E e \in 1 .. r.at - 1 : EndsAt(e, Last(r.part)) /\ r.at - e <= kHeaderSize
  BY LogFacts DEF ReadInv, Gathered
<1>3. Last(r.part) \in Piece
  <2>1. \A x \in Piece : Last(r.part) \in Piece
    BY <1>1, LastIs
  <2>2. p \in Piece
    BY ThereIs
  <2> QED BY <2>1, <2>2
<1>4. PICK e \in 1 .. r.at - 1 : EndsAt(e, Last(r.part)) /\ r.at - e <= kHeaderSize
  BY <1>2
<1>5. r.at \in Begun(file)
  BY ThereIs
<1> DEFINE k == r.at
           q == Last(r.part)
<1>6. k \in Begun(file) /\ file[k].piece.type \in {"middle", "last"} /\ q \in Piece
      /\ e \in 1 .. k - 1 /\ EndsAt(e, q) /\ k - e <= kHeaderSize
  BY <1>3, <1>4, <1>5
<1> HIDE DEF k, q
<1>7. q.rec = file[k].piece.rec /\ file[k].piece.len + file[k].piece.left = q.left
  BY <1>6, GoesOnFrom
<1> QED BY <1>2, <1>7 DEF k, q

\* A row more, of a physical record that begins where the reader stands.
LEMMA HandedMore ==
    ASSUME LogInv, NEW r \in Reader, Handed(r), NEW k \in Begun(file), r.at <= k, file[k].piece.left = 0,
           NEW row \in Seq(Piece), row # <<>>, Complete(row), Owner(row) = file[k].piece.rec,
           NEW s \in Reader, s.out = Append(r.out, row), s.at > k
    PROVE  Handed(s)
<1>1. r.out \in Seq(Seq(Piece)) /\ r.at \in Nat /\ s.at \in Nat /\ s.out \in Seq(Seq(Piece))
  BY DEF Reader
<1>2. /\ s.out[Len(r.out) + 1] = row /\ Len(r.out) \in Nat /\ DOMAIN r.out = 1 .. Len(r.out)
      /\ \A i \in DOMAIN r.out : i \in DOMAIN s.out /\ s.out[i] = r.out[i]
      /\ \A i \in DOMAIN s.out : i \in DOMAIN r.out \/ i = Len(r.out) + 1
  BY <1>1, LastIs, LenProperties
<1>3. file \in Seq(Bytes) /\ InTurn(file)
  BY LogFacts DEF LogInv, BytesInv
<1>4. k \in Nat /\ k \in Real(file) /\ file[k].at = 0
  BY <1>3, ByteIs DEF Begun
<1>5. ASSUME NEW i \in DOMAIN s.out
      PROVE  /\ s.out[i] # <<>> /\ Complete(s.out[i])
             /\ \E l \in Begun(file) : /\ l < s.at /\ file[l].piece.left = 0
                                       /\ file[l].piece.rec = Owner(s.out[i])
  <2>1. CASE i \in DOMAIN r.out
    <3>1. s.out[i] = r.out[i] /\ r.out[i] # <<>> /\ Complete(r.out[i])
      BY <1>2, <2>1 DEF Handed
    <3>2. PICK l \in Begun(file) : l < r.at /\ file[l].piece.left = 0
                                   /\ file[l].piece.rec = Owner(r.out[i])
      BY <2>1 DEF Handed
    <3>3. l < s.at
      <4>1. l \in Nat
        BY <1>3, ByteIs DEF Begun
      <4> QED BY <1>1, <1>4, <3>2, <4>1
    <3> QED BY <3>1, <3>2, <3>3
  <2>2. CASE i = Len(r.out) + 1
    <3>1. s.out[i] = row
      BY <1>2, <2>2
    <3> QED BY <1>1, <1>4, <3>1
  <2> QED BY <1>2, <2>1, <2>2
<1>6. ASSUME NEW i \in DOMAIN s.out, NEW j \in DOMAIN s.out, i < j
      PROVE  Owner(s.out[i]) < Owner(s.out[j])
  <2>1. i \in DOMAIN r.out
    BY <1>2, <1>6, <1>1, LenProperties
  <2>2. CASE j \in DOMAIN r.out
    <3>1. s.out[i] = r.out[i] /\ s.out[j] = r.out[j]
      BY <1>2, <2>1, <2>2
    <3> QED BY <1>6, <2>1, <2>2, <3>1 DEF Handed
  <2>3. CASE j = Len(r.out) + 1
    <3>1. PICK l \in Begun(file) : l < r.at /\ file[l].piece.left = 0
                                   /\ file[l].piece.rec = Owner(r.out[i])
      BY <2>1 DEF Handed
    <3>2. l \in Nat /\ l \in Real(file) /\ file[l].at = 0
      BY <1>3, ByteIs DEF Begun
    <3>3. l < k
      BY <1>1, <1>4, <3>1, <3>2
    <3>4. file[l].piece.rec < file[k].piece.rec
      BY <1>3, <1>4, <3>1, <3>2, <3>3 DEF InTurn
    <3>5. s.out[i] = r.out[i] /\ s.out[j] = row
      BY <1>2, <2>1, <2>3
    <3> QED BY <3>1, <3>4, <3>5
  <2> QED BY <1>2, <2>2, <2>3
<1> QED BY <1>5, <1>6 DEF Handed

LEMMA NextStarts ==
    ASSUME LogInv, NEW k \in 1 .. Len(file)
    PROVE  Starts(NextBlock(k))
<1>1. k \in Nat \ {0}
  BY LogFacts
<1>2. /\ BlockOf(k) \in Nat /\ Base(k) \in Nat /\ NextBlock(k) = Base(k) + kBlockSize + 1
      /\ BlockOf(k) * kBlockSize = Base(k) + kBlockSize
  BY <1>1, Edges, BlockEndIs
<1> DEFINE b == BlockOf(k)
           n == NextBlock(k)
<1>3. b \in Nat /\ n \in Nat /\ n = b * kBlockSize + 1 /\ b * kBlockSize \in Nat
  BY <1>2, HeaderSize
<1> HIDE DEF b, n
<1>4. b * kBlockSize < n /\ n <= b * kBlockSize + kBlockSize
  BY <1>3, HeaderSize
<1>5. Base(n) = b * kBlockSize
  BY <1>3, <1>4, BlockAt
<1> QED BY <1>3, <1>5 DEF Starts, Base, n

LEMMA SkipKeeps ==
    ASSUME LogInv, NEW r \in Reader, ReadInv(r), r.at \in 1 .. Len(file),
           NEW s \in Reader, s.at > r.at, s.out = r.out,
           \/ s.part = <<>>
           \/ s.part = r.part /\ BlockEnd(r.at) - r.at + 1 < kHeaderSize /\ s.at = NextBlock(r.at)
    PROVE  ReadInv(s)
<1>1. /\ r.at \in Nat /\ s.at \in Nat /\ file \in Seq(Bytes) /\ Len(file) \in Nat
  BY LogFacts DEF Reader
<1>2. Handed(s)
  <2>1. ASSUME NEW i \in DOMAIN s.out
        PROVE  /\ s.out[i] # <<>> /\ Complete(s.out[i])
               /\ \E l \in Begun(file) : /\ l < s.at /\ file[l].piece.left = 0
                                         /\ file[l].piece.rec = Owner(s.out[i])
    <3>1. PICK l \in Begun(file) : l < r.at /\ file[l].piece.left = 0 /\ file[l].piece.rec = Owner(r.out[i])
      BY DEF ReadInv, Handed
    <3>2. l < s.at
      <4>1. l \in Nat
        BY <1>1, ByteIs DEF Begun
      <4> QED BY <1>1, <3>1, <4>1
    <3> QED BY <3>1, <3>2 DEF ReadInv, Handed
  <2>2. \A i, j \in DOMAIN s.out : i < j => Owner(s.out[i]) < Owner(s.out[j])
    BY DEF ReadInv, Handed
  <2> QED BY <2>1, <2>2 DEF Handed
<1>3. Gathered(s)
  <2> SUFFICES ASSUME s.part # <<>> PROVE Gathered(s)
    BY DEF Gathered
  <2>1. s.part = r.part /\ BlockEnd(r.at) - r.at + 1 < kHeaderSize /\ s.at = NextBlock(r.at)
    OBVIOUS
  <2>2. Linked(r.part)
    BY <2>1 DEF ReadInv, Gathered
  <2>3. ASSUME s.at <= Len(file)
        PROVE  \E e \in 1 .. s.at - 1 : /\ EndsAt(e, Last(s.part)) /\ s.at - e <= kHeaderSize
                                        /\ e = s.at - 1 \/ Starts(s.at)
    <3>1. /\ BlockEnd(r.at) \in Nat
          /\ BlockEnd(r.at) = Base(r.at) + kBlockSize \/ BlockEnd(r.at) = Len(file)
          /\ NextBlock(r.at) = Base(r.at) + kBlockSize + 1
          /\ Base(r.at) \in Nat /\ Base(r.at) < r.at
          /\ BlockEnd(r.at) <= Base(r.at) + kBlockSize
      <4>1. r.at \in Nat \ {0}
        BY <1>1
      <4>2. Base(r.at) \in Nat /\ Base(r.at) < r.at
        BY <4>1, Edges
      <4> QED BY <4>2, BlockEndIs
    <3>2. BlockEnd(r.at) = s.at - 1
      BY <1>1, <2>1, <2>3, <3>1, HeaderSize
    <3>3. PICK e \in 1 .. r.at - 1 : /\ EndsAt(e, Last(r.part)) /\ r.at - e <= kHeaderSize
                                     /\ e = r.at - 1 \/ Starts(r.at)
      BY <2>1, <1>1 DEF ReadInv, Gathered
    <3>4. s.at - r.at < kHeaderSize
      BY <1>1, <2>1, <3>2, HeaderSize
    <3>5. ~Starts(r.at)
      <4>1. ASSUME Starts(r.at) PROVE FALSE
        <5>1. r.at = Base(r.at) + 1
          BY <4>1 DEF Starts, Base
        <5>2. BlockEnd(r.at) = Base(r.at) + kBlockSize
          BY <1>1, <2>1, <2>3, <3>1, HeaderSize
        <5> QED BY <1>1, <2>1, <3>1, <5>1, <5>2, HeaderSize
      <4> QED BY <4>1
    <3>6. e \in Nat /\ e = r.at - 1
      BY <1>1, <3>3, <3>5
    <3>7. e \in 1 .. s.at - 1 /\ s.at - e <= kHeaderSize
      BY <1>1, <3>3, <3>4, <3>6, HeaderSize
    <3>8. Starts(s.at)
      BY <2>1, NextStarts
    <3> QED BY <2>1, <3>3, <3>7, <3>8
  <2> QED BY <2>1, <2>2, <2>3 DEF Gathered
<1> QED BY <1>2, <1>3 DEF ReadInv

LEMMA TakesKeeps ==
    ASSUME LogInv, NEW r \in Reader, ReadInv(r), r.at \in 1 .. Len(file), NEW s \in Reader, Takes(r, s)
    PROVE  ReadInv(s)
<1> DEFINE k == r.at
           p == file[k].piece
           t == Take(r, p)
<1>1. /\ AllThere(k) /\ s = [at |-> k + Size(p), part |-> t.part, out |-> t.out]
  BY DEF Takes
<1>2. p \in Piece /\ k \in Begun(file) /\ EndsAt(k + Size(p) - 1, p)
  BY <1>1, ThereIs
<1>3. Told(p, records)
  BY <1>2 DEF LogInv, BytesInv, Chained
<1>4. p.type \in {"full", "first", "middle", "last"} /\ Size(p) \in Nat /\ Size(p) > 0
  BY <1>2, PieceIs
<1>5. k \in Nat /\ r.part \in Seq(Piece) /\ k > 0
  BY DEF Reader
<1>6. s.at = k + Size(p) /\ s.part = t.part /\ s.out = t.out /\ s.at > k
  BY <1>1, <1>4, <1>5
<1>7. Handed(r) /\ Gathered(r)
  BY DEF ReadInv
<1>8. /\ p.type = "full" => s.part = <<>> /\ s.out = Append(r.out, <<p>>)
      /\ p.type = "first" => s.part = <<p>> /\ s.out = r.out
      /\ p.type \in {"middle", "last"} /\ r.part = <<>> => s.part = <<>> /\ s.out = r.out
      /\ p.type = "middle" /\ r.part # <<>> => s.part = Append(r.part, p) /\ s.out = r.out
      /\ p.type = "last" /\ r.part # <<>> =>
            s.part = <<>> /\ s.out = Append(r.out, Append(r.part, p))
  BY <1>2, <1>6, TakeIs
<1>9. Handed(r) /\ s.out = r.out => Handed(s)
  <2>1. ASSUME s.out = r.out, NEW l \in Begun(file), l < r.at PROVE l < s.at
    <3>1. l \in Nat
      BY LogFacts, ByteIs DEF Begun
    <3> QED BY <1>5, <1>6, <2>1, <3>1, <1>4
  <2> QED BY <2>1 DEF Handed
<1>10. ASSUME NEW part \in Seq(Piece), s.part = part, Linked(part), Last(part) = p PROVE Gathered(s)
  <2> DEFINE e == k + Size(p) - 1
  <2>1. e \in 1 .. s.at - 1 /\ s.at - e <= kHeaderSize /\ e = s.at - 1
    BY <1>4, <1>5, <1>6, HeaderSize
  <2>2. EndsAt(e, Last(part))
    BY <1>2, <1>10
  <2> HIDE DEF e
  <2> QED BY <1>10, <2>1, <2>2 DEF Gathered
<1>11. s.part = <<>> => Gathered(s)
  BY DEF Gathered
<1>21. ASSUME NEW row \in Seq(Piece), row # <<>>, Complete(row), Owner(row) = p.rec, p.left = 0,
              s.out = Append(r.out, row)
       PROVE  Handed(s)
  <2>1. /\ k \in Begun(file) /\ r.at <= k /\ file[k].piece.left = 0
        /\ Owner(row) = file[k].piece.rec /\ s.at > k
    BY <1>2, <1>5, <1>6, <1>21
  <2> HIDE DEF k
  <2> QED BY <1>7, <1>21, <2>1, HandedMore
<1> HIDE DEF k, p, t
<1>12. CASE p.type = "full"
  <2>1. p.left = 0 /\ p.len + p.left = records[p.rec]
    BY <1>3, <1>12 DEF Told
  <2>2. <<p>> \in Seq(Piece) /\ <<p>> # <<>> /\ Complete(<<p>>) /\ Owner(<<p>>) = p.rec
    BY <1>2, <2>1, LinkedOne
  <2>3. Handed(s)
    BY <1>8, <1>12, <1>21, <2>1, <2>2
  <2> QED BY <1>8, <1>11, <1>12, <2>3 DEF ReadInv
<1>13. CASE p.type = "first"
  <2>1. p.len + p.left = records[p.rec]
    BY <1>3, <1>13 DEF Told
  <2>2. <<p>> \in Seq(Piece) /\ Linked(<<p>>) /\ Last(<<p>>) = p
    BY <1>2, <2>1, LinkedOne
  <2>3. s.part = <<p>> /\ s.out = r.out
    BY <1>8, <1>13
  <2>4. Gathered(s)
    BY <1>10, <2>2, <2>3
  <2> QED BY <1>7, <1>9, <2>3, <2>4 DEF ReadInv
<1>14. CASE p.type \in {"middle", "last"} /\ r.part = <<>>
  BY <1>7, <1>8, <1>9, <1>11, <1>14 DEF ReadInv
<1>15. ASSUME p.type \in {"middle", "last"}, r.part # <<>> PROVE ReadInv(s)
  <2>1. p.rec = Last(r.part).rec /\ p.len + p.left = Last(r.part).left /\ Linked(r.part)
    BY <1>1, <1>15, Continues DEF p, k
  <2> DEFINE row == Append(r.part, p)
  <2>2. /\ Linked(row) /\ Owner(row) = p.rec /\ (p.left = 0 => Complete(row))
        /\ row \in Seq(Piece) /\ row # <<>> /\ Last(row) = p
    <3>1. row \in Seq(Piece) /\ row # <<>> /\ Last(row) = p
      BY <1>2, <1>5, LastIs
    <3>2. Linked(row) /\ Owner(row) = p.rec /\ (p.left = 0 => Complete(row))
      BY <1>2, <1>5, <1>15, <2>1, LinkedMore
    <3> QED BY <3>1, <3>2
  <2>3. CASE p.type = "middle"
    <3>1. s.part = row /\ s.out = r.out
      BY <1>8, <1>15, <2>3
    <3> HIDE DEF row
    <3>2. Gathered(s)
      BY <1>10, <2>2, <3>1
    <3> QED BY <1>7, <1>9, <3>1, <3>2 DEF ReadInv
  <2>4. CASE p.type = "last"
    <3>1. s.part = <<>> /\ s.out = Append(r.out, row)
      BY <1>8, <1>15, <2>4
    <3>2. p.left = 0
      BY <1>3, <2>4 DEF Told
    <3> HIDE DEF row
    <3>3. Complete(row)
      BY <2>2, <3>2
    <3>4. Handed(s)
      BY <1>21, <2>2, <3>1, <3>2, <3>3
    <3> QED BY <1>11, <3>1, <3>4 DEF ReadInv
  <2> QED BY <1>15, <2>3, <2>4
<1> QED BY <1>4, <1>12, <1>13, <1>14, <1>15

LEMMA ReadKeeps ==
    ASSUME LogInv, NEW r \in Reader, ReadInv(r)
    PROVE  ReadOn(r) \in Reader /\ ReadInv(ReadOn(r))
<1> DEFINE s == ReadOn(r)
<1>1. Len(file) \in Nat /\ r.at \in Nat
  BY LogFacts DEF Reader
<1>2. CASE r.at > Len(file)
  BY <1>2, ReadOnIs
<1>3. CASE r.at <= Len(file)
  <2>1. /\ r.at \in 1 .. Len(file) /\ s \in Reader /\ s.at > r.at
        /\ Skips(r, s) \/ Takes(r, s) \/ Drops(r, s)
    BY <1>3, ReadOnIs
  <2> HIDE DEF s
  <2>2. CASE Skips(r, s)
    <3>1. s.out = r.out /\ s.part = r.part /\ BlockEnd(r.at) - r.at + 1 < kHeaderSize
          /\ s.at = NextBlock(r.at)
      BY <2>2 DEF Skips
    <3>2. ReadInv(s)
      BY <2>1, <3>1, SkipKeeps
    <3> QED BY <2>1, <3>2 DEF s
  <2>3. CASE Takes(r, s)
    <3>1. ReadInv(s)
      BY <2>1, <2>3, TakesKeeps
    <3> QED BY <2>1, <3>1 DEF s
  <2>4. CASE Drops(r, s)
    <3>1. s.out = r.out /\ s.part = <<>>
      BY <2>4 DEF Drops
    <3>2. ReadInv(s)
      BY <2>1, <3>1, SkipKeeps
    <3> QED BY <2>1, <3>2 DEF s
  <2> QED BY <2>1, <2>2, <2>3, <2>4
<1> QED BY <1>1, <1>2, <1>3

-----------------------------------------------------------------------------
(* The log: what no cut block holds a part of is read *)

\* A physical record that begins in a block that was not cut is all there, in it.
LEMMA WholeIs ==
    ASSUME LogInv, ~failed, NEW k \in Begun(file), BlockOf(k) \notin torn, NEW p, p = file[k].piece
    PROVE  /\ p \in Piece /\ k \in Nat \ {0} /\ k \in 1 .. Len(file)
           /\ k + Size(p) - 1 <= Len(file) /\ k + Size(p) - 1 <= Base(k) + kBlockSize
           /\ \A i \in 0 .. Size(p) - 1 : k + i \in DOMAIN file /\ file[k + i] = [piece |-> p, at |-> i]
<1>1. /\ file \in Seq(Bytes) /\ Len(file) \in Nat /\ DOMAIN file = 1 .. Len(file)
      /\ InBlocks(file) /\ Uncut(file, torn)
  BY LogFacts DEF LogInv, StepInv
<1>2. k \in Real(file) /\ file[k].at = 0
  BY DEF Begun
<1>3. k \in Nat /\ k > 0 /\ k \in DOMAIN file /\ p \in Piece
  BY <1>1, <1>2, ByteIs
<1>4. Size(p) \in Nat /\ Size(p) > 0
  BY <1>3, PieceIs
<1>5. k - file[k].at = k
  BY <1>2, <1>3
<1>6. BlockOf(k) * kBlockSize = Base(k) + kBlockSize
  BY <1>3, Edges
<1>7. k + Size(p) - 1 <= Base(k) + kBlockSize
  BY <1>1, <1>2, <1>5, <1>6 DEF InBlocks
<1>8. \A i \in 0 .. Size(p) - 1 : k + i \in DOMAIN file /\ file[k + i] = [piece |-> p, at |-> i]
  BY <1>1, <1>2, <1>5 DEF Uncut
<1>9. k + Size(p) - 1 <= Len(file)
  <2>1. Size(p) - 1 \in 0 .. Size(p) - 1
    BY <1>4
  <2>2. k + (Size(p) - 1) \in DOMAIN file
    BY <1>8, <2>1
  <2> QED BY <1>1, <1>3, <1>4, <2>2
<1> QED BY <1>1, <1>3, <1>7, <1>8, <1>9

LEMMA SparedIs ==
    ASSUME NEW k \in DOMAIN file, NEW l \in DOMAIN file, file[k].piece.rec = file[l].piece.rec, Spared(k)
    PROVE  BlockOf(k) \notin torn /\ BlockOf(l) \notin torn /\ Spared(l)
BY DEF Spared, BlocksOf

\* Of the reader's block, one it has not reached is not out of its sight.
LEMMA SameBlock ==
    ASSUME LogInv, NEW r \in Reader, r.at \in 1 .. Len(file), NEW k \in Nat \ {0}, r.at <= k, k < NextBlock(r.at)
    PROVE  BlockOf(k) = BlockOf(r.at) /\ Base(k) = Base(r.at)
<1>1. r.at \in Nat \ {0}
  BY DEF Reader
<1>2. Base(r.at) \in Nat /\ Base(r.at) < r.at
  BY <1>1, Edges
<1>3. NextBlock(r.at) = Base(r.at) + kBlockSize + 1
  BY BlockEndIs
<1>4. Base(r.at) < k /\ k <= Base(r.at) + kBlockSize
  BY <1>1, <1>2, <1>3, HeaderSize
<1> QED BY <1>1, <1>4, Blocks

LEMMA SkipSpares ==
    ASSUME LogInv, ~failed, NEW r \in Reader, SparedInv(r), r.at \in 1 .. Len(file),
           NEW s \in Reader, s.at > r.at, Skips(r, s)
    PROVE  SparedInv(s)
<1>1. /\ BlockEnd(r.at) - r.at + 1 < kHeaderSize
      /\ s.at = NextBlock(r.at) /\ s.part = r.part /\ s.out = r.out
  BY DEF Skips
<1>2. r.at \in Nat /\ s.at \in Nat /\ file \in Seq(Bytes) /\ Len(file) \in Nat /\ DOMAIN file = 1 .. Len(file)
  BY LogFacts DEF Reader
<1>3. Lined(s)
  <2>1. Starts(s.at)
    BY <1>1, NextStarts
  <2> QED BY <2>1 DEF Lined
<1>4. ASSUME NEW k \in Begun(file), k < s.at, Spared(k) PROVE k < r.at
  <2>1. k \in Nat \ {0} /\ k \in DOMAIN file
    <3>1. k \in Real(file)
      BY DEF Begun
    <3>2. k \in Nat /\ k > 0 /\ k \in DOMAIN file
      BY <1>2, <3>1, ByteIs
    <3> QED BY <3>2
  <2> SUFFICES ASSUME r.at <= k PROVE FALSE
    BY <1>2, <2>1
  <2>2. BlockOf(k) \notin torn
    BY <1>4, <2>1, SparedIs
  <2> DEFINE p == file[k].piece
  <2>3. p \in Piece /\ k + Size(p) - 1 <= Len(file) /\ k + Size(p) - 1 <= Base(k) + kBlockSize
    BY <2>2, WholeIs
  <2>4. Base(k) = Base(r.at)
    BY <1>1, <1>4, <2>1, SameBlock
  <2>5. Size(p) \in Nat /\ Size(p) >= kHeaderSize
    BY <2>3, PieceIs
  <2> HIDE DEF p
  <2>6. /\ BlockEnd(r.at) \in Nat
        /\ BlockEnd(r.at) = Base(r.at) + kBlockSize \/ BlockEnd(r.at) = Len(file)
    BY BlockEndIs
  <2>7. k + Size(p) - 1 <= BlockEnd(r.at)
    BY <2>3, <2>4, <2>6
  <2> QED BY <1>1, <1>2, <2>1, <2>5, <2>6, <2>7, HeaderSize
<1>5. Passed(s)
  <2> SUFFICES ASSUME NEW k \in Begun(file), k < s.at, Spared(k)
               PROVE  IF file[k].piece.left = 0 THEN Got(s, k) ELSE Latest(s, k) => s.part # <<>>
    BY DEF Passed
  <2>1. k < r.at
    BY <1>4
  <2>2. IF file[k].piece.left = 0 THEN Got(r, k) ELSE Latest(r, k) => r.part # <<>>
    BY <2>1 DEF SparedInv, Passed
  <2>3. Got(r, k) => Got(s, k)
    BY <1>1 DEF Got
  <2>4. ASSUME Latest(s, k) PROVE Latest(r, k)
    <3> SUFFICES ASSUME NEW l \in Real(file), l < r.at PROVE l < k + Size(file[k].piece)
      BY DEF Latest
    <3>1. l \in Nat
      BY <1>2, ByteIs
    <3>2. l < s.at
      BY <1>2, <3>1
    <3> QED BY <2>4, <3>2 DEF Latest
  <2> QED BY <1>1, <2>2, <2>3, <2>4
<1> QED BY <1>3, <1>5 DEF SparedInv

\* Only in a cut block does the reader find something that is not all there.
LEMMA DropsTorn ==
    ASSUME LogInv, ~failed, NEW r \in Reader, SparedInv(r), r.at \in 1 .. Len(file), NEW s, Drops(r, s)
    PROVE  r.at \in Real(file) /\ BlockOf(r.at) \in torn
<1> DEFINE k == r.at
<1>1. BlockEnd(k) - k + 1 >= kHeaderSize /\ ~AllThere(k)
  BY DEF Drops
<1>2. /\ file \in Seq(Bytes) /\ Len(file) \in Nat /\ DOMAIN file = 1 .. Len(file) /\ Runs(file)
      /\ InBlocks(file) /\ Uncut(file, torn)
  BY LogFacts DEF LogInv, StepInv
<1>3. k \in Nat \ {0} /\ k \in DOMAIN file
  BY <1>2
<1>4. /\ BlockEnd(k) \in Nat /\ BlockEnd(k) <= Base(k) + kBlockSize
      /\ BlockEnd(k) = Base(k) + kBlockSize \/ BlockEnd(k) = Len(file)
  BY BlockEndIs
<1>5. Base(k) \in Nat /\ Base(k) < k /\ BlockOf(k) * kBlockSize = Base(k) + kBlockSize
  BY <1>3, Edges
<1>6. Lined(r)
  BY DEF SparedInv
<1>e. r.at = k
  OBVIOUS
<1> HIDE DEF k
<1>7. k \in Real(file)
  <2> SUFFICES ASSUME k \notin Real(file) PROVE FALSE
    OBVIOUS
  <2>1. BlockOf(k) * kBlockSize - k + 1 < kHeaderSize
    BY <1>2, <1>3 DEF InBlocks
  <2> QED BY <1>1, <1>3, <1>4, <1>5, <2>1, HeaderSize
<1>8. BlockOf(k) \in torn
  <2> SUFFICES ASSUME BlockOf(k) \notin torn PROVE FALSE
    OBVIOUS
  <2>1. Starts(k) \/ (k - 1 \in Real(file) /\ file[k - 1].at = Size(file[k - 1].piece) - 1)
    BY <1>2, <1>3, <1>6, <1>e DEF Lined
  <2> DEFINE p == file[k].piece
             i == file[k].at
  <2>2. p \in Piece /\ i \in Nat /\ Size(p) \in Nat /\ Size(p) > 0
    BY <1>2, <1>7, ByteIs, PieceIs
  <2>3. i < Size(p) /\ i < k /\ \A j \in 0 .. i : file[k - j] = [piece |-> p, at |-> i - j]
    BY <1>2, <1>7 DEF Runs
  <2>4. (BlockOf(k) - 1) * kBlockSize < k - i
    BY <1>2, <1>7 DEF InBlocks
  <2>5. i = 0
    <3> SUFFICES ASSUME i # 0 PROVE FALSE
      OBVIOUS
    <3>1. CASE Starts(k)
      <4>1. k = Base(k) + 1 /\ Base(k) < k - i
        BY <2>4, <3>1 DEF Starts, Base
      <4> HIDE DEF i
      <4> QED BY <1>3, <1>5, <2>2, <4>1
    <3>2. CASE file[k - 1].at = Size(file[k - 1].piece) - 1
      <4>1. file[k - 1] = [piece |-> p, at |-> i - 1]
        <5>1. 1 \in 0 .. i
          BY <2>2
        <5> QED BY <2>3, <5>1
      <4> HIDE DEF i, p
      <4>2. i - 1 = Size(p) - 1
        BY <3>2, <4>1
      <4> QED BY <2>2, <2>3, <4>2
    <3> QED BY <2>1, <3>1, <3>2
  <2>6. k \in Begun(file)
    BY <1>7, <2>5 DEF Begun
  <2>7. /\ k + Size(p) - 1 <= Len(file) /\ k + Size(p) - 1 <= Base(k) + kBlockSize
        /\ \A j \in 0 .. Size(p) - 1 : k + j \in DOMAIN file /\ file[k + j] = [piece |-> p, at |-> j]
    BY <2>6, WholeIs
  <2>8. k + Size(p) - 1 <= BlockEnd(k)
    BY <1>4, <2>7
  <2>9. file[k] # Filler
    BY <1>7 DEF Real
  <2> QED BY <1>1, <2>5, <2>7, <2>8, <2>9 DEF AllThere, Size
<1> QED BY <1>7, <1>8, <1>e

LEMMA DropSpares ==
    ASSUME LogInv, ~failed, NEW r \in Reader, SparedInv(r), r.at \in 1 .. Len(file),
           NEW s \in Reader, s.at > r.at, Drops(r, s)
    PROVE  SparedInv(s)
<1>1. s.at = NextBlock(r.at) /\ s.out = r.out
  BY DEF Drops
<1>2. r.at \in Nat /\ s.at \in Nat /\ file \in Seq(Bytes) /\ Len(file) \in Nat /\ DOMAIN file = 1 .. Len(file)
  BY LogFacts DEF Reader
<1>3. Lined(s)
  <2>1. Starts(s.at)
    BY <1>1, NextStarts
  <2> QED BY <2>1 DEF Lined
<1>4. r.at \in Real(file) /\ BlockOf(r.at) \in torn /\ r.at \in DOMAIN file
  BY <1>2, DropsTorn
<1>5. Passed(s)
  <2> SUFFICES ASSUME NEW k \in Begun(file), k < s.at, Spared(k)
               PROVE  IF file[k].piece.left = 0 THEN Got(s, k) ELSE Latest(s, k) => s.part # <<>>
    BY DEF Passed
  <2>1. k \in Nat \ {0} /\ k \in DOMAIN file
    <3>1. k \in Real(file)
      BY DEF Begun
    <3>2. k \in Nat /\ k > 0 /\ k \in DOMAIN file
      BY <1>2, <3>1, ByteIs
    <3> QED BY <3>2
  <2>2. BlockOf(k) \notin torn
    BY <2>1, SparedIs
  <2>3. k < r.at
    <3> SUFFICES ASSUME r.at <= k PROVE FALSE
      BY <1>2, <2>1
    <3>1. BlockOf(k) = BlockOf(r.at)
      BY <1>1, <2>1, SameBlock
    <3> QED BY <1>4, <2>2, <3>1
  <2>4. IF file[k].piece.left = 0 THEN Got(r, k) ELSE Latest(r, k) => r.part # <<>>
    BY <2>3 DEF SparedInv, Passed
  <2>5. Got(r, k) => Got(s, k)
    BY <1>1 DEF Got
  <2>6. ASSUME Latest(s, k) PROVE FALSE
    <3> DEFINE p == file[k].piece
               i == r.at - k
    <3>1. r.at < k + Size(p)
      BY <1>2, <1>4, <2>6 DEF Latest
    <3>2. p \in Piece /\ \A j \in 0 .. Size(p) - 1 : file[k + j] = [piece |-> p, at |-> j]
      BY <2>2, WholeIs
    <3>3. Size(p) \in Nat
      BY <3>2, PieceIs
    <3>4. i \in 0 .. Size(p) - 1 /\ k + i = r.at
      <4> HIDE DEF p
      <4> QED BY <1>2, <2>1, <2>3, <3>1, <3>3
    <3>5. file[r.at] = [piece |-> p, at |-> i]
      BY <3>2, <3>4
    <3>6. file[r.at].piece.rec = file[k].piece.rec
      BY <3>5
    <3> QED BY <1>4, <2>1, <3>6, SparedIs
  <2> QED BY <2>4, <2>5, <2>6
<1> QED BY <1>3, <1>5 DEF SparedInv

\* What a physical record goes on from begins before it, in the same record, and is
\* the last the reader came by.
LEMMA WentBefore ==
    ASSUME LogInv, ~failed, NEW r \in Reader, SparedInv(r), NEW k \in Begun(file), k = r.at,
           file[k].piece.type \in {"middle", "last"}, Spared(k)
    PROVE  r.part # <<>>
<1> DEFINE p == file[k].piece
           c == file[k - 1].piece
           b == k - Size(c)
<1>1. /\ file \in Seq(Bytes) /\ Len(file) \in Nat /\ DOMAIN file = 1 .. Len(file)
      /\ Runs(file) /\ Chained(file, records)
  BY LogFacts
<1>2. k \in Nat /\ k > 0 /\ k \in DOMAIN file
  <2>1. k \in Real(file)
    BY DEF Begun
  <2> QED BY <1>1, <2>1, ByteIs
<1>3. k - 1 \in Real(file) /\ GoesOn(p, file[k - 1])
  BY <1>1 DEF Chained
<1>4. file[k - 1].at = Size(c) - 1 /\ c.rec = p.rec /\ c.type \in {"first", "middle"}
  BY <1>3 DEF GoesOn
<1>5. c \in Piece /\ Size(c) \in Nat /\ Size(c) > 0 /\ \A i : [piece |-> c, at |-> i] # Filler
  BY <1>1, <1>3, ByteIs, PieceIs
<1>6. /\ file[k - 1].at < k - 1
      /\ \A j \in 0 .. file[k - 1].at : file[(k - 1) - j] = [piece |-> c, at |-> file[k - 1].at - j]
  BY <1>1, <1>3 DEF Runs
<1> HIDE DEF c
<1>7. file[b] = [piece |-> c, at |-> 0] /\ b \in DOMAIN file /\ b < k /\ b + Size(c) = k
  <2> DEFINE j == Size(c) - 1
  <2>1. j \in 0 .. file[k - 1].at /\ (k - 1) - j = b /\ file[k - 1].at - j = 0
    BY <1>2, <1>4, <1>5
  <2>2. file[(k - 1) - j] = [piece |-> c, at |-> file[k - 1].at - j]
    BY <1>6, <2>1
  <2>3. b \in DOMAIN file /\ b < k /\ b + Size(c) = k
    BY <1>1, <1>2, <1>4, <1>5, <1>6
  <2> HIDE DEF j, b
  <2> QED BY <2>1, <2>2, <2>3
<1> HIDE DEF b
<1>8. b \in Begun(file) /\ file[b].piece = c
  <2>1. file[b] # Filler /\ file[b].at = 0 /\ file[b].piece = c
    BY <1>5, <1>7
  <2> QED BY <1>7, <2>1 DEF Begun, Real
<1>9. Spared(b)
  BY <1>2, <1>4, <1>7, <1>8, SparedIs
<1>10. file[b].piece.left # 0
  <2>1. Told(file[b].piece, records)
    BY <1>1, <1>8 DEF Chained
  <2> QED BY <1>4, <1>8, <2>1 DEF Told
<1>11. Latest(r, b)
  BY <1>7, <1>8 DEF Latest
<1> QED BY <1>7, <1>8, <1>9, <1>10, <1>11 DEF SparedInv, Passed

\* What is handed out stays.
LEMMA GotMore ==
    ASSUME NEW r \in Reader, NEW s \in Reader, NEW row \in Seq(Piece),
           s.out = r.out \/ s.out = Append(r.out, row), NEW k, Got(r, k)
    PROVE  Got(s, k)
<1>1. r.out \in Seq(Seq(Piece))
  BY DEF Reader
<1>2. PICK i \in DOMAIN r.out : Owner(r.out[i]) = file[k].piece.rec
  BY DEF Got
<1>3. i \in DOMAIN Append(r.out, row) /\ Append(r.out, row)[i] = r.out[i]
  BY <1>1, <1>2, LastIs
<1>4. i \in DOMAIN s.out /\ s.out[i] = r.out[i]
  BY <1>2, <1>3
<1> QED BY <1>2, <1>4 DEF Got

LEMMA GotNow ==
    ASSUME NEW r \in Reader, NEW s \in Reader, NEW row \in Seq(Piece),
           s.out = Append(r.out, row), NEW k, Owner(row) = file[k].piece.rec
    PROVE  Got(s, k)
<1>1. r.out \in Seq(Seq(Piece)) /\ s.out \in Seq(Seq(Piece))
  BY DEF Reader
<1>2. s.out[Len(r.out) + 1] = row /\ Len(s.out) = Len(r.out) + 1
  BY <1>1, LastIs
<1>3. Len(r.out) + 1 \in DOMAIN s.out
  BY <1>1, <1>2, LenProperties
<1> QED BY <1>2, <1>3 DEF Got

LEMMA TakesSpares ==
    ASSUME LogInv, ~failed, NEW r \in Reader, ReadInv(r), SparedInv(r), r.at \in 1 .. Len(file),
           NEW s \in Reader, s.at > r.at, Takes(r, s)
    PROVE  SparedInv(s)
<1> DEFINE b == r.at
           p == file[b].piece
           t == Take(r, p)
<1>1. /\ AllThere(b) /\ s = [at |-> b + Size(p), part |-> t.part, out |-> t.out]
  BY DEF Takes
<1>2. /\ p \in Piece /\ b \in Begun(file) /\ EndsAt(b + Size(p) - 1, p)
      /\ \A i \in 0 .. Size(p) - 1 : b + i \in Real(file) /\ file[b + i] = [piece |-> p, at |-> i]
  BY <1>1, ThereIs
<1>3. Told(p, records)
  BY <1>2 DEF LogInv, BytesInv, Chained
<1>4. p.type \in {"full", "first", "middle", "last"} /\ Size(p) \in Nat /\ Size(p) > 0
  BY <1>2, PieceIs
<1>5. b \in Nat /\ b > 0 /\ r.part \in Seq(Piece) /\ b \in DOMAIN file
  BY LogFacts DEF Reader
<1>6. s.at = b + Size(p) /\ s.part = t.part /\ s.out = t.out
  BY <1>1
<1>7. /\ p.type = "full" => s.part = <<>> /\ s.out = Append(r.out, <<p>>)
      /\ p.type = "first" => s.part = <<p>> /\ s.out = r.out
      /\ p.type \in {"middle", "last"} /\ r.part = <<>> => s.part = <<>> /\ s.out = r.out
      /\ p.type = "middle" /\ r.part # <<>> => s.part = Append(r.part, p) /\ s.out = r.out
      /\ p.type = "last" /\ r.part # <<>> =>
            s.part = <<>> /\ s.out = Append(r.out, Append(r.part, p))
  BY <1>2, <1>6, TakeIs
<1>8. <<p>> \in Seq(Piece) /\ Append(r.part, p) \in Seq(Piece) /\ Append(r.part, p) # <<>>
      /\ <<p>> # <<>>
  BY <1>2, <1>5, LastIs
<1>b. b = r.at
  OBVIOUS
<1>p. p = file[b].piece
  OBVIOUS
<1> HIDE DEF b, p, t
<1>9. Lined(s)
  <2>1. s.at - 1 = b + Size(p) - 1
    BY <1>4, <1>5, <1>6
  <2>2. EndsAt(s.at - 1, p)
    BY <1>2, <2>1
  <2>3. s.at - 1 \in Real(file) /\ file[s.at - 1].at = Size(file[s.at - 1].piece) - 1
    BY <2>2 DEF EndsAt
  <2> QED BY <2>3 DEF Lined
<1>10. ASSUME NEW k, Got(r, k) PROVE Got(s, k)
  <2>1. \E row \in Seq(Piece) : s.out = r.out \/ s.out = Append(r.out, row)
    BY <1>4, <1>7, <1>8
  <2> QED BY <1>10, <2>1, GotMore
<1>11. ASSUME Spared(b), p.type \in {"middle", "last"}
       PROVE  /\ r.part # <<>> /\ Owner(Append(r.part, p)) = p.rec
  <2>1. r.part # <<>>
    BY <1>2, <1>11, <1>b, <1>p, WentBefore
  <2>2. p.rec = Last(r.part).rec /\ p.len + p.left = Last(r.part).left /\ Linked(r.part)
    BY <1>1, <1>11, <1>b, <1>p, <2>1, Continues
  <2> QED BY <1>2, <1>5, <2>1, <2>2, LinkedMore
<1>12. ASSUME Spared(b), p.left = 0 PROVE Got(s, b)
  <2>1. p.type \in {"full", "last"}
    BY <1>3, <1>12 DEF Told
  <2>2. CASE p.type = "full"
    <3>1. Owner(<<p>>) = p.rec
      BY DEF Owner
    <3> QED BY <1>7, <1>8, <1>p, <2>2, <3>1, GotNow
  <2>3. CASE p.type = "last"
    <3>1. r.part # <<>> /\ Owner(Append(r.part, p)) = p.rec
      BY <1>11, <1>12, <2>3
    <3> QED BY <1>7, <1>8, <1>p, <2>3, <3>1, GotNow
  <2> QED BY <2>1, <2>2, <2>3
<1>13. ASSUME Spared(b), p.left # 0 PROVE s.part # <<>>
  <2>1. p.type \in {"first", "middle"}
    BY <1>3, <1>4, <1>13 DEF Told
  <2> QED BY <1>7, <1>8, <1>11, <1>13, <2>1
<1>14. ASSUME NEW k \in Begun(file), k < b, Spared(k), Latest(s, k) PROVE FALSE
  <2>1. k \in Nat \ {0} /\ k \in DOMAIN file /\ file \in Seq(Bytes)
    <3>1. k \in Real(file)
      BY DEF Begun
    <3>2. k \in Nat /\ k > 0 /\ k \in DOMAIN file
      BY <3>1, LogFacts, ByteIs
    <3> QED BY <3>2, LogFacts
  <2>2. BlockOf(k) \notin torn
    BY <1>14, <2>1, SparedIs
  <2> DEFINE q == file[k].piece
             i == b - k
  <2>3. q \in Piece /\ \A j \in 0 .. Size(q) - 1 : file[k + j] = [piece |-> q, at |-> j]
    BY <2>2, WholeIs
  <2>4. Size(q) \in Nat
    BY <2>3, PieceIs
  <2>5. b < k + Size(q)
    <3>1. b \in Real(file) /\ b < s.at
      <4>1. b \in Real(file)
        BY <1>2 DEF Begun
      <4> QED BY <1>4, <1>5, <1>6, <4>1
    <3> QED BY <1>14, <3>1 DEF Latest
  <2>6. i \in 0 .. Size(q) - 1 /\ k + i = b /\ i > 0
    <3> HIDE DEF q
    <3> QED BY <1>5, <1>14, <2>1, <2>4, <2>5
  <2>7. file[b] = [piece |-> q, at |-> i]
    BY <2>3, <2>6
  <2>8. file[b].at = 0
    BY <1>2 DEF Begun
  <2> HIDE DEF i, q
  <2> QED BY <2>6, <2>7, <2>8
<1>15. ASSUME NEW k \in Begun(file), k < s.at PROVE k <= b
  <2> SUFFICES ASSUME k > b PROVE FALSE
    <3>1. k \in Nat
      BY LogFacts, ByteIs DEF Begun
    <3> QED BY <1>5, <3>1
  <2>1. k \in Nat
    BY LogFacts, ByteIs DEF Begun
  <2> DEFINE i == k - b
  <2>2. i \in 0 .. Size(p) - 1 /\ b + i = k /\ i > 0
    BY <1>4, <1>5, <1>6, <1>15, <2>1
  <2>3. file[k] = [piece |-> p, at |-> i]
    BY <1>2, <2>2
  <2>4. file[k].at = 0
    BY DEF Begun
  <2> HIDE DEF i
  <2> QED BY <2>2, <2>3, <2>4
<1>16. Passed(s)
  <2> SUFFICES ASSUME NEW k \in Begun(file), k < s.at, Spared(k)
               PROVE  IF file[k].piece.left = 0 THEN Got(s, k) ELSE Latest(s, k) => s.part # <<>>
    BY DEF Passed
  <2>1. CASE k = b
    BY <1>12, <1>13, <1>p, <2>1
  <2>2. CASE k < b
    <3>1. file[k].piece.left = 0 => Got(r, k)
      BY <1>b, <2>2 DEF SparedInv, Passed
    <3> QED BY <1>10, <1>14, <2>2, <3>1
  <2>3. k = b \/ k < b
    <3>1. k \in Nat
      BY LogFacts, ByteIs DEF Begun
    <3>2. k <= b
      BY <1>15
    <3> QED BY <1>5, <3>1, <3>2
  <2> QED BY <2>1, <2>2, <2>3
<1> QED BY <1>9, <1>16 DEF SparedInv

LEMMA ReadSpares ==
    ASSUME LogInv, ~failed, NEW r \in Reader, ReadInv(r), SparedInv(r)
    PROVE  SparedInv(ReadOn(r))
<1> DEFINE s == ReadOn(r)
<1>1. Len(file) \in Nat /\ r.at \in Nat
  BY LogFacts DEF Reader
<1>2. CASE r.at > Len(file)
  BY <1>2, ReadOnIs
<1>3. CASE r.at <= Len(file)
  <2>1. /\ r.at \in 1 .. Len(file) /\ s \in Reader /\ s.at > r.at
        /\ Skips(r, s) \/ Takes(r, s) \/ Drops(r, s)
    BY <1>3, ReadOnIs
  <2> HIDE DEF s
  <2>2. SparedInv(s)
    BY <2>1, SkipSpares, TakesSpares, DropSpares
  <2> QED BY <2>2 DEF s
<1> QED BY <1>1, <1>2, <1>3

-----------------------------------------------------------------------------
(* The log: all that is read *)

\* The reader after n steps.
AfterInv(r) == ReadInv(r) /\ (~failed => SparedInv(r))

LEMMA ReadRecordsIs ==
    ASSUME LogInv
    PROVE  \E r \in Reader : ReadRecords = r.out /\ AfterInv(r) /\ r.at > Len(file)
<1> DEFINE start == [at |-> 1, part |-> <<>>, out |-> <<>>]
           V == {r \in Reader : AfterInv(r)}
           F == [q \in Nat \X V |-> ReadOn(q[2])]
           Is(f) == f = [n \in 0 .. Len(file) |-> IF n = 0 THEN start ELSE ReadOn(f[n - 1])]
<1>1. Len(file) \in Nat /\ file \in Seq(Bytes)
  BY LogFacts
<1>2. start \in V
  <2>1. start \in Reader /\ start.at = 1 /\ start.part = <<>> /\ start.out = <<>>
    BY DEF Reader
  <2> HIDE DEF start
  <2>2. DOMAIN start.out = {}
    BY <2>1
  <2>3. ReadInv(start)
    BY <2>1, <2>2 DEF ReadInv, Handed, Gathered
  <2>4. Starts(1)
    <3>1. 1 \in Nat \ {0}
      OBVIOUS
    <3>2. 1 = Base(1) + 1
      <4>1. 0 \in Nat /\ 0 * kBlockSize = 0
        BY HeaderSize
      <4>2. Base(1) = 0 * kBlockSize
        BY <4>1, BlockAt, HeaderSize
      <4> QED BY <4>1, <4>2
    <3> QED BY <3>2 DEF Starts, Base
  <2>5. Passed(start)
    <3> SUFFICES ASSUME NEW k \in Begun(file), k < start.at PROVE FALSE
      BY DEF Passed
    <3>1. k \in Nat /\ k > 0
      BY <1>1, ByteIs DEF Begun
    <3> QED BY <2>1, <3>1
  <2>6. SparedInv(start)
    BY <2>1, <2>4, <2>5 DEF SparedInv, Lined
  <2> QED BY <2>1, <2>3, <2>6 DEF AfterInv
<1>3. \A r \in V : ReadOn(r) \in V
  BY ReadKeeps, ReadSpares DEF AfterInv
<1>s. start.at = 1
  OBVIOUS
<1> HIDE DEF start
<1>4. StepsIn(F, V)
  BY <1>3 DEF StepsIn
<1>5. \A n \in Nat, r \in V : F[<<n, r>>] = ReadOn(r)
  OBVIOUS
<1>v. \A r \in V : r \in Reader /\ AfterInv(r)
  OBVIOUS
<1> HIDE DEF F, V
<1>6. PICK g : Computes(F, V, start, Len(file), g)
  BY <1>1, <1>2, <1>4, StepByStep
<1>7. /\ g \in [0 .. Len(file) -> V] /\ g[0] = start
      /\ \A n \in 1 .. Len(file) : g[n] = F[<<n, g[n - 1]>>]
  BY <1>6 DEF Computes
<1>8. ASSUME NEW n \in 0 .. Len(file)
      PROVE  g[n] = IF n = 0 THEN start ELSE ReadOn(g[n - 1])
  <2>1. CASE n = 0
    BY <1>7, <2>1
  <2>2. CASE n # 0
    <3>1. n \in 1 .. Len(file) /\ n - 1 \in 0 .. Len(file) /\ n \in Nat
      BY <1>1, <2>2
    <3>2. g[n - 1] \in V
      BY <1>7, <3>1
    <3> QED BY <1>5, <1>7, <2>2, <3>1, <3>2
  <2> QED BY <2>1, <2>2
<1>9. Is(g)
  <2>1. g = [n \in 0 .. Len(file) |-> g[n]]
    BY <1>7
  <2> QED BY <1>8, <2>1
<1> DEFINE after == CHOOSE f : Is(f)
<1>10. Is(after)
  BY <1>9
<1>11. ReadRecords = after[Len(file)].out
  BY DEF ReadRecords, start
<1> HIDE DEF after
<1>12. \A n \in 0 .. Len(file) : after[n] = IF n = 0 THEN start ELSE ReadOn(after[n - 1])
  <2> DEFINE W(n) == IF n = 0 THEN start ELSE ReadOn(after[n - 1])
  <2>1. after = [n \in 0 .. Len(file) |-> W(n)]
    BY <1>10
  <2> HIDE DEF W
  <2>2. \A n \in 0 .. Len(file) : after[n] = W(n)
    BY <2>1
  <2> QED BY <2>2 DEF W
<1> HIDE DEF Is
<1> DEFINE T == {n \in Nat : n <= Len(file) => after[n] \in V /\ after[n].at > n}
<1>13. 0 \in T
  <2>1. 0 \in 0 .. Len(file)
    BY <1>1
  <2> QED BY <1>2, <1>12, <1>s, <2>1
<1>14. ASSUME NEW n \in T \cap Nat PROVE n + 1 \in T
  <2> SUFFICES ASSUME n + 1 <= Len(file) PROVE after[n + 1] \in V /\ after[n + 1].at > n + 1
    OBVIOUS
  <2>1. n \in Nat /\ n + 1 \in 0 .. Len(file) /\ n + 1 # 0 /\ (n + 1) - 1 = n /\ n <= Len(file)
    BY <1>1
  <2>2. after[n] \in V /\ after[n].at > n
    BY <2>1
  <2>3. after[n + 1] = ReadOn(after[n])
    BY <1>12, <2>1
  <2>4. after[n + 1] \in V
    BY <1>3, <2>2, <2>3
  <2>5. after[n + 1].at > n + 1
    <3> DEFINE r == after[n]
    <3>1. r \in Reader /\ r.at > n
      BY <1>v, <2>2
    <3> HIDE DEF r
    <3>2. ReadOn(r).at > n + 1
      <4>1. r.at \in Nat
        BY <3>1 DEF Reader
      <4>2. CASE r.at > Len(file)
        BY <2>1, <3>1, <4>1, <4>2, <1>1, ReadOnIs
      <4>3. CASE r.at <= Len(file)
        <5>1. ReadOn(r) \in Reader /\ ReadOn(r).at > r.at
          BY <3>1, <4>3, ReadOnIs
        <5>2. ReadOn(r).at \in Nat
          BY <5>1 DEF Reader
        <5> QED BY <2>1, <3>1, <4>1, <5>1, <5>2
      <4> QED BY <1>1, <4>1, <4>2, <4>3
    <3> QED BY <2>3, <3>2 DEF r
  <2> QED BY <2>4, <2>5
<1>15. Nat \subseteq T
  <2> HIDE DEF T
  <2> QED BY <1>13, <1>14, NaturalsFrom0
<1>16. after[Len(file)] \in V /\ after[Len(file)].at > Len(file)
  BY <1>1, <1>15
<1> QED BY <1>11, <1>16, <1>v

\* A reader at the end of the file has read what was added, and what was whole.
LEMMA HonestOf ==
    ASSUME LogInv
    PROVE  LogHonest
<1>1. PICK r \in Reader : ReadRecords = r.out /\ AfterInv(r) /\ r.at > Len(file)
  BY ReadRecordsIs
<1>2. OnlyRecords
  BY <1>1 DEF OnlyRecords, AfterInv, ReadInv, Handed
<1>3. CutIsLocal
  <2> SUFFICES ASSUME ~failed, NEW w \in whole, BlocksOf(w) \cap torn = {}
               PROVE  \E i \in DOMAIN r.out : Owner(r.out[i]) = w
    BY <1>1 DEF CutIsLocal
  <2>1. PICK k \in Begun(file) : file[k].piece.rec = w /\ file[k].piece.left = 0
    BY DEF LogInv
  <2>2. k < r.at
    <3>1. k \in Real(file)
      BY DEF Begun
    <3>2. k \in Nat /\ k <= Len(file) /\ Len(file) \in Nat
      BY <3>1, LogFacts, ByteIs
    <3>3. r.at \in Nat
      BY DEF Reader
    <3> QED BY <1>1, <3>2, <3>3
  <2>3. Spared(k)
    BY <2>1 DEF Spared
  <2>4. Got(r, k)
    BY <1>1, <2>1, <2>2, <2>3 DEF AfterInv, SparedInv, Passed
  <2> QED BY <2>1, <2>4 DEF Got
<1> QED BY <1>2, <1>3 DEF LogHonest

\* Whatever was cut where, however often, and however far a failed write has put the
\* writer out of step with the blocks: what ReadRecord makes of a log is records that
\* were added, in their order, each once; and as long as no write has failed, every
\* one that is all in the file and has no part in a block a crash has cut.
THEOREM LogCorrect ==
    LogSpec => []LogHonest
<1>1. LogInit => LogInv
  BY LogStarts
<1>2. LogInv /\ [LogNext]_logVars => LogInv'
  BY LogStep
<1>3. LogInv => LogHonest
  BY HonestOf
<1> QED BY <1>1, <1>2, <1>3, PTL DEF LogSpec
=============================================================================
