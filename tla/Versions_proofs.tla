---------------------------- MODULE Versions_proofs ----------------------------
(***************************************************************************)
(* Proofs about Versions, for any number of keys, writes and levels and    *)
(* any limits: what flushes and compactions leave in the levels, what Get  *)
(* and an iterator find there, and which asserts of Builder may fail.      *)
(***************************************************************************)
EXTENDS Versions, NaturalsInduction, WellFoundedInduction, FiniteSetTheorems, TLAPS

-----------------------------------------------------------------------------
(* Numbers *)

LEMMA Bounds ==
    /\ MaxKey \in Nat /\ MaxWrites \in Nat
    /\ NumLevels \in Nat /\ NumLevels >= 2
    /\ MaxMemCompactLevel \in Nat /\ MaxMemCompactLevel < NumLevels
    /\ \A k \in Key : k \in Nat /\ 0 < k /\ k <= MaxKey
    /\ \A l \in Level : l \in Nat /\ l < NumLevels
    /\ \A l \in Nat : l < NumLevels => l \in Level
    /\ 0 \in Level
BY VersionsAssumption DEF Key, Level

\* Induction over the naturals, for a set in place of a predicate.
LEMMA FromZero ==
    ASSUME NEW S, 0 \in S, \A n \in S \cap Nat : n + 1 \in S
    PROVE  Nat \subseteq S
<1> SUFFICES ASSUME NEW m \in Nat, m \notin S PROVE FALSE
  OBVIOUS
<1> DEFINE T == {n \in Nat : n \notin S}
<1>1. T \subseteq Nat /\ T # {}
  OBVIOUS
<1>2. IsWellFoundedOn({ss \in Nat \X Nat : ss[1] < ss[2]}, Nat)
  BY NatLessThanWellFounded DEF OpToRel
<1>3. PICK x \in T : \A y \in T : ~ (<<y, x>> \in {ss \in Nat \X Nat : ss[1] < ss[2]})
  <2> HIDE DEF T
  <2> QED BY <1>1, <1>2, WFMin
<1>4. \A y \in T : ~ (y < x)
  BY <1>3
<1>5. x # 0 /\ x - 1 \in Nat /\ x - 1 < x /\ x = (x - 1) + 1
  OBVIOUS
<1>6. x - 1 \in S
  BY <1>4, <1>5
<1> QED BY <1>5, <1>6

\* What a quotient is.
LEMMA Divided ==
    ASSUME NEW a \in Nat, NEW n \in Nat, n > 0
    PROVE  /\ a \div n \in Nat
           /\ n * (a \div n) <= a /\ a < n * (a \div n) + n
<1> DEFINE q == a \div n
<1>1. q \in Int
  OBVIOUS
<1>2. n * q \in Int /\ n * q <= a /\ a < n * q + n
  OBVIOUS
<1>3. q >= 0
  <2> HIDE DEF q
  <2> SUFFICES ASSUME q < 0 PROVE FALSE
    BY <1>1
  <2>1. PICK r \in Nat : q = -(1 + r)
    <3>1. -q - 1 \in Nat
      BY <1>1
    <3> QED BY <3>1, <1>1
  <2>2. n * q = -(n + n * r) /\ n * r >= 0 /\ n * r \in Int
    BY <2>1, <1>1
  <2> QED BY <1>1, <1>2, <2>1, <2>2
<1> QED BY <1>1, <1>2, <1>3

LEMMA DividedIs ==
    ASSUME NEW a \in Nat, NEW n \in Nat, n > 0, NEW q \in Nat,
           n * q <= a, a < n * q + n
    PROVE  a \div n = q
<1> DEFINE p == a \div n
<1>1. p \in Nat /\ n * p <= a /\ a < n * p + n
  BY Divided
<1> HIDE DEF p
<1>2. ~ (p < q)
  <2> SUFFICES ASSUME p < q PROVE FALSE
    OBVIOUS
  <2>1. PICK r \in Nat : q = p + 1 + r
    <3>1. q - p - 1 \in Nat
      BY <1>1
    <3> QED BY <3>1, <1>1
  <2>2. n * q = n * p + n + n * r /\ n * r >= 0 /\ n * r \in Int /\ n * p \in Int
    BY <2>1, <1>1
  <2> QED BY <2>2, <1>1
<1>3. ~ (q < p)
  <2> SUFFICES ASSUME q < p PROVE FALSE
    OBVIOUS
  <2>1. PICK r \in Nat : p = q + 1 + r
    <3>1. p - q - 1 \in Nat
      BY <1>1
    <3> QED BY <3>1, <1>1
  <2>2. n * p = n * q + n + n * r /\ n * r >= 0 /\ n * r \in Int /\ n * q \in Int
    BY <2>1, <1>1
  <2> QED BY <2>2, <1>1
<1>4. p = q
  BY <1>1, <1>2, <1>3
<1> QED BY <1>4 DEF p

\* An entry is taken apart again.
LEMMA EntryIs ==
    ASSUME NEW k \in Nat \ {0}, NEW s \in 0 .. MaxWrites
    PROVE  /\ Entry(k, s) \in Nat \ {0}
           /\ KeyOf(Entry(k, s)) = k
           /\ Sequence(Entry(k, s)) = s
<1> DEFINE n == MaxWrites + 1
           a == k * n - s + MaxWrites
<1>1. MaxWrites \in Nat /\ n \in Nat /\ n > 0 /\ s \in Nat /\ s <= MaxWrites
  BY Bounds
<1>2. k * n \in Nat /\ k * n >= n /\ n * k = k * n
  <2>1. PICK r \in Nat : k = r + 1
    BY k - 1 \in Nat
  <2>2. k * n = r * n + n /\ r * n \in Nat /\ n * k = k * n
    BY <2>1, <1>1
  <2> QED BY <2>2, <1>1
<1>3. a \in Nat /\ n * k <= a /\ a < n * k + n
  BY <1>1, <1>2
<1>4. a \div n = k
  <2> HIDE DEF a, n
  <2> QED BY <1>1, <1>3, DividedIs
<1>5. KeyOf(Entry(k, s)) = k
  BY <1>4 DEF KeyOf, Entry
<1>6. Entry(k, s) \in Nat \ {0}
  BY <1>1, <1>2 DEF Entry
<1>7. Sequence(Entry(k, s)) = k * n - (k * n - s)
  BY <1>5 DEF Sequence, Entry
<1>8. Sequence(Entry(k, s)) = s
  <2> HIDE DEF n
  <2> QED BY <1>7, <1>2, <1>1
<1> QED BY <1>5, <1>6, <1>8

\* A number is its key and its sequence number.
LEMMA EntryAgain ==
    ASSUME NEW e \in Nat
    PROVE  /\ KeyOf(e) \in Nat /\ Sequence(e) \in 0 .. MaxWrites
           /\ e = Entry(KeyOf(e), Sequence(e))
<1> DEFINE n == MaxWrites + 1
           a == e + MaxWrites
           q == a \div n
<1>1. MaxWrites \in Nat /\ n \in Nat /\ n > 0 /\ a \in Nat
  BY Bounds
<1>2. q \in Nat /\ n * q <= a /\ a < n * q + n
  <2> HIDE DEF a, n
  <2> QED BY <1>1, Divided
<1>3. n * q \in Int /\ q * n = n * q
  <2> HIDE DEF q, n
  <2> QED BY <1>1, <1>2
<1>4. KeyOf(e) = q /\ Sequence(e) = q * n - e
  BY DEF KeyOf, Sequence
<1>5. Entry(KeyOf(e), Sequence(e)) = q * n - (q * n - e)
  BY <1>4 DEF Entry
<1> HIDE DEF q
<1>6. Sequence(e) \in 0 .. MaxWrites
  BY <1>1, <1>2, <1>3, <1>4
<1>7. Entry(KeyOf(e), Sequence(e)) = e
  BY <1>5, <1>3
<1> QED BY <1>2, <1>4, <1>6, <1>7

\* Entries are in the order of their keys, and under one key the newest first.
LEMMA EntryOrder ==
    ASSUME NEW d \in Nat, NEW e \in Nat
    PROVE  /\ d <= e => KeyOf(d) <= KeyOf(e)
           /\ KeyOf(d) = KeyOf(e) => (d <= e <=> Sequence(e) <= Sequence(d))
           /\ KeyOf(d) \in Nat /\ Sequence(d) \in Nat
<1> DEFINE n == MaxWrites + 1
           j == KeyOf(d)
           k == KeyOf(e)
           s == Sequence(d)
           t == Sequence(e)
<1>1. MaxWrites \in Nat /\ n \in Nat /\ n > 0
  BY Bounds
<1>2. /\ j \in Nat /\ k \in Nat /\ s \in 0 .. MaxWrites /\ t \in 0 .. MaxWrites
      /\ d = j * n - s /\ e = k * n - t
  BY EntryAgain DEF Entry
<1> HIDE DEF j, k, s, t
<1>3. ASSUME k < j PROVE e < d
  <2>1. PICK r \in Nat : j = k + 1 + r
    <3>1. j - k - 1 \in Nat
      BY <1>2, <1>3
    <3> QED BY <3>1, <1>2
  <2>2. j * n = k * n + n + r * n /\ r * n \in Nat /\ k * n \in Nat
    BY <2>1, <1>1, <1>2
  <2> HIDE DEF n
  <2>3. s < n
    BY <1>1, <1>2 DEF n
  <2> QED BY <2>2, <2>3, <1>1, <1>2
<1>4. d <= e => j <= k
  BY <1>2, <1>3
<1>5. j = k => (d <= e <=> t <= s)
  <2>1. j * n \in Int
    BY <1>1, <1>2
  <2> HIDE DEF n
  <2> QED BY <2>1, <1>1, <1>2
<1>6. s \in Nat
  BY <1>2
<1> QED BY <1>2, <1>4, <1>5, <1>6 DEF j, k, s, t

\* What a reader at sequence number s may see of key k.
LEMMA EntrySeen ==
    ASSUME NEW e \in Nat, NEW k \in Nat \ {0}, NEW s \in 0 .. MaxWrites, Sequence(e) >= 1
    PROVE  /\ (Entry(k, s) <= e /\ e < Entry(k, 0)) <=> (KeyOf(e) = k /\ Sequence(e) <= s)
           /\ e < Entry(k, s) => KeyOf(e) <= k
           /\ e >= Entry(k, s) => KeyOf(e) >= k
<1>1. /\ Entry(k, s) \in Nat /\ KeyOf(Entry(k, s)) = k /\ Sequence(Entry(k, s)) = s
      /\ Entry(k, 0) \in Nat /\ KeyOf(Entry(k, 0)) = k /\ Sequence(Entry(k, 0)) = 0
  BY EntryIs, Bounds
<1> DEFINE a == Entry(k, s)
           b == Entry(k, 0)
<1>2. a \in Nat /\ KeyOf(a) = k /\ Sequence(a) = s /\ b \in Nat /\ KeyOf(b) = k /\ Sequence(b) = 0
  BY <1>1
<1> HIDE DEF a, b
<1>3. /\ KeyOf(e) \in Nat /\ Sequence(e) \in Nat
      /\ a <= e => k <= KeyOf(e)
      /\ e <= a => KeyOf(e) <= k
      /\ e <= b => KeyOf(e) <= k
      /\ KeyOf(e) = k => (a <= e <=> Sequence(e) <= s)
      /\ KeyOf(e) = k => (b <= e <=> Sequence(e) <= 0)
  BY <1>2, EntryOrder
<1>4. (a <= e /\ e < b) <=> (KeyOf(e) = k /\ Sequence(e) <= s)
  BY <1>2, <1>3
<1> QED BY <1>2, <1>3, <1>4 DEF a, b

-----------------------------------------------------------------------------
(* Tables *)

LEMMA LowestIs ==
    ASSUME NEW S, S \subseteq Nat, S # {}
    PROVE  Min(S) \in S /\ Min(S) \in Nat /\ \A x \in S : Min(S) <= x
<1>1. IsWellFoundedOn({ss \in Nat \X Nat : ss[1] < ss[2]}, Nat)
  BY NatLessThanWellFounded DEF OpToRel
<1>2. PICK m \in S : \A y \in S : ~ (<<y, m>> \in {ss \in Nat \X Nat : ss[1] < ss[2]})
  BY <1>1, WFMin
<1>3. \A y \in S : ~ (y < m)
  BY <1>2
<1>5. \A y \in S : y \in Nat /\ m \in Nat /\ m <= y
  BY <1>3
<1>4. Min(S) \in S /\ \A x \in S : Min(S) <= x
  BY <1>5 DEF Min
<1> QED BY <1>4

\* A set of naturals with a bound has a highest one.
LEMMA HighestIs ==
    ASSUME NEW S, S \subseteq Nat, S # {}, NEW b \in Nat, \A n \in S : n <= b
    PROVE  Max(S) \in S /\ Max(S) \in Nat /\ \A n \in S : n <= Max(S)
<1> DEFINE T == {b - n : n \in S}
<1>1. T \subseteq Nat /\ T # {}
  <2>1. \A n \in S : n \in Nat /\ b - n \in Nat
    OBVIOUS
  <2> QED BY <2>1
<1>2. Min(T) \in T /\ \A x \in T : Min(T) <= x
  <2> HIDE DEF T
  <2> QED BY <1>1, LowestIs
<1>3. PICK m \in S : Min(T) = b - m
  BY <1>2
<1>4. ASSUME NEW n \in S PROVE n <= m
  <2>1. b - m <= b - n
    BY <1>2, <1>3
  <2>2. n \in Nat /\ m \in Nat
    OBVIOUS
  <2> QED BY <2>1, <2>2
<1>5. Max(S) \in S /\ \A n \in S : n <= Max(S)
  BY <1>4 DEF Max
<1> QED BY <1>5

Entries == {e \in Nat : KeyOf(e) \in Key /\ Sequence(e) >= 1}

Table(f) == f # {} /\ f \subseteq Entries

\* The table lies between its first entry and its last.
Bounded(f, lo, hi) ==
    /\ lo \in f /\ hi \in f /\ lo \in Nat /\ hi \in Nat
    /\ KeyOf(lo) \in Key /\ KeyOf(hi) \in Key
    /\ KeyOf(lo) \in Nat /\ KeyOf(hi) \in Nat /\ KeyOf(lo) <= KeyOf(hi)
    /\ \A e \in f : e \in Nat /\ lo <= e /\ e <= hi /\ KeyOf(e) \in Key
                    /\ KeyOf(lo) <= KeyOf(e) /\ KeyOf(e) <= KeyOf(hi)

LEMMA EntriesBelow == \A e \in Entries : e \in Nat /\ e <= Entry(MaxKey, 0)
<1> SUFFICES ASSUME NEW e \in Entries PROVE e <= Entry(MaxKey, 0)
  BY DEF Entries
<1>1. /\ e \in Nat /\ Sequence(e) >= 1 /\ KeyOf(e) \in Nat /\ 0 < KeyOf(e) /\ KeyOf(e) <= MaxKey
      /\ MaxKey \in Nat \ {0} /\ MaxWrites \in Nat
  BY Bounds DEF Entries
<1> DEFINE b == Entry(MaxKey, 0)
<1>2. b \in Nat /\ KeyOf(b) = MaxKey /\ Sequence(b) = 0
  BY <1>1, EntryIs
<1> HIDE DEF b
<1>3. /\ b <= e => KeyOf(b) <= KeyOf(e)
      /\ KeyOf(b) = KeyOf(e) => (b <= e <=> Sequence(e) <= Sequence(b))
      /\ Sequence(e) \in Nat
  BY <1>1, <1>2, EntryOrder
<1> QED BY <1>1, <1>2, <1>3 DEF b

LEMMA TableIs ==
    ASSUME NEW f, Table(f)
    PROVE  Bounded(f, Smallest(f), Largest(f))
<1>1. f \subseteq Nat /\ f # {} /\ \A e \in f : e <= Entry(MaxKey, 0)
  BY EntriesBelow DEF Table
<1>2. Entry(MaxKey, 0) \in Nat
  <2>1. MaxKey \in Nat \ {0}
    <3>1. PICK e \in f : e \in Entries
      BY DEF Table
    <3>2. KeyOf(e) \in Key
      BY <3>1 DEF Entries
    <3> QED BY <3>2, Bounds
  <2> QED BY <2>1, EntryIs, Bounds
<1>3. Smallest(f) \in f /\ \A e \in f : Smallest(f) <= e
  BY <1>1, LowestIs DEF Smallest
<1>4. Largest(f) \in f /\ \A e \in f : e <= Largest(f)
  BY <1>1, <1>2, HighestIs DEF Largest
<1> DEFINE lo == Smallest(f)
           hi == Largest(f)
<1> HIDE DEF lo, hi
<1>5. /\ lo \in f /\ hi \in f /\ \A e \in f : lo <= e /\ e <= hi
  BY <1>3, <1>4 DEF lo, hi
<1>6. \A e \in f : e \in Nat /\ KeyOf(e) \in Key /\ KeyOf(e) \in Nat
  BY Bounds DEF Table, Entries
<1>7. \A e \in f : KeyOf(lo) <= KeyOf(e) /\ KeyOf(e) <= KeyOf(hi)
  BY <1>5, <1>6, EntryOrder
<1> QED BY <1>5, <1>6, <1>7 DEF Bounded, lo, hi

\* The range of keys of some tables.
Hull(files, lo, hi) ==
    /\ lo \in Key /\ hi \in Key /\ lo \in Nat /\ hi \in Nat /\ lo <= hi
    /\ \A f \in files : lo <= KeyOf(Smallest(f)) /\ KeyOf(Largest(f)) <= hi
    /\ \E f \in files : lo = KeyOf(Smallest(f))
    /\ \E f \in files : hi = KeyOf(Largest(f))

Tables(files) == \A f \in files : Table(f)

LEMMA HullIs ==
    ASSUME NEW files, Tables(files), files # {}
    PROVE  Hull(files, LowKey(files), HighKey(files))
<1> DEFINE S == {KeyOf(Smallest(f)) : f \in files}
           L == {KeyOf(Largest(f)) : f \in files}
<1>1. \A f \in files : /\ KeyOf(Smallest(f)) \in Key /\ KeyOf(Largest(f)) \in Key
                       /\ KeyOf(Smallest(f)) <= KeyOf(Largest(f))
  BY TableIs DEF Tables, Bounded
<1>2. S \subseteq Key /\ L \subseteq Key /\ S # {} /\ L # {}
  BY <1>1
<1>3. Min(S) \in S /\ \A x \in S : Min(S) <= x
  <2> HIDE DEF S, L
  <2> QED BY <1>2, LowestIs, Bounds
<1>4. Max(L) \in L /\ \A x \in L : x <= Max(L)
  <2> HIDE DEF S, L
  <2> QED BY <1>2, HighestIs, Bounds
<1> DEFINE lo == LowKey(files)
           hi == HighKey(files)
<1>5. lo = Min(S) /\ hi = Max(L)
  BY DEF LowKey, HighKey
<1> HIDE DEF lo, hi
<1>6. \E f \in files : lo = KeyOf(Smallest(f))
  BY <1>3, <1>5
<1>7. \E f \in files : hi = KeyOf(Largest(f))
  BY <1>4, <1>5
<1>8. \A f \in files : lo <= KeyOf(Smallest(f)) /\ KeyOf(Largest(f)) <= hi
  BY <1>3, <1>4, <1>5
<1>9. lo \in Key /\ hi \in Key /\ lo \in Nat /\ hi \in Nat
  BY <1>2, <1>3, <1>4, <1>5, Bounds
<1>10. lo <= hi
  <2>1. PICK f \in files : lo = KeyOf(Smallest(f))
    BY <1>6
  <2>2. /\ lo <= KeyOf(Largest(f)) /\ KeyOf(Largest(f)) <= hi
        /\ KeyOf(Largest(f)) \in Nat
    BY <1>1, <1>8, <2>1, Bounds
  <2> QED BY <1>9, <2>2
<1> QED BY <1>6, <1>7, <1>8, <1>9, <1>10 DEF Hull, lo, hi

\* Two tables that hold entries of one key overlap.
LEMMA ShareKey ==
    ASSUME NEW f, NEW g, Table(f), Table(g), NEW d \in f, NEW e \in g, KeyOf(d) = KeyOf(e)
    PROVE  Overlaps(f, KeyOf(Smallest(g)), KeyOf(Largest(g)))
<1>1. Bounded(f, Smallest(f), Largest(f)) /\ Bounded(g, Smallest(g), Largest(g))
  BY TableIs
<1> QED BY <1>1, Bounds DEF Bounded, Overlaps

\* What Overlaps says of two tables is symmetric, and false of tables of which one
\* ends at a key before the other begins.
LEMMA OverlapIs ==
    ASSUME NEW f, NEW g, Table(f), Table(g)
    PROVE  /\ Overlaps(f, KeyOf(Smallest(g)), KeyOf(Largest(g)))
                => Overlaps(g, KeyOf(Smallest(f)), KeyOf(Largest(f)))
           /\ ~Overlaps(f, KeyOf(Smallest(g)), KeyOf(Largest(g)))
                => Largest(f) < Smallest(g) \/ Largest(g) < Smallest(f)
<1>1. Bounded(f, Smallest(f), Largest(f)) /\ Bounded(g, Smallest(g), Largest(g))
  BY TableIs
<1>2. /\ Smallest(g) <= Largest(f) => KeyOf(Smallest(g)) <= KeyOf(Largest(f))
      /\ Smallest(f) <= Largest(g) => KeyOf(Smallest(f)) <= KeyOf(Largest(g))
  BY <1>1, EntryOrder DEF Bounded
<1> QED BY <1>1, <1>2 DEF Bounded, Overlaps

-----------------------------------------------------------------------------
(* The tables that GetOverlappingInputs finds *)

LEMMA EndsAre ==
    ASSUME NEW lo \in Nat, NEW hi \in Nat, NEW files, Tables(files)
    PROVE  /\ FromKey(lo, files) \in Nat /\ UpToKey(hi, files) \in Nat
           /\ FromKey(lo, files) <= lo /\ hi <= UpToKey(hi, files)
           /\ \A f \in files : /\ FromKey(lo, files) <= KeyOf(Smallest(f))
                               /\ KeyOf(Largest(f)) <= UpToKey(hi, files)
           /\ FromKey(lo, files) = lo \/ \E f \in files : FromKey(lo, files) = KeyOf(Smallest(f))
           /\ UpToKey(hi, files) = hi \/ \E f \in files : UpToKey(hi, files) = KeyOf(Largest(f))
<1> DEFINE S == {lo} \cup {KeyOf(Smallest(f)) : f \in files}
           L == {hi} \cup {KeyOf(Largest(f)) : f \in files}
<1>1. \A f \in files : /\ KeyOf(Smallest(f)) \in Nat /\ KeyOf(Largest(f)) \in Nat
                       /\ KeyOf(Largest(f)) <= MaxKey
  BY TableIs, Bounds DEF Tables, Bounded
<1>2. MaxKey \in Nat /\ hi + MaxKey \in Nat
  BY Bounds
<1>3. S \subseteq Nat /\ S # {} /\ L \subseteq Nat /\ L # {} /\ \A n \in L : n <= hi + MaxKey
  BY <1>1, <1>2
<1>4. Min(S) \in S /\ Min(S) \in Nat /\ \A x \in S : Min(S) <= x
  <2> HIDE DEF S
  <2> QED BY <1>3, LowestIs
<1>5. Max(L) \in L /\ Max(L) \in Nat /\ \A x \in L : x <= Max(L)
  <2> HIDE DEF L
  <2> QED BY <1>2, <1>3, HighestIs
<1>6. FromKey(lo, files) = Min(S) /\ UpToKey(hi, files) = Max(L)
  BY DEF FromKey, UpToKey
<1> DEFINE a == FromKey(lo, files)
           b == UpToKey(hi, files)
<1> HIDE DEF a, b
<1>7. a = Min(S) /\ b = Max(L)
  BY <1>6 DEF a, b
<1>8. a \in S /\ a \in Nat /\ (\A x \in S : a <= x) /\ b \in L /\ b \in Nat /\ \A x \in L : x <= b
  BY <1>4, <1>5, <1>7
<1> QED BY <1>8 DEF a, b

LEMMA GrownIs ==
    ASSUME NEW l, Tables(levels[l]), NEW lo \in Nat, NEW hi \in Nat,
           NEW files \in SUBSET levels[l], Grown(l, lo, hi, files), NEW f \in levels[l]
    PROVE  /\ Overlaps(f, lo, hi) => f \in files
           /\ \A g \in files : Overlaps(f, KeyOf(Smallest(g)), KeyOf(Largest(g))) => f \in files
<1> DEFINE a == FromKey(lo, files)
           b == UpToKey(hi, files)
<1>1. Tables(files)
  BY DEF Tables
<1>2. /\ a \in Nat /\ b \in Nat /\ a <= lo /\ hi <= b
      /\ \A g \in files : a <= KeyOf(Smallest(g)) /\ KeyOf(Largest(g)) <= b
  BY <1>1, EndsAre
<1>3. Overlaps(f, a, b) => f \in files
  BY DEF Grown, Overlapping
<1> HIDE DEF a, b
<1>4. /\ KeyOf(Smallest(f)) \in Nat /\ KeyOf(Largest(f)) \in Nat
      /\ \A g \in files : KeyOf(Smallest(g)) \in Nat /\ KeyOf(Largest(g)) \in Nat
  BY <1>1, TableIs, Bounds DEF Tables, Bounded
<1>5. Overlaps(f, lo, hi) => f \in files
  BY <1>2, <1>3, <1>4 DEF Overlaps
<1>6. ASSUME NEW g \in files, Overlaps(f, KeyOf(Smallest(g)), KeyOf(Largest(g)))
      PROVE  f \in files
  <2>1. KeyOf(Smallest(f)) <= b /\ a <= KeyOf(Largest(f))
    BY <1>2, <1>4, <1>6 DEF Overlaps
  <2> QED BY <1>3, <2>1 DEF Overlaps
<1> QED BY <1>5, <1>6

\* Every table of the range, and at level 0 every table that overlaps one of them.
FoundIn(l, lo, hi, found) ==
    /\ found \subseteq levels[l]
    /\ \A f \in levels[l] : Overlaps(f, lo, hi) => f \in found
    /\ l = 0 => \A f \in levels[l], g \in found :
                   Overlaps(f, KeyOf(Smallest(g)), KeyOf(Largest(g))) => f \in found
    /\ l > 0 => \A f \in found : Overlaps(f, lo, hi)

LEMMA FoundIs ==
    ASSUME NEW l \in Level, Tables(levels[l]), NEW lo \in Nat, NEW hi \in Nat
    PROVE  FoundIn(l, lo, hi, GetOverlappingInputs(l, lo, hi))
<1> DEFINE found == GetOverlappingInputs(l, lo, hi)
<1>1. CASE l > 0
  <2>1. found = Overlapping(l, lo, hi) /\ l # 0
    BY <1>1, Bounds DEF GetOverlappingInputs
  <2> HIDE DEF found
  <2> QED BY <2>1 DEF FoundIn, Overlapping, found
<1>2. CASE ~(l > 0)
  <2>1. l = 0
    BY <1>2, Bounds
  <2>2. found = {f \in levels[l] : \A files \in SUBSET levels[l] :
                                      Grown(l, lo, hi, files) => f \in files}
    BY <1>2 DEF GetOverlappingInputs
  <2> HIDE DEF found
  <2>3. found \subseteq levels[l]
    BY <2>2
  <2>4. ASSUME NEW f \in levels[l], Overlaps(f, lo, hi) PROVE f \in found
    <3>1. ASSUME NEW files \in SUBSET levels[l], Grown(l, lo, hi, files) PROVE f \in files
      BY <2>4, <3>1, GrownIs
    <3> QED BY <2>2, <3>1
  <2>5. ASSUME NEW f \in levels[l], NEW g \in found,
               Overlaps(f, KeyOf(Smallest(g)), KeyOf(Largest(g)))
        PROVE  f \in found
    <3>1. ASSUME NEW files \in SUBSET levels[l], Grown(l, lo, hi, files) PROVE f \in files
      <4>1. g \in files
        BY <2>2, <3>1
      <4> QED BY <2>5, <3>1, <4>1, GrownIs
    <3> QED BY <2>2, <3>1
  <2> QED BY <1>2, <2>3, <2>4, <2>5 DEF FoundIn, found
<1> QED BY <1>1, <1>2

Misses(files, a, b) == \A f \in files : ~Overlaps(f, a, b)
Below(files, a)     == \A f \in files : KeyOf(Largest(f)) < a
Above(files, b)     == \A f \in files : b < KeyOf(Smallest(f))

\* A range that misses all of the tables found leaves them on its side of the
\* range asked for.
LEMMA FoundSide ==
    ASSUME NEW l \in Level, Tables(levels[l]), NEW lo \in Nat, NEW hi \in Nat, lo <= hi,
           NEW a \in Nat, NEW b \in Nat, a <= b,
           Misses(GetOverlappingInputs(l, lo, hi), a, b)
    PROVE  /\ hi < a => Below(GetOverlappingInputs(l, lo, hi), a)
           /\ b < lo => Above(GetOverlappingInputs(l, lo, hi), b)
<1> DEFINE found == GetOverlappingInputs(l, lo, hi)
<1>1. /\ found \subseteq levels[l]
      /\ l > 0 => \A f \in found : Overlaps(f, lo, hi)
  BY FoundIs DEF FoundIn
<1>2. ~(l > 0) => found = {f \in levels[l] : \A files \in SUBSET levels[l] :
                             Grown(l, lo, hi, files) => f \in files}
  BY DEF GetOverlappingInputs
<1>3. \A f \in found : ~Overlaps(f, a, b)
  BY DEF Misses
<1> HIDE DEF found
<1>4. \A f \in levels[l] : /\ KeyOf(Smallest(f)) \in Nat /\ KeyOf(Largest(f)) \in Nat
                           /\ KeyOf(Smallest(f)) <= KeyOf(Largest(f))
  BY TableIs, Bounds DEF Tables, Bounded
\* The tables found on one side grow no more.
<1>5. ASSUME NEW J \in SUBSET found, ~(l > 0), NEW f \in levels[l],
             Overlaps(f, FromKey(lo, J), UpToKey(hi, J))
      PROVE  f \in found
  <2>1. ASSUME NEW files \in SUBSET levels[l], Grown(l, lo, hi, files) PROVE f \in files
    <3>1. J \subseteq files
      BY <1>2, <1>5, <2>1
    <3>j. Tables(J)
      BY <1>1 DEF Tables
    <3>2. Tables(files)
      BY <2>1 DEF Tables
    <3>9. /\ FromKey(lo, J) \in Nat /\ UpToKey(hi, J) \in Nat
          /\ FromKey(lo, J) = lo \/ \E g \in J : FromKey(lo, J) = KeyOf(Smallest(g))
          /\ UpToKey(hi, J) = hi \/ \E g \in J : UpToKey(hi, J) = KeyOf(Largest(g))
      BY <3>j, EndsAre
    <3> DEFINE p == FromKey(lo, J)
               q == UpToKey(hi, J)
               u == FromKey(lo, files)
               v == UpToKey(hi, files)
    <3>3. /\ p \in Nat /\ q \in Nat
          /\ p = lo \/ \E g \in J : p = KeyOf(Smallest(g))
          /\ q = hi \/ \E g \in J : q = KeyOf(Largest(g))
      BY <3>9
    <3>4. /\ u \in Nat /\ v \in Nat /\ u <= lo /\ hi <= v
          /\ \A g \in files : u <= KeyOf(Smallest(g)) /\ KeyOf(Largest(g)) <= v
      BY <3>2, EndsAre
    <3>5. Overlaps(f, p, q)
      BY <1>5
    <3>6. Overlaps(f, u, v) => f \in files
      BY <2>1 DEF Grown, Overlapping
    <3> HIDE DEF p, q, u, v
    <3>7. u <= p /\ q <= v
      BY <3>1, <3>3, <3>4
    <3>8. Overlaps(f, u, v)
      BY <1>4, <3>3, <3>4, <3>5, <3>7 DEF Overlaps
    <3> QED BY <3>6, <3>8
  <2> QED BY <1>2, <1>5, <2>1
<1>6. ASSUME hi < a PROVE Below(found, a)
  <2>1. CASE l > 0
    BY <1>1, <1>3, <1>4, <1>6, <2>1 DEF Below, Overlaps
  <2>2. CASE ~(l > 0)
    <3> DEFINE J == {g \in found : KeyOf(Largest(g)) < a}
    <3>1. ASSUME NEW f \in levels[l], Overlaps(f, FromKey(lo, J), UpToKey(hi, J)) PROVE f \in J
      <4>1. f \in found
        <5>1. J \in SUBSET found
          OBVIOUS
        <5> HIDE DEF J
        <5> QED BY <1>5, <2>2, <3>1, <5>1
      <4>2. Tables(J)
        BY <1>1 DEF Tables
      <4>3. /\ UpToKey(hi, J) \in Nat
            /\ UpToKey(hi, J) = hi \/ \E g \in J : UpToKey(hi, J) = KeyOf(Largest(g))
        <5> HIDE DEF J
        <5> QED BY <4>2, EndsAre
      <4>4. UpToKey(hi, J) < a
        BY <1>6, <4>3
      <4>5. KeyOf(Smallest(f)) <= UpToKey(hi, J)
        BY <3>1 DEF Overlaps
      <4>6. KeyOf(Largest(f)) < a
        <5> DEFINE q == UpToKey(hi, J)
        <5> HIDE DEF q
        <5>1. q \in Nat /\ q < a /\ KeyOf(Smallest(f)) <= q
          BY <4>3, <4>4, <4>5 DEF q
        <5>2. ~Overlaps(f, a, b)
          BY <1>3, <4>1
        <5> QED BY <1>4, <5>1, <5>2 DEF Overlaps
      <4> QED BY <4>1, <4>6
    <3>2. J \in SUBSET levels[l] /\ Grown(l, lo, hi, J)
      <4>1. J \in SUBSET levels[l]
        BY <1>1
      <4> HIDE DEF J
      <4> QED BY <3>1, <4>1 DEF Grown, Overlapping
    <3>3. found \subseteq J
      <4> HIDE DEF J
      <4> QED BY <1>2, <2>2, <3>2
    <3> QED BY <3>3 DEF Below
  <2> QED BY <2>1, <2>2
<1>7. ASSUME b < lo PROVE Above(found, b)
  <2>1. CASE l > 0
    BY <1>1, <1>3, <1>4, <1>7, <2>1 DEF Above, Overlaps
  <2>2. CASE ~(l > 0)
    <3> DEFINE J == {g \in found : b < KeyOf(Smallest(g))}
    <3>1. ASSUME NEW f \in levels[l], Overlaps(f, FromKey(lo, J), UpToKey(hi, J)) PROVE f \in J
      <4>1. f \in found
        <5>1. J \in SUBSET found
          OBVIOUS
        <5> HIDE DEF J
        <5> QED BY <1>5, <2>2, <3>1, <5>1
      <4>2. Tables(J)
        BY <1>1 DEF Tables
      <4>3. /\ FromKey(lo, J) \in Nat
            /\ FromKey(lo, J) = lo \/ \E g \in J : FromKey(lo, J) = KeyOf(Smallest(g))
        <5> HIDE DEF J
        <5> QED BY <4>2, EndsAre
      <4>4. b < FromKey(lo, J)
        BY <1>7, <4>3
      <4>5. FromKey(lo, J) <= KeyOf(Largest(f))
        BY <3>1 DEF Overlaps
      <4>6. b < KeyOf(Smallest(f))
        <5> DEFINE q == FromKey(lo, J)
        <5> HIDE DEF q
        <5>1. q \in Nat /\ b < q /\ q <= KeyOf(Largest(f))
          BY <4>3, <4>4, <4>5 DEF q
        <5>2. ~Overlaps(f, a, b)
          BY <1>3, <4>1
        <5> QED BY <1>4, <5>1, <5>2 DEF Overlaps
      <4> QED BY <4>1, <4>6
    <3>2. J \in SUBSET levels[l] /\ Grown(l, lo, hi, J)
      <4>1. J \in SUBSET levels[l]
        BY <1>1
      <4> HIDE DEF J
      <4> QED BY <3>1, <4>1 DEF Grown, Overlapping
    <3>3. found \subseteq J
      <4> HIDE DEF J
      <4> QED BY <1>2, <2>2, <3>2
    <3> QED BY <3>3 DEF Above
  <2> QED BY <2>1, <2>2
<1> QED BY <1>6, <1>7 DEF found

-----------------------------------------------------------------------------
(* The inputs of a compaction *)

\* No gap between tables is wide enough for a table that overlaps none of them.
Connected(files) ==
    \A a, b \in Key : a <= b /\ Misses(files, a, b) => Below(files, a) \/ Above(files, b)

LEMMA ConnectedOne ==
    ASSUME NEW f, Table(f)
    PROVE  Connected({f})
<1>1. KeyOf(Smallest(f)) \in Nat /\ KeyOf(Largest(f)) \in Nat
  BY TableIs, Bounds DEF Bounded
<1> QED BY <1>1, Bounds DEF Connected, Misses, Below, Above, Overlaps

\* A range that lies beside the range of the tables lies beside each of them.
LEMMA HullSide ==
    ASSUME NEW files, Tables(files), files # {}, NEW a \in Nat, NEW b \in Nat
    PROVE  /\ Below(files, a) => HighKey(files) < a
           /\ Above(files, b) => b < LowKey(files)
<1>1. Hull(files, LowKey(files), HighKey(files))
  BY HullIs
<1> QED BY <1>1 DEF Hull, Below, Above

LEMMA InputsSide ==
    ASSUME NEW l \in Level, Tables(levels[l]), NEW files, Tables(files), files # {},
           NEW a \in Nat, NEW b \in Nat, a <= b, Misses(Inputs(l, files), a, b)
    PROVE  /\ Below(files, a) => Below(Inputs(l, files), a)
           /\ Above(files, b) => Above(Inputs(l, files), b)
<1> DEFINE lo == LowKey(files)
           hi == HighKey(files)
<1>1. lo \in Nat /\ hi \in Nat /\ lo <= hi
  BY HullIs DEF Hull
<1>2. (Below(files, a) => hi < a) /\ (Above(files, b) => b < lo)
  BY HullSide
<1>3. Inputs(l, files) = GetOverlappingInputs(l, lo, hi)
  BY DEF Inputs
<1> HIDE DEF lo, hi
<1>4. Misses(GetOverlappingInputs(l, lo, hi), a, b)
  BY <1>3
<1>5. /\ hi < a => Below(GetOverlappingInputs(l, lo, hi), a)
      /\ b < lo => Above(GetOverlappingInputs(l, lo, hi), b)
  BY <1>1, <1>4, FoundSide
<1> QED BY <1>2, <1>3, <1>5

\* What the tables that overlap the range of others are.
InputsOf(l, files, found) ==
    /\ found \subseteq levels[l]
    /\ \A f \in levels[l], g \in files :
          Overlaps(f, KeyOf(Smallest(g)), KeyOf(Largest(g))) => f \in found
    /\ l = 0 => \A f \in levels[l], g \in found :
          Overlaps(f, KeyOf(Smallest(g)), KeyOf(Largest(g))) => f \in found
    /\ l > 0 => \A f \in found : Overlaps(f, LowKey(files), HighKey(files))
    /\ \A f \in levels[l] : Overlaps(f, LowKey(files), HighKey(files)) => f \in found

LEMMA InputsAre ==
    ASSUME NEW l \in Level, Tables(levels[l]), NEW files, Tables(files), files # {}
    PROVE  InputsOf(l, files, Inputs(l, files))
<1> DEFINE lo == LowKey(files)
           hi == HighKey(files)
           found == Inputs(l, files)
<1>1. lo \in Nat /\ hi \in Nat /\ lo <= hi
  BY HullIs DEF Hull
<1>2. \A g \in files : lo <= KeyOf(Smallest(g)) /\ KeyOf(Largest(g)) <= hi
  BY HullIs DEF Hull
<1>3. found = GetOverlappingInputs(l, lo, hi)
  BY DEF Inputs
<1> HIDE DEF lo, hi, found
<1>4. FoundIn(l, lo, hi, found)
  BY <1>1, <1>3, FoundIs
<1>5. ASSUME NEW f \in levels[l], NEW g \in files,
             Overlaps(f, KeyOf(Smallest(g)), KeyOf(Largest(g)))
      PROVE  f \in found
  <2>1. /\ KeyOf(Smallest(f)) \in Nat /\ KeyOf(Largest(f)) \in Nat
        /\ KeyOf(Smallest(g)) \in Nat /\ KeyOf(Largest(g)) \in Nat
    BY TableIs, Bounds DEF Tables, Bounded
  <2>2. Overlaps(f, lo, hi)
    BY <1>1, <1>2, <1>5, <2>1 DEF Overlaps
  <2> QED BY <1>4, <2>2 DEF FoundIn
<1>6. InputsOf(l, files, found)
  BY <1>4, <1>5 DEF FoundIn, InputsOf, lo, hi
<1> QED BY <1>6 DEF found

LEMMA ConnectedInputs ==
    ASSUME NEW l \in Level, Tables(levels[l]), NEW files, Tables(files), files # {},
           Connected(files)
    PROVE  Connected(files \cup Inputs(l, files))
<1> DEFINE found == Inputs(l, files)
<1>1. ASSUME NEW a \in Key, NEW b \in Key, a <= b, Misses(files \cup found, a, b)
      PROVE  Below(files \cup found, a) \/ Above(files \cup found, b)
  <2>1. a \in Nat /\ b \in Nat
    BY Bounds
  <2>2. Misses(files, a, b) /\ Misses(found, a, b)
    <3> HIDE DEF found
    <3> QED BY <1>1 DEF Misses
  <2>3. Below(files, a) \/ Above(files, b)
    BY <1>1, <2>2 DEF Connected
  <2>4. (Below(files, a) => Below(found, a)) /\ (Above(files, b) => Above(found, b))
    BY <1>1, <2>1, <2>2, InputsSide
  <2> HIDE DEF found
  <2> QED BY <2>3, <2>4 DEF Below, Above
<1> HIDE DEF found
<1>2. Connected(files \cup found)
  BY <1>1 DEF Connected
<1> QED BY <1>2 DEF found

\* No other table of the level overlaps one of them.
Closed(l, files) ==
    \A f \in levels[l], g \in files :
        Overlaps(f, KeyOf(Smallest(g)), KeyOf(Largest(g))) => f \in files

\* What SetupOtherInputs makes of the tables it is given.
SetUp(l, in0, top, next) ==
    /\ in0 \subseteq top /\ top \subseteq levels[l] /\ top # {}
    /\ InputsOf(l + 1, top, next)
    /\ l = 0 => Closed(0, top)
    /\ Connected(in0) => Connected(top \cup next)

LEMMA SetupIs ==
    ASSUME NEW l \in Level, l + 1 \in Level, Tables(levels[l]), Tables(levels[l + 1]),
           NEW in0 \in SUBSET levels[l], in0 # {}, l = 0 => Closed(0, in0)
    PROVE  /\ Setup(l, in0).level = l
           /\ SetUp(l, in0, Setup(l, in0).in0, Setup(l, in0).in1)
<1> DEFINE in1  == Inputs(l + 1, in0)
           all  == in0 \cup in1
           more == Inputs(l, all)
<1>l. l \in Nat /\ l + 1 > 0 /\ l + 1 # 0
  BY Bounds
<1>1. /\ Setup(l, in0).level = l
      /\ Setup(l, in0).in0 = more \/ Setup(l, in0).in0 = in0
      /\ Setup(l, in0).in1 = Inputs(l + 1, Setup(l, in0).in0)
  BY DEF Setup
<1>2. Tables(in0)
  BY DEF Tables
<1>3. InputsOf(l + 1, in0, in1)
  BY <1>2, InputsAre
<1>4. Tables(in1) /\ in1 \subseteq levels[l + 1]
  <2> HIDE DEF in1
  <2> QED BY <1>3 DEF Tables, InputsOf
<1>5. Tables(all) /\ all # {} /\ in0 \subseteq all
  <2> HIDE DEF in1
  <2> QED BY <1>2, <1>4 DEF Tables
<1>6. InputsOf(l, all, more)
  <2> HIDE DEF all
  <2> QED BY <1>5, InputsAre
<1>7. in0 \subseteq more
  <2> SUFFICES ASSUME NEW f \in in0 PROVE f \in more
    OBVIOUS
  <2> HIDE DEF more, all
  <2>1. Overlaps(f, KeyOf(Smallest(f)), KeyOf(Largest(f))) /\ f \in all /\ f \in levels[l]
    <3>1. /\ KeyOf(Smallest(f)) \in Nat /\ KeyOf(Largest(f)) \in Nat
          /\ KeyOf(Smallest(f)) <= KeyOf(Largest(f))
      BY <1>2, TableIs DEF Tables, Bounded
    <3> QED BY <1>5, <3>1 DEF Overlaps
  <2> QED BY <1>6, <2>1 DEF InputsOf
\* The tables in0 grow to.
<1>8. ASSUME NEW top, top = more \/ top = in0
      PROVE  SetUp(l, in0, top, Inputs(l + 1, top))
  <2> DEFINE next == Inputs(l + 1, top)
  <2>1. in0 \subseteq top /\ top \subseteq levels[l] /\ top # {}
    <3> HIDE DEF more
    <3> QED BY <1>6, <1>7, <1>8 DEF InputsOf
  <2>2. Tables(top)
    BY <2>1 DEF Tables
  <2>3. InputsOf(l + 1, top, next)
    BY <2>1, <2>2, InputsAre
  <2>4. ASSUME l = 0 PROVE Closed(0, top)
    <3>1. CASE top = more
      <4> HIDE DEF more, all
      <4> QED BY <1>6, <2>4, <3>1 DEF InputsOf, Closed
    <3>2. CASE top = in0
      BY <2>4, <3>2
    <3> QED BY <1>8, <3>1, <3>2
  <2>5. ASSUME Connected(in0) PROVE Connected(top \cup next)
    <3>1. CASE top = in0
      <4>1. Connected(in0 \cup Inputs(l + 1, in0))
        BY <1>2, <2>5, ConnectedInputs
      <4> QED BY <3>1, <4>1
    <3>2. CASE top = more
      <4>1. Connected(all)
        BY <1>2, <2>5, ConnectedInputs
      <4>2. Connected(all \cup more)
        <5> HIDE DEF all
        <5> QED BY <1>5, <4>1, ConnectedInputs
      <4>3. in1 \subseteq next
        <5> SUFFICES ASSUME NEW g \in in1 PROVE g \in next
          OBVIOUS
        <5> DEFINE lo == LowKey(in0)
                   hi == HighKey(in0)
                   u == LowKey(top)
                   v == HighKey(top)
        <5>1. Hull(in0, lo, hi)
          BY <1>2, HullIs
        <5>2. Hull(top, u, v)
          BY <2>1, <2>2, HullIs
        <5>3. Overlaps(g, lo, hi)
          <6> HIDE DEF in1
          <6> QED BY <1>l, <1>3 DEF InputsOf
        <5>4. KeyOf(Smallest(g)) \in Nat /\ KeyOf(Largest(g)) \in Nat
          <6> HIDE DEF in1
          <6> QED BY <1>4, TableIs DEF Tables, Bounded
        <5>5. Overlaps(g, u, v) => g \in next
          <6> HIDE DEF in1, next
          <6> QED BY <1>4, <2>3 DEF InputsOf
        <5> HIDE DEF lo, hi, u, v, next, in1
        <5>6. lo \in Nat /\ hi \in Nat /\ u \in Nat /\ v \in Nat
          BY <5>1, <5>2 DEF Hull
        <5>7. u <= lo /\ hi <= v
          BY <2>1, <5>1, <5>2 DEF Hull
        <5>8. Overlaps(g, u, v)
          BY <5>3, <5>4, <5>6, <5>7 DEF Overlaps
        <5> QED BY <5>5, <5>8
      <4>4. ASSUME NEW a \in Key, NEW b \in Key, a <= b, Misses(top \cup next, a, b)
            PROVE  Below(top \cup next, a) \/ Above(top \cup next, b)
        <5>1. a \in Nat /\ b \in Nat
          BY Bounds
        <5>2. Misses(next, a, b) /\ Misses(all \cup more, a, b)
          <6> HIDE DEF next, in1, more
          <6> QED BY <1>7, <3>2, <4>3, <4>4 DEF Misses
        <5>3. Below(all \cup more, a) \/ Above(all \cup more, b)
          <6> HIDE DEF all, more
          <6> QED BY <4>2, <4>4, <5>2 DEF Connected
        <5>4. (Below(top, a) => Below(next, a)) /\ (Above(top, b) => Above(next, b))
          BY <2>1, <2>2, <4>4, <5>1, <5>2, InputsSide
        <5>5. (Below(all \cup more, a) => Below(top, a)) /\ (Above(all \cup more, b) => Above(top, b))
          <6> HIDE DEF all, more
          <6> QED BY <3>2 DEF Below, Above
        <5> HIDE DEF next, all, more
        <5> QED BY <5>3, <5>4, <5>5 DEF Below, Above
      <4> HIDE DEF next
      <4> QED BY <4>4 DEF Connected
    <3> QED BY <1>8, <3>1, <3>2
  <2> HIDE DEF next, more
  <2>6. SetUp(l, in0, top, next)
    BY <2>1, <2>3, <2>4, <2>5 DEF SetUp
  <2> QED BY <2>6 DEF next
<1> HIDE DEF more
<1> DEFINE top == Setup(l, in0).in0
<1>9. (top = more \/ top = in0) /\ Setup(l, in0).in1 = Inputs(l + 1, top)
  BY <1>1
<1> HIDE DEF top
<1>10. SetUp(l, in0, top, Inputs(l + 1, top))
  BY <1>8, <1>9
<1>11. SetUp(l, in0, top, Setup(l, in0).in1)
  BY <1>9, <1>10
<1> QED BY <1>1, <1>11 DEF top

-----------------------------------------------------------------------------
(* The invariant *)

\* d is a newer version of the key of e.
Newer(d, e) == KeyOf(d) = KeyOf(e) /\ Sequence(d) > Sequence(e)

\* The entry is in the memtable or in a table.
Stored(e) == e \in mem \/ \E l \in Level : \E f \in levels[l] : e \in f

EntriesInv ==
    /\ IsFiniteSet(written) /\ LastSeq \in Nat /\ LastSeq <= MaxWrites
    /\ written \subseteq Entries
    /\ \A e \in written : Sequence(e) <= LastSeq
    /\ \A d, e \in written : Sequence(d) = Sequence(e) => d = e
    /\ deleted \subseteq written /\ mem \subseteq written
    /\ snapshots \subseteq 0 .. LastSeq
    /\ aborted \in BOOLEAN

\* Every entry is in one place: the memtable holds the newest, the tables of a
\* level are apart, and those of level 0 follow each other in time.
TablesInv ==
    /\ \A l \in Level : \A f \in levels[l] : f # {} /\ f \subseteq written
    /\ \A l \in Level \ {0} : Disjoint(levels[l])
    /\ \A l, m \in Level : \A f \in levels[l], g \in levels[m] :
          f \cap g # {} => l = m /\ f = g
    /\ \A l \in Level : \A f \in levels[l] : \A e \in f, d \in mem : Sequence(e) < Sequence(d)
    /\ \A f, g \in levels[0] :
          \/ f = g
          \/ \A d \in f, e \in g : Sequence(d) < Sequence(e)
          \/ \A d \in f, e \in g : Sequence(e) < Sequence(d)

\* Of a key that no compaction has cut, newer versions are in higher levels,
\* and a level above 0 has them in one table.
OrderInv ==
    /\ \A l, m \in Level : \A f \in levels[l], g \in levels[m] : \A d \in f, e \in g :
          l < m /\ KeyOf(d) = KeyOf(e) => KeyOf(e) \in cut \/ Newer(d, e)
    /\ \A l \in Level \ {0} : \A f, g \in levels[l] : \A d \in f, e \in g :
          KeyOf(d) = KeyOf(e) => KeyOf(e) \in cut \/ f = g

\* A reader sees the newest version or, where that is a deletion, perhaps nothing.
SeenBy(e, s) == Sequence(e) <= s /\ \A d \in written : Newer(d, e) => s < Sequence(d)

HereInv ==
    \A s \in Readers, e \in written :
        KeyOf(e) \notin cut /\ SeenBy(e, s) =>
            \/ Stored(e)
            \/ /\ e \in deleted
               /\ \A d \in written : Stored(d) /\ KeyOf(d) = KeyOf(e) => s < Sequence(d)

\* Why a compaction may drop the entry: every reader sees a newer version, or it
\* is a deletion and no older version is left behind it.
Replaced(ins, e) ==
    \E f \in ins : \E d \in f : Newer(d, e) /\ \A s \in Readers : Sequence(d) <= s

Buried(l, outs, e) ==
    /\ e \in deleted
    /\ \A f \in outs : \A d \in f : ~Newer(e, d)
    /\ \A m \in Level : \A f \in levels[m] : \A d \in f : m >= l + 2 => KeyOf(d) # KeyOf(e)

\* What a compaction of level l knows of the levels until it is installed.
Working(l, ins, outs) ==
    /\ l \in Level /\ l + 1 \in Level
    /\ \A f \in ins : f \in levels[l] \/ f \in levels[l + 1]
    /\ \A f \in outs : f # {} /\ \A e \in f : \E g \in ins : e \in g
    /\ Disjoint(outs)
    /\ \A f \in levels[l], g \in levels[l] : f \notin ins /\ g \in ins =>
          \A d \in f, e \in g : KeyOf(d) = KeyOf(e) => KeyOf(e) \in cut \/ Newer(d, e)
    /\ \A f \in levels[l + 1], g \in levels[l] : f \notin ins /\ g \in ins =>
          \A d \in f, e \in g : KeyOf(d) # KeyOf(e)
    /\ \A f \in ins : \A e \in f :
          (\E g \in outs : e \in g) \/ Replaced(ins, e) \/ Buried(l, outs, e)

\* The other tables of the next level lie on one side of all the inputs.
Apart(l, ins) ==
    \A g \in levels[l + 1] : g \notin ins =>
        (\A f \in ins : Largest(g) < Smallest(f)) \/ (\A f \in ins : Largest(f) < Smallest(g))

Works(l, ins, outs) ==
    /\ comp.level = l /\ comp.inputs = ins /\ comp.outputs = outs
    /\ Working(l, ins, outs)
    /\ comp.manual \/ (Connected(ins) /\ Apart(l, ins))
    /\ comp.manual => manual # None /\ comp.end \in Nat

CompInv == comp # None => \E l, ins, outs : Works(l, ins, outs)

SeekInv ==
    seekFile # None => /\ seekFile.level \in 0 .. NumLevels - 2
                       /\ seekFile.file \in levels[seekFile.level]

ManualInv ==
    manual # None =>
        manual \in [level : 0 .. NumLevels - 2, lo : Nat, hi : Nat, posted : BOOLEAN]

DataInv     == EntriesInv /\ TablesInv /\ OrderInv /\ HereInv
VersionsInv == DataInv /\ levels \in [Level -> SUBSET SUBSET written]
               /\ CompInv /\ SeekInv /\ ManualInv

-----------------------------------------------------------------------------
(* Reading *)

LEMMA MinIs ==
    ASSUME NEW S, S \subseteq Nat, NEW m \in S, \A x \in S : m <= x
    PROVE  Min(S) = m
<1>1. Min(S) \in S /\ \A x \in S : Min(S) <= x
  BY LowestIs
<1>2. Min(S) \in Nat /\ m \in Nat /\ Min(S) <= m /\ m <= Min(S)
  BY <1>1
<1> QED BY <1>2

LEMMA LevelTables ==
    ASSUME EntriesInv, TablesInv
    PROVE  \A l \in Level : Tables(levels[l])
BY DEF EntriesInv, TablesInv, Tables, Table

LEMMA ReaderIs ==
    ASSUME EntriesInv, NEW s \in Readers
    PROVE  s \in 0 .. MaxWrites /\ s \in Nat /\ s <= LastSeq
BY Bounds DEF EntriesInv, Readers

LEMMA VisibleIs ==
    ASSUME NEW f, f \subseteq Entries, NEW k \in Key, NEW s \in 0 .. MaxWrites
    PROVE  /\ Visible(f, k, s) = {e \in f : KeyOf(e) = k /\ Sequence(e) <= s}
           /\ Visible(f, k, s) \subseteq Nat
<1>1. ASSUME NEW e \in f
      PROVE  (Entry(k, s) <= e /\ e < Entry(k, 0)) <=> (KeyOf(e) = k /\ Sequence(e) <= s)
  <2>1. e \in Nat /\ Sequence(e) >= 1 /\ k \in Nat \ {0}
    BY Bounds DEF Entries
  <2> QED BY <2>1, EntrySeen
<1>2. Visible(f, k, s) = {e \in f : KeyOf(e) = k /\ Sequence(e) <= s}
  BY <1>1 DEF Visible
<1>3. f \subseteq Nat
  BY DEF Entries
<1> QED BY <1>2, <1>3

\* The first of the entries a reader sees is the newest.
LEMMA FirstIsNewest ==
    ASSUME NEW f, f \subseteq Entries, NEW k \in Key, NEW s \in 0 .. MaxWrites,
           Visible(f, k, s) # {}
    PROVE  \E m \in Visible(f, k, s) :
               /\ Min(Visible(f, k, s)) = m /\ m \in f /\ KeyOf(m) = k /\ Sequence(m) <= s
               /\ \A e \in f : KeyOf(e) = k /\ Sequence(e) <= s =>
                                 m <= e /\ Sequence(e) <= Sequence(m)
<1> DEFINE S == Visible(f, k, s)
<1>1. S = {e \in f : KeyOf(e) = k /\ Sequence(e) <= s} /\ S \subseteq Nat
  BY VisibleIs
<1>2. S # {}
  OBVIOUS
<1> HIDE DEF S
<1>3. Min(S) \in S /\ \A x \in S : Min(S) <= x
  BY <1>1, <1>2, LowestIs
<1> DEFINE m == Min(S)
<1>4. m \in S /\ \A x \in S : m <= x
  BY <1>3
<1> HIDE DEF m
<1>5. ASSUME NEW e \in f, KeyOf(e) = k, Sequence(e) <= s PROVE m <= e /\ Sequence(e) <= Sequence(m)
  <2>1. e \in S /\ e \in Nat /\ m \in Nat /\ KeyOf(m) = KeyOf(e)
    BY <1>1, <1>4, <1>5
  <2> QED BY <1>4, <2>1, EntryOrder
<1>6. m \in f /\ KeyOf(m) = k /\ Sequence(m) <= s
  BY <1>1, <1>4
<1> QED BY <1>4, <1>5, <1>6 DEF m, S

LEMMA StoredIs ==
    /\ \A e : Stored(e) <=> e \in mem \cup UNION UNION {levels[l] : l \in Level}
    /\ EntriesInv /\ TablesInv => \A e : Stored(e) => e \in written /\ e \in Entries
<1>1. \A e : Stored(e) <=> e \in mem \cup UNION UNION {levels[l] : l \in Level}
  BY DEF Stored
<1>2. ASSUME EntriesInv, TablesInv, NEW e, Stored(e) PROVE e \in written /\ e \in Entries
  BY <1>2 DEF EntriesInv, TablesInv, Stored
<1> QED BY <1>1, <1>2

\* An iterator shows what a reader is owed.
LEMMA ScanRight ==
    ASSUME EntriesInv, TablesInv, HereInv, NEW k \in Key, k \notin cut, NEW s \in Readers
    PROVE  Scan(k, s) = Newest(k, s)
<1> DEFINE here == mem \cup UNION UNION {levels[l] : l \in Level}
           V == Visible(written, k, s)
           W == Visible(here, k, s)
<1>1. Scan(k, s) = Saved(W) /\ Newest(k, s) = Saved(V)
  BY DEF Scan, Newest
<1>2. written \subseteq Entries /\ here \subseteq written /\ s \in 0 .. MaxWrites
  <2>1. here \subseteq written
    BY StoredIs
  <2> QED BY <2>1, ReaderIs DEF EntriesInv
<1>3. \A e : Stored(e) <=> e \in here
  BY StoredIs
<1> HIDE DEF here
<1>4. /\ V = {e \in written : KeyOf(e) = k /\ Sequence(e) <= s}
      /\ W = {e \in here : KeyOf(e) = k /\ Sequence(e) <= s}
      /\ W \subseteq Nat /\ W \subseteq V
  <2>1. here \subseteq Entries
    BY <1>2
  <2>2. V = {e \in written : KeyOf(e) = k /\ Sequence(e) <= s}
    BY <1>2, VisibleIs
  <2>3. W = {e \in here : KeyOf(e) = k /\ Sequence(e) <= s} /\ W \subseteq Nat
    BY <1>2, <2>1, VisibleIs
  <2> HIDE DEF V, W
  <2> QED BY <1>2, <2>2, <2>3
<1>5. CASE V = {}
  <2>1. W = {}
    BY <1>4, <1>5
  <2> QED BY <1>1, <1>5, <2>1
<1>6. CASE V # {}
  <2>1. PICK m \in V : /\ Min(V) = m /\ m \in written /\ KeyOf(m) = k /\ Sequence(m) <= s
                       /\ \A e \in written : KeyOf(e) = k /\ Sequence(e) <= s =>
                                               m <= e /\ Sequence(e) <= Sequence(m)
    BY <1>2, <1>6, FirstIsNewest
  <2> HIDE DEF V, W
  <2>2. SeenBy(m, s)
    <3>1. ASSUME NEW d \in written, Newer(d, m) PROVE s < Sequence(d)
      <4>1. Sequence(d) \in Nat /\ Sequence(m) \in Nat /\ s \in Nat
        BY <1>2, <2>1, EntryOrder DEF Entries
      <4> QED BY <2>1, <3>1, <4>1 DEF Newer
    <3> QED BY <2>1, <3>1 DEF SeenBy
  <2>3. CASE m \in here
    <3>1. m \in W /\ \A x \in W : m <= x
      BY <1>2, <1>4, <2>1, <2>3
    <3>2. Min(W) = m /\ W # {}
      BY <1>4, <3>1, MinIs
    <3> QED BY <1>1, <1>6, <2>1, <3>2 DEF Saved
  <2>4. CASE m \notin here
    <3>1. m \in deleted /\ \A d \in written : Stored(d) /\ KeyOf(d) = KeyOf(m) => s < Sequence(d)
      BY <1>3, <2>1, <2>2, <2>4 DEF HereInv
    <3>2. W = {}
      <4> SUFFICES ASSUME NEW d \in W PROVE FALSE
        OBVIOUS
      <4>1. d \in written /\ Stored(d) /\ KeyOf(d) = KeyOf(m) /\ Sequence(d) <= s
        BY <1>2, <1>3, <1>4, <2>1
      <4>2. s < Sequence(d) /\ Sequence(d) \in Nat /\ s \in Nat
        BY <1>2, <3>1, <4>1, EntryOrder DEF Entries
      <4> QED BY <4>1, <4>2
    <3> QED BY <1>1, <1>6, <2>1, <3>1, <3>2 DEF Saved
  <2> QED BY <2>3, <2>4
<1> QED BY <1>5, <1>6

LEMMA NumberIs ==
    ASSUME NEW f, Table(f)
    PROVE  /\ Number(f) \in Nat /\ \A e \in f : Sequence(e) <= Number(f)
           /\ \E e \in f : Sequence(e) = Number(f)
<1> DEFINE S == {Sequence(e) : e \in f}
<1>1. \A e \in f : Sequence(e) \in Nat /\ Sequence(e) <= MaxWrites
  BY EntryAgain, Bounds DEF Table, Entries
<1>2. S \subseteq Nat /\ S # {} /\ \A n \in S : n <= MaxWrites
  BY <1>1 DEF Table
<1>3. Max(S) \in S /\ Max(S) \in Nat /\ \A x \in S : x <= Max(S)
  <2> HIDE DEF S
  <2> QED BY <1>2, HighestIs, Bounds
<1>4. Number(f) = Max(S)
  BY DEF Number
<1> QED BY <1>3, <1>4

\* A table with something to see of a key that is not cut is among those that Get reads.
LEMMA IsRead ==
    ASSUME EntriesInv, TablesInv, OrderInv, NEW k \in Key, k \notin cut, NEW s \in 0 .. MaxWrites,
           NEW l \in Level, NEW f \in levels[l], NEW m \in f, KeyOf(m) = k, Sequence(m) <= s
    PROVE  f \in FilesRead(k, s)
<1>1. \A g \in levels[l] : Table(g) /\ Bounded(g, Smallest(g), Largest(g))
  BY LevelTables, TableIs DEF Tables
<1>2. /\ KeyOf(Smallest(f)) <= k /\ k <= KeyOf(Largest(f)) /\ m \in Nat
      /\ Smallest(f) <= m /\ m <= Largest(f) /\ Smallest(f) \in Nat
  BY <1>1 DEF Bounded
<1>3. CASE l = 0
  BY <1>2, <1>3 DEF FilesRead, Covers
<1>4. CASE l # 0
  <2> DEFINE a == Entry(k, s)
             b == Entry(k, 0)
  <2>1. a \in Nat /\ b \in Nat
    <3>1. k \in Nat \ {0} /\ 0 \in 0 .. MaxWrites
      BY Bounds
    <3> QED BY <3>1, EntryIs
  <2>2. \A e \in Entries : (a <= e /\ e < b) <=> (KeyOf(e) = k /\ Sequence(e) <= s)
    <3>1. k \in Nat \ {0}
      BY Bounds
    <3> QED BY <3>1, EntrySeen DEF Entries
  <2> HIDE DEF a, b
  <2>3. a <= m /\ m < b
    BY <1>1, <2>2 DEF Table
  <2>4. Largest(f) >= a
    BY <1>1, <1>2, <2>1, <2>3 DEF Bounded
  <2>5. ASSUME NEW g \in levels[l], Largest(g) >= a PROVE Smallest(f) <= Smallest(g)
    <3>1. SUFFICES ASSUME Smallest(g) < Smallest(f) PROVE FALSE
      BY <1>1 DEF Bounded
    <3>2. f # g /\ Largest(g) < Smallest(f)
      BY <1>1, <1>4, <3>1 DEF TablesInv, Disjoint, Bounded
    <3>3. a <= Largest(g) /\ Largest(g) < b /\ Largest(g) \in g /\ Largest(g) \in Entries
      BY <1>1, <1>2, <2>1, <2>3, <2>5, <3>2 DEF Bounded, Table
    <3>4. KeyOf(Largest(g)) = KeyOf(m)
      BY <2>2, <3>3
    <3> QED BY <1>4, <3>2, <3>3, <3>4 DEF OrderInv
  <2>6. f \in FindFile(levels[l], k, s)
    BY <2>4, <2>5 DEF FindFile, a
  <2> QED BY <1>2, <1>4, <2>6 DEF FilesRead
<1> QED BY <1>3, <1>4

\* Of two tables with something to see of the key, Get does not read the one
\* without the newest of it first.
LEMMA ReadFirst ==
    ASSUME EntriesInv, TablesInv, OrderInv,
           NEW f, NEW m \in f, KeyOf(m) \notin cut, NEW g, NEW x \in g, KeyOf(x) = KeyOf(m),
           \E l \in Level : f \in levels[l], Sequence(x) <= Sequence(m)
    PROVE  ~ReadBefore(g, f)
<1>1. PICK l \in Level : f \in levels[l]
  OBVIOUS
<1>0. m \in Entries
  BY <1>1 DEF TablesInv, EntriesInv
<1>2. ASSUME f \in levels[0], g \in levels[0], Number(g) > Number(f) PROVE FALSE
  <2>1. Table(f) /\ Table(g)
    BY <1>2, LevelTables, Bounds DEF Tables
  <2>2. /\ Number(f) \in Nat /\ Number(g) \in Nat
        /\ \A e \in f : Sequence(e) <= Number(f)
    BY <2>1, NumberIs
  <2>3. PICK y \in g : Sequence(y) = Number(g)
    BY <2>1, NumberIs
  <2>4. /\ Sequence(m) \in Nat /\ Sequence(x) \in Nat /\ f # g
    BY <1>2, <2>1, <2>2, EntryOrder DEF Table, Entries
  <2>5. Sequence(m) < Sequence(y)
    BY <1>2, <2>2, <2>3, <2>4
  <2>6. \/ \A d \in g, e \in f : Sequence(d) < Sequence(e)
        \/ \A d \in g, e \in f : Sequence(e) < Sequence(d)
    BY <1>2, <2>4 DEF TablesInv
  <2>7. Sequence(m) < Sequence(x)
    BY <2>2, <2>3, <2>4, <2>5, <2>6
  <2> QED BY <2>4, <2>7
<1>3. ASSUME NEW a \in Level, NEW b \in Level, a < b, g \in levels[a], f \in levels[b]
      PROVE  FALSE
  <2>1. Newer(x, m)
    BY <1>3 DEF OrderInv
  <2>2. x \in Entries
    BY <1>3 DEF TablesInv, EntriesInv
  <2>3. Sequence(m) \in Nat /\ Sequence(x) \in Nat
    BY <1>0, <2>2, EntryOrder DEF Entries
  <2> QED BY <2>1, <2>3 DEF Newer
<1> QED BY <1>2, <1>3 DEF ReadBefore

LEMMA GetRight ==
    ASSUME EntriesInv, TablesInv, OrderInv, NEW k \in Key, k \notin cut, NEW s \in Readers
    PROVE  Get(k, s) = Scan(k, s)
<1> DEFINE here == mem \cup UNION UNION {levels[l] : l \in Level}
           W == Visible(here, k, s)
           M == Visible(mem, k, s)
           G == UNION {Visible(f, k, s) : f \in FirstOfFiles(Hits(k, s))}
<1>1. /\ Scan(k, s) = Saved(W)
      /\ M # {} => Get(k, s) = Saved(M)
      /\ M = {} => Get(k, s) = Saved(G)
  BY DEF Scan, Get
<1>2. s \in 0 .. MaxWrites /\ s \in Nat /\ here \subseteq Entries /\ mem \subseteq Entries
  BY ReaderIs, StoredIs DEF EntriesInv
<1>3. /\ M = {e \in mem : KeyOf(e) = k /\ Sequence(e) <= s}
      /\ W = {e \in here : KeyOf(e) = k /\ Sequence(e) <= s}
  <2> HIDE DEF here
  <2> QED BY <1>2, VisibleIs
<1>4. \A l \in Level : \A f \in levels[l] :
          Table(f) /\ Visible(f, k, s) = {e \in f : KeyOf(e) = k /\ Sequence(e) <= s}
  <2> SUFFICES ASSUME NEW l \in Level, NEW f \in levels[l]
               PROVE  Table(f) /\ Visible(f, k, s) = {e \in f : KeyOf(e) = k /\ Sequence(e) <= s}
    OBVIOUS
  <2>1. Table(f)
    BY LevelTables DEF Tables
  <2> QED BY <1>2, <2>1, VisibleIs DEF Table
<1>5. \A e : e \in here <=> (e \in mem \/ \E l \in Level : \E f \in levels[l] : e \in f)
  OBVIOUS
<1>6. Hits(k, s) \subseteq FilesRead(k, s)
      /\ \A f \in FilesRead(k, s) : \E l \in Level : f \in levels[l]
  BY Bounds DEF Hits, FilesRead, FindFile
<1>7. G \subseteq W /\ G \subseteq Nat /\ M \subseteq W
  <2>1. \A f \in FirstOfFiles(Hits(k, s)) : \E l \in Level : f \in levels[l]
    BY <1>6 DEF FirstOfFiles
  <2>2. ASSUME NEW f \in FirstOfFiles(Hits(k, s)) PROVE Visible(f, k, s) \subseteq W
    <3>1. PICK l \in Level : f \in levels[l]
      BY <2>1
    <3> HIDE DEF here, W
    <3> QED BY <1>3, <1>4, <1>5, <3>1
  <2>3. G \subseteq W
    BY <2>2
  <2>4. M \subseteq W
    <3> HIDE DEF here, W, M
    <3> QED BY <1>3, <1>5
  <2> HIDE DEF here, W, M, G
  <2> QED BY <1>2, <1>3, <2>3, <2>4 DEF Entries
<1>8. CASE W = {}
  <2> HIDE DEF W, M, G
  <2> QED BY <1>1, <1>7, <1>8 DEF Saved
<1>9. CASE W # {}
  <2>1. PICK m \in W : /\ Min(W) = m /\ m \in here /\ KeyOf(m) = k /\ Sequence(m) <= s
                       /\ \A e \in here : KeyOf(e) = k /\ Sequence(e) <= s =>
                                            m <= e /\ Sequence(e) <= Sequence(m)
    <3> HIDE DEF here
    <3> QED BY <1>2, <1>9, FirstIsNewest
  <2> HIDE DEF here, W
  <2>2. \A x \in W : m <= x
    BY <1>3, <2>1
  <2>3. CASE M # {}
    <3>1. m \in mem
      <4> SUFFICES ASSUME m \notin mem PROVE FALSE
        OBVIOUS
      <4>1. PICK x \in M : x \in mem /\ KeyOf(x) = k /\ Sequence(x) <= s
        BY <1>3, <2>3
      <4>2. PICK l \in Level : \E f \in levels[l] : m \in f
        BY <1>5, <2>1
      <4>3. Sequence(m) < Sequence(x)
        BY <4>1, <4>2 DEF TablesInv
      <4>4. Sequence(x) <= Sequence(m)
        BY <1>5, <2>1, <4>1
      <4>5. Sequence(x) \in Nat /\ Sequence(m) \in Nat
        BY <1>2, <2>1, <4>1, EntryOrder DEF Entries
      <4> QED BY <4>3, <4>4, <4>5
    <3>2. m \in M /\ \A x \in M : m <= x
      BY <1>3, <1>7, <2>1, <2>2, <3>1
    <3>3. M \subseteq Nat
      BY <1>2, <1>3 DEF Entries
    <3>4. Min(M) = m
      <4> HIDE DEF M
      <4> QED BY <3>2, <3>3, MinIs
    <3> HIDE DEF M
    <3> QED BY <1>1, <1>9, <2>1, <2>3, <3>4 DEF Saved
  <2>4. CASE M = {}
    <3>1. PICK l \in Level : \E f \in levels[l] : m \in f
      BY <1>3, <1>5, <2>1, <2>4
    <3>2. PICK f \in levels[l] : m \in f
      BY <3>1
    <3>3. f \in Hits(k, s) /\ m \in Visible(f, k, s)
      <4>1. m \in Visible(f, k, s)
        BY <1>4, <2>1, <3>2
      <4>2. f \in FilesRead(k, s)
        BY <1>2, <2>1, <3>2, IsRead
      <4> QED BY <4>1, <4>2 DEF Hits
    <3>4. ASSUME NEW g \in Hits(k, s) PROVE ~ReadBefore(g, f)
      <4>1. PICK n \in Level : g \in levels[n]
        BY <1>6
      <4>2. PICK x \in Visible(g, k, s) : TRUE
        BY DEF Hits
      <4>3. x \in g /\ KeyOf(x) = k /\ Sequence(x) <= s
        BY <1>4, <4>1, <4>2
      <4>4. Sequence(x) <= Sequence(m)
        BY <1>5, <2>1, <4>1, <4>3
      <4> QED BY <2>1, <3>2, <4>3, <4>4, ReadFirst
    <3>5. f \in FirstOfFiles(Hits(k, s))
      BY <3>3, <3>4 DEF FirstOfFiles
    <3>6. m \in G
      BY <3>3, <3>5
    <3> HIDE DEF G
    <3>7. Min(G) = m
      BY <1>7, <2>2, <3>6, MinIs
    <3> QED BY <1>1, <1>9, <2>1, <2>4, <3>6, <3>7 DEF Saved
  <2> QED BY <2>3, <2>4
<1> QED BY <1>8, <1>9

\* What the invariant says of reading.
LEMMA DataImplies ==
    ASSUME DataInv
    PROVE  UncutReadsNewest
<1> SUFFICES ASSUME NEW k \in {KeyOf(e) : e \in written} \ cut, NEW s \in Readers
             PROVE  Get(k, s) = Newest(k, s) /\ Scan(k, s) = Newest(k, s)
  BY DEF UncutReadsNewest
<1>1. k \in Key /\ k \notin cut
  BY DEF DataInv, EntriesInv, Entries
<1> QED BY <1>1, ScanRight, GetRight DEF DataInv

-----------------------------------------------------------------------------
(* Tables that come and go *)

\* Nothing is written, and readers and tables not cut only become fewer.
SameEntries ==
    /\ written' = written /\ deleted' = deleted /\ mem' \subseteq mem
    /\ snapshots' \subseteq snapshots /\ cut \subseteq cut' /\ aborted' \in BOOLEAN

LEMMA SameReaders ==
    ASSUME SameEntries
    PROVE  Readers' \subseteq Readers /\ LastSeq' = LastSeq
BY DEF SameEntries, Readers, LastSeq

LEMMA EntriesStay ==
    ASSUME EntriesInv, SameEntries
    PROVE  EntriesInv'
BY SameReaders DEF EntriesInv, SameEntries

LEMMA HereStays ==
    ASSUME HereInv, SameEntries, \A e \in written : Stored(e)' <=> Stored(e)
    PROVE  HereInv'
<1> SUFFICES ASSUME NEW s \in Readers', NEW e \in written,
                    KeyOf(e) \notin cut', SeenBy(e, s)
             PROVE  \/ Stored(e)'
                    \/ /\ e \in deleted
                       /\ \A d \in written : Stored(d)' /\ KeyOf(d) = KeyOf(e) => s < Sequence(d)
  BY DEF HereInv, SeenBy, SameEntries
<1>1. s \in Readers /\ KeyOf(e) \notin cut
  BY SameReaders DEF SameEntries
<1>2. \/ Stored(e)
      \/ e \in deleted /\ \A d \in written : Stored(d) /\ KeyOf(d) = KeyOf(e) => s < Sequence(d)
  BY <1>1 DEF HereInv
<1>3. CASE Stored(e)
  BY <1>3
<1>4. CASE e \in deleted /\ \A d \in written : Stored(d) /\ KeyOf(d) = KeyOf(e) => s < Sequence(d)
  <2>1. ASSUME NEW d \in written, Stored(d)', KeyOf(d) = KeyOf(e) PROVE s < Sequence(d)
    BY <1>4, <2>1
  <2> QED BY <1>4, <2>1
<1> QED BY <1>2, <1>3, <1>4

\* The memtable becomes a table of level L, above which nothing overlaps it.
Flushed(L) ==
    /\ \A m \in Level : \A f : f \in levels'[m] <=> f \in levels[m] \/ (m = L /\ f = mem)
    /\ mem' = {}

Free(L) ==
    L > 0 => /\ \A m \in Level : \A f \in levels[m] : m <= L =>
                    \A d \in f, e \in mem : KeyOf(d) # KeyOf(e)
             /\ \A f \in levels[L] : Largest(f) < Smallest(mem) \/ Largest(mem) < Smallest(f)

LEMMA FlushedTables ==
    ASSUME EntriesInv, TablesInv, SameEntries, NEW L \in Level, mem # {}, Flushed(L), Free(L)
    PROVE  TablesInv'
<1>1. \A m \in Level : \A f : f \in levels'[m] <=> f \in levels[m] \/ (m = L /\ f = mem)
  BY DEF Flushed
<1>2. \A m \in Level : \A f \in levels'[m] : f # {} /\ f \subseteq written'
  BY <1>1 DEF TablesInv, EntriesInv, SameEntries
<1>3. \A m \in Level \ {0} : Disjoint(levels'[m])
  <2> SUFFICES ASSUME NEW m \in Level \ {0}, NEW f \in levels'[m], NEW g \in levels'[m], f # g
               PROVE  Largest(f) < Smallest(g) \/ Largest(g) < Smallest(f)
    BY DEF Disjoint
  <2>1. m > 0
    BY Bounds
  <2>2. CASE f \in levels[m] /\ g \in levels[m]
    BY <2>2 DEF TablesInv, Disjoint
  <2>3. CASE m = L /\ (f = mem \/ g = mem)
    BY <1>1, <2>1, <2>3 DEF Free
  <2> QED BY <1>1, <2>2, <2>3
\* What is in the memtable is in no table.
<1>n. \A n \in Level : \A f \in levels[n] : f \cap mem = {}
  <2> SUFFICES ASSUME NEW n \in Level, NEW f \in levels[n], NEW e \in f, e \in mem PROVE FALSE
    OBVIOUS
  <2>1. Sequence(e) < Sequence(e)
    BY DEF TablesInv
  <2>2. Sequence(e) \in Nat
    BY EntryOrder DEF EntriesInv, Entries
  <2> QED BY <2>1, <2>2
<1>4. \A l, m \in Level : \A f \in levels'[l], g \in levels'[m] : f \cap g # {} => l = m /\ f = g
  <2> SUFFICES ASSUME NEW l \in Level, NEW m \in Level, NEW f \in levels'[l], NEW g \in levels'[m],
                      f \cap g # {}
               PROVE  l = m /\ f = g
    OBVIOUS
  <2>1. CASE f \in levels[l] /\ g \in levels[m]
    BY <2>1 DEF TablesInv
  <2>2. CASE l = L /\ f = mem /\ g \in levels[m]
    BY <1>n, <2>2
  <2>3. CASE m = L /\ g = mem /\ f \in levels[l]
    BY <1>n, <2>3
  <2>4. CASE l = L /\ f = mem /\ m = L /\ g = mem
    BY <2>4
  <2> QED BY <1>1, <2>1, <2>2, <2>3, <2>4
<1>5. \A l \in Level : \A f \in levels'[l] : \A e \in f, d \in mem' : Sequence(e) < Sequence(d)
  BY DEF Flushed
<1>6. ASSUME NEW f \in levels'[0], NEW g \in levels'[0], f # g
      PROVE  \/ \A d \in f, e \in g : Sequence(d) < Sequence(e)
             \/ \A d \in f, e \in g : Sequence(e) < Sequence(d)
  <2>1. CASE f \in levels[0] /\ g \in levels[0]
    BY <1>6, <2>1 DEF TablesInv
  <2>2. CASE f = mem /\ g \in levels[0]
    BY <2>2, Bounds DEF TablesInv
  <2>3. CASE g = mem /\ f \in levels[0]
    BY <2>3, Bounds DEF TablesInv
  <2> QED BY <1>1, <1>6, <2>1, <2>2, <2>3, Bounds
<1> QED BY <1>2, <1>3, <1>4, <1>5, <1>6 DEF TablesInv

LEMMA FlushedOrder ==
    ASSUME EntriesInv, TablesInv, OrderInv, SameEntries, NEW L \in Level, mem # {},
           Flushed(L), Free(L)
    PROVE  OrderInv'
<1>1. \A m \in Level : \A f : f \in levels'[m] <=> f \in levels[m] \/ (m = L /\ f = mem)
  BY DEF Flushed
<1>2. ASSUME NEW a \in Level, NEW b \in Level, NEW f \in levels'[a], NEW g \in levels'[b],
             NEW d \in f, NEW e \in g, a < b, KeyOf(d) = KeyOf(e), KeyOf(e) \notin cut
      PROVE  Newer(d, e)
  <2>1. CASE f \in levels[a] /\ g \in levels[b]
    BY <1>2, <2>1 DEF OrderInv
  <2>2. CASE a = L /\ f = mem /\ g \in levels[b]
    <3>1. Sequence(e) < Sequence(d)
      BY <2>2 DEF TablesInv
    <3>2. Sequence(e) \in Nat /\ Sequence(d) \in Nat
      BY <2>2, EntryOrder DEF TablesInv, EntriesInv, Entries
    <3> QED BY <1>2, <3>1, <3>2 DEF Newer
  <2>3. CASE b = L /\ g = mem /\ f \in levels[a]
    <3>1. L > 0 /\ a <= L
      BY <1>2, <2>3, Bounds
    <3> QED BY <1>2, <2>3, <3>1 DEF Free
  <2>4. CASE a = L /\ f = mem /\ b = L /\ g = mem
    BY <1>2, <2>4, Bounds
  <2> QED BY <1>1, <2>1, <2>2, <2>3, <2>4
<1>3. ASSUME NEW m \in Level \ {0}, NEW f \in levels'[m], NEW g \in levels'[m],
             NEW d \in f, NEW e \in g, KeyOf(d) = KeyOf(e), KeyOf(e) \notin cut
      PROVE  f = g
  <2>1. CASE f \in levels[m] /\ g \in levels[m]
    BY <1>3, <2>1 DEF OrderInv
  <2>2. m > 0 /\ m <= m
    BY Bounds
  <2>3. CASE m = L /\ f = mem /\ g \in levels[m]
    BY <1>3, <2>2, <2>3 DEF Free
  <2>4. CASE m = L /\ g = mem /\ f \in levels[m]
    BY <1>3, <2>2, <2>4 DEF Free
  <2> QED BY <1>1, <2>1, <2>3, <2>4
<1>4. cut \subseteq cut'
  BY DEF SameEntries
<1> QED BY <1>2, <1>3, <1>4 DEF OrderInv, Newer

LEMMA FlushedData ==
    ASSUME DataInv, SameEntries, NEW L \in Level, mem # {}, Flushed(L), Free(L)
    PROVE  DataInv'
<1>1. EntriesInv'
  BY EntriesStay DEF DataInv
<1>2. TablesInv'
  BY FlushedTables DEF DataInv
<1>3. OrderInv'
  BY FlushedOrder DEF DataInv
<1>4. \A e \in written : Stored(e)' <=> Stored(e)
  BY DEF Flushed, Stored
<1>5. HereInv'
  BY <1>4, HereStays DEF DataInv
<1> QED BY <1>1, <1>2, <1>3, <1>5 DEF DataInv

\* The inputs give way to the outputs.
Moved(l, ins, outs) ==
    /\ \A m \in Level : \A f :
          f \in levels'[m] <=> (f \in levels[m] /\ f \notin ins) \/ (m = l + 1 /\ f \in outs)
    /\ \A m \in Level \ {0} : Disjoint(levels'[m])
    /\ CutBy(outs) \subseteq cut'
    /\ mem' = mem

\* Where the entries of the outputs come from.
LEMMA OutputsFrom ==
    ASSUME EntriesInv, TablesInv, NEW l, NEW ins, NEW outs, Working(l, ins, outs),
           NEW f \in outs, NEW e \in f
    PROVE  /\ \E g \in ins : e \in g /\ (g \in levels[l] \/ g \in levels[l + 1])
           /\ e \in written /\ e \in Entries /\ f # {}
<1>1. f # {} /\ \E g \in ins : e \in g
  BY DEF Working
<1>2. PICK g \in ins : e \in g
  BY <1>1
<1>3. g \in levels[l] \/ g \in levels[l + 1]
  BY DEF Working
<1>4. l \in Level /\ l + 1 \in Level
  BY DEF Working
<1>5. e \in written
  BY <1>2, <1>3, <1>4 DEF TablesInv
<1> QED BY <1>1, <1>2, <1>3, <1>5 DEF EntriesInv

LEMMA OutputsApart ==
    ASSUME EntriesInv, TablesInv, NEW l, NEW ins, NEW outs, Working(l, ins, outs),
           NEW f \in outs, NEW g \in outs, f \cap g # {}
    PROVE  f = g
<1>1. ASSUME NEW p \in outs PROVE Table(p)
  <2>1. \A e \in p : e \in Entries
    BY OutputsFrom
  <2>2. p # {}
    BY DEF Working
  <2> QED BY <2>1, <2>2 DEF Table
<1>2. PICK e \in f : e \in g
  OBVIOUS
<1>3. Bounded(f, Smallest(f), Largest(f)) /\ Bounded(g, Smallest(g), Largest(g))
  BY <1>1, TableIs
<1>4. /\ e \in Nat /\ Smallest(f) <= e /\ e <= Largest(f) /\ Smallest(g) <= e /\ e <= Largest(g)
      /\ Smallest(f) \in Nat /\ Smallest(g) \in Nat /\ Largest(f) \in Nat /\ Largest(g) \in Nat
  BY <1>2, <1>3 DEF Bounded
<1>5. f = g \/ Largest(f) < Smallest(g) \/ Largest(g) < Smallest(f)
  BY DEF Working, Disjoint
<1> QED BY <1>4, <1>5

LEMMA MovedTables ==
    ASSUME EntriesInv, TablesInv, SameEntries, NEW l, NEW ins, NEW outs,
           Working(l, ins, outs), Moved(l, ins, outs)
    PROVE  TablesInv'
<1>0. l \in Level /\ l + 1 \in Level /\ l + 1 # 0 /\ 0 \in Level
  BY Bounds DEF Working
<1>1. /\ \A m \in Level : \A f :
            f \in levels'[m] <=> (f \in levels[m] /\ f \notin ins) \/ (m = l + 1 /\ f \in outs)
      /\ \A m \in Level \ {0} : Disjoint(levels'[m])
      /\ mem' = mem /\ written' = written
  BY DEF Moved, SameEntries
<1>2. ASSUME NEW f \in outs PROVE f # {} /\ f \subseteq written
  <2>1. \A e \in f : e \in written
    BY OutputsFrom
  <2>2. f # {}
    BY DEF Working
  <2> QED BY <2>1, <2>2
<1>3. \A m \in Level : \A f \in levels'[m] : f # {} /\ f \subseteq written'
  BY <1>1, <1>2 DEF TablesInv
\* An output has no entry in common with a table that stays.
<1>4. ASSUME NEW f \in outs, NEW m \in Level, NEW g \in levels[m], g \notin ins PROVE f \cap g = {}
  <2> SUFFICES ASSUME NEW e \in f, e \in g PROVE FALSE
    OBVIOUS
  <2>1. PICK h \in ins : e \in h /\ (h \in levels[l] \/ h \in levels[l + 1])
    BY OutputsFrom
  <2>2. h \cap g # {}
    BY <2>1
  <2>3. h = g
    BY <1>0, <2>1, <2>2 DEF TablesInv
  <2> QED BY <1>4, <2>3
<1>5. \A a, b \in Level : \A f \in levels'[a], g \in levels'[b] : f \cap g # {} => a = b /\ f = g
  <2> SUFFICES ASSUME NEW a \in Level, NEW b \in Level, NEW f \in levels'[a], NEW g \in levels'[b],
                      f \cap g # {}
               PROVE  a = b /\ f = g
    OBVIOUS
  <2>1. CASE f \in levels[a] /\ g \in levels[b]
    BY <2>1 DEF TablesInv
  <2>2. CASE a = l + 1 /\ f \in outs /\ g \in levels[b] /\ g \notin ins
    BY <1>4, <2>2
  <2>3. CASE b = l + 1 /\ g \in outs /\ f \in levels[a] /\ f \notin ins
    BY <1>4, <2>3
  <2>4. CASE a = l + 1 /\ f \in outs /\ b = l + 1 /\ g \in outs
    BY <2>4, OutputsApart
  <2> QED BY <1>1, <2>1, <2>2, <2>3, <2>4
<1>6. ASSUME NEW m \in Level, NEW f \in levels'[m], NEW e \in f, NEW d \in mem
      PROVE  Sequence(e) < Sequence(d)
  <2>1. CASE f \in levels[m]
    BY <2>1 DEF TablesInv
  <2>2. CASE f \in outs
    <3>1. PICK h \in ins : e \in h /\ (h \in levels[l] \/ h \in levels[l + 1])
      BY <2>2, OutputsFrom
    <3> QED BY <1>0, <3>1 DEF TablesInv
  <2> QED BY <1>1, <2>1, <2>2
<1>7. \A f, g \in levels'[0] :
          \/ f = g
          \/ \A d \in f, e \in g : Sequence(d) < Sequence(e)
          \/ \A d \in f, e \in g : Sequence(e) < Sequence(d)
  <2>1. levels'[0] \subseteq levels[0]
    BY <1>0, <1>1
  <2> QED BY <2>1 DEF TablesInv
<1> QED BY <1>1, <1>3, <1>5, <1>6, <1>7 DEF TablesInv

LEMMA MovedOrder ==
    ASSUME EntriesInv, TablesInv, OrderInv, SameEntries, NEW l, NEW ins, NEW outs,
           Working(l, ins, outs), Moved(l, ins, outs)
    PROVE  OrderInv'
<1>0. l \in Level /\ l + 1 \in Level /\ l + 1 # 0 /\ l \in Nat /\ cut \subseteq cut'
  BY Bounds DEF Working, SameEntries
<1>1. \A m \in Level : \A f :
          f \in levels'[m] <=> (f \in levels[m] /\ f \notin ins) \/ (m = l + 1 /\ f \in outs)
  BY DEF Moved
<1>2. ASSUME NEW a \in Level, NEW b \in Level, NEW f \in levels'[a], NEW g \in levels'[b],
             NEW d \in f, NEW e \in g, a < b, KeyOf(d) = KeyOf(e), KeyOf(e) \notin cut
      PROVE  Newer(d, e)
  <2>0. a \in Nat /\ b \in Nat
    BY Bounds
  <2>1. CASE f \in levels[a] /\ g \in levels[b]
    BY <1>2, <2>1 DEF OrderInv
  <2>2. CASE a = l + 1 /\ f \in outs /\ g \in levels[b]
    <3>1. PICK h \in ins : d \in h /\ (h \in levels[l] \/ h \in levels[l + 1])
      BY <2>2, OutputsFrom
    <3>2. l < b /\ l + 1 < b
      BY <1>0, <1>2, <2>0, <2>2
    <3> QED BY <1>0, <1>2, <2>2, <3>1, <3>2 DEF OrderInv
  <2>3. CASE b = l + 1 /\ g \in outs /\ f \in levels[a] /\ f \notin ins
    <3>1. PICK h \in ins : e \in h /\ (h \in levels[l] \/ h \in levels[l + 1])
      BY <2>3, OutputsFrom
    <3>2. a < l + 1 /\ (a < l \/ a = l)
      BY <1>0, <1>2, <2>0, <2>3
    <3>3. CASE h \in levels[l + 1] \/ a < l
      BY <1>0, <1>2, <2>3, <3>1, <3>2, <3>3 DEF OrderInv
    <3>4. CASE h \in levels[l] /\ a = l
      BY <1>2, <2>3, <3>1, <3>4 DEF Working
    <3> QED BY <3>1, <3>2, <3>3, <3>4
  <2>4. CASE a = l + 1 /\ b = l + 1
    BY <1>2, <2>0, <2>4
  <2> QED BY <1>1, <2>1, <2>2, <2>3, <2>4
<1>3. ASSUME NEW m \in Level \ {0}, NEW f \in levels'[m], NEW g \in levels'[m],
             NEW d \in f, NEW e \in g, KeyOf(d) = KeyOf(e), KeyOf(e) \notin cut', f # g
      PROVE  FALSE
  <2>0. KeyOf(e) \notin cut /\ KeyOf(d) \notin cut
    BY <1>0, <1>3
  <2>1. CASE f \in levels[m] /\ g \in levels[m]
    BY <1>3, <2>0, <2>1 DEF OrderInv

\* An output and a table that stays at the level.
  <2>2. ASSUME NEW p \in outs, NEW q \in levels[l + 1], q \notin ins, NEW x \in p, NEW y \in q,
               KeyOf(x) = KeyOf(y), KeyOf(x) \notin cut
        PROVE  FALSE
    <3>1. PICK h \in ins : x \in h /\ (h \in levels[l] \/ h \in levels[l + 1])
      BY OutputsFrom
    <3>2. CASE h \in levels[l]
      BY <2>2, <3>1, <3>2 DEF Working
    <3>3. CASE h \in levels[l + 1]
      <4>1. l + 1 \in Level \ {0} /\ KeyOf(y) \notin cut
        BY <1>0, <2>2
      <4>2. h = q
        BY <2>2, <3>1, <3>3, <4>1 DEF OrderInv
      <4> QED BY <2>2, <4>2
    <3> QED BY <3>1, <3>2, <3>3
  <2>3. CASE m = l + 1 /\ f \in outs /\ g \in levels[m] /\ g \notin ins
    BY <1>3, <2>0, <2>2, <2>3
  <2>4. CASE m = l + 1 /\ g \in outs /\ f \in levels[m] /\ f \notin ins
    BY <1>3, <2>0, <2>2, <2>4
  <2>5. CASE f \in outs /\ g \in outs
    <3> DEFINE k == KeyOf(e)
    <3>1. f \subseteq Entries /\ g \subseteq Entries /\ d \in written /\ e \in written
      BY <2>5, OutputsFrom
    <3>2. k \in Key /\ LastSeq \in 0 .. MaxWrites /\ Sequence(d) <= LastSeq /\ Sequence(e) <= LastSeq
      BY <3>1 DEF EntriesInv, Entries
    <3> HIDE DEF k
    <3>3. KeyOf(d) = k /\ KeyOf(e) = k /\ k \notin cut'
      BY <1>3 DEF k
    <3>4. d \in Visible(f, k, LastSeq) /\ e \in Visible(g, k, LastSeq)
      BY <3>1, <3>2, <3>3, VisibleIs
    <3>5. k \in CutBy(outs)
      BY <1>3, <2>5, <3>2, <3>4 DEF CutBy
    <3> QED BY <3>3, <3>5 DEF Moved
  <2> QED BY <1>1, <2>1, <2>3, <2>4, <2>5
<1> QED BY <1>0, <1>2, <1>3 DEF OrderInv, Newer

\* What is dropped is missed by no reader.
LEMMA MovedHere ==
    ASSUME EntriesInv, TablesInv, OrderInv, HereInv, SameEntries, NEW l, NEW ins, NEW outs,
           Working(l, ins, outs), Moved(l, ins, outs)
    PROVE  HereInv'
<1>0. /\ l \in Level /\ l + 1 \in Level /\ l + 1 # 0 /\ l \in Nat /\ cut \subseteq cut'
      /\ mem' = mem /\ written' = written /\ deleted' = deleted
  BY Bounds DEF Working, SameEntries, Moved
<1>1. \A m \in Level : \A f :
          f \in levels'[m] <=> (f \in levels[m] /\ f \notin ins) \/ (m = l + 1 /\ f \in outs)
  BY DEF Moved
<1>2. ASSUME NEW d, Stored(d)' PROVE Stored(d)
  <2>1. CASE d \in mem
    BY <2>1 DEF Stored
  <2>2. CASE \E m \in Level : \E f \in levels'[m] : d \in f
    <3>10. PICK m \in Level : \E f \in levels'[m] : d \in f
      BY <2>2
    <3>1. PICK f \in levels'[m] : d \in f
      BY <3>10
    <3>2. CASE f \in levels[m]
      BY <3>1, <3>2 DEF Stored
    <3>3. CASE f \in outs
      <4>1. PICK h \in ins : d \in h /\ (h \in levels[l] \/ h \in levels[l + 1])
        BY <3>1, <3>3, OutputsFrom
      <4> QED BY <1>0, <4>1 DEF Stored
    <3> QED BY <1>1, <3>1, <3>2, <3>3
  <2> QED BY <1>0, <1>2, <2>1, <2>2 DEF Stored
<1>3. SUFFICES ASSUME NEW s \in Readers, NEW e \in written, KeyOf(e) \notin cut, SeenBy(e, s),
                      ~Stored(e)'
               PROVE  e \in deleted /\ \A d \in written : Stored(d)' /\ KeyOf(d) = KeyOf(e) =>
                                                            s < Sequence(d)
  BY <1>0, SameReaders DEF HereInv, SeenBy
<1>4. \/ Stored(e)
      \/ e \in deleted /\ \A d \in written : Stored(d) /\ KeyOf(d) = KeyOf(e) => s < Sequence(d)
  BY <1>3 DEF HereInv
<1>5. CASE ~Stored(e)
  BY <1>2, <1>4, <1>5
<1>6. CASE Stored(e)
  <2>1. PICK f \in ins : e \in f /\ (f \in levels[l] \/ f \in levels[l + 1])
    <3>10. PICK m \in Level : \E f \in levels[m] : e \in f
      BY <1>0, <1>3, <1>6 DEF Stored
    <3>1. PICK f \in levels[m] : e \in f
      BY <3>10
    <3>2. f \in ins
      BY <1>0, <1>1, <1>3, <3>1 DEF Stored
    <3> QED BY <3>1, <3>2 DEF Working
  <2>2. ~ \E g \in outs : e \in g
    BY <1>0, <1>1, <1>3 DEF Stored
  <2>3. Replaced(ins, e) \/ Buried(l, outs, e)
    BY <2>1, <2>2 DEF Working
  <2>n. \A d \in written : Sequence(d) \in Nat /\ d \in Entries
    BY EntryOrder DEF EntriesInv, Entries
  <2>s. s \in Nat
    BY ReaderIs
  <2>4. ~Replaced(ins, e)
    <3> SUFFICES ASSUME NEW g \in ins, NEW d \in g, Newer(d, e), Sequence(d) <= s PROVE FALSE
      BY DEF Replaced
    <3>1. d \in written
      BY <1>0 DEF Working, TablesInv
    <3>2. s < Sequence(d)
      BY <1>3, <3>1 DEF SeenBy
    <3> QED BY <2>n, <2>s, <3>1, <3>2
  <2>5. Buried(l, outs, e)
    BY <2>3, <2>4
  <2>6. ASSUME NEW d \in written, Stored(d)', KeyOf(d) = KeyOf(e) PROVE s < Sequence(d)
    <3>1. d # e
      BY <1>3, <2>6
    <3>2. SUFFICES ASSUME ~Newer(d, e) PROVE FALSE
      BY <1>3 DEF SeenBy
    <3>3. Sequence(d) < Sequence(e)
      <4>1. Sequence(d) # Sequence(e)
        BY <3>1 DEF EntriesInv
      <4> QED BY <2>6, <2>n, <3>2, <4>1 DEF Newer
    <3>4. CASE d \in mem
      <4>1. Sequence(e) < Sequence(d)
        BY <1>0, <2>1, <3>4 DEF TablesInv
      <4> QED BY <2>n, <3>3, <4>1
    <3>5. CASE \E m \in Level : \E g \in levels'[m] : d \in g
      <4>10. PICK m \in Level : \E g \in levels'[m] : d \in g
        BY <3>5
      <4>1. PICK g \in levels'[m] : d \in g
        BY <4>10
      <4>2. CASE g \in outs
        <5>1. ~Newer(e, d)
          BY <2>5, <4>1, <4>2 DEF Buried
        <5> QED BY <2>6, <3>3, <5>1, <2>n DEF Newer
      <4>3. CASE g \in levels[m] /\ g \notin ins
        <5>1. m \in Nat /\ (m < l \/ m = l \/ m = l + 1 \/ m >= l + 2)
          BY <1>0, Bounds
        <5>2. CASE m >= l + 2
          BY <2>5, <2>6, <4>1, <4>3, <5>2 DEF Buried
        <5>3. CASE m < l \/ (m = l /\ f \in levels[l + 1])
          <6>1. m < l + 1
            BY <1>0, <5>1, <5>3
          <6> QED BY <1>0, <1>3, <2>1, <2>6, <3>2, <4>1, <4>3, <5>3, <6>1 DEF OrderInv
        <5>4. CASE m = l /\ f \in levels[l]
          BY <1>3, <2>1, <2>6, <3>2, <4>1, <4>3, <5>4 DEF Working
        <5>5. CASE m = l + 1 /\ f \in levels[l]
          BY <2>1, <2>6, <4>1, <4>3, <5>5 DEF Working
        <5>6. CASE m = l + 1 /\ f \in levels[l + 1]
          <6>1. f = g
            BY <1>0, <1>3, <2>1, <2>6, <4>1, <4>3, <5>6 DEF OrderInv
          <6> QED BY <2>1, <4>3, <6>1
        <5> QED BY <2>1, <5>1, <5>2, <5>3, <5>4, <5>5, <5>6
      <4> QED BY <1>1, <4>1, <4>2, <4>3
    <3> QED BY <1>0, <2>6, <3>4, <3>5 DEF Stored
  <2>7. e \in deleted
    BY <2>5 DEF Buried
  <2> QED BY <2>6, <2>7
<1> QED BY <1>5, <1>6

LEMMA MovedData ==
    ASSUME DataInv, SameEntries, NEW l, NEW ins, NEW outs,
           Working(l, ins, outs), Moved(l, ins, outs)
    PROVE  DataInv'
<1>1. EntriesInv'
  BY EntriesStay DEF DataInv
<1>2. TablesInv'
  BY MovedTables DEF DataInv
<1>3. OrderInv'
  BY MovedOrder DEF DataInv
<1>4. HereInv'
  BY MovedHere DEF DataInv
<1> QED BY <1>1, <1>2, <1>3, <1>4 DEF DataInv

-----------------------------------------------------------------------------
(* Writes and snapshots *)

LEMMA WrittenIs ==
    ASSUME EntriesInv, NEW k \in Key, NEW del \in BOOLEAN, Write(k, del)
    PROVE  \E e \in Entries :
             /\ KeyOf(e) = k /\ Sequence(e) = LastSeq + 1 /\ e \notin written
             /\ written' = written \cup {e} /\ mem' = mem \cup {e}
             /\ deleted \subseteq deleted' /\ deleted' \subseteq deleted \cup {e}
             /\ LastSeq' = LastSeq + 1 /\ LastSeq + 1 \in Nat /\ LastSeq + 1 <= MaxWrites
             /\ IsFiniteSet(written')
<1> DEFINE e == Entry(k, LastSeq + 1)
<1>1. LastSeq \in Nat /\ LastSeq + 1 \in 0 .. MaxWrites
  BY Bounds DEF EntriesInv, Write
<1>2. e \in Nat /\ KeyOf(e) = k /\ Sequence(e) = LastSeq + 1
  BY <1>1, Bounds, EntryIs
<1>3. /\ written' = written \cup {e} /\ mem' = mem \cup {e}
      /\ deleted' = IF del THEN deleted \cup {e} ELSE deleted
  BY DEF Write
<1> HIDE DEF e
<1>4. e \in Entries /\ e \notin written
  BY <1>1, <1>2 DEF Entries, EntriesInv
<1>5. IsFiniteSet(written') /\ LastSeq' = LastSeq + 1
  <2>1. IsFiniteSet(written)
    BY DEF EntriesInv
  <2> QED BY <1>3, <1>4, <2>1, FS_AddElement DEF LastSeq
<1>6. deleted \subseteq deleted' /\ deleted' \subseteq deleted \cup {e}
  BY <1>3
<1>7. LastSeq + 1 \in Nat /\ LastSeq + 1 <= MaxWrites
  BY <1>1
<1> QED BY <1>2, <1>3, <1>4, <1>5, <1>6, <1>7

LEMMA WriteEntries ==
    ASSUME EntriesInv, NEW k \in Key, NEW del \in BOOLEAN, Write(k, del)
    PROVE  EntriesInv'
<1>1. PICK e \in Entries :
             /\ KeyOf(e) = k /\ Sequence(e) = LastSeq + 1 /\ e \notin written
             /\ written' = written \cup {e} /\ mem' = mem \cup {e}
             /\ deleted \subseteq deleted' /\ deleted' \subseteq deleted \cup {e}
             /\ LastSeq' = LastSeq + 1 /\ LastSeq + 1 \in Nat /\ LastSeq + 1 <= MaxWrites
             /\ IsFiniteSet(written')
  BY WrittenIs
<1>2. LastSeq \in Nat /\ \A d \in written : Sequence(d) \in Nat /\ Sequence(d) <= LastSeq
  BY EntryOrder DEF EntriesInv, Entries
<1>3. IsFiniteSet(written') /\ LastSeq' \in Nat /\ LastSeq' <= MaxWrites /\ written' \subseteq Entries
  BY <1>1 DEF EntriesInv
<1>4. \A d \in written' : Sequence(d) <= LastSeq'
  BY <1>1, <1>2
<1>5. \A c, d \in written' : Sequence(c) = Sequence(d) => c = d
  <2>1. \A d \in written : Sequence(d) # Sequence(e)
    BY <1>1, <1>2
  <2> QED BY <1>1, <2>1 DEF EntriesInv
<1>6. deleted' \subseteq written' /\ mem' \subseteq written'
  BY <1>1 DEF EntriesInv
<1>7. snapshots' \subseteq 0 .. LastSeq' /\ aborted' \in BOOLEAN
  <2>1. snapshots' = snapshots /\ aborted' = aborted
    BY DEF Write
  <2>2. snapshots \subseteq 0 .. LastSeq /\ aborted \in BOOLEAN
    BY DEF EntriesInv
  <2> QED BY <1>1, <1>2, <2>1, <2>2
<1> QED BY <1>3, <1>4, <1>5, <1>6, <1>7 DEF EntriesInv

LEMMA WriteData ==
    ASSUME DataInv, NEW k \in Key, NEW del \in BOOLEAN, Write(k, del)
    PROVE  DataInv'
<1>0. EntriesInv /\ TablesInv /\ OrderInv /\ HereInv
  BY DEF DataInv
<1>1. PICK e \in Entries :
             /\ KeyOf(e) = k /\ Sequence(e) = LastSeq + 1 /\ e \notin written
             /\ written' = written \cup {e} /\ mem' = mem \cup {e}
             /\ deleted \subseteq deleted' /\ deleted' \subseteq deleted \cup {e}
             /\ LastSeq' = LastSeq + 1 /\ LastSeq + 1 \in Nat /\ LastSeq + 1 <= MaxWrites
             /\ IsFiniteSet(written')
  BY <1>0, WrittenIs
<1>2. LastSeq \in Nat /\ \A d \in written : Sequence(d) \in Nat /\ Sequence(d) <= LastSeq
  BY <1>0, EntryOrder DEF EntriesInv, Entries
<1>3. levels' = levels /\ cut' = cut /\ snapshots' = snapshots
  BY DEF Write
<1>4. EntriesInv'
  BY <1>0, WriteEntries
<1>5. TablesInv'
  <2>1. \A l \in Level : \A f \in levels[l] : f # {} /\ f \subseteq written'
    BY <1>0, <1>1 DEF TablesInv
  <2>2. ASSUME NEW l \in Level, NEW f \in levels[l], NEW c \in f, NEW d \in mem'
        PROVE  Sequence(c) < Sequence(d)
    <3>1. c \in written
      BY <1>0 DEF TablesInv
    <3>2. CASE d \in mem
      BY <1>0, <3>2 DEF TablesInv
    <3>3. CASE d = e
      BY <1>1, <1>2, <3>1, <3>3
    <3> QED BY <1>1, <3>2, <3>3
  <2>3. /\ \A l \in Level \ {0} : Disjoint(levels[l])
        /\ \A l, m \in Level : \A f \in levels[l], g \in levels[m] : f \cap g # {} => l = m /\ f = g
        /\ \A f, g \in levels[0] :
              \/ f = g
              \/ \A d \in f, c \in g : Sequence(d) < Sequence(c)
              \/ \A d \in f, c \in g : Sequence(c) < Sequence(d)
    BY <1>0 DEF TablesInv
  <2>4. levels' = levels
    BY <1>3
  <2> QED BY <2>1, <2>2, <2>3, <2>4 DEF TablesInv
<1>6. OrderInv'
  BY <1>0, <1>3 DEF OrderInv, Newer
<1>7. HereInv'
  <2>1. ASSUME NEW s \in Readers', NEW d \in written', KeyOf(d) \notin cut, SeenBy(d, s)'
        PROVE  \/ Stored(d)'
               \/ /\ d \in deleted'
                  /\ \A c \in written' : Stored(c)' /\ KeyOf(c) = KeyOf(d) => s < Sequence(c)
    <3>1. /\ Sequence(d) <= s
          /\ \A c \in written' : Newer(c, d) => s < Sequence(c)
      BY <2>1 DEF SeenBy, Newer
    <3>2. CASE d = e
      BY <1>1, <3>2 DEF Stored
    <3>3. CASE d \in written
      <4>1. s \in snapshots \/ s = LastSeq + 1
        BY <1>1, <1>3 DEF Readers
      <4>2. CASE s \in snapshots
        <5>1. s \in Readers /\ s \in Nat /\ s <= LastSeq
          BY <1>0, <4>2 DEF Readers, EntriesInv
        <5>2. SeenBy(d, s)
          BY <1>1, <3>1 DEF SeenBy
        <5>3. Stored(d) \/ (d \in deleted /\ \A c \in written : Stored(c) /\ KeyOf(c) = KeyOf(d) => s < Sequence(c))
          BY <1>0, <2>1, <3>3, <5>1, <5>2 DEF HereInv
        <5>4. Stored(d) => Stored(d)'
          BY <1>1, <1>3 DEF Stored
        <5>5. ASSUME \A c \in written : Stored(c) /\ KeyOf(c) = KeyOf(d) => s < Sequence(c),
                     NEW c \in written', Stored(c)', KeyOf(c) = KeyOf(d)
              PROVE  s < Sequence(c)
          <6>1. CASE c = e
            BY <1>1, <1>2, <5>1, <6>1
          <6>2. CASE c # e
            <7>1. c \in written /\ Stored(c)
              BY <1>1, <1>3, <5>5, <6>2 DEF Stored
            <7> QED BY <5>5, <7>1
          <6> QED BY <6>1, <6>2
        <5> QED BY <1>1, <5>3, <5>4, <5>5
      <4>3. CASE s = LastSeq + 1
        <5>1. KeyOf(d) # k
          <6> SUFFICES ASSUME KeyOf(d) = k PROVE FALSE
            OBVIOUS
          <6>1. Newer(e, d)
            BY <1>1, <1>2, <3>3 DEF Newer
          <6>2. s < Sequence(e)
            BY <1>1, <3>1, <6>1
          <6> QED BY <1>1, <4>3, <6>2
        <5>2. SeenBy(d, LastSeq)
          BY <1>1, <1>2, <3>1, <3>3, <4>3 DEF SeenBy
        <5>3. \/ Stored(d)
              \/ d \in deleted /\ \A c \in written : Stored(c) /\ KeyOf(c) = KeyOf(d) => LastSeq < Sequence(c)
          BY <1>0, <2>1, <3>3, <5>2 DEF HereInv, Readers
        <5>4. Stored(d) => Stored(d)'
          BY <1>1, <1>3 DEF Stored
        <5>5. ASSUME \A c \in written : Stored(c) /\ KeyOf(c) = KeyOf(d) => LastSeq < Sequence(c),
                     NEW c \in written', Stored(c)', KeyOf(c) = KeyOf(d)
              PROVE  s < Sequence(c)
          <6>1. c # e /\ c \in written
            BY <1>1, <5>1, <5>5
          <6>2. Stored(c)
            BY <1>1, <1>3, <5>5, <6>1 DEF Stored
          <6>3. LastSeq < Sequence(c)
            BY <5>5, <6>1, <6>2
          <6> QED BY <1>2, <6>1, <6>3
        <5> QED BY <1>1, <5>3, <5>4, <5>5
      <4> QED BY <4>1, <4>2, <4>3
    <3> QED BY <1>1, <3>2, <3>3
  <2> QED BY <1>3, <2>1 DEF HereInv
<1> QED BY <1>4, <1>5, <1>6, <1>7 DEF DataInv

\* A new snapshot is at the last sequence number.
LEMMA SnapshotData ==
    ASSUME DataInv, GetSnapshot
    PROVE  DataInv' /\ Readers' = Readers
<1>1. /\ written' = written /\ deleted' = deleted /\ mem' = mem /\ levels' = levels /\ cut' = cut
      /\ aborted' = aborted /\ snapshots' = snapshots \cup {LastSeq}
  BY DEF GetSnapshot
<1>2. LastSeq' = LastSeq
  BY <1>1 DEF LastSeq
<1>3. Readers' = Readers
  BY <1>1, <1>2 DEF Readers
<1>4. EntriesInv'
  BY <1>1, <1>2 DEF DataInv, EntriesInv
<1>5. TablesInv'
  BY <1>1 DEF DataInv, TablesInv
<1>6. OrderInv'
  BY <1>1 DEF DataInv, OrderInv, Newer
<1>7. HereInv'
  BY <1>1, <1>3 DEF DataInv, HereInv, SeenBy, Newer, Stored
<1> QED BY <1>3, <1>4, <1>5, <1>6, <1>7 DEF DataInv

\* Nothing moves.
LEMMA QuietData ==
    ASSUME DataInv, SameEntries, mem' = mem, levels' = levels
    PROVE  DataInv'
<1>1. EntriesInv'
  BY EntriesStay DEF DataInv
<1>2. TablesInv'
  BY DEF DataInv, TablesInv, SameEntries
<1>3. OrderInv'
  BY DEF DataInv, OrderInv, Newer, SameEntries
<1>4. \A e \in written : Stored(e)' <=> Stored(e)
  BY DEF Stored
<1>5. HereInv'
  BY <1>4, HereStays DEF DataInv
<1> QED BY <1>1, <1>2, <1>3, <1>5 DEF DataInv

-----------------------------------------------------------------------------
(* What happens while a compaction works *)

LEMMA WorkingQuiet ==
    ASSUME EntriesInv, TablesInv, NEW l, NEW ins, NEW outs, Working(l, ins, outs),
           levels' = levels, deleted \subseteq deleted', cut \subseteq cut',
           \A e \in written : (\A s \in Readers : Sequence(e) <= s) =>
                                  \A s \in Readers' : Sequence(e) <= s
    PROVE  Working(l, ins, outs)'
<1>1. \A f \in ins : \A e \in f : e \in written
  BY DEF Working, TablesInv
<1>2. ASSUME NEW e, Replaced(ins, e) PROVE Replaced(ins, e)'
  <2>1. PICK f \in ins : \E d \in f : Newer(d, e) /\ \A s \in Readers : Sequence(d) <= s
    BY <1>2 DEF Replaced
  <2>2. PICK d \in f : Newer(d, e) /\ \A s \in Readers : Sequence(d) <= s
    BY <2>1
  <2>3. \A s \in Readers' : Sequence(d) <= s
    BY <1>1, <2>2
  <2> QED BY <2>2, <2>3 DEF Replaced, Newer
<1>3. \A e : Buried(l, outs, e) => Buried(l, outs, e)'
  BY DEF Buried, Newer
<1> QED BY <1>2, <1>3 DEF Working, Newer

\* No table overlaps the memtable from level 0 to level L, where that is below it.
Clear(L) ==
    L > 0 => \A m \in Level : \A f \in levels[m] : m <= L =>
                 ~Overlaps(f, KeyOf(Smallest(mem)), KeyOf(Largest(mem)))

LEMMA ClearIsFree ==
    ASSUME EntriesInv, TablesInv, NEW L \in Level, mem # {}, Clear(L)
    PROVE  Free(L)
<1>1. Table(mem) /\ \A m \in Level : Tables(levels[m])
  BY LevelTables DEF EntriesInv, Table
<1>2. ASSUME L > 0, NEW m \in Level, NEW f \in levels[m], m <= L, NEW d \in f, NEW e \in mem,
             KeyOf(d) = KeyOf(e)
      PROVE  FALSE
  <2>1. Overlaps(f, KeyOf(Smallest(mem)), KeyOf(Largest(mem)))
    BY <1>1, <1>2, ShareKey DEF Tables
  <2> QED BY <1>2, <2>1 DEF Clear
<1>3. ASSUME L > 0, NEW f \in levels[L]
      PROVE  Largest(f) < Smallest(mem) \/ Largest(mem) < Smallest(f)
  <2>1. ~Overlaps(f, KeyOf(Smallest(mem)), KeyOf(Largest(mem)))
    BY <1>3, Bounds DEF Clear
  <2> QED BY <1>1, <2>1, OverlapIs DEF Tables
<1> QED BY <1>2, <1>3 DEF Free

LEMMA WorkingFlushed ==
    ASSUME EntriesInv, TablesInv, NEW l, NEW ins, NEW outs, Working(l, ins, outs),
           SameEntries, NEW L \in Level, mem # {}, Flushed(L), Free(L)
    PROVE  Working(l, ins, outs)'
<1>0. l \in Level /\ l + 1 \in Level /\ l \in Nat /\ L \in Nat
  BY Bounds DEF Working
<1>1. \A m \in Level : \A f : f \in levels'[m] <=> f \in levels[m] \/ (m = L /\ f = mem)
  BY DEF Flushed
<1>2. mem \notin ins
  <2> SUFFICES ASSUME mem \in ins PROVE FALSE
    OBVIOUS
  <2>1. PICK e \in mem : TRUE
    OBVIOUS
  <2>2. Sequence(e) < Sequence(e)
    BY <1>0 DEF Working, TablesInv
  <2>3. Sequence(e) \in Nat
    BY EntryOrder DEF EntriesInv, Entries
  <2> QED BY <2>2, <2>3
\* Nothing of a key in the inputs is in the memtable where that goes below them.
<1>3. ASSUME NEW f \in ins, NEW e \in f, NEW d \in mem, KeyOf(d) = KeyOf(e),
             L >= l + 1
      PROVE  FALSE
  <2>1. L > 0 /\ l <= L /\ l + 1 <= L /\ (f \in levels[l] \/ f \in levels[l + 1])
    BY <1>0, <1>3 DEF Working
  <2> QED BY <1>0, <1>3, <2>1 DEF Free
<1>4. /\ \A f \in ins : f \in levels'[l] \/ f \in levels'[l + 1]
      /\ \A f \in ins : \A m \in Level : f \in levels'[m] => f \in levels[m]
  BY <1>0, <1>1, <1>2 DEF Working
<1>5. ASSUME NEW f \in levels'[l], NEW g \in levels'[l], f \notin ins, g \in ins,
             NEW d \in f, NEW e \in g, KeyOf(d) = KeyOf(e)
      PROVE  KeyOf(e) \in cut' \/ Newer(d, e)
  <2>1. g \in levels[l]
    BY <1>0, <1>4, <1>5
  <2>2. CASE f \in levels[l]
    BY <1>5, <2>1, <2>2 DEF Working, SameEntries
  <2>3. CASE f = mem
    <3>1. Sequence(e) < Sequence(d)
      BY <1>0, <2>1, <2>3 DEF TablesInv
    <3>2. Sequence(e) \in Nat /\ Sequence(d) \in Nat
      BY <1>0, <2>1, <2>3, EntryOrder DEF TablesInv, EntriesInv, Entries
    <3> QED BY <1>5, <3>1, <3>2 DEF Newer
  <2> QED BY <1>0, <1>1, <2>2, <2>3
<1>6. ASSUME NEW f \in levels'[l + 1], NEW g \in levels'[l], f \notin ins, g \in ins,
             NEW d \in f, NEW e \in g
      PROVE  KeyOf(d) # KeyOf(e)
  <2>1. g \in levels[l]
    BY <1>0, <1>4, <1>6
  <2>2. CASE f \in levels[l + 1]
    BY <1>6, <2>1, <2>2 DEF Working
  <2>3. CASE f = mem /\ l + 1 = L
    BY <1>0, <1>3, <1>6, <2>3
  <2> QED BY <1>0, <1>1, <2>2, <2>3
<1>7. ASSUME NEW f \in ins, NEW e \in f
      PROVE  (\E g \in outs : e \in g) \/ Replaced(ins, e)' \/ Buried(l, outs, e)'
  <2>1. CASE Replaced(ins, e)
    <3>1. Replaced(ins, e)'
      BY <2>1, SameReaders DEF Replaced, Newer
    <3> QED BY <3>1
  <2>2. CASE Buried(l, outs, e)
    <3>1. ASSUME NEW m \in Level, NEW h \in levels'[m], NEW d \in h, m >= l + 2
          PROVE  KeyOf(d) # KeyOf(e)
      <4>1. CASE h \in levels[m]
        BY <2>2, <3>1, <4>1 DEF Buried
      <4>2. CASE m = L /\ h = mem
        <5>1. L >= l + 1
          BY <1>0, <3>1, <4>2
        <5> QED BY <1>3, <3>1, <4>2, <5>1
      <4> QED BY <1>1, <4>1, <4>2
    <3>2. Buried(l, outs, e)'
      BY <2>2, <3>1 DEF Buried, Newer, SameEntries
    <3> QED BY <3>2
  <2>3. (\E g \in outs : e \in g) \/ Replaced(ins, e) \/ Buried(l, outs, e)
    BY DEF Working
  <2> QED BY <2>1, <2>2, <2>3
<1>8. (\A f \in outs : f # {} /\ \A e \in f : \E g \in ins : e \in g) /\ Disjoint(outs)
  BY DEF Working
<1>9. \A f \in levels'[l], g \in levels'[l] : f \notin ins /\ g \in ins =>
          \A d \in f, e \in g : KeyOf(d) = KeyOf(e) => KeyOf(e) \in cut' \/ Newer(d, e)
  BY <1>5
<1>10. \A f \in levels'[l + 1], g \in levels'[l] : f \notin ins /\ g \in ins =>
          \A d \in f, e \in g : KeyOf(d) # KeyOf(e)
  BY <1>6
<1> QED BY <1>0, <1>4, <1>7, <1>8, <1>9, <1>10 DEF Working, Newer

\* A new table lies beside all the inputs if these are connected.
LEMMA ApartFlushed ==
    ASSUME EntriesInv, TablesInv, NEW l, NEW ins, NEW outs, Working(l, ins, outs),
           Connected(ins), Apart(l, ins),
           NEW L \in Level, mem # {}, Flushed(L), Clear(L)
    PROVE  Apart(l, ins)'
<1>0. l \in Level /\ l + 1 \in Level /\ l \in Nat /\ l + 1 > 0
  BY Bounds DEF Working
<1> SUFFICES ASSUME NEW g \in levels'[l + 1], g \notin ins
             PROVE  \/ \A f \in ins : Largest(g) < Smallest(f)
                    \/ \A f \in ins : Largest(f) < Smallest(g)
  BY DEF Apart
<1>1. g \in levels[l + 1] \/ (l + 1 = L /\ g = mem)
  BY <1>0 DEF Flushed
<1>2. CASE g \in levels[l + 1]
  BY <1>2 DEF Apart
<1>3. CASE l + 1 = L /\ g = mem
  <2> DEFINE a == KeyOf(Smallest(mem))
             b == KeyOf(Largest(mem))
  <2>1. Table(mem) /\ \A f \in ins : Table(f)
    <3>1. \A f \in ins : f \in levels[l] \/ f \in levels[l + 1]
      BY DEF Working
    <3>2. Table(mem)
      BY DEF EntriesInv, Table
    <3> QED BY <1>0, <3>1, <3>2, LevelTables DEF Tables
  <2>2. a \in Key /\ b \in Key /\ a <= b /\ a \in Nat /\ b \in Nat
    BY <2>1, TableIs DEF Bounded
  <2>3. \A f \in ins : ~Overlaps(f, a, b)
    BY <1>0, <1>3 DEF Clear, Working
  <2>4. Smallest(mem) \in Nat /\ Largest(mem) \in Nat
    BY <2>1, TableIs DEF Bounded
  <2>5. \A f \in ins : /\ Smallest(f) \in Nat /\ Largest(f) \in Nat
                       /\ KeyOf(Smallest(f)) \in Nat /\ KeyOf(Largest(f)) \in Nat
    BY <2>1, TableIs DEF Bounded
  <2>6. (\A f \in ins : KeyOf(Largest(f)) < a) \/ (\A f \in ins : b < KeyOf(Smallest(f)))
    <3> HIDE DEF a, b
    <3> QED BY <2>2, <2>3 DEF Connected, Misses, Below, Above
  <2>7. ASSUME NEW f \in ins
        PROVE  /\ KeyOf(Largest(f)) < a => Largest(f) < Smallest(mem)
               /\ b < KeyOf(Smallest(f)) => Largest(mem) < Smallest(f)
    <3>1. /\ Smallest(mem) <= Largest(f) => KeyOf(Smallest(mem)) <= KeyOf(Largest(f))
          /\ Smallest(f) <= Largest(mem) => KeyOf(Smallest(f)) <= KeyOf(Largest(mem))
      BY <2>4, <2>5, EntryOrder
    <3> QED BY <2>2, <2>4, <2>5, <3>1
  <2> QED BY <1>3, <2>6, <2>7
<1> QED BY <1>1, <1>2, <1>3

-----------------------------------------------------------------------------
(* What a compaction writes *)

\* What is computed in n steps from a, within a set.
StepsOf(F, V) == F \in [Nat \X V -> V]

Computed(F, V, a, n, f) ==
    /\ f \in [0 .. n -> V] /\ f[0] = a
    /\ \A m \in 1 .. n : f[m] = F[<<m, f[m - 1]>>]

LEMMA ComputedExists ==
    ASSUME NEW V, NEW a \in V, NEW F, StepsOf(F, V), NEW n \in Nat
    PROVE  \E f : Computed(F, V, a, n, f)
<1> DEFINE Far(k, f) == /\ f \in [0 .. k -> V] /\ f[0] = a
                        /\ \A m \in 1 .. k : f[m] = F[<<m, f[m - 1]>>]
           T == {k \in Nat : \E f : Far(k, f)}
<1>f. F \in [Nat \X V -> V]
  BY DEF StepsOf
<1>1. 0 \in T
  <2> DEFINE f == [m \in 0 .. 0 |-> a]
  <2>1. Far(0, f)
    OBVIOUS
  <2> QED BY <2>1
<1>2. ASSUME NEW k \in T \cap Nat PROVE k + 1 \in T
  <2>1. PICK g : Far(k, g)
    OBVIOUS
  <2>2. k \in Nat /\ 0 \in 0 .. k /\ k \in 0 .. k
    OBVIOUS
  <2>3. g[k] \in V /\ F[<<k + 1, g[k]>>] \in V
    BY <1>f, <2>1, <2>2
  <2> DEFINE f == [m \in 0 .. k + 1 |-> IF m = k + 1 THEN F[<<k + 1, g[k]>>] ELSE g[m]]
  <2>4. /\ \A m \in 0 .. k : m \in 0 .. k + 1 /\ m # k + 1
        /\ \A m \in 0 .. k + 1 : m \in 0 .. k \/ m = k + 1
        /\ k + 1 \in 0 .. k + 1 /\ (k + 1) - 1 = k
    OBVIOUS
  <2>5. f[k + 1] = F[<<k + 1, g[k]>>] /\ \A m \in 0 .. k : f[m] = g[m]
    BY <2>4
  <2>6. f \in [0 .. k + 1 -> V]
    <3>1. \A m \in 0 .. k + 1 : f[m] \in V
      BY <2>1, <2>3, <2>4, <2>5
    <3>2. f = [m \in 0 .. k + 1 |-> f[m]]
      OBVIOUS
    <3> HIDE DEF f
    <3> QED BY <3>1, <3>2
  <2> HIDE DEF f
  <2>7. ASSUME NEW m \in 1 .. k + 1 PROVE f[m] = F[<<m, f[m - 1]>>]
    <3>1. CASE m = k + 1
      BY <2>2, <2>4, <2>5, <3>1
    <3>2. CASE m # k + 1
      <4>1. m \in 1 .. k /\ m \in 0 .. k /\ m - 1 \in 0 .. k
        BY <2>2, <3>2
      <4> QED BY <2>1, <2>5, <4>1
    <3> QED BY <3>1, <3>2
  <2>8. f[0] = a
    BY <2>1, <2>2, <2>5
  <2>9. Far(k + 1, f)
    BY <2>6, <2>7, <2>8
  <2> HIDE DEF Far
  <2> QED BY <2>2, <2>9
<1> HIDE DEF T
<1>3. Nat \subseteq T
  BY <1>1, <1>2, FromZero
<1>4. PICK f : Far(n, f)
  BY <1>3 DEF T
<1>5. Computed(F, V, a, n, f)
  BY <1>4 DEF Computed
<1> QED BY <1>5

\* The compaction has come as far as number n.
Outdated(I, e) == \E d \in I : Newer(d, e) /\ Sequence(d) <= SmallestSnapshot

Useless(level, e) == e \in deleted /\ Sequence(e) <= SmallestSnapshot
                     /\ IsBaseLevelForKey(level, KeyOf(e))

LastOf(I, n, acc) ==
    \/ acc.key = 0 /\ \A e \in I : ~(e <= n)
    \/ \E p \in I : /\ p <= n /\ acc.key = KeyOf(p) /\ acc.last = Sequence(p)
                    /\ \A e \in I : e <= n => e <= p

Apiece(f, g) == f = g \/ (\A x \in f, y \in g : x < y) \/ (\A x \in f, y \in g : y < x)

Wrote(level, I, n, tables, open) ==
    /\ \A e \in I : e <= n =>
          \/ e \in open \/ \E f \in tables : e \in f
          \/ Outdated(I, e) \/ Useless(level, e)
    /\ \A f \in tables \cup {open} : \A e \in f : e \in I /\ e <= n /\ ~Outdated(I, e)
    /\ \A f, g \in tables : Apiece(f, g)
    /\ \A f \in tables : \A x \in f, y \in open : x < y

\* What WorkOn makes of an entry.
Proceeds(level, e, acc, r) ==
    LET last == IF KeyOf(e) = acc.key THEN acc.last ELSE MaxWrites + 1
    IN  /\ r.key = KeyOf(e) /\ r.last = Sequence(e)
        /\ \E done, rest :
              /\ (done = acc.tables /\ rest = acc.open) \/ (done = acc.tables \cup {acc.open} /\ rest = {})
              /\ IF Dropped(level, e, last) THEN r.tables = done /\ r.open = rest
                 ELSE \/ r.tables = done \cup {rest \cup {e}} /\ r.open = {}
                      \/ r.tables = done /\ r.open = rest \cup {e}

LEMMA WorkOnProceeds ==
    ASSUME NEW c, NEW acc, NEW e
    PROVE  Proceeds(c.level, e, acc, WorkOn(c, acc, e))
<1> DEFINE last == IF KeyOf(e) = acc.key THEN acc.last ELSE MaxWrites + 1
           drop == Dropped(c.level, e, last)
           passed == {g \in c.grandparents : Largest(g) < e}
           size == acc.size + IF acc.seen THEN SizeOf(passed \ acc.passed) ELSE 0
           stop == size > MaxGrandparents
           done == IF stop THEN acc.tables \cup {acc.open} ELSE acc.tables
           rest == IF stop THEN {} ELSE acc.open
           full == ~drop /\ Cardinality(rest \cup {e}) >= TargetSize
           r == WorkOn(c, acc, e)
<1>1. r = [key |-> KeyOf(e), last |-> Sequence(e), seen |-> TRUE, passed |-> passed,
           size |-> IF stop THEN 0 ELSE size,
           tables |-> IF full THEN done \cup {rest \cup {e}} ELSE done,
           open |-> IF drop THEN rest ELSE IF full THEN {} ELSE rest \cup {e}]
  BY DEF WorkOn
<1>2. (done = acc.tables /\ rest = acc.open) \/ (done = acc.tables \cup {acc.open} /\ rest = {})
  <2> HIDE DEF size
  <2> QED OBVIOUS
<1>3. full => ~drop
  OBVIOUS
<1> HIDE DEF drop, passed, size, done, rest, full, stop, r
<1>4. /\ r.key = KeyOf(e) /\ r.last = Sequence(e)
      /\ r.tables = IF full THEN done \cup {rest \cup {e}} ELSE done
      /\ r.open = IF drop THEN rest ELSE IF full THEN {} ELSE rest \cup {e}
  BY <1>1
<1>5. IF drop THEN r.tables = done /\ r.open = rest
      ELSE \/ r.tables = done \cup {rest \cup {e}} /\ r.open = {}
           \/ r.tables = done /\ r.open = rest \cup {e}
  BY <1>3, <1>4
<1>6. Proceeds(c.level, e, acc, r)
  BY <1>2, <1>4, <1>5 DEF Proceeds, drop
<1> QED BY <1>6 DEF r

LEMMA SnapshotIs ==
    ASSUME EntriesInv
    PROVE  /\ SmallestSnapshot \in Readers /\ SmallestSnapshot \in Nat /\ SmallestSnapshot <= MaxWrites
           /\ \A s \in Readers : SmallestSnapshot <= s
<1>1. /\ snapshots \subseteq Nat /\ LastSeq \in Nat /\ LastSeq <= MaxWrites
      /\ \A s \in snapshots : s <= LastSeq
  BY DEF EntriesInv
<1>2. CASE snapshots = {}
  BY <1>1, <1>2 DEF SmallestSnapshot, Readers
<1>3. CASE snapshots # {}
  <2>1. Min(snapshots) \in snapshots /\ \A s \in snapshots : Min(snapshots) <= s
    BY <1>1, <1>3, LowestIs
  <2>2. SmallestSnapshot = Min(snapshots)
    BY <1>3 DEF SmallestSnapshot
  <2> HIDE DEF SmallestSnapshot
  <2>3. SmallestSnapshot \in snapshots /\ \A s \in snapshots : SmallestSnapshot <= s
    BY <2>1, <2>2
  <2>4. SmallestSnapshot \in Nat /\ SmallestSnapshot <= LastSeq
    BY <1>1, <2>3
  <2> QED BY <1>1, <2>3, <2>4, Bounds DEF Readers
<1> QED BY <1>2, <1>3

\* The entry's fate at its turn.
LEMMA FateIs ==
    ASSUME EntriesInv, NEW level, NEW I \in SUBSET written, NEW n \in Nat, NEW acc,
           LastOf(I, n, acc), n + 1 \in I
    PROVE  LET last == IF KeyOf(n + 1) = acc.key THEN acc.last ELSE MaxWrites + 1
           IN  /\ Dropped(level, n + 1, last) => Outdated(I, n + 1) \/ Useless(level, n + 1)
               /\ ~Dropped(level, n + 1, last) => ~Outdated(I, n + 1)
<1> DEFINE e == n + 1
           last == IF KeyOf(e) = acc.key THEN acc.last ELSE MaxWrites + 1
<1>1. /\ \A d \in I : d \in Nat /\ KeyOf(d) \in Nat /\ 0 < KeyOf(d) /\ Sequence(d) \in Nat
      /\ \A d, b \in I : Sequence(d) = Sequence(b) => d = b
  BY EntryOrder, Bounds DEF EntriesInv, Entries
<1>2. e \in Nat /\ e \in I /\ \A d \in Nat : d < e <=> d <= n
  OBVIOUS
<1>3. SmallestSnapshot \in Nat /\ SmallestSnapshot <= MaxWrites /\ MaxWrites \in Nat
  BY SnapshotIs, Bounds
<1> HIDE DEF e
\* The entry before it is the newest of its key that is older than the rest.
<1>4. ASSUME KeyOf(e) = acc.key
      PROVE  last <= SmallestSnapshot <=> Outdated(I, e)
  <2>1. PICK p \in I : /\ p <= n /\ acc.key = KeyOf(p) /\ acc.last = Sequence(p)
                       /\ \A d \in I : d <= n => d <= p
    BY <1>1, <1>2, <1>4 DEF LastOf
  <2>2. last = Sequence(p) /\ KeyOf(p) = KeyOf(e) /\ p < e /\ p # e
    BY <1>1, <1>2, <1>4, <2>1
  <2>3. Newer(p, e)
    BY <1>1, <1>2, <2>2, EntryOrder DEF Newer
  <2>4. ASSUME NEW d \in I, Newer(d, e) PROVE Sequence(p) <= Sequence(d)
    <3>1. d < e
      BY <1>1, <1>2, <2>4, EntryOrder DEF Newer
    <3>2. d <= p
      BY <1>1, <1>2, <2>1, <3>1
    <3>3. KeyOf(d) = KeyOf(p)
      BY <2>2, <2>4 DEF Newer
    <3> QED BY <1>1, <3>2, <3>3, EntryOrder
  <2>5. Sequence(p) <= SmallestSnapshot <=> Outdated(I, e)
    BY <1>1, <1>3, <2>3, <2>4 DEF Outdated
  <2> QED BY <2>2, <2>5
<1>5. ASSUME KeyOf(e) # acc.key
      PROVE  ~(last <= SmallestSnapshot) /\ ~Outdated(I, e)
  <2>1. ~(last <= SmallestSnapshot)
    BY <1>3, <1>5
  <2>2. ASSUME NEW d \in I, Newer(d, e) PROVE FALSE
    <3>0. d < e
      BY <1>1, <1>2, <2>2, EntryOrder DEF Newer
    <3>1. d < e /\ d <= n /\ KeyOf(d) = KeyOf(e)
      BY <1>1, <1>2, <2>2, <3>0 DEF Newer
    <3>2. PICK p \in I : p <= n /\ acc.key = KeyOf(p) /\ \A b \in I : b <= n => b <= p
      BY <3>1 DEF LastOf
    <3>3. d <= p /\ p <= e
      BY <1>1, <1>2, <3>1, <3>2
    <3>4. KeyOf(d) <= KeyOf(p) /\ KeyOf(p) <= KeyOf(e)
      BY <1>1, <1>2, <3>3, EntryOrder
    <3> QED BY <1>1, <1>2, <1>5, <3>1, <3>2, <3>4
  <2> QED BY <2>1, <2>2 DEF Outdated
<1>6. last <= SmallestSnapshot <=> Outdated(I, e)
  <2> HIDE DEF last
  <2> QED BY <1>4, <1>5
<1> HIDE DEF last
<1>7. /\ Dropped(level, e, last) => Outdated(I, e) \/ Useless(level, e)
      /\ ~Dropped(level, e, last) => ~Outdated(I, e)
  BY <1>6 DEF Dropped, Useless
<1> QED BY <1>7 DEF e, last

LEMMA WroteCut ==
    ASSUME NEW level, NEW I, NEW n, NEW tables, NEW open, Wrote(level, I, n, tables, open)
    PROVE  Wrote(level, I, n, tables \cup {open}, {})
<1>1. \A e \in I : e <= n =>
          \/ e \in {} \/ \E f \in tables \cup {open} : e \in f
          \/ Outdated(I, e) \/ Useless(level, e)
  BY DEF Wrote
<1>2. \A f \in tables \cup {open} \cup {{}} : \A e \in f : e \in I /\ e <= n /\ ~Outdated(I, e)
  BY DEF Wrote
<1>3. \A f, g \in tables \cup {open} : Apiece(f, g)
  BY DEF Wrote, Apiece
<1> QED BY <1>1, <1>2, <1>3 DEF Wrote

\* The entry is left out.
LEMMA WroteNot ==
    ASSUME NEW level, NEW I, NEW n \in Nat, NEW tables, NEW open, Wrote(level, I, n, tables, open),
           I \subseteq Nat,
           n + 1 \in I => Outdated(I, n + 1) \/ Useless(level, n + 1)
    PROVE  Wrote(level, I, n + 1, tables, open)
<1>1. \A e \in Nat : e <= n + 1 <=> e <= n \/ e = n + 1
  OBVIOUS
<1>2. \A e \in I : e <= n + 1 =>
          \/ e \in open \/ \E f \in tables : e \in f
          \/ Outdated(I, e) \/ Useless(level, e)
  BY <1>1 DEF Wrote
<1>3. \A f \in tables \cup {open} : \A e \in f : e \in I /\ e <= n + 1 /\ ~Outdated(I, e)
  BY <1>1 DEF Wrote
<1> QED BY <1>2, <1>3 DEF Wrote

\* The entry is added to the open table.
LEMMA WroteIt ==
    ASSUME NEW level, NEW I, NEW n \in Nat, NEW tables, NEW open, Wrote(level, I, n, tables, open),
           I \subseteq Nat, n + 1 \in I, ~Outdated(I, n + 1)
    PROVE  Wrote(level, I, n + 1, tables, open \cup {n + 1})
<1>1. \A e \in Nat : /\ e <= n + 1 <=> e <= n \/ e = n + 1
                     /\ e <= n => e < n + 1
  OBVIOUS
<1>2. \A e \in I : e <= n + 1 =>
          \/ e \in open \cup {n + 1} \/ \E f \in tables : e \in f
          \/ Outdated(I, e) \/ Useless(level, e)
  BY <1>1 DEF Wrote
<1>3. ASSUME NEW f \in tables \cup {open \cup {n + 1}}, NEW e \in f
      PROVE  e \in I /\ e <= n + 1 /\ ~Outdated(I, e)
  <2>1. e = n + 1 \/ \E g \in tables \cup {open} : e \in g
    BY <1>3
  <2>2. CASE e = n + 1
    BY <2>2
  <2>3. CASE \E g \in tables \cup {open} : e \in g
    BY <1>1, <2>3 DEF Wrote
  <2> QED BY <2>1, <2>2, <2>3
<1>4. ASSUME NEW f \in tables, NEW x \in f, NEW y \in open \cup {n + 1}
      PROVE  x < y
  <2>1. x \in I /\ x <= n
    BY DEF Wrote
  <2>2. CASE y \in open
    BY <2>2 DEF Wrote
  <2>3. CASE y = n + 1
    BY <1>1, <2>1, <2>3
  <2> QED BY <2>2, <2>3
<1>5. \A f, g \in tables : Apiece(f, g)
  BY DEF Wrote
<1> QED BY <1>2, <1>3, <1>4, <1>5 DEF Wrote

LEMMA WroteStep ==
    ASSUME EntriesInv, NEW level, NEW I \in SUBSET written, NEW n \in Nat, NEW acc,
           LastOf(I, n, acc), Wrote(level, I, n, acc.tables, acc.open), n + 1 \in I,
           NEW r, Proceeds(level, n + 1, acc, r)
    PROVE  LastOf(I, n + 1, r) /\ Wrote(level, I, n + 1, r.tables, r.open)
<1> DEFINE last == IF KeyOf(n + 1) = acc.key THEN acc.last ELSE MaxWrites + 1
<1>1. /\ r.key = KeyOf(n + 1) /\ r.last = Sequence(n + 1)
      /\ \E done, rest :
            /\ (done = acc.tables /\ rest = acc.open) \/ (done = acc.tables \cup {acc.open} /\ rest = {})
            /\ IF Dropped(level, n + 1, last) THEN r.tables = done /\ r.open = rest
               ELSE \/ r.tables = done \cup {rest \cup {n + 1}} /\ r.open = {}
                    \/ r.tables = done /\ r.open = rest \cup {n + 1}
  BY DEF Proceeds
<1>2. /\ Dropped(level, n + 1, last) => Outdated(I, n + 1) \/ Useless(level, n + 1)
      /\ ~Dropped(level, n + 1, last) => ~Outdated(I, n + 1)
  BY FateIs
<1> HIDE DEF last
<1>3. I \subseteq Nat
  BY DEF EntriesInv, Entries
<1>4. LastOf(I, n + 1, r)
  BY <1>1 DEF LastOf
<1>5. PICK done, rest :
            /\ (done = acc.tables /\ rest = acc.open) \/ (done = acc.tables \cup {acc.open} /\ rest = {})
            /\ IF Dropped(level, n + 1, last) THEN r.tables = done /\ r.open = rest
               ELSE \/ r.tables = done \cup {rest \cup {n + 1}} /\ r.open = {}
                    \/ r.tables = done /\ r.open = rest \cup {n + 1}
  BY <1>1
<1>6. Wrote(level, I, n, done, rest)
  <2>1. Wrote(level, I, n, acc.tables \cup {acc.open}, {})
    BY WroteCut
  <2> QED BY <1>5, <2>1
<1>7. CASE Dropped(level, n + 1, last)
  <2>1. Wrote(level, I, n + 1, done, rest)
    BY <1>2, <1>3, <1>6, <1>7, WroteNot
  <2> QED BY <1>4, <1>5, <1>7, <2>1
<1>8. CASE ~Dropped(level, n + 1, last)
  <2>1. Wrote(level, I, n + 1, done, rest \cup {n + 1})
    BY <1>2, <1>3, <1>6, <1>8, WroteIt
  <2>2. Wrote(level, I, n + 1, done \cup {rest \cup {n + 1}}, {})
    BY <2>1, WroteCut
  <2> QED BY <1>4, <1>5, <1>8, <2>1, <2>2
<1> QED BY <1>7, <1>8

LEMMA WroteSkip ==
    ASSUME EntriesInv, NEW level, NEW I \in SUBSET written, NEW n \in Nat, NEW acc,
           LastOf(I, n, acc), Wrote(level, I, n, acc.tables, acc.open), n + 1 \notin I
    PROVE  LastOf(I, n + 1, acc) /\ Wrote(level, I, n + 1, acc.tables, acc.open)
<1>1. I \subseteq Nat
  BY DEF EntriesInv, Entries
<1>2. \A e \in I : e <= n + 1 <=> e <= n
  BY <1>1
<1>3. LastOf(I, n + 1, acc)
  BY <1>2 DEF LastOf
<1>4. Wrote(level, I, n + 1, acc.tables, acc.open)
  BY <1>1, WroteNot
<1> QED BY <1>3, <1>4

\* What DoCompactionWork keeps between entries.
States(I, G) ==
    [key : Nat, last : Nat, seen : BOOLEAN, passed : SUBSET G, size : Nat,
     tables : SUBSET SUBSET I, open : SUBSET I]

LEMMA WorkOnState ==
    ASSUME EntriesInv, NEW I \in SUBSET written, NEW G, \A g \in G : g \subseteq written,
           NEW c, c.grandparents = G, NEW acc \in States(I, G), NEW e \in I
    PROVE  WorkOn(c, acc, e) \in States(I, G)
<1> DEFINE last == IF KeyOf(e) = acc.key THEN acc.last ELSE MaxWrites + 1
           drop == Dropped(c.level, e, last)
           passed == {g \in c.grandparents : Largest(g) < e}
           size == acc.size + IF acc.seen THEN SizeOf(passed \ acc.passed) ELSE 0
           stop == size > MaxGrandparents
           done == IF stop THEN acc.tables \cup {acc.open} ELSE acc.tables
           rest == IF stop THEN {} ELSE acc.open
           full == ~drop /\ Cardinality(rest \cup {e}) >= TargetSize
           s == IF stop THEN 0 ELSE size
           t == IF full THEN done \cup {rest \cup {e}} ELSE done
           o == IF drop THEN rest ELSE IF full THEN {} ELSE rest \cup {e}
<1>1. /\ acc.size \in Nat /\ acc.tables \in SUBSET SUBSET I /\ acc.open \in SUBSET I
      /\ acc.passed \in SUBSET G
  BY DEF States
<1>2. passed \in SUBSET G
  OBVIOUS
<1>3. SizeOf(passed \ acc.passed) \in Nat
  <2>1. UNION (passed \ acc.passed) \subseteq written
    BY <1>2
  <2>2. IsFiniteSet(UNION (passed \ acc.passed))
    BY <2>1, FS_Subset DEF EntriesInv
  <2> QED BY <2>2, FS_CardinalityType DEF SizeOf
<1> HIDE DEF passed
<1>4. size \in Nat
  <2> DEFINE x == IF acc.seen THEN SizeOf(passed \ acc.passed) ELSE 0
  <2>1. x \in Nat
    BY <1>3
  <2> HIDE DEF x
  <2>2. acc.size + x \in Nat
    BY <1>1, <2>1
  <2> QED BY <2>2 DEF x
<1> HIDE DEF size
<1>5. s \in Nat
  BY <1>4
<1> HIDE DEF stop
<1>6. done \in SUBSET SUBSET I /\ rest \in SUBSET I /\ {e} \in SUBSET I
  BY <1>1
<1> HIDE DEF done, rest, full, drop
<1>7. t \in SUBSET SUBSET I /\ o \in SUBSET I
  BY <1>6
<1>8. KeyOf(e) \in Nat /\ Sequence(e) \in Nat
  BY EntryOrder, Bounds DEF EntriesInv, Entries
<1>9. WorkOn(c, acc, e) = [key |-> KeyOf(e), last |-> Sequence(e), seen |-> TRUE, passed |-> passed,
                           size |-> s, tables |-> t, open |-> o]
  BY DEF WorkOn, s, t, o, size, stop, done, rest, full, drop, passed
<1> HIDE DEF s, t, o
<1> QED BY <1>2, <1>5, <1>7, <1>8, <1>9 DEF States

\* What DoCompactionWork has before its first entry, and after each.
Start == [key |-> 0, last |-> 0, seen |-> FALSE, passed |-> {}, size |-> 0,
          tables |-> {}, open |-> {}]

Top == Entry(MaxKey, 0)

After(c, f) ==
    f = [e \in 0 .. Top |->
            IF e = 0 THEN Start
            ELSE IF e \in UNION (c.in0 \cup c.in1) THEN WorkOn(c, f[e - 1], e) ELSE f[e - 1]]

\* The tables that a compaction of the entries of I writes.
Writes(level, I, outs) ==
    /\ \A f \in outs : f # {} /\ \A e \in f : e \in I /\ ~Outdated(I, e)
    /\ \A f, g \in outs : Apiece(f, g)
    /\ \A e \in I : (\E f \in outs : e \in f) \/ Outdated(I, e) \/ Useless(level, e)

LEMMA TopIs == Top \in Nat
<1>1. CASE MaxKey = 0
  BY <1>1, Bounds DEF Top, Entry
<1>2. CASE MaxKey # 0
  BY <1>2, Bounds, EntryIs DEF Top
<1> QED BY <1>1, <1>2

LEMMA AfterExists ==
    ASSUME EntriesInv, NEW c, UNION (c.in0 \cup c.in1) \subseteq written,
           \A g \in c.grandparents : g \subseteq written
    PROVE  \E f : After(c, f)
<1> DEFINE I == UNION (c.in0 \cup c.in1)
           V == States(I, c.grandparents)
<1>i. I \in SUBSET written
  OBVIOUS
<1> HIDE DEF I
<1>v. ASSUME NEW acc \in V, NEW e \in I PROVE WorkOn(c, acc, e) \in V
  BY <1>i, WorkOnState
<1>s. Start \in V
  BY DEF Start, States
<1> HIDE DEF V
<1> DEFINE F == [p \in Nat \X V |-> IF p[1] \in I THEN WorkOn(c, p[2], p[1]) ELSE p[2]]
<1>1. StepsOf(F, V)
  <2>1. ASSUME NEW p \in Nat \X V PROVE (IF p[1] \in I THEN WorkOn(c, p[2], p[1]) ELSE p[2]) \in V
    <3>1. p[2] \in V
      OBVIOUS
    <3>2. CASE p[1] \in I
      BY <1>v, <3>1, <3>2
    <3> QED BY <3>1, <3>2
  <2> QED BY <2>1 DEF StepsOf
<1>2. \A m \in Nat, x \in V : F[<<m, x>>] = IF m \in I THEN WorkOn(c, x, m) ELSE x
  OBVIOUS
<1> HIDE DEF F
<1>y. PICK f : Computed(F, V, Start, Top, f)
  BY <1>1, <1>s, TopIs, ComputedExists
<1>3. /\ f \in [0 .. Top -> V] /\ f[0] = Start
      /\ \A m \in 1 .. Top : f[m] = F[<<m, f[m - 1]>>]
  BY <1>y DEF Computed
<1> DEFINE W(m) == IF m = 0 THEN Start ELSE IF m \in I THEN WorkOn(c, f[m - 1], m) ELSE f[m - 1]
<1>4. ASSUME NEW m \in 0 .. Top
      PROVE  f[m] = W(m)
  <2>1. CASE m = 0
    BY <1>3, <2>1
  <2>2. CASE m # 0
    <3>1. m \in 1 .. Top /\ m - 1 \in 0 .. Top /\ m \in Nat
      BY <2>2, TopIs
    <3>2. f[m - 1] \in V
      BY <1>3, <3>1
    <3>3. f[m] = F[<<m, f[m - 1]>>]
      BY <1>3, <3>1
    <3>4. F[<<m, f[m - 1]>>] = IF m \in I THEN WorkOn(c, f[m - 1], m) ELSE f[m - 1]
      BY <1>2, <3>1, <3>2
    <3> QED BY <2>2, <3>3, <3>4
  <2> QED BY <2>1, <2>2
<1>5. f = [m \in 0 .. Top |-> W(m)]
  <2>1. f = [m \in 0 .. Top |-> f[m]]
    BY <1>3
  <2> HIDE DEF W
  <2> QED BY <1>4, <2>1
<1>6. After(c, f)
  BY <1>5 DEF After, I
<1> QED BY <1>6

LEMMA AfterIs ==
    ASSUME EntriesInv, NEW c, UNION (c.in0 \cup c.in1) \subseteq written, NEW f, After(c, f)
    PROVE  Wrote(c.level, UNION (c.in0 \cup c.in1), Top, f[Top].tables, f[Top].open)
<1> DEFINE I == UNION (c.in0 \cup c.in1)
           W(m) == IF m = 0 THEN Start ELSE IF m \in I THEN WorkOn(c, f[m - 1], m) ELSE f[m - 1]
<1>i. I \in SUBSET written
  OBVIOUS
<1>1. \A m \in 0 .. Top : f[m] = W(m)
  <2>1. f = [m \in 0 .. Top |-> W(m)]
    BY DEF After
  <2> HIDE DEF W
  <2> QED BY <2>1
<1> HIDE DEF I
<1>2. f[0] = Start
  BY <1>1, TopIs
<1>3. ASSUME NEW n \in Nat, n + 1 <= Top
      PROVE  /\ n + 1 \in I => f[n + 1] = WorkOn(c, f[n], n + 1)
             /\ n + 1 \notin I => f[n + 1] = f[n]
  <2>1. n + 1 \in 0 .. Top /\ n + 1 # 0 /\ (n + 1) - 1 = n
    BY <1>3, TopIs
  <2>2. f[n + 1] = W(n + 1)
    BY <1>1, <2>1
  <2> QED BY <2>1, <2>2
<1> DEFINE Good(n) == LastOf(I, n, f[n]) /\ Wrote(c.level, I, n, f[n].tables, f[n].open)
           T == {n \in Nat : n <= Top => Good(n)}
<1>0. \A e \in I : e \in Nat /\ ~(e <= 0)
  <2> SUFFICES ASSUME NEW e \in I PROVE e \in Nat /\ ~(e <= 0)
    OBVIOUS
  <2>1. e \in Nat /\ KeyOf(e) \in Key /\ Sequence(e) >= 1 /\ Sequence(e) \in Nat
    BY <1>i, EntryOrder DEF EntriesInv, Entries
  <2>2. ASSUME e = 0 PROVE FALSE
    <3>1. KeyOf(0) = 0
      <4>1. MaxWrites \in Nat /\ 0 + MaxWrites = MaxWrites
        BY Bounds
      <4>2. MaxWrites \div (MaxWrites + 1) = 0
        BY <4>1, DividedIs
      <4> QED BY <4>1, <4>2 DEF KeyOf
    <3> QED BY <2>1, <2>2, <3>1, Bounds
  <2> QED BY <2>1, <2>2
<1>4. 0 \in T
  <2>1. f[0].key = 0 /\ f[0].tables = {} /\ f[0].open = {}
    BY <1>2 DEF Start
  <2>2. LastOf(I, 0, f[0])
    BY <1>0, <2>1 DEF LastOf
  <2>3. Wrote(c.level, I, 0, f[0].tables, f[0].open)
    BY <1>0, <2>1 DEF Wrote
  <2> QED BY <2>2, <2>3
<1>5. ASSUME NEW n \in T \cap Nat PROVE n + 1 \in T
  <2> SUFFICES ASSUME n + 1 <= Top PROVE Good(n + 1)
    OBVIOUS
  <2>1. n \in Nat /\ Good(n)
    BY TopIs
  <2>2. CASE n + 1 \in I
    <3>1. Proceeds(c.level, n + 1, f[n], WorkOn(c, f[n], n + 1))
      BY WorkOnProceeds
    <3>2. Proceeds(c.level, n + 1, f[n], f[n + 1])
      BY <1>3, <2>1, <2>2, <3>1
    <3> QED BY <1>i, <2>1, <2>2, <3>2, WroteStep
  <2>3. CASE n + 1 \notin I
    <3>1. f[n + 1] = f[n]
      BY <1>3, <2>1, <2>3
    <3>2. LastOf(I, n + 1, f[n]) /\ Wrote(c.level, I, n + 1, f[n].tables, f[n].open)
      BY <1>i, <2>1, <2>3, WroteSkip
    <3> QED BY <3>1, <3>2
  <2> QED BY <2>2, <2>3
<1> HIDE DEF T
<1>6. Nat \subseteq T
  BY <1>4, <1>5, FromZero
<1>7. Good(Top)
  BY <1>6, TopIs DEF T
<1> QED BY <1>7 DEF I

LEMMA CompactedIs ==
    ASSUME EntriesInv, NEW c, UNION (c.in0 \cup c.in1) \subseteq written,
           \A g \in c.grandparents : g \subseteq written
    PROVE  Writes(c.level, UNION (c.in0 \cup c.in1), Compacted(c))
<1> DEFINE I == UNION (c.in0 \cup c.in1)
           g == CHOOSE f : After(c, f)
<1>1. After(c, g)
  BY AfterExists
<1>2. Compacted(c) = (g[Top].tables \cup {g[Top].open}) \ {{}}
  BY DEF Compacted, After, Start, Top
<1> HIDE DEF g
<1>3. Wrote(c.level, I, Top, g[Top].tables, g[Top].open)
  BY <1>1, AfterIs
<1>i. \A e \in I : e \in Nat /\ e <= Top
  BY EntriesBelow DEF EntriesInv, Top
<1> DEFINE tables == g[Top].tables
           open == g[Top].open
           outs == Compacted(c)
<1>4. outs = (tables \cup {open}) \ {{}}
  BY <1>2
<1> HIDE DEF I, tables, open, outs
<1>5. Wrote(c.level, I, Top, tables, open)
  BY <1>3 DEF tables, open
<1>6. \A f \in outs : f # {} /\ \A e \in f : e \in I /\ ~Outdated(I, e)
  BY <1>4, <1>5 DEF Wrote
<1>7. \A f, h \in outs : Apiece(f, h)
  BY <1>4, <1>5 DEF Wrote, Apiece
<1>8. \A e \in I : (\E f \in outs : e \in f) \/ Outdated(I, e) \/ Useless(c.level, e)
  BY <1>4, <1>5, <1>i DEF Wrote
<1>9. Writes(c.level, I, outs)
  BY <1>6, <1>7, <1>8 DEF Writes
<1> QED BY <1>9 DEF I, outs

-----------------------------------------------------------------------------
(* A compaction starts *)

LEMMA WritesDisjoint ==
    ASSUME EntriesInv, NEW level, NEW I \in SUBSET written, NEW outs, Writes(level, I, outs)
    PROVE  Disjoint(outs)
<1> SUFFICES ASSUME NEW f \in outs, NEW g \in outs, f # g
             PROVE  Largest(f) < Smallest(g) \/ Largest(g) < Smallest(f)
  BY DEF Disjoint
<1>1. \A p \in outs : Table(p)
  BY DEF Writes, Table, EntriesInv
<1>2. Bounded(f, Smallest(f), Largest(f)) /\ Bounded(g, Smallest(g), Largest(g))
  BY <1>1, TableIs
<1>3. (\A x \in f, y \in g : x < y) \/ (\A x \in f, y \in g : y < x)
  BY DEF Writes, Apiece
<1> QED BY <1>2, <1>3 DEF Bounded

\* What is left out is not missed.
LEMMA WritesFate ==
    ASSUME EntriesInv, TablesInv, NEW l, NEW ins, NEW outs, UNION ins \subseteq written,
           Writes(l, UNION ins, outs), NEW f \in ins, NEW e \in f
    PROVE  (\E g \in outs : e \in g) \/ Replaced(ins, e) \/ Buried(l, outs, e)
<1> DEFINE I == UNION ins
<1>1. SmallestSnapshot \in Nat /\ \A s \in Readers : SmallestSnapshot <= s
  BY SnapshotIs
<1>2. \A d \in I : Sequence(d) \in Nat
  BY EntryOrder DEF EntriesInv, Entries
<1>3. \A s \in Readers : s \in Nat
  BY ReaderIs
<1>4. e \in I
  OBVIOUS
<1>5. CASE Outdated(I, e)
  <2>1. PICK d \in I : Newer(d, e) /\ Sequence(d) <= SmallestSnapshot
    BY <1>5 DEF Outdated
  <2>2. \A s \in Readers : Sequence(d) <= s
    BY <1>1, <1>2, <1>3, <2>1
  <2>3. PICK g \in ins : d \in g
    OBVIOUS
  <2> QED BY <2>1, <2>2, <2>3 DEF Replaced
<1>6. CASE Useless(l, e)
  <2>1. /\ e \in deleted /\ Sequence(e) <= SmallestSnapshot
        /\ IsBaseLevelForKey(l, KeyOf(e))
    BY <1>6 DEF Useless
  <2>2. ASSUME NEW g \in outs, NEW d \in g, Newer(e, d) PROVE FALSE
    <3>1. Outdated(I, d)
      BY <1>4, <2>1, <2>2 DEF Outdated
    <3>2. ~Outdated(UNION ins, d)
      BY DEF Writes
    <3> QED BY <3>1, <3>2
  <2>3. ASSUME NEW m \in Level, NEW g \in levels[m], NEW d \in g, m >= l + 2, KeyOf(d) = KeyOf(e)
        PROVE  FALSE
    <3>1. m \in l + 2 .. NumLevels - 1
      BY <2>3 DEF Level
    <3>2. ~Covers(g, KeyOf(e))
      BY <2>1, <3>1 DEF IsBaseLevelForKey
    <3>3. Bounded(g, Smallest(g), Largest(g))
      BY LevelTables, TableIs DEF Tables
    <3> QED BY <2>3, <3>2, <3>3 DEF Covers, Bounded
  <2> QED BY <2>1, <2>2, <2>3 DEF Buried
<1>7. (\E g \in outs : e \in g) \/ Outdated(I, e) \/ Useless(l, e)
  BY <1>4 DEF Writes
<1> QED BY <1>5, <1>6, <1>7

LEMMA SetUpWorking ==
    ASSUME EntriesInv, TablesInv, OrderInv, NEW l \in Level, l + 1 \in Level,
           NEW in0, NEW top, NEW next, SetUp(l, in0, top, next),
           NEW outs, Writes(l, UNION (top \cup next), outs)
    PROVE  Working(l, top \cup next, outs)
<1> DEFINE ins == top \cup next
<1>l. l \in Nat /\ l + 1 > 0 /\ l + 1 # 0 /\ l # l + 1
  BY Bounds
<1>1. /\ top \subseteq levels[l] /\ next \subseteq levels[l + 1]
      /\ InputsOf(l + 1, top, next) /\ (l = 0 => Closed(0, top))
  BY DEF SetUp, InputsOf
<1>2. \A f \in ins : f \in levels[l] \/ f \in levels[l + 1]
  BY <1>1
<1>3. UNION ins \subseteq written
  BY <1>2 DEF TablesInv
<1>w. Writes(l, UNION ins, outs)
  OBVIOUS
<1>4. ASSUME NEW g \in levels[l], g \in ins PROVE g \in top
  <2> SUFFICES ASSUME g \in next PROVE FALSE
    BY <1>4
  <2>1. g \in levels[l + 1] /\ g # {}
    BY <1>1 DEF TablesInv
  <2>2. g \cap g # {}
    BY <2>1
  <2> QED BY <1>l, <2>1, <2>2 DEF TablesInv
<1>5. ASSUME NEW f, NEW g \in top, f \in levels[l] \/ f \in levels[l + 1],
             NEW d \in f, NEW e \in g, KeyOf(d) = KeyOf(e)
      PROVE  Overlaps(f, KeyOf(Smallest(g)), KeyOf(Largest(g)))
  <2>1. Table(f) /\ Table(g)
    BY <1>1, <1>5, LevelTables DEF Tables
  <2> QED BY <1>5, <2>1, ShareKey
<1>6. ASSUME NEW f \in levels[l], NEW g \in levels[l], f \notin ins, g \in ins,
             NEW d \in f, NEW e \in g, KeyOf(d) = KeyOf(e)
      PROVE  KeyOf(e) \in cut \/ Newer(d, e)
  <2>1. g \in top
    BY <1>4, <1>6
  <2>2. CASE l = 0
    <3>1. Overlaps(f, KeyOf(Smallest(g)), KeyOf(Largest(g)))
      BY <1>5, <1>6, <2>1
    <3>2. f \in top
      BY <1>1, <2>1, <2>2, <3>1 DEF Closed
    <3> QED BY <1>6, <3>2
  <2>3. CASE l # 0
    BY <1>6, <2>3 DEF OrderInv
  <2> QED BY <2>2, <2>3
<1>7. ASSUME NEW f \in levels[l + 1], NEW g \in levels[l], f \notin ins, g \in ins,
             NEW d \in f, NEW e \in g, KeyOf(d) = KeyOf(e)
      PROVE  FALSE
  <2>1. g \in top
    BY <1>4, <1>7
  <2>2. Overlaps(f, KeyOf(Smallest(g)), KeyOf(Largest(g)))
    BY <1>5, <1>7, <2>1
  <2>3. f \in next
    BY <1>1, <2>1, <2>2 DEF InputsOf
  <2> QED BY <1>7, <2>3
<1>8. Disjoint(outs)
  BY <1>3, <1>w, WritesDisjoint
<1>9. ASSUME NEW f \in ins, NEW e \in f
      PROVE  (\E g \in outs : e \in g) \/ Replaced(ins, e) \/ Buried(l, outs, e)
  BY <1>3, <1>w, WritesFate
<1>10. \A f \in outs : f # {} /\ \A e \in f : \E g \in ins : e \in g
  BY <1>w DEF Writes
<1> HIDE DEF ins
<1>11. Working(l, ins, outs)
  BY <1>2, <1>6, <1>7, <1>8, <1>9, <1>10 DEF Working
<1> QED BY <1>11 DEF ins

\* The next level's other tables lie on one side of all of them.
LEMMA SetUpApart ==
    ASSUME EntriesInv, TablesInv, NEW l \in Level, l + 1 \in Level,
           NEW in0, NEW top, NEW next, SetUp(l, in0, top, next)
    PROVE  Apart(l, top \cup next)
<1>l. l \in Nat /\ l + 1 > 0 /\ l + 1 # 0 /\ l + 1 \in Level \ {0}
  BY Bounds
<1>1. /\ top \subseteq levels[l] /\ next \subseteq levels[l + 1] /\ top # {}
      /\ InputsOf(l + 1, top, next)
  BY DEF SetUp, InputsOf
<1>2. Tables(top) /\ Tables(next) /\ Tables(levels[l + 1])
  BY <1>1, LevelTables DEF Tables
<1> DEFINE lo == LowKey(top)
           hi == HighKey(top)
<1>3. Hull(top, lo, hi)
  BY <1>1, <1>2, HullIs
<1> HIDE DEF lo, hi
<1> SUFFICES ASSUME NEW g \in levels[l + 1], g \notin top \cup next
             PROVE  \/ \A f \in top \cup next : Largest(g) < Smallest(f)
                    \/ \A f \in top \cup next : Largest(f) < Smallest(g)
  BY DEF Apart
<1>4. ~Overlaps(g, lo, hi)
  BY <1>1 DEF InputsOf, lo, hi
<1>5. \A f \in next : Overlaps(f, lo, hi)
  BY <1>1, <1>l DEF InputsOf, lo, hi
<1>6. /\ Bounded(g, Smallest(g), Largest(g))
      /\ \A f \in top \cup next : Bounded(f, Smallest(f), Largest(f))
  BY <1>2, TableIs DEF Tables
<1>7. \A f \in next : Largest(g) < Smallest(f) \/ Largest(f) < Smallest(g)
  BY <1>1, <1>l DEF TablesInv, Disjoint
\* An entry of a lower key lies before one of a higher key.
<1>8. ASSUME NEW f \in top \cup next
      PROVE  /\ KeyOf(Largest(g)) < KeyOf(Smallest(f)) => Largest(g) < Smallest(f)
             /\ KeyOf(Largest(f)) < KeyOf(Smallest(g)) => Largest(f) < Smallest(g)
             /\ Largest(g) < Smallest(f) => KeyOf(Largest(g)) <= KeyOf(Smallest(f))
             /\ Largest(f) < Smallest(g) => KeyOf(Largest(f)) <= KeyOf(Smallest(g))
  <2>1. /\ Smallest(f) \in Nat /\ Largest(f) \in Nat /\ Smallest(g) \in Nat /\ Largest(g) \in Nat
        /\ KeyOf(Smallest(f)) \in Nat /\ KeyOf(Largest(f)) \in Nat
        /\ KeyOf(Smallest(g)) \in Nat /\ KeyOf(Largest(g)) \in Nat
    BY <1>6 DEF Bounded
  <2>2. /\ Smallest(f) <= Largest(g) => KeyOf(Smallest(f)) <= KeyOf(Largest(g))
        /\ Smallest(g) <= Largest(f) => KeyOf(Smallest(g)) <= KeyOf(Largest(f))
        /\ Largest(g) <= Smallest(f) => KeyOf(Largest(g)) <= KeyOf(Smallest(f))
        /\ Largest(f) <= Smallest(g) => KeyOf(Largest(f)) <= KeyOf(Smallest(g))
    BY <2>1, EntryOrder
  <2> QED BY <2>1, <2>2
<1>9. /\ lo \in Nat /\ hi \in Nat /\ lo <= hi
      /\ \A f \in top : lo <= KeyOf(Smallest(f)) /\ KeyOf(Largest(f)) <= hi
  BY <1>3 DEF Hull
<1>10. /\ KeyOf(Smallest(g)) \in Nat /\ KeyOf(Largest(g)) \in Nat
       /\ KeyOf(Smallest(g)) <= KeyOf(Largest(g))
  BY <1>6 DEF Bounded
<1>11. \A f \in top \cup next : /\ KeyOf(Smallest(f)) \in Nat /\ KeyOf(Largest(f)) \in Nat
                                /\ KeyOf(Smallest(f)) <= KeyOf(Largest(f))
  BY <1>6 DEF Bounded
<1>12. CASE KeyOf(Largest(g)) < lo
  <2>1. ASSUME NEW f \in top PROVE Largest(g) < Smallest(f)
    BY <1>8, <1>9, <1>10, <1>11, <1>12
  <2>2. ASSUME NEW f \in next PROVE Largest(g) < Smallest(f)
    <3> SUFFICES ASSUME Largest(f) < Smallest(g) PROVE FALSE
      BY <1>7
    <3>1. KeyOf(Largest(f)) <= KeyOf(Smallest(g)) /\ lo <= KeyOf(Largest(f))
      BY <1>5, <1>8 DEF Overlaps
    <3> QED BY <1>9, <1>10, <1>11, <1>12, <3>1
  <2> QED BY <2>1, <2>2
<1>13. CASE hi < KeyOf(Smallest(g))
  <2>1. ASSUME NEW f \in top PROVE Largest(f) < Smallest(g)
    BY <1>8, <1>9, <1>10, <1>11, <1>13
  <2>2. ASSUME NEW f \in next PROVE Largest(f) < Smallest(g)
    <3> SUFFICES ASSUME Largest(g) < Smallest(f) PROVE FALSE
      BY <1>7
    <3>1. KeyOf(Largest(g)) <= KeyOf(Smallest(f)) /\ KeyOf(Smallest(f)) <= hi
      BY <1>5, <1>8 DEF Overlaps
    <3> QED BY <1>9, <1>10, <1>11, <1>13, <3>1
  <2> QED BY <2>1, <2>2
<1>14. KeyOf(Largest(g)) < lo \/ hi < KeyOf(Smallest(g))
  BY <1>4, <1>9, <1>10 DEF Overlaps
<1> QED BY <1>12, <1>13, <1>14

\* The inputs, and what is written of them.
Starts(l, ins, outs) ==
    /\ Working(l, ins, outs) /\ Apart(l, ins)
    /\ ins # {} /\ \A f \in ins : f \subseteq written

LEMMA SetupStarts ==
    ASSUME EntriesInv, TablesInv, OrderInv, NEW l \in Level, l + 1 \in Level,
           NEW in0 \in SUBSET levels[l], in0 # {}, l = 0 => Closed(0, in0)
    PROVE  /\ Setup(l, in0).level = l /\ Setup(l, in0).in0 # {}
           /\ Setup(l, in0).in0 \subseteq levels[l]
           /\ Connected(in0) => Connected(Setup(l, in0).in0 \cup Setup(l, in0).in1)
           /\ Starts(l, Setup(l, in0).in0 \cup Setup(l, in0).in1, Compacted(Setup(l, in0)))
<1> DEFINE c == Setup(l, in0)
<1>1. c.level = l /\ SetUp(l, in0, c.in0, c.in1)
  BY LevelTables, SetupIs
<1>2. c.grandparents = Deeper(l + 2, c.in0 \cup c.in1)
  BY DEF Setup
<1> HIDE DEF c
<1>3. /\ c.in0 \subseteq levels[l] /\ c.in1 \subseteq levels[l + 1] /\ c.in0 # {}
      /\ Connected(in0) => Connected(c.in0 \cup c.in1)
  BY <1>1 DEF SetUp, InputsOf
<1>4. \A f \in c.in0 \cup c.in1 : f \subseteq written
  BY <1>3 DEF TablesInv
<1>5. \A f \in c.grandparents : f \subseteq written
  <2>1. CASE l + 2 < NumLevels
    <3>1. l + 2 \in Level
      BY <2>1, Bounds
    <3>2. Tables(c.in0 \cup c.in1) /\ c.in0 \cup c.in1 # {}
      BY <1>3, LevelTables DEF Tables
    <3>3. Tables(levels[l + 2])
      BY <3>1, LevelTables
    <3>4. InputsOf(l + 2, c.in0 \cup c.in1, Inputs(l + 2, c.in0 \cup c.in1))
      BY <3>1, <3>2, <3>3, InputsAre
    <3>5. c.grandparents = Inputs(l + 2, c.in0 \cup c.in1)
      BY <1>2, <2>1 DEF Deeper
    <3>6. c.grandparents \subseteq levels[l + 2]
      BY <3>4, <3>5 DEF InputsOf
    <3> QED BY <3>1, <3>6 DEF TablesInv
  <2>2. CASE ~(l + 2 < NumLevels)
    BY <1>2, <2>2 DEF Deeper
  <2> QED BY <2>1, <2>2
<1>6. UNION (c.in0 \cup c.in1) \subseteq written
  BY <1>4
<1>7. Writes(l, UNION (c.in0 \cup c.in1), Compacted(c))
  BY <1>1, <1>5, <1>6, CompactedIs
<1>8. Working(l, c.in0 \cup c.in1, Compacted(c))
  BY <1>1, <1>7, SetUpWorking
<1>9. Apart(l, c.in0 \cup c.in1)
  BY <1>1, SetUpApart
<1>10. Starts(l, c.in0 \cup c.in1, Compacted(c))
  BY <1>3, <1>4, <1>8, <1>9 DEF Starts
<1> QED BY <1>1, <1>3, <1>10 DEF c

\* A single table may be moved as it is.
LEMMA MoveStarts ==
    ASSUME NEW l, NEW f, NEW outs, Starts(l, {f}, outs), f # {}
    PROVE  Starts(l, {f}, {f})
<1>1. \A e \in f : \E g \in {f} : e \in g
  OBVIOUS
<1>2. Disjoint({f})
  BY DEF Disjoint
<1>3. Working(l, {f}, {f})
  BY <1>1, <1>2 DEF Starts, Working
<1> QED BY <1>3 DEF Starts

\* The tables of the new version.
Shifted(l, ins, outs, new) ==
    \A m \in Level : \A f :
        f \in new[m] <=> (f \in levels[m] /\ f \notin ins) \/ (m = l + 1 /\ f \in outs)

LEMMA ShiftedIs ==
    ASSUME EntriesInv, TablesInv, NEW l, NEW ins, NEW outs, Working(l, ins, outs),
           levels \in [Level -> SUBSET SUBSET written],
           NEW new, new = [levels EXCEPT ![l] = @ \ ins, ![l + 1] = (@ \ ins) \cup outs]
    PROVE  Shifted(l, ins, outs, new) /\ new \in [Level -> SUBSET SUBSET written]
<1>l. l \in Level /\ l + 1 \in Level /\ l # l + 1
  BY Bounds DEF Working
<1>1. /\ new[l] = levels[l] \ ins /\ new[l + 1] = (levels[l + 1] \ ins) \cup outs
      /\ \A m \in Level : m # l /\ m # l + 1 => new[m] = levels[m]
  BY <1>l
<1>2. ASSUME NEW m \in Level, m # l, m # l + 1, NEW f \in levels[m], f \in ins PROVE FALSE
  <2>1. (f \in levels[l] \/ f \in levels[l + 1]) /\ f # {}
    BY <1>2 DEF Working, TablesInv
  <2>2. f \cap f # {}
    BY <2>1
  <2> QED BY <1>l, <1>2, <2>1, <2>2 DEF TablesInv
<1>3. ASSUME NEW m \in Level, NEW f
      PROVE  f \in new[m] <=> (f \in levels[m] /\ f \notin ins) \/ (m = l + 1 /\ f \in outs)
  <2>1. CASE m = l
    BY <1>l, <1>1, <2>1
  <2>2. CASE m = l + 1
    BY <1>l, <1>1, <2>2
  <2>3. CASE m # l /\ m # l + 1
    BY <1>1, <1>2, <2>3
  <2> QED BY <2>1, <2>2, <2>3
<1>4. outs \subseteq SUBSET written
  BY OutputsFrom
<1>5. new \in [Level -> SUBSET SUBSET written]
  BY <1>l, <1>4
<1> QED BY <1>3, <1>5 DEF Shifted

\* The asserts of Builder hold where the other tables are apart.
LEMMA NoAbort ==
    ASSUME EntriesInv, TablesInv, NEW l, NEW ins, NEW outs, Working(l, ins, outs), Apart(l, ins),
           NEW new, Shifted(l, ins, outs, new)
    PROVE  \A m \in Level \ {0} : Disjoint(new[m])
<1>l. l \in Level /\ l + 1 \in Level /\ l + 1 \in Level \ {0}
  BY Bounds DEF Working
<1>1. \A m \in Level : \A f :
        f \in new[m] <=> (f \in levels[m] /\ f \notin ins) \/ (m = l + 1 /\ f \in outs)
  BY DEF Shifted
<1>2. ASSUME NEW f \in levels[l + 1], f \notin ins, NEW g \in outs
      PROVE  Largest(f) < Smallest(g) \/ Largest(g) < Smallest(f)
  <2>1. (\A h \in ins : Largest(f) < Smallest(h)) \/ (\A h \in ins : Largest(h) < Smallest(f))
    BY <1>2 DEF Apart
  <2>2. \A p \in outs : Table(p)
    <3>1. \A p \in outs : \A e \in p : e \in Entries
      BY OutputsFrom
    <3>2. \A p \in outs : p # {}
      BY DEF Working
    <3> QED BY <3>1, <3>2 DEF Table
  <2>3. \A h \in ins : Table(h)
    <3>1. \A h \in ins : h \in levels[l] \/ h \in levels[l + 1]
      BY DEF Working
    <3> QED BY <1>l, <3>1, LevelTables DEF Tables
  <2>4. Bounded(g, Smallest(g), Largest(g)) /\ Bounded(f, Smallest(f), Largest(f))
    BY <1>l, <2>2, LevelTables, TableIs DEF Tables
  <2>5. PICK h \in ins : Smallest(g) \in h
    BY <2>4 DEF Bounded, Working
  <2>6. PICK k \in ins : Largest(g) \in k
    BY <2>4 DEF Bounded, Working
  <2>7. Bounded(h, Smallest(h), Largest(h)) /\ Bounded(k, Smallest(k), Largest(k))
    BY <2>3, TableIs
  <2>8. /\ Smallest(h) <= Smallest(g) /\ Largest(g) <= Largest(k)
        /\ Smallest(h) \in Nat /\ Largest(k) \in Nat /\ Smallest(g) \in Nat /\ Largest(g) \in Nat
        /\ Smallest(f) \in Nat /\ Largest(f) \in Nat
    BY <2>4, <2>5, <2>6, <2>7 DEF Bounded
  <2>9. Largest(f) < Smallest(h) \/ Largest(k) < Smallest(f)
    BY <2>1
  <2> QED BY <2>8, <2>9
<1>3. ASSUME NEW m \in Level \ {0}, NEW f \in new[m], NEW g \in new[m], f # g
      PROVE  Largest(f) < Smallest(g) \/ Largest(g) < Smallest(f)
  <2>1. CASE f \in levels[m] /\ g \in levels[m]
    BY <1>3, <2>1 DEF TablesInv, Disjoint
  <2>2. CASE m = l + 1 /\ f \in outs /\ g \in outs
    BY <1>3, <2>2 DEF Working, Disjoint
  <2>3. CASE m = l + 1 /\ f \in levels[m] /\ f \notin ins /\ g \in outs
    BY <1>2, <2>3
  <2>4. CASE m = l + 1 /\ g \in levels[m] /\ g \notin ins /\ f \in outs
    BY <1>2, <2>4
  <2> QED BY <1>1, <2>1, <2>2, <2>3, <2>4
<1>4. ASSUME NEW m \in Level \ {0} PROVE Disjoint(new[m])
  BY <1>3 DEF Disjoint
<1> QED BY <1>4

-----------------------------------------------------------------------------
(* The steps of a compaction *)

LEMMA WorkStarts ==
    ASSUME VersionsInv, NEW l, NEW ins, NEW outs, Starts(l, ins, outs),
           UNCHANGED <<written, deleted, mem, levels, seekFile, snapshots, manual, cut, aborted>>,
           comp'.level = l, comp'.inputs = ins, comp'.outputs = outs,
           comp'.manual \/ Connected(ins),
           comp'.manual => manual # None /\ comp'.end \in Nat
    PROVE  VersionsInv'
<1>1. EntriesInv /\ TablesInv /\ DataInv
  BY DEF VersionsInv, DataInv
<1>2. SameEntries
  BY <1>1 DEF SameEntries, EntriesInv
<1>3. DataInv'
  BY <1>1, <1>2, QuietData
<1>4. Working(l, ins, outs)'
  <2>1. Readers' = Readers
    BY DEF Readers, LastSeq
  <2> QED BY <1>1, <2>1, WorkingQuiet DEF Starts
<1>5. Apart(l, ins)'
  BY DEF Starts, Apart
<1>6. Works(l, ins, outs)'
  BY <1>4, <1>5 DEF Works
<1>7. CompInv'
  BY <1>6 DEF CompInv
<1>8. SeekInv' /\ ManualInv' /\ (levels \in [Level -> SUBSET SUBSET written])'
  BY DEF VersionsInv, SeekInv, ManualInv
<1> QED BY <1>3, <1>7, <1>8 DEF VersionsInv

LEMMA CutByOne == ASSUME NEW f PROVE CutBy({f}) = {}
BY DEF CutBy

\* The table is at the next level.
LEMMA MoveIsDone ==
    ASSUME VersionsInv, comp = None, NEW l, NEW f, Starts(l, {f}, {f}),
           UNCHANGED <<written, deleted, mem, snapshots, comp, manual, cut>>,
           NewVersion([levels EXCEPT ![l] = @ \ {f}, ![l + 1] = @ \cup {f}])
    PROVE  VersionsInv' /\ aborted' = aborted
<1>1. EntriesInv /\ TablesInv /\ DataInv /\ levels \in [Level -> SUBSET SUBSET written]
  BY DEF VersionsInv, DataInv
<1>2. Working(l, {f}, {f}) /\ Apart(l, {f})
  BY DEF Starts
<1> DEFINE new == [levels EXCEPT ![l] = @ \ {f}, ![l + 1] = @ \cup {f}]
<1>3. new = [levels EXCEPT ![l] = @ \ {f}, ![l + 1] = (@ \ {f}) \cup {f}]
  <2>1. \A S : S \cup {f} = (S \ {f}) \cup {f}
    OBVIOUS
  <2>2. l \in Level /\ l + 1 \in Level /\ l # l + 1
    BY <1>2, Bounds DEF Working
  <2> QED BY <1>1, <2>1, <2>2
<1>n. NewVersion(new)
  OBVIOUS
<1> HIDE DEF new
<1>4. Shifted(l, {f}, {f}, new) /\ new \in [Level -> SUBSET SUBSET written]
  BY <1>1, <1>2, <1>3, ShiftedIs
<1>5. \A m \in Level \ {0} : Disjoint(new[m])
  BY <1>1, <1>2, <1>4, NoAbort
<1>6. levels' = new /\ seekFile' = None /\ aborted' = aborted
  BY <1>5, <1>n DEF NewVersion
<1>7. SameEntries
  BY <1>1, <1>6 DEF SameEntries, EntriesInv
<1>8. Moved(l, {f}, {f})
  BY <1>4, <1>5, <1>6, CutByOne DEF Moved, Shifted
<1>9. DataInv'
  BY <1>1, <1>2, <1>7, <1>8, MovedData
<1>10. CompInv' /\ SeekInv' /\ ManualInv' /\ (levels \in [Level -> SUBSET SUBSET written])'
  BY <1>4, <1>6 DEF VersionsInv, CompInv, SeekInv, ManualInv
<1> QED BY <1>6, <1>9, <1>10 DEF VersionsInv

\* The compaction is installed.
LEMMA InstallInv ==
    ASSUME VersionsInv, Install
    PROVE  VersionsInv' /\ (aborted' => comp.manual)
<1>1. EntriesInv /\ TablesInv /\ DataInv /\ levels \in [Level -> SUBSET SUBSET written]
  BY DEF VersionsInv, DataInv
<1>2. PICK l, ins, outs : Works(l, ins, outs)
  BY DEF Install, VersionsInv, CompInv
<1>3. Working(l, ins, outs)
  BY <1>2 DEF Works
<1> DEFINE new == [levels EXCEPT ![l] = @ \ ins, ![l + 1] = (@ \ ins) \cup outs]
<1>4. /\ ~aborted /\ NewVersion(new) /\ cut' = cut \cup CutBy(outs) /\ comp' = None
      /\ manual' = IF comp.manual THEN [manual EXCEPT !.lo = comp.end, !.posted = FALSE]
                   ELSE manual
      /\ UNCHANGED <<written, deleted, mem, pointer, snapshots, extras>>
  BY <1>2 DEF Install, Works
<1>5. Shifted(l, ins, outs, new) /\ new \in [Level -> SUBSET SUBSET written]
  BY <1>1, <1>3, ShiftedIs
<1> HIDE DEF new
<1>6. ManualInv'
  <2>1. CASE comp.manual
    <3>1. manual # None /\ comp.end \in Nat
      BY <1>2, <2>1 DEF Works
    <3>2. manual \in [level : 0 .. NumLevels - 2, lo : Nat, hi : Nat, posted : BOOLEAN]
      BY <3>1 DEF VersionsInv, ManualInv
    <3>3. manual' = [manual EXCEPT !.lo = comp.end, !.posted = FALSE]
      BY <1>4, <2>1
    <3>4. manual' \in [level : 0 .. NumLevels - 2, lo : Nat, hi : Nat, posted : BOOLEAN]
      BY <3>1, <3>2, <3>3
    <3> QED BY <3>4 DEF ManualInv
  <2>2. CASE ~comp.manual
    BY <1>4, <2>2 DEF VersionsInv, ManualInv
  <2> QED BY <2>1, <2>2
<1>7. CompInv'
  BY <1>4 DEF CompInv
<1>8. CASE \A m \in Level \ {0} : Disjoint(new[m])
  <2>1. levels' = new /\ seekFile' = None /\ aborted' = aborted
    BY <1>4, <1>8 DEF NewVersion
  <2>2. SameEntries
    BY <1>1, <1>4, <2>1 DEF SameEntries, EntriesInv
  <2>3. Moved(l, ins, outs)
    BY <1>4, <1>5, <1>8, <2>1 DEF Moved, Shifted
  <2>4. DataInv'
    BY <1>1, <1>3, <2>2, <2>3, MovedData
  <2>5. SeekInv' /\ (levels \in [Level -> SUBSET SUBSET written])'
    BY <1>4, <1>5, <2>1 DEF SeekInv
  <2> QED BY <1>4, <1>6, <1>7, <2>1, <2>4, <2>5 DEF VersionsInv
<1>9. CASE ~(\A m \in Level \ {0} : Disjoint(new[m]))
  <2>1. aborted' = TRUE /\ levels' = levels /\ seekFile' = seekFile
    BY <1>4, <1>9 DEF NewVersion
  <2>2. SameEntries
    BY <1>1, <1>4, <2>1 DEF SameEntries, EntriesInv
  <2>3. DataInv'
    BY <1>1, <1>4, <2>1, <2>2, QuietData
  <2>4. SeekInv' /\ (levels \in [Level -> SUBSET SUBSET written])'
    BY <1>4, <2>1 DEF VersionsInv, SeekInv
  <2>5. comp.manual
    <3> SUFFICES ASSUME ~comp.manual PROVE FALSE
      OBVIOUS
    <3>1. Apart(l, ins)
      BY <1>2 DEF Works
    <3> QED BY <1>1, <1>3, <1>5, <1>9, <3>1, NoAbort
  <2> QED BY <1>6, <1>7, <2>3, <2>4, <2>5 DEF VersionsInv
<1> QED BY <1>8, <1>9

LEMMA BeginInv ==
    ASSUME VersionsInv, comp = None, NEW l \in Level, l + 1 \in Level,
           NEW in0 \in SUBSET levels[l], in0 # {}, l = 0 => Closed(0, in0),
           NEW c, c = Setup(l, in0), NEW isManual, NEW end,
           isManual \/ Connected(in0), isManual => manual # None /\ end \in Nat,
           Begin(c, isManual, end)
    PROVE  VersionsInv' /\ aborted' = aborted
<1>1. EntriesInv /\ TablesInv /\ OrderInv
  BY DEF VersionsInv, DataInv
<1> DEFINE ins == c.in0 \cup c.in1
<1>2. /\ c.level = l
      /\ Connected(in0) => Connected(ins)
      /\ Starts(l, ins, Compacted(c)) /\ c.in0 \subseteq levels[l]
  BY <1>1, SetupStarts
<1>3. CASE ~isManual /\ IsTrivialMove(c)
  <2>1. Cardinality(c.in0) = 1 /\ c.in1 = {}
    BY <1>3 DEF IsTrivialMove
  <2>2. PICK f : c.in0 = {f}
    <3>1. IsFiniteSet(c.in0)
      <4>1. IsFiniteSet(SUBSET written)
        BY <1>1, FS_SUBSET DEF EntriesInv
      <4>2. c.in0 \subseteq SUBSET written
        BY <1>1, <1>2 DEF TablesInv
      <4> QED BY <4>1, <4>2, FS_Subset
    <3> QED BY <2>1, <3>1, FS_Singleton
  <2>3. ins = {f} /\ f # {}
    BY <1>1, <1>2, <2>1, <2>2 DEF TablesInv
  <2>4. Starts(l, {f}, {f})
    BY <1>2, <2>3, MoveStarts
  <2>5. NewVersion([levels EXCEPT ![c.level] = @ \ c.in0, ![c.level + 1] = @ \cup c.in0])
    BY <1>3 DEF Begin
  <2>6. UNCHANGED <<written, deleted, mem, snapshots, comp, manual, cut>>
    BY <1>3 DEF Begin
  <2>7. c.level = l
    BY <1>2
  <2>8. NewVersion([levels EXCEPT ![l] = @ \ {f}, ![l + 1] = @ \cup {f}])
    BY <2>2, <2>5, <2>7
  <2> QED BY <2>4, <2>6, <2>8, MoveIsDone
<1>4. CASE ~(~isManual /\ IsTrivialMove(c))
  <2>1. /\ comp' = [level |-> c.level, inputs |-> c.in0 \cup c.in1,
                    outputs |-> Compacted(c), manual |-> isManual,
                    end |-> end, was |-> pointer[c.level]]
        /\ UNCHANGED <<levels, seekFile, aborted, written, deleted, mem, snapshots, manual, cut>>
    BY <1>4 DEF Begin
  <2>7. c.level = l
    BY <1>2
  <2>2. /\ comp'.level = l /\ comp'.inputs = ins /\ comp'.outputs = Compacted(c)
        /\ comp'.manual = isManual /\ comp'.end = end
    BY <2>1, <2>7
  <2>3. PICK outs : outs = Compacted(c)
    OBVIOUS
  <2>4. PICK I : I = ins
    OBVIOUS
  <2>8. Starts(l, ins, Compacted(c)) /\ (Connected(in0) => Connected(ins))
    BY <1>2
  <2> HIDE DEF ins
  <2>5. Starts(l, I, outs) /\ (Connected(in0) => Connected(I))
    BY <2>3, <2>4, <2>8
  <2>6. VersionsInv'
    BY <2>1, <2>2, <2>3, <2>4, <2>5, WorkStarts
  <2> QED BY <2>1, <2>6
<1> QED BY <1>3, <1>4

-----------------------------------------------------------------------------
(* Which tables are taken *)

LEMMA FilesAreFinite ==
    ASSUME EntriesInv, TablesInv, NEW l \in Level
    PROVE  /\ Cardinality(levels[l]) \in Nat /\ SizeOf(levels[l]) \in Nat
           /\ levels[l] = {} => Cardinality(levels[l]) = 0 /\ SizeOf(levels[l]) = 0
<1>1. levels[l] \subseteq SUBSET written /\ UNION levels[l] \subseteq written
  BY DEF TablesInv
<1>2. IsFiniteSet(SUBSET written) /\ IsFiniteSet(written)
  BY FS_SUBSET DEF EntriesInv
<1>3. IsFiniteSet(levels[l]) /\ IsFiniteSet(UNION levels[l])
  BY <1>1, <1>2, FS_Subset
<1>4. Cardinality(levels[l]) \in Nat /\ SizeOf(levels[l]) \in Nat
  BY <1>3, FS_CardinalityType DEF SizeOf
<1>5. ASSUME levels[l] = {} PROVE Cardinality(levels[l]) = 0 /\ SizeOf(levels[l]) = 0
  <2>1. UNION levels[l] = {}
    BY <1>5
  <2> QED BY <1>5, <2>1, FS_EmptySet DEF SizeOf
<1> QED BY <1>4, <1>5

Scaling(l, bytes) ==
    bytes = [m \in 1 .. l |-> IF m = 1 THEN LevelLimit ELSE Growth * bytes[m - 1]]

LEMMA ScalingExists ==
    ASSUME NEW l \in Nat \ {0}
    PROVE  \E bytes : Scaling(l, bytes)
<1> DEFINE V == Nat \ {0}
           F == [p \in Nat \X V |-> IF p[1] = 1 THEN LevelLimit ELSE Growth * p[2]]
<1>0. LevelLimit \in V /\ \A x \in V : Growth * x \in V
  BY VersionsAssumption
<1> HIDE DEF V
<1>1. StepsOf(F, V)
  BY <1>0 DEF StepsOf
<1>2. \A m \in Nat, x \in V : F[<<m, x>>] = IF m = 1 THEN LevelLimit ELSE Growth * x
  OBVIOUS
<1> HIDE DEF F
<1>3. PICK f : Computed(F, V, LevelLimit, l, f)
  BY <1>0, <1>1, ComputedExists
<1>4. /\ f \in [0 .. l -> V]
      /\ \A m \in 1 .. l : f[m] = F[<<m, f[m - 1]>>]
  BY <1>3 DEF Computed
<1>5. ASSUME NEW m \in 1 .. l
      PROVE  f[m] = IF m = 1 THEN LevelLimit ELSE Growth * f[m - 1]
  <2>1. m - 1 \in 0 .. l /\ m \in Nat
    OBVIOUS
  <2>2. f[m - 1] \in V
    BY <1>4, <2>1
  <2> QED BY <1>2, <1>4, <2>1, <2>2
<1> DEFINE g == [m \in 1 .. l |-> f[m]]
<1>6. ASSUME NEW m \in 1 .. l
      PROVE  g[m] = IF m = 1 THEN LevelLimit ELSE Growth * g[m - 1]
  <2>1. CASE m = 1
    BY <1>5, <2>1
  <2>2. CASE m # 1
    <3>1. m - 1 \in 1 .. l
      BY <2>2
    <3> QED BY <1>5, <2>2, <3>1
  <2> QED BY <2>1, <2>2
<1>7. g = [m \in 1 .. l |-> IF m = 1 THEN LevelLimit ELSE Growth * g[m - 1]]
  <2>1. g = [m \in 1 .. l |-> g[m]]
    OBVIOUS
  <2> HIDE DEF g
  <2> QED BY <1>6, <2>1
<1> HIDE DEF g
<1>8. Scaling(l, g)
  BY <1>7 DEF Scaling
<1> QED BY <1>8

LEMMA ScalingIs ==
    ASSUME NEW l \in Nat \ {0}, NEW f, Scaling(l, f)
    PROVE  f[l] \in Nat \ {0}
<1> DEFINE W(m) == IF m = 1 THEN LevelLimit ELSE Growth * f[m - 1]
<1>1. \A m \in 1 .. l : f[m] = W(m)
  <2>1. f = [m \in 1 .. l |-> W(m)]
    BY DEF Scaling
  <2> HIDE DEF W
  <2> QED BY <2>1
<1> DEFINE T == {k \in Nat : k + 1 <= l => f[k + 1] \in Nat \ {0}}
<1>2. 0 \in T
  <2>1. 0 + 1 \in 1 .. l /\ 0 + 1 = 1
    OBVIOUS
  <2>2. f[1] = LevelLimit
    BY <1>1, <2>1
  <2> QED BY <2>1, <2>2, VersionsAssumption
<1>3. ASSUME NEW k \in T \cap Nat PROVE k + 1 \in T
  <2> SUFFICES ASSUME (k + 1) + 1 <= l PROVE f[(k + 1) + 1] \in Nat \ {0}
    OBVIOUS
  <2>1. k \in Nat /\ k + 1 <= l /\ (k + 1) + 1 \in 1 .. l /\ (k + 1) + 1 # 1 /\ ((k + 1) + 1) - 1 = k + 1
    OBVIOUS
  <2>2. f[k + 1] \in Nat \ {0}
    BY <2>1
  <2>3. f[(k + 1) + 1] = Growth * f[k + 1]
    BY <1>1, <2>1
  <2> HIDE DEF T
  <2> QED BY <2>2, <2>3, VersionsAssumption
<1> HIDE DEF T
<1>4. Nat \subseteq T
  BY <1>2, <1>3, FromZero
<1>5. l - 1 \in Nat /\ (l - 1) + 1 = l /\ l <= l
  OBVIOUS
<1>6. l - 1 \in T
  BY <1>4, <1>5
<1> QED BY <1>5, <1>6 DEF T

LEMMA MaxBytesIs ==
    ASSUME NEW l \in Nat \ {0}
    PROVE  MaxBytesForLevel(l) \in Nat \ {0}
<1> DEFINE g == CHOOSE f : Scaling(l, f)
<1>1. Scaling(l, g)
  BY ScalingExists
<1>2. MaxBytesForLevel(l) = g[l]
  BY DEF MaxBytesForLevel, Scaling
<1> HIDE DEF g
<1> QED BY <1>1, <1>2, ScalingIs

LEMMA ScoreIs ==
    ASSUME EntriesInv, TablesInv, NEW l \in Level
    PROVE  /\ Score(l)[1] \in Nat /\ Score(l)[2] \in Nat \ {0}
           /\ levels[l] = {} => Score(l)[1] = 0
<1>1. /\ Cardinality(levels[l]) \in Nat /\ SizeOf(levels[l]) \in Nat
      /\ levels[l] = {} => Cardinality(levels[l]) = 0 /\ SizeOf(levels[l]) = 0
  BY FilesAreFinite
<1>2. CASE l = 0
  <2>1. Score(l)[1] = Cardinality(levels[l]) /\ Score(l)[2] = L0Trigger
    BY <1>2 DEF Score
  <2> QED BY <1>1, <2>1, VersionsAssumption
<1>3. CASE l # 0
  <2>1. Score(l)[1] = SizeOf(levels[l]) /\ Score(l)[2] = MaxBytesForLevel(l)
    BY <1>3 DEF Score
  <2>2. MaxBytesForLevel(l) \in Nat \ {0}
    BY <1>3, Bounds, MaxBytesIs
  <2> QED BY <1>1, <2>1, <2>2
<1> QED BY <1>2, <1>3

\* The level that Finalize chose has tables.
LEMMA BestHasTables ==
    ASSUME EntriesInv, TablesInv, SizeCompaction, NEW l \in 0 .. NumLevels - 2, Best(l)
    PROVE  levels[l] # {}
<1> SUFFICES ASSUME levels[l] = {} PROVE FALSE
  OBVIOUS
<1>1. PICK m \in 0 .. NumLevels - 2 : Score(m)[1] >= Score(m)[2]
  BY DEF SizeCompaction
<1>2. l \in Level /\ m \in Level
  BY Bounds DEF Level
<1> DEFINE a == Score(m)[1]
           b == Score(m)[2]
           d == Score(l)[2]
<1>3. a \in Nat \ {0} /\ b \in Nat /\ d \in Nat \ {0} /\ Score(l)[1] = 0
  <2>1. Score(m)[1] \in Nat /\ Score(m)[2] \in Nat \ {0}
    BY <1>2, ScoreIs
  <2>2. Score(l)[2] \in Nat \ {0} /\ Score(l)[1] = 0
    BY <1>2, ScoreIs
  <2>3. Score(m)[1] >= Score(m)[2]
    BY <1>1
  <2> HIDE DEF a, b, d
  <2>4. a = Score(m)[1] /\ b = Score(m)[2] /\ d = Score(l)[2]
    BY DEF a, b, d
  <2>5. a \in Nat /\ b \in Nat \ {0} /\ a >= b
    BY <2>1, <2>3, <2>4
  <2>6. a \in Nat \ {0}
    BY <2>5
  <2> QED BY <2>2, <2>4, <2>5, <2>6
<1>4. Higher(l, m) \/ ~Higher(m, l)
  BY <1>1 DEF Best
<1>5. 0 * b > a * d \/ ~(a * d > 0 * b)
  BY <1>3, <1>4 DEF Higher
<1> HIDE DEF a, b, d
<1>6. a * d \in Nat \ {0} /\ 0 * b = 0
  BY <1>3
<1> QED BY <1>5, <1>6

LEMMA FirstFileIs ==
    ASSUME NEW files, Tables(files), files # {}
    PROVE  FirstFile(files) \in files /\ \A g \in files : Smallest(FirstFile(files)) <= Smallest(g)
<1> DEFINE S == {Smallest(f) : f \in files}
<1>1. \A f \in files : Smallest(f) \in Nat
  BY TableIs DEF Tables, Bounded
<1>2. S \subseteq Nat /\ S # {}
  BY <1>1
<1>3. Min(S) \in S /\ \A x \in S : Min(S) <= x
  <2> HIDE DEF S
  <2> QED BY <1>2, LowestIs
<1>4. PICK f \in files : Smallest(f) = Min(S)
  BY <1>3
<1>5. \A g \in files : Smallest(f) <= Smallest(g)
  BY <1>3, <1>4
<1> HIDE DEF S
<1> QED BY <1>5 DEF FirstFile

LEMMA LastFileIs ==
    ASSUME NEW files, Tables(files), files # {}
    PROVE  LastFile(files) \in files
<1> DEFINE S == {Smallest(f) : f \in files}
<1>1. \A f \in files : Smallest(f) \in Nat /\ Smallest(f) <= Top
  BY TableIs, EntriesBelow DEF Tables, Bounded, Table, Top
<1>2. S \subseteq Nat /\ S # {} /\ \A x \in S : x <= Top
  BY <1>1
<1>3. Max(S) \in S /\ \A x \in S : x <= Max(S)
  <2> HIDE DEF S
  <2> QED BY <1>2, TopIs, HighestIs
<1>4. PICK f \in files : Smallest(f) = Max(S)
  BY <1>3
<1>5. \A g \in files : Smallest(g) <= Smallest(f)
  BY <1>3, <1>4
<1> HIDE DEF S
<1> QED BY <1>5 DEF LastFile

LEMMA NextAtIs ==
    ASSUME EntriesInv, TablesInv, NEW l \in Level, levels[l] # {}
    PROVE  NextAt(l) \in levels[l]
<1> DEFINE later == {f \in levels[l] : Largest(f) > pointer[l]}
           files == IF later = {} THEN levels[l] ELSE later
<1>1. files \subseteq levels[l] /\ files # {}
  OBVIOUS
<1>2. NextAt(l) = FirstFile(files)
  BY DEF NextAt
<1> HIDE DEF files, later
<1>3. Tables(files)
  BY <1>1, LevelTables DEF Tables
<1> QED BY <1>1, <1>2, <1>3, FirstFileIs

LEMMA SomeOfIs ==
    ASSUME NEW l, NEW files, Tables(files), files # {}
    PROVE  SomeOf(l, files) \subseteq files /\ SomeOf(l, files) # {}
<1>1. CASE l = 0
  BY <1>1 DEF SomeOf
<1>2. CASE l # 0
  <2>1. SomeOf(l, files) =
            {f \in files : SizeOf({g \in files : Smallest(g) < Smallest(f)}) < TargetSize}
    BY <1>2 DEF SomeOf
  <2> DEFINE f == FirstFile(files)
  <2>2. f \in files /\ \A g \in files : Smallest(f) <= Smallest(g)
    BY FirstFileIs
  <2> HIDE DEF f
  <2>3. \A g \in files : ~(Smallest(g) < Smallest(f))
    <3>1. \A g \in files : Smallest(g) \in Nat
      BY TableIs DEF Tables, Bounded
    <3> QED BY <2>2, <3>1
  <2>4. UNION {g \in files : Smallest(g) < Smallest(f)} = {}
    BY <2>3
  <2>5. SizeOf({g \in files : Smallest(g) < Smallest(f)}) = 0
    BY <2>4, FS_EmptySet DEF SizeOf
  <2>6. f \in SomeOf(l, files)
    BY <2>1, <2>2, <2>5, VersionsAssumption
  <2> QED BY <2>1, <2>6
<1> QED BY <1>1, <1>2

LEMMA OverlapsItself ==
    ASSUME NEW f, Table(f)
    PROVE  Overlaps(f, KeyOf(Smallest(f)), KeyOf(Largest(f)))
<1>1. Bounded(f, Smallest(f), Largest(f))
  BY TableIs
<1> QED BY <1>1 DEF Bounded, Overlaps

LEMMA CompactInv ==
    ASSUME VersionsInv, Compact
    PROVE  VersionsInv' /\ aborted' = aborted
<1>1. EntriesInv /\ TablesInv /\ SeekInv
  BY DEF VersionsInv, DataInv
<1>2. comp = None /\ (SizeCompaction \/ seekFile # None)
  BY DEF Compact
<1>3. PICK l \in 0 .. NumLevels - 2 :
          /\ IF SizeCompaction THEN Best(l) ELSE l = seekFile.level
          /\ LET f == IF SizeCompaction THEN NextAt(l) ELSE seekFile.file
             IN  Begin(Setup(l, IF l = 0 THEN Inputs(0, {f}) ELSE {f}), FALSE, 0)
  BY DEF Compact
<1>4. l \in Level /\ l + 1 \in Level
  BY Bounds DEF Level
<1>5. PICK f : f = IF SizeCompaction THEN NextAt(l) ELSE seekFile.file
  OBVIOUS
<1>6. f \in levels[l]
  <2>1. CASE SizeCompaction
    <3>1. levels[l] # {}
      BY <1>1, <1>3, <2>1, BestHasTables
    <3> QED BY <1>1, <1>4, <1>5, <2>1, <3>1, NextAtIs
  <2>2. CASE ~SizeCompaction
    BY <1>1, <1>2, <1>3, <1>5, <2>2 DEF SeekInv
  <2> QED BY <2>1, <2>2
<1>7. PICK in0 : in0 = IF l = 0 THEN Inputs(0, {f}) ELSE {f}
  OBVIOUS
<1>8. Begin(Setup(l, in0), FALSE, 0)
  BY <1>3, <1>5, <1>7
<1>9. Table(f) /\ Tables({f}) /\ Connected({f}) /\ Tables(levels[l])
  <2>1. Table(f) /\ Tables(levels[l])
    BY <1>1, <1>4, <1>6, LevelTables DEF Tables
  <2>2. Tables({f})
    BY <2>1 DEF Tables
  <2> QED BY <2>1, <2>2, ConnectedOne
<1>10. in0 \in SUBSET levels[l] /\ f \in in0 /\ Connected(in0) /\ (l = 0 => Closed(0, in0))
  <2>1. CASE l = 0
    <3>1. InputsOf(0, {f}, in0)
      BY <1>4, <1>7, <1>9, <2>1, InputsAre
    <3>2. in0 \subseteq levels[0] /\ Closed(0, in0)
      BY <3>1 DEF InputsOf, Closed
    <3>3. f \in in0
      BY <1>6, <1>9, <2>1, <3>1, OverlapsItself DEF InputsOf
    <3>4. Connected({f} \cup in0)
      BY <1>4, <1>7, <1>9, <2>1, ConnectedInputs
    <3>5. {f} \cup in0 = in0
      BY <3>3
    <3> QED BY <2>1, <3>2, <3>3, <3>4, <3>5
  <2>2. CASE l # 0
    BY <1>6, <1>7, <1>9, <2>2
  <2> QED BY <2>1, <2>2
<1>11. PICK c : c = Setup(l, in0)
  OBVIOUS
<1>12. Begin(c, FALSE, 0)
  BY <1>8, <1>11
<1>13. FALSE \/ Connected(in0)
  BY <1>10
<1>14. in0 # {}
  BY <1>10
<1> QED BY <1>2, <1>4, <1>10, <1>11, <1>12, <1>13, <1>14, BeginInv

LEMMA CompactManualInv ==
    ASSUME VersionsInv, CompactManual
    PROVE  VersionsInv' /\ aborted' = aborted
<1>1. EntriesInv /\ TablesInv /\ ManualInv /\ DataInv
  BY DEF VersionsInv, DataInv
<1>2. comp = None /\ manual # None
  BY DEF CompactManual
<1>3. PICK l \in 0 .. NumLevels - 2, lo \in Nat, hi \in Nat :
          manual.level = l /\ manual.lo = lo /\ manual.hi = hi
  BY <1>1, <1>2 DEF ManualInv
<1>4. l \in Level /\ l + 1 \in Level
  BY Bounds DEF Level
<1>5. PICK found : found = GetOverlappingInputs(l, lo, hi)
  OBVIOUS
<1>6. PICK c : c = Setup(l, SomeOf(l, found))
  OBVIOUS
<1>7. IF found = {}
      THEN /\ manual' = None
           /\ UNCHANGED <<written, deleted, mem, levels, pointer, seekFile, snapshots,
                          comp, extras, cut, aborted>>
      ELSE Begin(c, TRUE, KeyOf(Largest(LastFile(c.in0))))
  BY <1>3, <1>5, <1>6 DEF CompactManual
<1>8. CASE found = {}
  <2>1. /\ manual' = None
        /\ UNCHANGED <<written, deleted, mem, levels, pointer, seekFile, snapshots,
                       comp, extras, cut, aborted>>
    BY <1>7, <1>8
  <2>2. SameEntries
    BY <1>1, <2>1 DEF SameEntries, EntriesInv
  <2>3. DataInv'
    BY <1>1, <2>1, <2>2, QuietData
  <2>4. CompInv' /\ SeekInv' /\ ManualInv' /\ (levels \in [Level -> SUBSET SUBSET written])'
    BY <1>2, <2>1 DEF VersionsInv, CompInv, SeekInv, ManualInv
  <2> QED BY <2>1, <2>3, <2>4 DEF VersionsInv
<1>9. CASE found # {}
  <2>1. Tables(levels[l])
    BY <1>1, <1>4, LevelTables
  <2>2. FoundIn(l, lo, hi, found)
    BY <1>4, <1>5, <2>1, FoundIs
  <2>3. Tables(found) /\ found \subseteq levels[l]
    BY <2>1, <2>2 DEF FoundIn, Tables
  <2>4. PICK in0 : in0 = SomeOf(l, found)
    OBVIOUS
  <2>5. in0 \subseteq found /\ in0 # {}
    BY <1>9, <2>3, <2>4, SomeOfIs
  <2>6. l = 0 => Closed(0, in0)
    <3> SUFFICES ASSUME l = 0 PROVE Closed(0, in0)
      OBVIOUS
    <3>1. in0 = found
      BY <2>4 DEF SomeOf
    <3> QED BY <2>2, <3>1 DEF FoundIn, Closed
  <2>7. in0 \in SUBSET levels[l]
    BY <2>3, <2>5
  <2>8. c = Setup(l, in0)
    BY <1>6, <2>4
  <2>9. c.in0 # {} /\ c.in0 \subseteq levels[l]
    BY <1>1, <1>4, <2>5, <2>6, <2>7, <2>8, SetupStarts DEF DataInv
  <2>10. PICK end : end = KeyOf(Largest(LastFile(c.in0)))
    OBVIOUS
  <2>11. end \in Nat
    <3>1. Tables(c.in0)
      BY <2>1, <2>9 DEF Tables
    <3>2. LastFile(c.in0) \in c.in0
      BY <2>9, <3>1, LastFileIs
    <3>3. Table(LastFile(c.in0))
      BY <3>1, <3>2 DEF Tables
    <3> QED BY <2>10, <3>3, TableIs DEF Bounded
  <2>12. Begin(c, TRUE, end)
    BY <1>7, <1>9, <2>10
  <2> QED BY <1>2, <1>4, <2>5, <2>6, <2>7, <2>8, <2>11, <2>12, BeginInv
<1> QED BY <1>8, <1>9

-----------------------------------------------------------------------------
(* The memtable is flushed *)

LEMMA PickLevelIs ==
    ASSUME EntriesInv, TablesInv
    PROVE  /\ PickLevelForMemTableOutput(mem) \in Level
           /\ Clear(PickLevelForMemTableOutput(mem))
<1> DEFINE lo == KeyOf(Smallest(mem))
           hi == KeyOf(Largest(mem))
           Clean(l) == ~OverlapInLevel(l, lo, hi)
           Push(l) == Clean(l) /\ SizeOf(Deeper(l + 1, {mem})) <= MaxGrandparents
           S == {l \in 0 .. MaxMemCompactLevel : \A i \in 1 .. l : Push(i)}
           L == PickLevelForMemTableOutput(mem)
<1>1. L = IF ~Clean(0) THEN 0 ELSE Max(S)
  BY DEF PickLevelForMemTableOutput
<1>2. Max(S) \in S
  <2>1. S \subseteq Nat /\ \A n \in S : n <= MaxMemCompactLevel
    BY Bounds
  <2>2. 0 \in S
    <3>1. 0 \in 0 .. MaxMemCompactLevel /\ 1 .. 0 = {}
      BY Bounds
    <3> HIDE DEF Push
    <3> QED BY <3>1
  <2> HIDE DEF S
  <2> QED BY <2>1, <2>2, Bounds, HighestIs
<1>3. /\ \A l \in S : l \in Nat /\ l <= MaxMemCompactLevel /\ \A i \in Nat : 0 < i /\ i <= l => Clean(i)
  <2> SUFFICES ASSUME NEW l \in S
               PROVE  l \in Nat /\ l <= MaxMemCompactLevel /\ \A i \in Nat : 0 < i /\ i <= l => Clean(i)
    OBVIOUS
  <2>1. l \in Nat /\ l <= MaxMemCompactLevel
    BY Bounds
  <2>2. \A i \in 1 .. l : Push(i)
    OBVIOUS
  <2>3. \A i \in 1 .. l : Clean(i)
    BY <2>2
  <2>4. \A i \in Nat : 0 < i /\ i <= l => i \in 1 .. l
    BY <2>1
  <2> HIDE DEF Clean
  <2> QED BY <2>1, <2>3, <2>4
<1> HIDE DEF S, L
<1>4. L \in Level
  <2>1. CASE ~Clean(0)
    BY <1>1, <2>1, Bounds
  <2>2. CASE Clean(0)
    <3>1. L \in S
      BY <1>1, <1>2, <2>2
    <3>2. L \in Nat /\ L < NumLevels
      BY <1>3, <3>1, Bounds
    <3> QED BY <3>2, Bounds
  <2> QED BY <2>1, <2>2
<1>5. ASSUME L > 0, NEW m \in Level, NEW f \in levels[m], m <= L PROVE ~Overlaps(f, lo, hi)
  <2>1. Clean(0) /\ L \in S
    BY <1>1, <1>2, <1>5
  <2>2. m \in Nat
    BY Bounds
  <2>3. Clean(m)
    <3> HIDE DEF Clean
    <3> QED BY <1>3, <1>5, <2>1, <2>2
  <2> QED BY <2>3 DEF OverlapInLevel
<1>6. Clear(L)
  BY <1>5 DEF Clear
<1> QED BY <1>4, <1>6 DEF L

\* Once the memtable is at level L.
LEMMA FlushedInv ==
    ASSUME VersionsInv, SameEntries, NEW L \in Level, mem # {}, Clear(L), Flushed(L),
           UNCHANGED <<comp, manual>>, seekFile' = None,
           (levels \in [Level -> SUBSET SUBSET written])'
    PROVE  VersionsInv'
<1>1. EntriesInv /\ TablesInv /\ DataInv
  BY DEF VersionsInv, DataInv
<1>2. Free(L)
  BY <1>1, ClearIsFree
<1>3. DataInv'
  BY <1>1, <1>2, FlushedData
<1>4. CompInv'
  <2> SUFFICES ASSUME comp # None PROVE \E l, ins, outs : Works(l, ins, outs)'
    BY DEF CompInv
  <2>1. PICK l, ins, outs : Works(l, ins, outs)
    BY DEF VersionsInv, CompInv
  <2>2. Working(l, ins, outs)
    BY <2>1 DEF Works
  <2>3. Working(l, ins, outs)'
    BY <1>1, <1>2, <2>2, WorkingFlushed
  <2>4. Connected(ins) /\ Apart(l, ins) => Apart(l, ins)'
    BY <1>1, <2>2, ApartFlushed
  <2>5. Works(l, ins, outs)'
    BY <2>1, <2>3, <2>4 DEF Works
  <2> QED BY <2>5
<1>5. SeekInv' /\ ManualInv'
  BY DEF VersionsInv, SeekInv, ManualInv
<1> QED BY <1>3, <1>4, <1>5 DEF VersionsInv

LEMMA AddedAt ==
    ASSUME NEW L \in Level, NEW S, levels \in [Level -> S], NEW new,
           new = [levels EXCEPT ![L] = @ \cup {mem}]
    PROVE  \A m \in Level : \A f : f \in new[m] <=> f \in levels[m] \/ (m = L /\ f = mem)
<1>1. new[L] = levels[L] \cup {mem} /\ \A m \in Level : m # L => new[m] = levels[m]
  OBVIOUS
<1> QED BY <1>1

LEMMA FlushInv ==
    ASSUME VersionsInv, Flush
    PROVE  VersionsInv' /\ aborted' = aborted
<1>1. /\ EntriesInv /\ TablesInv /\ DataInv
      /\ levels \in [Level -> SUBSET SUBSET written]
  BY DEF VersionsInv, DataInv
<1>2. PICK L \in Level : L = PickLevelForMemTableOutput(mem) /\ Clear(L)
  BY <1>1, PickLevelIs
<1> DEFINE new == [levels EXCEPT ![L] = @ \cup {mem}]
<1>3. /\ mem # {} /\ mem' = {} /\ NewVersion(new)
      /\ UNCHANGED <<written, deleted, pointer, snapshots, comp, manual, extras, cut>>
  BY <1>2 DEF Flush
<1>4. \A m \in Level : \A f : f \in new[m] <=> f \in levels[m] \/ (m = L /\ f = mem)
  BY <1>1, AddedAt
<1>5. new \in [Level -> SUBSET SUBSET written]
  <2>1. {mem} \subseteq SUBSET written
    BY <1>1 DEF EntriesInv
  <2> QED BY <1>1, <2>1
<1> HIDE DEF new
<1>6. Free(L)
  BY <1>1, <1>2, <1>3, ClearIsFree
<1>7. ASSUME NEW m \in Level \ {0} PROVE Disjoint(new[m])
  <2> SUFFICES ASSUME NEW f \in new[m], NEW g \in new[m], f # g
               PROVE  Largest(f) < Smallest(g) \/ Largest(g) < Smallest(f)
    BY DEF Disjoint
  <2>1. CASE f \in levels[m] /\ g \in levels[m]
    BY <1>1, <2>1 DEF TablesInv, Disjoint
  <2>2. m = L => L > 0
    BY Bounds
  <2>3. CASE m = L /\ f \in levels[L] /\ g = mem
    BY <1>6, <2>2, <2>3 DEF Free
  <2>4. CASE m = L /\ g \in levels[L] /\ f = mem
    BY <1>6, <2>2, <2>4 DEF Free
  <2> QED BY <1>4, <2>1, <2>3, <2>4
<1>8. levels' = new /\ seekFile' = None /\ aborted' = aborted
  BY <1>3, <1>7 DEF NewVersion
<1>9. SameEntries
  BY <1>1, <1>3, <1>8 DEF SameEntries, EntriesInv
<1>10. Flushed(L)
  BY <1>3, <1>4, <1>8 DEF Flushed
<1>11. (levels \in [Level -> SUBSET SUBSET written])'
  BY <1>3, <1>5, <1>8
<1> QED BY <1>2, <1>3, <1>8, <1>9, <1>10, <1>11, FlushedInv

-----------------------------------------------------------------------------
(* The other steps *)

LEMMA QuietInv ==
    ASSUME VersionsInv, SameEntries, mem' = mem, levels' = levels, comp' = comp,
           comp # None /\ comp.manual => manual' # None,
           SeekInv', ManualInv'
    PROVE  VersionsInv'
<1>1. EntriesInv /\ TablesInv /\ DataInv
  BY DEF VersionsInv, DataInv
<1>2. DataInv'
  BY <1>1, QuietData
<1>3. CompInv'
  <2> SUFFICES ASSUME comp # None PROVE \E l, ins, outs : Works(l, ins, outs)'
    BY DEF CompInv
  <2>1. PICK l, ins, outs : Works(l, ins, outs)
    BY DEF VersionsInv, CompInv
  <2>2. Working(l, ins, outs)
    BY <2>1 DEF Works
  <2>3. Readers' \subseteq Readers /\ deleted \subseteq deleted' /\ cut \subseteq cut'
    BY SameReaders DEF SameEntries
  <2>4. Working(l, ins, outs)'
    BY <1>1, <2>2, <2>3, WorkingQuiet
  <2>5. Apart(l, ins) => Apart(l, ins)'
    BY DEF Apart
  <2>6. Works(l, ins, outs)'
    BY <2>1, <2>4, <2>5 DEF Works
  <2> QED BY <2>6
<1>4. (levels \in [Level -> SUBSET SUBSET written])'
  BY DEF VersionsInv, SameEntries
<1> QED BY <1>2, <1>3, <1>4 DEF VersionsInv

\* As QuietInv, where the readers may change.
LEMMA WriterInv ==
    ASSUME VersionsInv, DataInv', written \subseteq written', deleted \subseteq deleted',
           UNCHANGED <<levels, comp, manual, seekFile, cut>>,
           \A e \in written : (\A s \in Readers : Sequence(e) <= s) =>
                                  \A s \in Readers' : Sequence(e) <= s
    PROVE  VersionsInv'
<1>1. EntriesInv /\ TablesInv
  BY DEF VersionsInv, DataInv
<1>3. CompInv'
  <2> SUFFICES ASSUME comp # None PROVE \E l, ins, outs : Works(l, ins, outs)'
    BY DEF CompInv
  <2>1. PICK l, ins, outs : Works(l, ins, outs)
    BY DEF VersionsInv, CompInv
  <2>2. Working(l, ins, outs)
    BY <2>1 DEF Works
  <2>4. Working(l, ins, outs)'
    BY <1>1, <2>2, WorkingQuiet
  <2>5. Apart(l, ins) => Apart(l, ins)'
    BY DEF Apart
  <2>6. Works(l, ins, outs)'
    BY <2>1, <2>4, <2>5 DEF Works
  <2> QED BY <2>6
<1>4. (levels \in [Level -> SUBSET SUBSET written])'
  <2>1. SUBSET SUBSET written \subseteq SUBSET SUBSET written'
    OBVIOUS
  <2> QED BY <2>1 DEF VersionsInv
<1>5. SeekInv' /\ ManualInv'
  BY DEF VersionsInv, SeekInv, ManualInv
<1> QED BY <1>3, <1>4, <1>5 DEF VersionsInv

LEMMA WriteInv ==
    ASSUME VersionsInv, NEW k \in Key, NEW del \in BOOLEAN, Write(k, del)
    PROVE  VersionsInv' /\ aborted' = aborted
<1>1. EntriesInv /\ DataInv
  BY DEF VersionsInv, DataInv
<1>2. DataInv'
  BY <1>1, WriteData
<1>3. /\ UNCHANGED <<levels, pointer, seekFile, snapshots, comp, manual, extras, cut, aborted>>
      /\ written \subseteq written'
      /\ deleted \subseteq deleted'
  BY DEF Write
<1>4. LastSeq' = LastSeq + 1
  BY <1>1, WrittenIs
<1>5. \A e \in written : Sequence(e) <= LastSeq /\ Sequence(e) \in Nat /\ LastSeq \in Nat
  BY <1>1, EntryOrder DEF EntriesInv, Entries
<1>6. \A e \in written : (\A s \in Readers : Sequence(e) <= s) =>
                              \A s \in Readers' : Sequence(e) <= s
  BY <1>3, <1>4, <1>5 DEF Readers
<1> QED BY <1>2, <1>3, <1>6, WriterInv

LEMMA SnapshotInv ==
    ASSUME VersionsInv, GetSnapshot
    PROVE  VersionsInv' /\ aborted' = aborted
<1>1. DataInv' /\ Readers' = Readers
  BY SnapshotData DEF VersionsInv
<1>2. UNCHANGED <<written, deleted, mem, levels, pointer, seekFile, comp, manual, cut, aborted>>
  BY DEF GetSnapshot
<1> QED BY <1>1, <1>2, WriterInv

LEMMA ReleaseInv ==
    ASSUME VersionsInv, NEW s \in snapshots, ReleaseSnapshot(s)
    PROVE  VersionsInv' /\ aborted' = aborted
<1>1. /\ snapshots' = snapshots \ {s}
      /\ UNCHANGED <<written, deleted, mem, levels, pointer, seekFile, comp, manual,
                     extras, cut, aborted>>
  BY DEF ReleaseSnapshot
<1>2. SameEntries
  BY <1>1 DEF SameEntries, VersionsInv, DataInv, EntriesInv
<1>3. SeekInv' /\ ManualInv'
  BY <1>1 DEF VersionsInv, SeekInv, ManualInv
<1>4. comp # None /\ comp.manual => manual' # None
  BY <1>1 DEF VersionsInv, CompInv, Works
<1> QED BY <1>1, <1>2, <1>3, <1>4, QuietInv

\* A table of a deeper level that Get reads is the one that FindFile finds.
LEMMA ReadDeep ==
    ASSUME EntriesInv, TablesInv, NEW k, NEW s, NEW f \in FilesRead(k, s)
    PROVE  \E m \in Level : f \in levels[m] /\ (m # 0 => f \in FindFile(levels[m], k, s))
<1>1. CASE f \in levels[0]
  BY <1>1, Bounds
<1>2. CASE f \notin levels[0]
  <2>1. PICK m \in Level \ {0} : f \in FindFile(levels[m], k, s)
    BY <1>2 DEF FilesRead
  <2>2. f \in levels[m]
    BY <2>1 DEF FindFile
  <2> QED BY <2>1, <2>2
<1> QED BY <1>1, <1>2

\* Where more than one table is read, the first is not at the last level.
LEMMA FirstIsUpper ==
    ASSUME EntriesInv, TablesInv, NEW k, NEW s, NEW files \in SUBSET FilesRead(k, s),
           Cardinality(files) > 1, NEW l \in Level, NEW f \in FirstOfFiles(files), f \in levels[l]
    PROVE  l \in 0 .. NumLevels - 2
<1>1. l \in Nat /\ l < NumLevels /\ NumLevels \in Nat /\ NumLevels >= 2
  BY Bounds
<1> SUFFICES ASSUME l = NumLevels - 1 PROVE FALSE
  BY <1>1
<1>2. l # 0
  BY <1>1
<1>3. f \in files /\ \A g \in files : ~ReadBefore(g, f)
  BY DEF FirstOfFiles
<1>4. ASSUME NEW g, NEW m \in Level, g \in levels[l], g \in levels[m] PROVE m = l
  <2>1. g \cap g # {}
    BY <1>4 DEF TablesInv
  <2> QED BY <1>4, <2>1 DEF TablesInv
<1>5. \A g \in levels[l] : Bounded(g, Smallest(g), Largest(g))
  BY LevelTables, TableIs DEF Tables
<1>6. ASSUME NEW g \in files PROVE g = f
  <2>1. PICK m \in Level : g \in levels[m] /\ (m # 0 => g \in FindFile(levels[m], k, s))
    BY <1>6, ReadDeep
  <2>2. PICK n \in Level : f \in levels[n] /\ (n # 0 => f \in FindFile(levels[n], k, s))
    BY <1>3, ReadDeep
  <2>3. n = l
    BY <1>4, <2>2
  <2>4. ~(m < l)
    BY <1>3, <2>1 DEF ReadBefore
  <2>5. m = l
    BY <1>1, <2>1, <2>4, Bounds
  <2>6. f \in FindFile(levels[l], k, s) /\ g \in FindFile(levels[l], k, s)
    BY <1>2, <2>1, <2>2, <2>3, <2>5
  <2>7. Smallest(f) <= Smallest(g) /\ Smallest(g) <= Smallest(f) /\ f \in levels[l] /\ g \in levels[l]
    BY <2>6 DEF FindFile
  <2>8. f = g \/ Largest(f) < Smallest(g) \/ Largest(g) < Smallest(f)
    BY <1>2, <2>7 DEF TablesInv, Disjoint
  <2>9. /\ Smallest(f) \in Nat /\ Largest(f) \in Nat /\ Smallest(f) <= Largest(f)
        /\ Smallest(g) \in Nat /\ Largest(g) \in Nat /\ Smallest(g) <= Largest(g)
    BY <1>5, <2>7 DEF Bounded
  <2> QED BY <2>7, <2>8, <2>9
<1>7. files = {f}
  BY <1>3, <1>6
<1>8. Cardinality({f}) = 1
  BY FS_Singleton
<1> QED BY <1>7, <1>8

LEMMA SeekIs ==
    ASSUME VersionsInv, NEW k, NEW s, NEW files \in SUBSET FilesRead(k, s), UpdateStats(files)
    PROVE  VersionsInv' /\ aborted' = aborted
<1>1. EntriesInv /\ TablesInv
  BY DEF VersionsInv, DataInv
<1>2. PICK l \in Level, f \in FirstOfFiles(files) :
          f \in levels[l] /\ seekFile' = [level |-> l, file |-> f]
  BY DEF UpdateStats
<1>3. UNCHANGED <<written, deleted, mem, levels, pointer, snapshots, comp, manual, cut, aborted>>
  BY DEF UpdateStats
<1>4. Cardinality(files) > 1
  BY DEF UpdateStats
<1>5. l \in 0 .. NumLevels - 2
  BY <1>1, <1>2, <1>4, FirstIsUpper
<1>6. SeekInv'
  BY <1>2, <1>3, <1>5 DEF SeekInv
<1>7. SameEntries
  BY <1>1, <1>3 DEF SameEntries, EntriesInv
<1>8. ManualInv' /\ (comp # None /\ comp.manual => manual' # None)
  BY <1>3 DEF VersionsInv, ManualInv, CompInv, Works
<1> QED BY <1>3, <1>6, <1>7, <1>8, QuietInv

LEMMA ChargesInv ==
    ASSUME VersionsInv, NEW k, NEW s, GetCharges(k, s)
    PROVE  VersionsInv' /\ aborted' = aborted
<1> DEFINE files == {f \in FilesRead(k, s) : \A g \in Hits(k, s) : ~ReadBefore(g, f)}
<1>1. UpdateStats(files) /\ files \in SUBSET FilesRead(k, s)
  BY DEF GetCharges
<1> HIDE DEF files
<1> QED BY <1>1, SeekIs

LEMMA SampleInv ==
    ASSUME VersionsInv, NEW e, RecordReadSample(e)
    PROVE  VersionsInv' /\ aborted' = aborted
<1>1. UpdateStats(FilesRead(KeyOf(e), Sequence(e)))
  BY DEF RecordReadSample
<1> DEFINE files == FilesRead(KeyOf(e), Sequence(e))
<1>2. files \in SUBSET FilesRead(KeyOf(e), Sequence(e))
  OBVIOUS
<1> QED BY <1>1, <1>2, SeekIs

Manuals == [level : 0 .. NumLevels - 2, lo : Nat, hi : Nat, posted : BOOLEAN]

LEMMA NoneIs == \A r \in Manuals : r # None
BY DEF Manuals, None

LEMMA AskInv ==
    ASSUME VersionsInv, NEW l \in 0 .. NumLevels - 2, NEW r \in Ranges, AskManual(l, r[1], r[2])
    PROVE  VersionsInv' /\ aborted' = aborted
<1>1. /\ manual = None /\ manual' = [level |-> l, lo |-> r[1], hi |-> r[2], posted |-> TRUE]
      /\ UNCHANGED <<written, deleted, mem, levels, pointer, seekFile, snapshots, comp, cut,
                     aborted>>
  BY DEF AskManual
<1>2. r[1] \in Nat /\ r[2] \in Nat
  BY VersionsAssumption
<1>3. ManualInv' /\ SeekInv'
  BY <1>1, <1>2 DEF VersionsInv, ManualInv, SeekInv
<1>4. comp # None /\ comp.manual => manual' # None
  BY <1>1 DEF VersionsInv, CompInv, Works
<1>5. SameEntries
  BY <1>1 DEF SameEntries, VersionsInv, DataInv, EntriesInv
<1> QED BY <1>1, <1>3, <1>4, <1>5, QuietInv

LEMMA PostInv ==
    ASSUME VersionsInv, PostManual
    PROVE  VersionsInv' /\ aborted' = aborted
<1>1. /\ manual # None /\ manual' = [manual EXCEPT !.posted = TRUE]
      /\ UNCHANGED <<written, deleted, mem, levels, pointer, seekFile, snapshots, comp, extras,
                     cut, aborted>>
  BY DEF PostManual
<1>2. manual \in Manuals
  BY <1>1 DEF VersionsInv, ManualInv, Manuals
<1>3. manual' \in Manuals
  BY <1>1, <1>2 DEF Manuals
<1>4. manual' # None
  BY <1>3, NoneIs
<1>5. ManualInv' /\ SeekInv'
  BY <1>1, <1>3 DEF VersionsInv, ManualInv, SeekInv, Manuals
<1>6. SameEntries
  BY <1>1 DEF SameEntries, VersionsInv, DataInv, EntriesInv
<1> QED BY <1>1, <1>4, <1>5, <1>6, QuietInv

LEMMA ReopenInv ==
    ASSUME VersionsInv, Reopen
    PROVE  VersionsInv' /\ aborted' = aborted
<1>1. /\ EntriesInv /\ TablesInv /\ DataInv
      /\ levels \in [Level -> SUBSET SUBSET written] /\ 0 \in Level
  BY Bounds DEF VersionsInv, DataInv
<1>2. /\ levels' = [levels EXCEPT ![0] = IF mem = {} THEN @ ELSE @ \cup {mem}]
      /\ mem' = {} /\ snapshots' = {} /\ seekFile' = None /\ comp' = None /\ manual' = None
      /\ UNCHANGED <<written, deleted, cut, aborted>>
  BY DEF Reopen
<1>3. SameEntries
  BY <1>1, <1>2 DEF SameEntries, EntriesInv
<1>4. CompInv' /\ SeekInv' /\ ManualInv'
  BY <1>2 DEF CompInv, SeekInv, ManualInv
<1>5. CASE mem = {}
  <2>1. levels' = levels /\ mem' = mem
    BY <1>1, <1>2, <1>5
  <2>2. DataInv' /\ (levels \in [Level -> SUBSET SUBSET written])'
    BY <1>1, <1>2, <1>3, <2>1, QuietData
  <2> QED BY <1>2, <1>4, <2>2 DEF VersionsInv
<1>6. CASE mem # {}
  <2>1. levels' = [levels EXCEPT ![0] = @ \cup {mem}]
    BY <1>2, <1>6
  <2>2. Flushed(0)
    BY <1>1, <1>2, <2>1, AddedAt DEF Flushed
  <2>3. Free(0)
    BY DEF Free
  <2>4. DataInv'
    BY <1>1, <1>3, <1>6, <2>2, <2>3, FlushedData
  <2>5. {mem} \subseteq SUBSET written
    BY <1>1 DEF EntriesInv
  <2>6. (levels \in [Level -> SUBSET SUBSET written])'
    BY <1>1, <1>2, <2>1, <2>5
  <2> QED BY <1>2, <1>4, <2>4, <2>6 DEF VersionsInv
<1> QED BY <1>5, <1>6

-----------------------------------------------------------------------------
(* What holds of every behaviour *)

LEMMA InitInv == Init => VersionsInv
<1> SUFFICES ASSUME Init PROVE VersionsInv
  OBVIOUS
<1>0. written = {}
  BY DEF Init
<1>1. LastSeq = 0 /\ IsFiniteSet(written)
  <2>1. IsFiniteSet({}) /\ Cardinality({}) = 0
    BY FS_EmptySet
  <2> QED BY <1>0, <2>1 DEF LastSeq
<1>2. EntriesInv
  <2>1. deleted = {} /\ mem = {} /\ snapshots = {}
    BY DEF Init
  <2>2. aborted \in BOOLEAN
    BY DEF Init
  <2>3. LastSeq \in Nat /\ LastSeq <= MaxWrites
    BY <1>1, Bounds
  <2> QED BY <1>0, <1>1, <2>1, <2>2, <2>3 DEF EntriesInv
<1>3. \A l \in Level : levels[l] = {}
  BY DEF Init
<1>4. TablesInv /\ OrderInv
  BY <1>3, Bounds DEF Init, TablesInv, OrderInv, Disjoint
<1>5. HereInv
  BY DEF Init, HereInv
<1>6. CompInv /\ SeekInv /\ ManualInv /\ levels \in [Level -> SUBSET SUBSET written]
  BY DEF Init, CompInv, SeekInv, ManualInv
<1> QED BY <1>2, <1>4, <1>5, <1>6 DEF VersionsInv, DataInv

LEMMA NextInv ==
    ASSUME VersionsInv, [Next]_vars
    PROVE  VersionsInv' /\ (aborted' => aborted \/ (comp # None /\ comp.manual))
<1>1. CASE Background
  <2>1. CASE Flush
    BY <2>1, FlushInv
  <2>2. CASE Compact
    BY <2>2, CompactInv
  <2>3. CASE CompactManual
    BY <2>3, CompactManualInv
  <2>4. CASE Install
    <3>1. comp # None
      BY <2>4 DEF Install
    <3> QED BY <2>4, <3>1, InstallInv
  <2>5. CASE PostManual
    BY <2>5, PostInv
  <2> QED BY <1>1, <2>1, <2>2, <2>3, <2>4, <2>5 DEF Background
<1>2. CASE User
  <2>1. ASSUME NEW k \in Key, Write(k, FALSE) PROVE VersionsInv' /\ aborted' = aborted
    <3>1. FALSE \in BOOLEAN
      OBVIOUS
    <3> QED BY <2>1, <3>1, WriteInv
  <2>2. ASSUME NEW k \in Deletable, Write(k, TRUE) PROVE VersionsInv' /\ aborted' = aborted
    <3>1. TRUE \in BOOLEAN /\ k \in Key
      BY VersionsAssumption DEF Key
    <3> QED BY <2>2, <3>1, WriteInv
  <2>3. CASE GetSnapshot
    BY <2>3, SnapshotInv
  <2>4. ASSUME NEW s \in snapshots, ReleaseSnapshot(s) PROVE VersionsInv' /\ aborted' = aborted
    BY <2>4, ReleaseInv
  <2>5. ASSUME NEW k \in Key, NEW s \in snapshots \cup {LastSeq}, GetCharges(k, s)
        PROVE  VersionsInv' /\ aborted' = aborted
    BY <2>5, ChargesInv
  <2>6. ASSUME NEW e \in written, RecordReadSample(e) PROVE VersionsInv' /\ aborted' = aborted
    BY <2>6, SampleInv
  <2>7. ASSUME NEW l \in 0 .. NumLevels - 2, NEW r \in Ranges, AskManual(l, r[1], r[2])
        PROVE  VersionsInv' /\ aborted' = aborted
    BY <2>7, AskInv
  <2>8. CASE Reopen
    BY <2>8, ReopenInv
  <2> QED BY <1>2, <2>1, <2>2, <2>3, <2>4, <2>5, <2>6, <2>7, <2>8 DEF User
<1>3. CASE UNCHANGED vars
  <2>1. UNCHANGED <<written, deleted, mem, levels, seekFile, snapshots, comp, manual, cut, aborted>>
    BY <1>3 DEF vars
  <2>2. SameEntries
    BY <2>1 DEF SameEntries, VersionsInv, DataInv, EntriesInv
  <2>3. SeekInv' /\ ManualInv' /\ (comp # None /\ comp.manual => manual' # None)
    BY <2>1 DEF VersionsInv, SeekInv, ManualInv, CompInv, Works
  <2> QED BY <2>1, <2>2, <2>3, QuietInv
<1> QED BY <1>1, <1>2, <1>3 DEF Next

\* No step is taken once an assert has failed.
LEMMA AbortedStops ==
    ASSUME Next, aborted
    PROVE  FALSE
BY DEF Next, Background, User, Flush, Compact, CompactManual, Install, PostManual, Write,
       GetSnapshot, ReleaseSnapshot, GetCharges, RecordReadSample, UpdateStats, AskManual,
       Reopen, Extra

\* Every step of flushes, compactions, readers and reopenings leaves the levels in order:
\* of each key not cut, newer versions are above older ones, and what a reader is to
\* find is in the memtable or in a table.
THEOREM LevelsInvariant == Spec => []VersionsInv
<1>1. VersionsInv /\ [Next]_vars => VersionsInv'
  BY NextInv
<1> QED BY <1>1, InitInv, PTL DEF Spec

\* Version::Get and NewInternalIterator find the newest version of every key written that
\* no compaction has cut, at every snapshot.
THEOREM LevelsCorrect == Spec => []UncutReadsNewest
<1>1. VersionsInv => UncutReadsNewest
  BY DataImplies DEF VersionsInv
<1> QED BY <1>1, LevelsInvariant, PTL

\* The asserts of VersionSet::Builder fail at the end of a manual compaction or never: a
\* table flushed while an automatic compaction runs does not land between its inputs.
THEOREM OnlyManualCorrect == Spec => OnlyManualAborts
<1>1. VersionsInv /\ [Next]_vars => [aborted' => comp # None /\ comp.manual]_vars
  <2> SUFFICES ASSUME VersionsInv, Next, aborted' PROVE comp # None /\ comp.manual
    OBVIOUS
  <2> QED BY NextInv, AbortedStops
<1> QED BY <1>1, LevelsInvariant, PTL DEF Spec, OnlyManualAborts
=============================================================================
