--------------------------- MODULE SortedTable_proofs ---------------------------
(***************************************************************************)
(* Proofs about SortedTable, for any bytes, keys, sizes of block, filter   *)
(* and restart interval, and any reads that fail: a table gives back what  *)
(* was added to it, or its iterator owns up that it could not.             *)
(***************************************************************************)
EXTENDS SortedTable, NaturalsInduction, WellFoundedInduction, SequenceTheorems, TLAPS

-----------------------------------------------------------------------------
(* The invariant: blocks *)

Key == Seq(Nat) \ {<<>>}

Ascending(ks) == \A m, n \in 1 .. Len(ks) : m < n => KeyBefore(ks[m], ks[n])

\* What the key of an entry shares its prefix with.
KeyBack(ks, n) == IF n = 1 THEN <<>> ELSE ks[n - 1]

Entry == [shared : Nat, rest : Seq(Nat), value : Nat]

\* The entries of block b stand for the keys ks, also from a restart point on.
Holds(b, ks) ==
    /\ b.entries \in Seq(Entry) /\ ks \in Seq(Key) /\ Len(b.entries) = Len(ks)
    /\ \A n \in 1 .. Len(ks) :
          /\ b.entries[n].shared <= Len(KeyBack(ks, n))
          /\ ks[n] = SubSeq(KeyBack(ks, n), 1, b.entries[n].shared) \o b.entries[n].rest
    /\ b.restarts \in Seq(Nat) /\ Len(b.restarts) > 0 /\ b.restarts[1] = 1
    /\ \A r \in 1 .. Len(b.restarts) : r # 1 =>
          b.restarts[r] \in 1 .. Len(ks) /\ b.entries[b.restarts[r]].shared = 0
    /\ \A q, r \in 1 .. Len(b.restarts) : q < r => b.restarts[q] < b.restarts[r]

\* So that the next key can be added.
Open(b, ks) ==
    /\ Holds(b, ks) /\ b.counter \in Nat /\ (b.counter = 0 <=> Len(ks) = 0)
    /\ b.last = KeyBack(ks, Len(ks) + 1)

\* An iterator of the block stands at the n-th entry.
IsAt(b, ks, i, n) ==
    /\ n \in 1 .. Len(ks) /\ i = [at |-> n, restart |-> i.restart, key |-> ks[n], next |-> n + 1]
    /\ i.restart \in 1 .. Len(b.restarts) /\ b.restarts[i.restart] <= n
    /\ \A r \in 1 .. Len(b.restarts) : r > i.restart => b.restarts[r] >= n

Stands(b, ks, i) == i = Invalid(b) \/ \E n \in 1 .. Len(ks) : IsAt(b, ks, i, n)

-----------------------------------------------------------------------------
(* The invariant: the table, of entries a, blocks d, open block c and index x *)

\* The values of a data block are the places of its entries in the table.
Held(a, b) == [n \in 1 .. Len(b.entries) |-> a[b.entries[n].value]]

Follows(b, place) == \A n \in 1 .. Len(b.entries) : b.entries[n].value = place + n

\* The place of the last entry of a block.
EndOf(d, m) == IF m = 0 THEN 0 ELSE Last(d[m].block.entries).value

AddedInv(a) == a \in Seq(Key) /\ Ascending(a) /\ \A n \in 1 .. Len(a) : a[n] \in InternalKeys

DataInv(a, d, c) ==
    /\ Len(d) \in Nat /\ d = [m \in 1 .. Len(d) |-> d[m]]
    /\ \A m \in 1 .. Len(d) :
          /\ Holds(d[m].block, Held(a, d[m].block)) /\ Len(d[m].block.entries) > 0
          /\ Follows(d[m].block, EndOf(d, m - 1)) /\ EndOf(d, m) \in 1 .. Len(a)
    /\ Open(c, Held(a, c)) /\ Follows(c, EndOf(d, Len(d)))
    /\ Len(a) = EndOf(d, Len(d)) + Len(c.entries)

\* Nothing in an index block is shared.
IndexKeys(x) == [n \in 1 .. Len(x.entries) |-> x.entries[n].rest]

\* A key after the first e entries and before the rest: the last key of the first, or
\* one of a user key nearer than the next.
Between(k, a, e) ==
    /\ ~ KeyBefore(k, a[e])
    /\ e < Len(a) => /\ KeyBefore(k, a[e + 1])
                     /\ k = a[e] \/ BytesBefore(Front(k), Front(a[e + 1]))

IndexInv(a, d, c, x, p) ==
    /\ Open(x, IndexKeys(x)) /\ \A n \in 1 .. Len(x.entries) : x.entries[n].shared = 0
    /\ Follows(x, 0)
    /\ p \in BOOLEAN /\ Len(d) = IF p THEN Len(x.entries) + 1 ELSE Len(x.entries)
    /\ \A m \in 1 .. Len(x.entries) : Between(x.entries[m].rest, a, EndOf(d, m))
    /\ p => c = EmptyBlock

\* The users' keys of a block are in the filter at its place, or in the one being made.
Users(a, b) == {Front(a[b.entries[n].value]) : n \in 1 .. Len(b.entries)}
FilterAt(offset) == (offset \div kFilterBase) + 1
OffsetOf(d) == IF d = <<>> THEN 0 ELSE Last(d).offset + Last(d).span

FilterInv(a, d, c, f, done) ==
    /\ f = [made |-> f.made, keys |-> f.keys] /\ f.made \in Seq(SUBSET Seq(Nat))
    /\ \A m \in 1 .. Len(d) : d[m].offset \in Nat /\ d[m].span \in Nat
    /\ \A m \in 1 .. Len(d) : FilterAt(d[m].offset) <= Len(f.made) =>
          Users(a, d[m].block) \subseteq f.made[FilterAt(d[m].offset)]
    /\ f.keys \in SUBSET Seq(Nat)
    /\ ~ done =>
          /\ OffsetOf(d) \div kFilterBase = Len(f.made)
          /\ Users(a, c) \subseteq f.keys
          /\ \A m \in 1 .. Len(d) :
                /\ d[m].offset <= OffsetOf(d)
                /\ FilterAt(d[m].offset) > Len(f.made) => Users(a, d[m].block) \subseteq f.keys

Built(a, d, c, x, p, f, done) ==
    /\ AddedInv(a) /\ DataInv(a, d, c) /\ IndexInv(a, d, c, x, p) /\ FilterInv(a, d, c, f, done)
    /\ done \in BOOLEAN /\ (done => a # <<>> /\ c = EmptyBlock /\ ~ p)
    /\ ~ done /\ ~ p /\ Len(d) > 0 => Len(c.entries) > 0

BuildInv == Built(added, data, building, index, pending, filters, finished)

-----------------------------------------------------------------------------
(* The invariant: the iterator *)

Position == [at : Nat, restart : Nat, key : Seq(Nat), next : Nat]

IterType ==
    [index : Position, data : Position, block : 0 .. Len(data), error : BOOLEAN, status : BOOLEAN]

InBlocks(t) ==
    /\ t \in IterType /\ Stands(index, IndexKeys(index), t.index)
    /\ t.block # 0 /\ ~ t.error =>
          Stands(data[t.block].block, Held(added, data[t.block].block), t.data)

Ok(t) == t.status /\ ~ t.error

\* It stands at the entry at place p, or has none.
OnEntry(t, p) ==
    LET b == data[t.block].block
    IN  /\ t.block \in 1 .. Len(data) /\ IsAt(index, IndexKeys(index), t.index, t.block)
        /\ \E n \in 1 .. Len(b.entries) :
              IsAt(b, Held(added, b), t.data, n) /\ b.entries[n].value = p

Expects(t, want) ==
    IF t.block = 0 THEN want = <<>>
    ELSE \E p \in 1 .. Len(added) : OnEntry(t, p) /\ want = added[p]

IteratorInv ==
    \/ tableIter = NewTwoLevelIterator /\ expected = <<>>
    \/ finished /\ InBlocks(tableIter) /\ (Ok(tableIter) => Expects(tableIter, expected))

TableInv == BuildInv /\ IteratorInv

-----------------------------------------------------------------------------
(* Numbers *)

\* Induction over the naturals, for a set in place of a predicate.
LEMMA FromZero ==
    ASSUME NEW S, 0 \in S, \A n \in S \cap Nat : n + 1 \in S
    PROVE  Nat \subseteq S
<1> SUFFICES ASSUME NEW m \in Nat, m \notin S PROVE FALSE
  OBVIOUS
<1> DEFINE T == {n \in Nat : n \notin S}
<1>1. T \subseteq Nat /\ T # {}
  OBVIOUS
<1>2. IsWellFoundedOn({ss \in Nat \X Nat : ss[1] < ss[2]}, Nat)
  BY NatLessThanWellFounded DEF OpToRel
<1>3. PICK x \in T : \A y \in T : ~ (<<y, x>> \in {ss \in Nat \X Nat : ss[1] < ss[2]})
  <2> HIDE DEF T
  <2> QED BY <1>1, <1>2, WFMin
<1>4. \A y \in T : ~ (y < x)
  BY <1>3
<1>5. x # 0 /\ x - 1 \in Nat /\ x - 1 < x /\ x = (x - 1) + 1
  OBVIOUS
<1>6. x - 1 \in S
  BY <1>4, <1>5
<1> QED BY <1>5, <1>6

\* The least and the greatest of some numbers.
LEMMA MinIs ==
    ASSUME NEW S, S \subseteq Nat, S # {}
    PROVE  Min(S) \in S /\ \A x \in S : Min(S) <= x
<1>1. IsWellFoundedOn({ss \in Nat \X Nat : ss[1] < ss[2]}, Nat)
  BY NatLessThanWellFounded DEF OpToRel
<1>2. PICK m \in S : \A y \in S : ~ (<<y, m>> \in {ss \in Nat \X Nat : ss[1] < ss[2]})
  BY <1>1, WFMin
<1>3. \A y \in S : ~ (y < m)
  BY <1>2
<1>4. \A y \in S : m <= y
  BY <1>3
<1> QED BY <1>4 DEF Min

LEMMA MaxIs ==
    ASSUME NEW S, S \subseteq Nat, S # {}, NEW b \in Nat, \A x \in S : x <= b
    PROVE  Max(S) \in S /\ \A x \in S : x <= Max(S)
<1> DEFINE T == {b - x : x \in S}
<1>1. T \subseteq Nat
  <2>1. \A x \in S : b - x \in Nat
    OBVIOUS
  <2> QED BY <2>1
<1>2. T # {}
  OBVIOUS
<1>3. Min(T) \in T /\ \A y \in T : Min(T) <= y
  <2> HIDE DEF T
  <2> QED BY <1>1, <1>2, MinIs
<1>4. PICK m \in S : Min(T) = b - m
  BY <1>3
<1>5. \A x \in S : b - m <= b - x
  BY <1>3, <1>4
<1>6. \A x \in S : x <= m
  <2> HIDE DEF T
  <2> QED BY <1>5
<1>7. Max(S) \in S /\ \A x \in S : Max(S) >= x
  <2> HIDE DEF T
  <2>1. \E z \in S : \A x \in S : z >= x
    <3>1. \A x \in S : x \in Nat /\ m \in Nat
      OBVIOUS
    <3> QED BY <1>6, <3>1
  <2> QED BY <2>1 DEF Max
<1> QED
  <2>1. \A x \in S : x \in Nat /\ Max(S) \in Nat
    BY <1>7
  <2> QED BY <1>7, <2>1

LEMMA MinOf ==
    ASSUME NEW S, S \subseteq Nat, NEW m \in S, \A x \in S : m <= x
    PROVE  Min(S) = m
<1>1. Min(S) \in S /\ \A x \in S : Min(S) <= x
  BY MinIs
<1> DEFINE l == Min(S)
<1>2. l \in Nat /\ m \in Nat /\ l <= m /\ m <= l
  BY <1>1
<1>3. l = m
  <2> HIDE DEF l
  <2> QED BY <1>2
<1> QED BY <1>3

LEMMA MaxOf ==
    ASSUME NEW S, S \subseteq Nat, NEW m \in S, \A x \in S : x <= m
    PROVE  Max(S) = m
<1>1. Max(S) \in S /\ \A x \in S : x <= Max(S)
  <2>1. m \in Nat
    OBVIOUS
  <2> QED BY <2>1, MaxIs
<1> DEFINE l == Max(S)
<1>2. l \in Nat /\ m \in Nat /\ l <= m /\ m <= l
  BY <1>1
<1>3. l = m
  <2> HIDE DEF l
  <2> QED BY <1>2
<1> QED BY <1>3

\* What a quotient is.
LEMMA Quotient ==
    ASSUME NEW a \in Nat, NEW n \in Nat, n > 0
    PROVE  /\ a \div n \in Nat
           /\ n * (a \div n) <= a /\ a < n * (a \div n) + n
<1> DEFINE q == a \div n
<1>1. q \in Int
  OBVIOUS
<1>2. n * q \in Int /\ n * q <= a /\ a < n * q + n
  OBVIOUS
<1>3. q >= 0
  <2> HIDE DEF q
  <2> SUFFICES ASSUME q < 0 PROVE FALSE
    BY <1>1
  <2>1. PICK r \in Nat : q = -(1 + r)
    <3>1. -q - 1 \in Nat
      BY <1>1
    <3> QED BY <3>1, <1>1
  <2>2. n * q = -(n + n * r) /\ n * r >= 0 /\ n * r \in Int
    BY <2>1, <1>1
  <2> QED BY <1>1, <1>2, <2>1, <2>2
<1> QED BY <1>1, <1>2, <1>3

LEMMA QuotientIs ==
    ASSUME NEW a \in Nat, NEW n \in Nat, n > 0, NEW q \in Nat,
           n * q <= a, a < n * q + n
    PROVE  a \div n = q
<1> DEFINE p == a \div n
<1>1. p \in Nat /\ n * p <= a /\ a < n * p + n
  BY Quotient
<1> HIDE DEF p
<1>2. ~ (p < q)
  <2> SUFFICES ASSUME p < q PROVE FALSE
    OBVIOUS
  <2>1. PICK r \in Nat : q = p + 1 + r
    <3>1. q - p - 1 \in Nat
      BY <1>1
    <3> QED BY <3>1, <1>1
  <2>2. n * q = n * p + n + n * r /\ n * r >= 0 /\ n * r \in Int /\ n * p \in Int
    BY <2>1, <1>1
  <2> QED BY <2>2, <1>1
<1>3. ~ (q < p)
  <2> SUFFICES ASSUME q < p PROVE FALSE
    OBVIOUS
  <2>1. PICK r \in Nat : p = q + 1 + r
    <3>1. p - q - 1 \in Nat
      BY <1>1
    <3> QED BY <3>1, <1>1
  <2>2. n * p = n * q + n + n * r /\ n * r >= 0 /\ n * r \in Int /\ n * q \in Int
    BY <2>1, <1>1
  <2> QED BY <2>2, <1>1
<1>4. p = q
  BY <1>1, <1>2, <1>3
<1> QED BY <1>4 DEF p

\* What is computed in n steps from a, within a set.
StepsIn(F, V) == F \in [Nat \X V -> V]

Computes(F, V, a, n, f) ==
    /\ f \in [0 .. n -> V] /\ f[0] = a
    /\ \A m \in 1 .. n : f[m] = F[<<m, f[m - 1]>>]

LEMMA StepByStep ==
    ASSUME NEW V, NEW a \in V, NEW F, StepsIn(F, V), NEW n \in Nat
    PROVE  \E f : Computes(F, V, a, n, f)
<1> DEFINE Far(k, f) == /\ f \in [0 .. k -> V] /\ f[0] = a
                        /\ \A m \in 1 .. k : f[m] = F[<<m, f[m - 1]>>]
           T == {k \in Nat : \E f : Far(k, f)}
<1>f. F \in [Nat \X V -> V]
  BY DEF StepsIn
<1>1. 0 \in T
  <2> DEFINE f == [m \in 0 .. 0 |-> a]
  <2>1. Far(0, f)
    OBVIOUS
  <2> QED BY <2>1
<1>2. ASSUME NEW k \in T \cap Nat PROVE k + 1 \in T
  <2>1. PICK g : Far(k, g)
    OBVIOUS
  <2>2. k \in Nat /\ 0 \in 0 .. k /\ k \in 0 .. k
    OBVIOUS
  <2>3. g[k] \in V /\ F[<<k + 1, g[k]>>] \in V
    BY <1>f, <2>1, <2>2
  <2> DEFINE f == [m \in 0 .. k + 1 |-> IF m = k + 1 THEN F[<<k + 1, g[k]>>] ELSE g[m]]
  <2>4. /\ \A m \in 0 .. k : m \in 0 .. k + 1 /\ m # k + 1
        /\ \A m \in 0 .. k + 1 : m \in 0 .. k \/ m = k + 1
        /\ k + 1 \in 0 .. k + 1 /\ (k + 1) - 1 = k
    OBVIOUS
  <2>5. f[k + 1] = F[<<k + 1, g[k]>>] /\ \A m \in 0 .. k : f[m] = g[m]
    BY <2>4
  <2>6. f \in [0 .. k + 1 -> V]
    <3>1. \A m \in 0 .. k + 1 : f[m] \in V
      BY <2>1, <2>3, <2>4, <2>5
    <3>2. f = [m \in 0 .. k + 1 |-> f[m]]
      OBVIOUS
    <3> HIDE DEF f
    <3> QED BY <3>1, <3>2
  <2> HIDE DEF f
  <2>7. ASSUME NEW m \in 1 .. k + 1 PROVE f[m] = F[<<m, f[m - 1]>>]
    <3>1. CASE m = k + 1
      BY <2>2, <2>4, <2>5, <3>1
    <3>2. CASE m # k + 1
      <4>1. m \in 1 .. k /\ m \in 0 .. k /\ m - 1 \in 0 .. k
        BY <2>2, <3>2
      <4> QED BY <2>1, <2>5, <4>1
    <3> QED BY <3>1, <3>2
  <2>8. f[0] = a
    BY <2>1, <2>2, <2>5
  <2>9. Far(k + 1, f)
    BY <2>6, <2>7, <2>8
  <2> HIDE DEF Far
  <2> QED BY <2>2, <2>9
<1> HIDE DEF T
<1>3. Nat \subseteq T
  BY <1>1, <1>2, FromZero
<1>4. PICK f : Far(n, f)
  BY <1>3 DEF T
<1>5. Computes(F, V, a, n, f)
  BY <1>4 DEF Computes
<1> QED BY <1>5

\* A loop that stays in V.
Loops(f, G, V, a, n) ==
    /\ f \in [0 .. n -> V] /\ f[0] = a
    /\ \A m \in 1 .. n : f[m] = G[f[m - 1]] /\ f[m - 1] \in V

LEMMA Loop ==
    ASSUME NEW V, NEW a \in V, NEW G, \A x \in V : G[x] \in V, NEW n \in Nat
    PROVE  \E f : Loops(f, G, V, a, n)
<1> DEFINE F == [p \in Nat \X V |-> G[p[2]]]
<1>1. StepsIn(F, V)
  <2>1. \A p \in Nat \X V : G[p[2]] \in V
    OBVIOUS
  <2> QED BY <2>1 DEF StepsIn
<1>2. \A m \in Nat, x \in V : F[<<m, x>>] = G[x]
  OBVIOUS
<1> HIDE DEF F
<1>3. PICK f : Computes(F, V, a, n, f)
  BY <1>1, StepByStep
<1>4. /\ f \in [0 .. n -> V] /\ f[0] = a
      /\ \A m \in 1 .. n : f[m] = F[<<m, f[m - 1]>>]
  BY <1>3 DEF Computes
<1>5. ASSUME NEW m \in 1 .. n PROVE f[m] = G[f[m - 1]] /\ f[m - 1] \in V
  <2>1. m - 1 \in 0 .. n /\ m \in Nat
    OBVIOUS
  <2>2. f[m - 1] \in V
    BY <1>4, <2>1
  <2> QED BY <1>2, <1>4, <2>1, <2>2
<1>6. Loops(f, G, V, a, n)
  BY <1>4, <1>5 DEF Loops
<1> QED BY <1>6

-----------------------------------------------------------------------------
(* The order of the keys *)

\* How much two strings share.
LEMMA SharedIs ==
    ASSUME NEW u \in Seq(Nat), NEW v \in Seq(Nat)
    PROVE  LET n == Shared(u, v)
           IN  /\ n \in Nat /\ n <= Len(u) /\ n <= Len(v)
               /\ \A i \in 1 .. n : u[i] = v[i]
               /\ n < Len(u) /\ n < Len(v) => u[n + 1] # v[n + 1]
<1> DEFINE L == Min({Len(u), Len(v)})
           S == {n \in 0 .. L : \A i \in 1 .. n : u[i] = v[i]}
<1>l. Len(u) \in Nat /\ Len(v) \in Nat
  OBVIOUS
<1>1. L \in Nat /\ L <= Len(u) /\ L <= Len(v) /\ (L = Len(u) \/ L = Len(v))
  <2> DEFINE T == {Len(u), Len(v)}
  <2>1. T \subseteq Nat /\ T # {} /\ Len(u) \in T /\ Len(v) \in T
    BY <1>l
  <2>2. Min(T) \in T /\ \A x \in T : Min(T) <= x
    <3> HIDE DEF T
    <3> QED BY <2>1, MinIs
  <2> QED BY <2>1, <2>2
<1> HIDE DEF L
<1>2. S \subseteq Nat /\ 0 \in S /\ \A x \in S : x <= L
  BY <1>1
<1>3. Max(S) \in S /\ \A x \in S : x <= Max(S)
  <2> HIDE DEF S
  <2> QED BY <1>1, <1>2, MaxIs
<1> DEFINE n == Shared(u, v)
<1>4. n = Max(S)
  BY DEF Shared, L
<1>5. n \in S /\ \A x \in S : x <= n
  BY <1>3, <1>4
<1> HIDE DEF n
<1>6. n \in Nat /\ n <= Len(u) /\ n <= Len(v) /\ (\A i \in 1 .. n : u[i] = v[i]) /\ n <= L
  BY <1>1, <1>5, <1>l
<1>7. ASSUME n < Len(u), n < Len(v), u[n + 1] = v[n + 1] PROVE FALSE
  <2>1. n + 1 \in 0 .. L
    BY <1>1, <1>6, <1>7, <1>l
  <2>2. \A i \in 1 .. n + 1 : i \in 1 .. n \/ i = n + 1
    BY <1>6
  <2>3. n + 1 \in S
    BY <1>6, <1>7, <2>1, <2>2
  <2>4. n + 1 <= n
    BY <1>5, <2>3
  <2> QED BY <1>6, <2>4
<1> QED BY <1>6, <1>7 DEF n

\* It is the only number of this kind.
LEMMA SharedOnly ==
    ASSUME NEW u \in Seq(Nat), NEW v \in Seq(Nat), NEW m \in Nat, m <= Len(u), m <= Len(v),
           \A i \in 1 .. m : u[i] = v[i],
           m < Len(u) /\ m < Len(v) => u[m + 1] # v[m + 1]
    PROVE  Shared(u, v) = m
<1> DEFINE n == Shared(u, v)
<1>1. /\ n \in Nat /\ n <= Len(u) /\ n <= Len(v)
      /\ \A i \in 1 .. n : u[i] = v[i]
      /\ n < Len(u) /\ n < Len(v) => u[n + 1] # v[n + 1]
  BY SharedIs
<1>2. n = m
  <2> HIDE DEF n
  <2>l. Len(u) \in Nat /\ Len(v) \in Nat
    OBVIOUS
  <2>1. ~ (n < m)
    <3> SUFFICES ASSUME n < m PROVE FALSE
      OBVIOUS
    <3>1. n + 1 \in 1 .. m /\ n < Len(u) /\ n < Len(v)
      BY <1>1, <2>l
    <3> QED BY <1>1, <3>1
  <2>2. ~ (m < n)
    <3> SUFFICES ASSUME m < n PROVE FALSE
      OBVIOUS
    <3>1. m + 1 \in 1 .. n /\ m < Len(u) /\ m < Len(v)
      BY <1>1, <2>l
    <3> QED BY <1>1, <3>1
  <2> QED BY <1>1, <2>1, <2>2
<1> QED BY <1>2

\* A string is before another: where they differ first, and how.
Precedes(u, v, n) ==
    /\ n \in Nat /\ n <= Len(u) /\ n < Len(v) /\ \A i \in 1 .. n : u[i] = v[i]
    /\ n = Len(u) \/ u[n + 1] < v[n + 1]

LEMMA BytesBeforeIs ==
    ASSUME NEW u \in Seq(Nat), NEW v \in Seq(Nat)
    PROVE  BytesBefore(u, v) <=> \E n \in Nat : Precedes(u, v, n)
<1>1. ASSUME BytesBefore(u, v) PROVE Precedes(u, v, Shared(u, v))
  BY <1>1, SharedIs DEF BytesBefore, Precedes
<1>2. ASSUME NEW n \in Nat, Precedes(u, v, n) PROVE BytesBefore(u, v)
  <2>1. /\ n <= Len(u) /\ n < Len(v) /\ \A i \in 1 .. n : u[i] = v[i]
        /\ n = Len(u) \/ u[n + 1] < v[n + 1]
    BY <1>2 DEF Precedes
  <2>2. n < Len(u) => u[n + 1] # v[n + 1]
    <3> SUFFICES ASSUME n < Len(u) PROVE u[n + 1] # v[n + 1]
      OBVIOUS
    <3>1. u[n + 1] < v[n + 1] /\ u[n + 1] \in Nat
      BY <2>1, ElementOfSeq
    <3> QED BY <3>1
  <2>3. n <= Len(v)
    BY <2>1
  <2>4. Shared(u, v) = n
    BY <2>1, <2>2, <2>3, SharedOnly
  <2> QED BY <2>1, <2>4 DEF BytesBefore
<1>3. Shared(u, v) \in Nat
  BY SharedIs
<1> QED BY <1>1, <1>2, <1>3

LEMMA BytesNotBefore ==
    ASSUME NEW u \in Seq(Nat)
    PROVE  ~ BytesBefore(u, u)
<1>1. ASSUME NEW n \in Nat, Precedes(u, u, n) PROVE FALSE
  <2>1. n < Len(u) /\ u[n + 1] < u[n + 1] /\ Len(u) \in Nat
    BY <1>1 DEF Precedes
  <2>2. u[n + 1] \in Nat
    BY <2>1, ElementOfSeq
  <2> QED BY <2>1, <2>2
<1> QED BY <1>1, BytesBeforeIs

LEMMA BytesBeforeThat ==
    ASSUME NEW u \in Seq(Nat), NEW v \in Seq(Nat), NEW w \in Seq(Nat),
           BytesBefore(u, v), BytesBefore(v, w)
    PROVE  BytesBefore(u, w)
<1>l. Len(u) \in Nat /\ Len(v) \in Nat /\ Len(w) \in Nat
  OBVIOUS
<1>e. /\ \A i \in 1 .. Len(u) : u[i] \in Nat
      /\ \A i \in 1 .. Len(v) : v[i] \in Nat
      /\ \A i \in 1 .. Len(w) : w[i] \in Nat
  BY ElementOfSeq
<1>1. PICK n \in Nat : Precedes(u, v, n)
  BY BytesBeforeIs
<1>2. PICK m \in Nat : Precedes(v, w, m)
  BY BytesBeforeIs
<1>3. CASE n < m
  <2>1. /\ n <= Len(u) /\ n < Len(w) /\ \A i \in 1 .. n : i \in 1 .. m /\ u[i] = v[i] /\ v[i] = w[i]
        /\ n + 1 \in 1 .. m
    BY <1>1, <1>2, <1>3, <1>l DEF Precedes
  <2>2. v[n + 1] = w[n + 1] /\ (n = Len(u) \/ u[n + 1] < v[n + 1])
    BY <1>1, <1>2, <2>1 DEF Precedes
  <2>3. Precedes(u, w, n)
    BY <2>1, <2>2 DEF Precedes
  <2> QED BY <2>3, BytesBeforeIs
<1>4. CASE m < n
  <2>a. n <= Len(u) /\ n < Len(v) /\ m < Len(w) /\ (\A i \in 1 .. n : u[i] = v[i])
    BY <1>1, <1>2 DEF Precedes
  <2>b. m <= Len(u) /\ m + 1 \in 1 .. n /\ m # Len(v) /\ \A i \in 1 .. m : i \in 1 .. n
    BY <2>a, <1>4, <1>l
  <2>1. /\ m <= Len(u) /\ m < Len(w) /\ \A i \in 1 .. m : i \in 1 .. n /\ u[i] = v[i] /\ v[i] = w[i]
        /\ m + 1 \in 1 .. n /\ m # Len(v)
    BY <1>2, <2>a, <2>b DEF Precedes
  <2>2. u[m + 1] = v[m + 1] /\ v[m + 1] < w[m + 1]
    BY <1>1, <1>2, <2>1 DEF Precedes
  <2>3. Precedes(u, w, m)
    BY <2>1, <2>2 DEF Precedes
  <2> QED BY <2>3, BytesBeforeIs
<1>5. CASE m = n
  <2>1. /\ m <= Len(u) /\ m < Len(w) /\ \A i \in 1 .. m : u[i] = v[i] /\ v[i] = w[i]
        /\ m # Len(v) /\ m < Len(v)
    BY <1>1, <1>2, <1>5, <1>l DEF Precedes
  <2>2. /\ m = Len(u) \/ u[m + 1] < v[m + 1]
        /\ v[m + 1] < w[m + 1]
    BY <1>1, <1>2, <1>5, <2>1 DEF Precedes
  <2>3. m = Len(u) \/ u[m + 1] < w[m + 1]
    <3> SUFFICES ASSUME m # Len(u) PROVE u[m + 1] < w[m + 1]
      OBVIOUS
    <3>1. m + 1 \in 1 .. Len(u) /\ m + 1 \in 1 .. Len(v) /\ m + 1 \in 1 .. Len(w)
      BY <2>1, <1>l
    <3> QED BY <1>e, <2>2, <3>1
  <2>4. Precedes(u, w, m)
    BY <2>1, <2>3 DEF Precedes
  <2> QED BY <2>4, BytesBeforeIs
<1> QED BY <1>3, <1>4, <1>5

LEMMA BytesTotal ==
    ASSUME NEW u \in Seq(Nat), NEW v \in Seq(Nat), u # v
    PROVE  BytesBefore(u, v) \/ BytesBefore(v, u)
<1> DEFINE n == Shared(u, v)
<1>1. /\ n \in Nat /\ n <= Len(u) /\ n <= Len(v)
      /\ \A i \in 1 .. n : u[i] = v[i]
      /\ n < Len(u) /\ n < Len(v) => u[n + 1] # v[n + 1]
  BY SharedIs
<1> HIDE DEF n
<1>l. Len(u) \in Nat /\ Len(v) \in Nat
  OBVIOUS
<1>2. CASE n = Len(u)
  <2>1. n # Len(v)
    BY <1>1, <1>2, <1>l, SeqEqual
  <2>2. Precedes(u, v, n)
    BY <1>1, <1>2, <1>l, <2>1 DEF Precedes
  <2> QED BY <1>1, <2>2, BytesBeforeIs
<1>3. CASE n # Len(u) /\ n = Len(v)
  <2>1. Precedes(v, u, n)
    BY <1>1, <1>3, <1>l DEF Precedes
  <2> QED BY <1>1, <2>1, BytesBeforeIs
<1>4. CASE n # Len(u) /\ n # Len(v)
  <2>1. n + 1 \in 1 .. Len(u) /\ n + 1 \in 1 .. Len(v) /\ u[n + 1] # v[n + 1]
    BY <1>1, <1>4, <1>l
  <2>2. u[n + 1] \in Nat /\ v[n + 1] \in Nat
    BY <2>1, ElementOfSeq
  <2>3. u[n + 1] < v[n + 1] \/ v[n + 1] < u[n + 1]
    BY <2>1, <2>2
  <2>4. Precedes(u, v, n) \/ Precedes(v, u, n)
    BY <1>1, <1>4, <1>l, <2>3 DEF Precedes
  <2> QED BY <1>1, <2>4, BytesBeforeIs
<1> QED BY <1>2, <1>3, <1>4

\* What a key is made of.
LEMMA KeyParts ==
    ASSUME NEW a \in Key
    PROVE  /\ a \in Seq(Nat) /\ Len(a) \in Nat /\ Len(a) > 0
           /\ Front(a) \in Seq(Nat) /\ Last(a) \in Nat /\ Len(Front(a)) = Len(a) - 1
           /\ \A i \in 1 .. Len(a) - 1 : Front(a)[i] = a[i]
           /\ a = Append(Front(a), Last(a))
<1>1. a \in Seq(Nat) /\ Len(a) \in Nat /\ Len(a) > 0
  BY EmptySeq DEF Key
<1>2. \A i \in 1 .. Len(a) : a[i] \in Nat
  BY <1>1, ElementOfSeq
<1>3. Front(a) \in Seq(Nat) /\ Len(Front(a)) = Len(a) - 1
  <2>1. 1 \in Int /\ Len(a) - 1 \in Int /\ \A i \in 1 .. Len(a) - 1 : a[i] \in Nat
    BY <1>1, <1>2
  <2>2. /\ SubSeq(a, 1, Len(a) - 1) \in Seq(Nat)
        /\ Len(SubSeq(a, 1, Len(a) - 1)) = IF 1 <= Len(a) - 1 THEN (Len(a) - 1) - 1 + 1 ELSE 0
    BY <2>1, SubSeqProperties
  <2>3. ASSUME NEW l \in Nat, l > 0 PROVE (IF 1 <= l - 1 THEN (l - 1) - 1 + 1 ELSE 0) = l - 1
    <3>1. CASE l = 1
      BY <3>1
    <3>2. CASE l # 1
      <4>1. 1 <= l - 1 /\ (l - 1) - 1 + 1 = l - 1
        BY <2>3, <3>2
      <4> QED BY <4>1
    <3> QED BY <3>1, <3>2
  <2>4. Len(SubSeq(a, 1, Len(a) - 1)) = Len(a) - 1
    BY <1>1, <2>2, <2>3
  <2> QED BY <2>2, <2>4 DEF Front
<1>4. \A i \in 1 .. Len(a) - 1 : Front(a)[i] = a[i]
  BY <1>1 DEF Front
<1>5. Last(a) \in Nat
  BY <1>1, <1>2 DEF Last
<1>6. a = Append(Front(a), Last(a))
  <2> DEFINE b == Append(Front(a), Last(a))
  <2>1. b \in Seq(Nat) /\ Len(b) = Len(a)
    BY <1>1, <1>3, <1>5
  <2>2. \A i \in 1 .. Len(a) : b[i] = a[i]
    <3> TAKE i \in 1 .. Len(a)
    <3>1. CASE i = Len(a)
      BY <1>1, <1>3, <1>5, <3>1 DEF Last
    <3>2. CASE i # Len(a)
      <4>1. i \in 1 .. Len(a) - 1
        BY <1>1, <3>2
      <4> QED BY <1>1, <1>3, <1>4, <1>5, <4>1
    <3> QED BY <3>1, <3>2
  <2> HIDE DEF b
  <2>3. a = b
    BY <1>1, <2>1, <2>2, SeqEqual
  <2> QED BY <2>3 DEF b
<1> QED BY <1>1, <1>3, <1>4, <1>5, <1>6

LEMMA KeysDiffer ==
    ASSUME NEW a \in Key
    PROVE  ~ KeyBefore(a, a)
<1>1. Front(a) \in Seq(Nat) /\ Last(a) \in Nat
  BY KeyParts
<1> QED BY <1>1, BytesNotBefore DEF KeyBefore

LEMMA KeyBeforeThat ==
    ASSUME NEW a \in Key, NEW b \in Key, NEW c \in Key, KeyBefore(a, b), KeyBefore(b, c)
    PROVE  KeyBefore(a, c)
<1>1. /\ Front(a) \in Seq(Nat) /\ Last(a) \in Nat
      /\ Front(b) \in Seq(Nat) /\ Last(b) \in Nat
      /\ Front(c) \in Seq(Nat) /\ Last(c) \in Nat
  BY KeyParts
<1>2. /\ BytesBefore(Front(a), Front(b)) \/ (Front(a) = Front(b) /\ Last(a) > Last(b))
      /\ BytesBefore(Front(b), Front(c)) \/ (Front(b) = Front(c) /\ Last(b) > Last(c))
  BY DEF KeyBefore
<1>3. ASSUME BytesBefore(Front(a), Front(b)), BytesBefore(Front(b), Front(c))
      PROVE  BytesBefore(Front(a), Front(c))
  BY <1>1, <1>3, BytesBeforeThat
<1>4. Last(a) > Last(b) /\ Last(b) > Last(c) => Last(a) > Last(c)
  BY <1>1
<1> QED BY <1>2, <1>3, <1>4 DEF KeyBefore

LEMMA KeyTotal ==
    ASSUME NEW a \in Key, NEW b \in Key
    PROVE  a = b \/ KeyBefore(a, b) \/ KeyBefore(b, a)
<1>1. /\ Front(a) \in Seq(Nat) /\ Last(a) \in Nat /\ a = Append(Front(a), Last(a))
      /\ Front(b) \in Seq(Nat) /\ Last(b) \in Nat /\ b = Append(Front(b), Last(b))
  BY KeyParts
<1>2. CASE Front(a) # Front(b)
  BY <1>1, <1>2, BytesTotal DEF KeyBefore
<1>3. CASE Front(a) = Front(b)
  <2>1. Last(a) = Last(b) \/ Last(a) > Last(b) \/ Last(b) > Last(a)
    BY <1>1
  <2>2. Last(a) = Last(b) => a = b
    BY <1>1, <1>3
  <2> QED BY <1>3, <2>1, <2>2 DEF KeyBefore
<1> QED BY <1>2, <1>3

\* One is before another or not, and then what is before the one is before the other.
LEMMA KeyOrder ==
    ASSUME NEW a \in Key, NEW b \in Key, NEW c \in Key
    PROVE  /\ KeyBefore(a, b) => ~ KeyBefore(b, a) /\ a # b
           /\ KeyBefore(a, b) /\ ~ KeyBefore(c, b) => KeyBefore(a, c)
           /\ ~ KeyBefore(b, a) /\ KeyBefore(b, c) => KeyBefore(a, c)
           /\ ~ KeyBefore(b, a) /\ ~ KeyBefore(c, b) => ~ KeyBefore(c, a)
<1>1. /\ ~ KeyBefore(a, a) /\ ~ KeyBefore(b, b)
      /\ KeyBefore(a, b) /\ KeyBefore(b, a) => KeyBefore(a, a)
      /\ KeyBefore(a, b) /\ KeyBefore(b, c) => KeyBefore(a, c)
      /\ KeyBefore(c, a) /\ KeyBefore(a, b) => KeyBefore(c, b)
  BY KeysDiffer, KeyBeforeThat
<1>2. /\ c = b \/ KeyBefore(c, b) \/ KeyBefore(b, c)
      /\ a = b \/ KeyBefore(a, b) \/ KeyBefore(b, a)
  BY KeyTotal
<1> QED BY <1>1, <1>2

-----------------------------------------------------------------------------
(* Cutting strings *)

LEMMA PrefixIs ==
    ASSUME NEW u \in Seq(Nat), NEW n \in 0 .. Len(u)
    PROVE  /\ SubSeq(u, 1, n) \in Seq(Nat) /\ Len(SubSeq(u, 1, n)) = n
           /\ \A i \in 1 .. n : SubSeq(u, 1, n)[i] = u[i]
<1>1. Len(u) \in Nat /\ n \in Nat /\ n <= Len(u)
  OBVIOUS
<1>2. \A i \in 1 .. n : u[i] \in Nat
  <2>1. \A i \in 1 .. n : i \in 1 .. Len(u)
    BY <1>1
  <2> QED BY <2>1, ElementOfSeq
<1>3. 1 \in Int /\ n \in Int
  BY <1>1
<1>4. /\ SubSeq(u, 1, n) \in Seq(Nat)
      /\ Len(SubSeq(u, 1, n)) = IF 1 <= n THEN n - 1 + 1 ELSE 0
      /\ \A i \in 1 .. n - 1 + 1 : SubSeq(u, 1, n)[i] = u[1 + i - 1]
  BY <1>2, <1>3, SubSeqProperties
<1>5. n - 1 + 1 = n /\ (~ (1 <= n) => n = 0) /\ \A i \in 1 .. n : 1 + i - 1 = i
  BY <1>1
<1> QED BY <1>4, <1>5

LEMMA SuffixIs ==
    ASSUME NEW u \in Seq(Nat), NEW n \in 0 .. Len(u)
    PROVE  /\ SubSeq(u, n + 1, Len(u)) \in Seq(Nat)
           /\ Len(SubSeq(u, n + 1, Len(u))) = Len(u) - n
           /\ \A i \in 1 .. Len(u) - n : SubSeq(u, n + 1, Len(u))[i] = u[n + i]
<1>1. Len(u) \in Nat /\ n \in Nat /\ n <= Len(u)
  OBVIOUS
<1>2. \A i \in n + 1 .. Len(u) : u[i] \in Nat
  <2>1. \A i \in n + 1 .. Len(u) : i \in 1 .. Len(u)
    BY <1>1
  <2> QED BY <2>1, ElementOfSeq
<1>3. n + 1 \in Int /\ Len(u) \in Int
  BY <1>1
<1>4. /\ SubSeq(u, n + 1, Len(u)) \in Seq(Nat)
      /\ Len(SubSeq(u, n + 1, Len(u))) = IF n + 1 <= Len(u) THEN Len(u) - (n + 1) + 1 ELSE 0
      /\ \A i \in 1 .. Len(u) - (n + 1) + 1 : SubSeq(u, n + 1, Len(u))[i] = u[n + 1 + i - 1]
  BY <1>2, <1>3, SubSeqProperties
<1>5. Len(u) - (n + 1) + 1 = Len(u) - n /\ (~ (n + 1 <= Len(u)) => Len(u) - n = 0)
  BY <1>1
<1>6. \A i \in 1 .. Len(u) - n : n + 1 + i - 1 = n + i
  BY <1>1
<1> QED BY <1>4, <1>5, <1>6

\* What two strings share, and the rest of the second, make the second.
LEMMA Rejoined ==
    ASSUME NEW u \in Seq(Nat), NEW v \in Seq(Nat), NEW n \in 0 .. Len(v), n <= Len(u),
           \A i \in 1 .. n : u[i] = v[i]
    PROVE  SubSeq(u, 1, n) \o SubSeq(v, n + 1, Len(v)) = v
<1> DEFINE p == SubSeq(u, 1, n)
           q == SubSeq(v, n + 1, Len(v))
<1>1. Len(v) \in Nat /\ n \in Nat /\ n <= Len(v) /\ Len(u) \in Nat /\ n \in 0 .. Len(u)
  OBVIOUS
<1>2. p \in Seq(Nat) /\ Len(p) = n /\ \A i \in 1 .. n : p[i] = u[i]
  BY <1>1, PrefixIs
<1>3. q \in Seq(Nat) /\ Len(q) = Len(v) - n /\ \A i \in 1 .. Len(v) - n : q[i] = v[n + i]
  BY SuffixIs
<1> HIDE DEF p, q
<1>4. /\ p \o q \in Seq(Nat) /\ Len(p \o q) = Len(p) + Len(q)
      /\ \A i \in 1 .. Len(p) + Len(q) : (p \o q)[i] = IF i <= Len(p) THEN p[i] ELSE q[i - Len(p)]
  BY <1>2, <1>3, ConcatProperties
<1>5. Len(p \o q) = Len(v) /\ Len(p) + Len(q) = Len(v)
  BY <1>1, <1>2, <1>3, <1>4
<1>6. ASSUME NEW i \in 1 .. Len(v) PROVE (p \o q)[i] = v[i]
  <2>1. CASE i <= n
    <3>1. i \in 1 .. n
      BY <1>1, <2>1
    <3> QED BY <1>2, <1>4, <1>5, <2>1, <3>1
  <2>2. CASE ~ (i <= n)
    <3>1. i - n \in 1 .. Len(v) - n /\ n + (i - n) = i
      BY <1>1, <2>2
    <3> QED BY <1>2, <1>3, <1>4, <1>5, <2>2, <3>1
  <2> QED BY <2>1, <2>2
<1>7. p \o q = v
  BY <1>4, <1>5, <1>6, SeqEqual
<1> QED BY <1>7 DEF p, q

\* A key made of a user key and a number.
LEMMA KeyMade ==
    ASSUME NEW w \in Seq(Nat), NEW s \in Nat
    PROVE  Append(w, s) \in Key /\ Front(Append(w, s)) = w /\ Last(Append(w, s)) = s
<1> DEFINE a == Append(w, s)
<1>1. a \in Seq(Nat) /\ Len(a) = Len(w) + 1 /\ Len(w) \in Nat
  OBVIOUS
<1>2. a # <<>>
  BY <1>1, EmptySeq
<1>3. a \in Key
  BY <1>1, <1>2 DEF Key
<1>4. \A i \in 1 .. Len(w) : a[i] = w[i]
  OBVIOUS
<1>5. Last(a) = s
  BY <1>1 DEF Last
<1> HIDE DEF a
<1>6. Front(a) \in Seq(Nat) /\ Len(Front(a)) = Len(w) /\ \A i \in 1 .. Len(w) : Front(a)[i] = a[i]
  <2>1. Len(a) - 1 = Len(w)
    BY <1>1
  <2> QED BY <1>3, <2>1, KeyParts
<1>7. Front(a) = w
  BY <1>4, <1>6, SeqEqual
<1> QED BY <1>3, <1>5, <1>7 DEF a

\* A string cut where a byte is raised.
LEMMA RaisedIs ==
    ASSUME NEW u \in Seq(Nat), NEW n \in 1 .. Len(u)
    PROVE  LET w == Append(SubSeq(u, 1, n - 1), u[n] + 1)
           IN  /\ w \in Seq(Nat) /\ Len(w) = n /\ w[n] = u[n] + 1 /\ u[n] \in Nat
               /\ \A i \in 1 .. n - 1 : w[i] = u[i]
               /\ BytesBefore(u, w)
<1> DEFINE p == SubSeq(u, 1, n - 1)
           w == Append(p, u[n] + 1)
<1>1. n \in Nat /\ n > 0 /\ n - 1 \in 0 .. Len(u) /\ Len(u) \in Nat /\ u[n] \in Nat /\ n <= Len(u)
  BY ElementOfSeq
<1>2. p \in Seq(Nat) /\ Len(p) = n - 1 /\ \A i \in 1 .. n - 1 : p[i] = u[i]
  BY <1>1, PrefixIs
<1> HIDE DEF p
<1>3. w \in Seq(Nat) /\ Len(w) = n /\ w[n] = u[n] + 1 /\ \A i \in 1 .. n - 1 : w[i] = u[i]
  BY <1>1, <1>2
<1> HIDE DEF w
<1>4. Precedes(u, w, n - 1)
  BY <1>1, <1>3 DEF Precedes
<1>5. BytesBefore(u, w)
  BY <1>1, <1>3, <1>4, BytesBeforeIs
<1> QED BY <1>1, <1>3, <1>5 DEF p, w

LEMMA InternalKeyIs ==
    ASSUME NEW k \in InternalKeys
    PROVE  k \in Key /\ InternalKeys \subseteq Key /\ MaxSequence \in Nat /\ Last(k) < MaxSequence
<1>1. MaxByte \in Nat /\ TableSeqs \in Nat
  BY TableAssumption
<1>2. InternalKeys \subseteq Key
  BY TableAssumption DEF Key
<1>3. Last(k) - MaxByte \in 1 .. TableSeqs
  BY TableAssumption
<1>4. Last(k) \in Nat
  BY <1>2, KeyParts
<1> QED BY <1>1, <1>2, <1>3, <1>4 DEF MaxSequence

LEMMA SeparatorIs ==
    ASSUME NEW a \in InternalKeys, NEW b \in InternalKeys, KeyBefore(a, b)
    PROVE  LET s == Separator(a, b)
           IN  /\ s \in Key /\ ~ KeyBefore(s, a) /\ KeyBefore(s, b)
               /\ s = a \/ BytesBefore(Front(s), Front(b))
<1> DEFINE u == Front(a)
           v == Front(b)
           n == Shared(u, v) + 1
           w == Append(SubSeq(u, 1, n - 1), u[n] + 1)
           s == Append(w, MaxSequence)
           cut == n <= Len(u) /\ n <= Len(v) /\ u[n] < MaxByte /\ u[n] + 1 < v[n] /\ n < Len(u)
<1>k. a \in Key /\ b \in Key /\ MaxSequence \in Nat
  BY InternalKeyIs
<1>1. u \in Seq(Nat) /\ v \in Seq(Nat)
  BY <1>k, KeyParts
<1>2. CASE ~ cut
  <2>1. Separator(a, b) = a
    BY <1>2 DEF Separator
  <2> QED BY <1>k, <2>1, KeysDiffer
<1>3. CASE cut
  <2>1. Separator(a, b) = s
    BY <1>3 DEF Separator
  <2> HIDE DEF u, v
  <2>2. /\ n - 1 \in Nat /\ n - 1 <= Len(u) /\ n - 1 <= Len(v) /\ n \in 1 .. Len(u)
        /\ \A i \in 1 .. n - 1 : u[i] = v[i]
    <3>1. /\ Shared(u, v) \in Nat /\ Shared(u, v) <= Len(u) /\ Shared(u, v) <= Len(v)
          /\ \A i \in 1 .. Shared(u, v) : u[i] = v[i]
      BY <1>1, SharedIs
    <3>2. Len(u) \in Nat /\ Len(v) \in Nat /\ n - 1 = Shared(u, v)
      BY <1>1, <3>1
    <3> QED BY <1>3, <3>1, <3>2
  <2> HIDE DEF n
  <2>3. /\ w \in Seq(Nat) /\ Len(w) = n /\ w[n] = u[n] + 1 /\ u[n] \in Nat
        /\ \A i \in 1 .. n - 1 : w[i] = u[i]
        /\ BytesBefore(u, w)
    BY <1>1, <2>2, RaisedIs
  <2> HIDE DEF w
  <2>4. Precedes(w, v, n - 1)
    <3>1. n - 1 < Len(v) /\ n - 1 <= Len(w) /\ n - 1 + 1 = n /\ Len(v) \in Nat /\ n \in Nat
      BY <1>1, <1>3, <2>2, <2>3
    <3> QED BY <1>3, <2>2, <2>3, <3>1 DEF Precedes
  <2>5. BytesBefore(w, v)
    BY <1>1, <2>2, <2>3, <2>4, BytesBeforeIs
  <2>6. s \in Key /\ Front(s) = w
    BY <1>k, <2>3, KeyMade
  <2> HIDE DEF s
  <2>7. KeyBefore(a, s) /\ KeyBefore(s, b)
    BY <2>3, <2>5, <2>6 DEF KeyBefore, u, v
  <2>8. ~ KeyBefore(s, a)
    BY <1>k, <2>6, <2>7, KeyOrder
  <2> QED BY <2>1, <2>5, <2>6, <2>7, <2>8 DEF v
<1> QED BY <1>2, <1>3

LEMMA SuccessorIs ==
    ASSUME NEW a \in InternalKeys
    PROVE  Successor(a) \in Key /\ ~ KeyBefore(Successor(a), a)
<1> DEFINE u == Front(a)
           low == {i \in DOMAIN u : u[i] < MaxByte}
           n == Min(low)
           w == Append(SubSeq(u, 1, n - 1), u[n] + 1)
           s == Append(w, MaxSequence)
<1>k. a \in Key /\ MaxSequence \in Nat
  BY InternalKeyIs
<1>1. u \in Seq(Nat)
  BY <1>k, KeyParts
<1>2. CASE ~ (low # {} /\ n < Len(u))
  <2>1. Successor(a) = a
    BY <1>2 DEF Successor
  <2> QED BY <1>k, <2>1, KeysDiffer
<1>3. CASE low # {} /\ n < Len(u)
  <2>1. Successor(a) = s
    BY <1>3 DEF Successor
  <2> HIDE DEF u
  <2>2. low \subseteq Nat /\ low \subseteq 1 .. Len(u)
    BY <1>1
  <2>3. n \in 1 .. Len(u)
    <3> HIDE DEF low
    <3> QED BY <1>3, <2>2, MinIs
  <2> HIDE DEF n
  <2>4. w \in Seq(Nat) /\ BytesBefore(u, w)
    BY <1>1, <2>3, RaisedIs
  <2> HIDE DEF w
  <2>5. s \in Key /\ Front(s) = w
    BY <1>k, <2>4, KeyMade
  <2> HIDE DEF s
  <2>6. KeyBefore(a, s)
    BY <2>4, <2>5 DEF KeyBefore, u
  <2>7. ~ KeyBefore(s, a)
    BY <1>k, <2>5, <2>6, KeyOrder
  <2> QED BY <2>1, <2>5, <2>7
<1> QED BY <1>2, <1>3

-----------------------------------------------------------------------------
(* Building a block *)

LEMMA HoldsTypes ==
    ASSUME NEW b, NEW ks, Holds(b, ks)
    PROVE  /\ ks \in Seq(Key) /\ Len(ks) \in Nat /\ b.entries \in Seq(Entry)
           /\ Len(b.entries) = Len(ks) /\ Len(b.restarts) \in Nat
           /\ \A n \in 1 .. Len(ks) :
                 /\ ks[n] \in Key /\ ks[n] \in Seq(Nat) /\ b.entries[n] \in Entry
                 /\ b.entries[n].shared \in Nat /\ b.entries[n].rest \in Seq(Nat)
                 /\ b.entries[n].value \in Nat
           /\ \A n \in 1 .. Len(ks) + 1 : KeyBack(ks, n) \in Seq(Nat)
           /\ \A r \in 1 .. Len(b.restarts) : b.restarts[r] \in Nat /\ b.restarts[r] >= 1
<1>1. /\ ks \in Seq(Key) /\ Len(ks) \in Nat /\ b.entries \in Seq(Entry)
      /\ Len(b.entries) = Len(ks) /\ Len(b.restarts) \in Nat
  BY DEF Holds
<1>2. \A n \in 1 .. Len(ks) : ks[n] \in Key /\ b.entries[n] \in Entry
  BY <1>1, ElementOfSeq
<1>3. \A n \in 1 .. Len(ks) : ks[n] \in Seq(Nat)
  BY <1>2 DEF Key
<1>4. \A e \in Entry : e.shared \in Nat /\ e.rest \in Seq(Nat) /\ e.value \in Nat
  BY DEF Entry
<1>5. ASSUME NEW n \in 1 .. Len(ks) + 1 PROVE KeyBack(ks, n) \in Seq(Nat)
  <2>1. CASE n = 1
    BY <2>1, EmptySeq DEF KeyBack
  <2>2. CASE n # 1
    <3>1. n - 1 \in 1 .. Len(ks)
      BY <1>1, <2>2
    <3> QED BY <1>3, <2>2, <3>1 DEF KeyBack
  <2> QED BY <2>1, <2>2
<1>6. ASSUME NEW r \in 1 .. Len(b.restarts) PROVE b.restarts[r] \in Nat /\ b.restarts[r] >= 1
  <2>1. b.restarts \in Seq(Nat) /\ b.restarts[1] = 1
    BY DEF Holds
  <2>2. b.restarts[r] \in Nat
    BY <2>1, ElementOfSeq
  <2>3. r # 1 => b.restarts[r] \in 1 .. Len(ks)
    BY DEF Holds
  <2> QED BY <2>1, <2>2, <2>3
<1> QED BY <1>1, <1>2, <1>3, <1>4, <1>5, <1>6

LEMMA EmptyOpen == Open(EmptyBlock, <<>>)
<1> DEFINE b == EmptyBlock
<1>1. /\ b.entries = <<>> /\ b.restarts = <<1>> /\ b.counter = 0 /\ b.last = <<>>
  BY DEF EmptyBlock
<1> HIDE DEF b
<1>2. b.entries \in Seq(Entry) /\ <<>> \in Seq(Key) /\ Len(b.entries) = 0
  BY <1>1, EmptySeq
<1>3. b.restarts \in Seq(Nat) /\ Len(b.restarts) = 1 /\ b.restarts[1] = 1
  BY <1>1
<1>4. \A n \in 1 .. Len(<<>>) : FALSE
  OBVIOUS
<1>5. Holds(b, <<>>)
  BY <1>2, <1>3, <1>4 DEF Holds
<1>6. KeyBack(<<>>, Len(<<>>) + 1) = <<>>
  BY DEF KeyBack
<1>7. Open(b, <<>>)
  BY <1>1, <1>5, <1>6 DEF Open
<1> QED BY <1>7 DEF b

\* What is appended is there, and nothing else has changed.
LEMMA AppendIs ==
    ASSUME NEW S, NEW s \in Seq(S), NEW e \in S
    PROVE  /\ Append(s, e) \in Seq(S) /\ Len(s) \in Nat /\ Len(Append(s, e)) = Len(s) + 1
           /\ Append(s, e)[Len(s) + 1] = e
           /\ \A i \in 1 .. Len(s) : Append(s, e)[i] = s[i] /\ i \in 1 .. Len(s) + 1
           /\ \A i \in 1 .. Len(s) + 1 : i \in 1 .. Len(s) \/ i = Len(s) + 1
OBVIOUS

\* The entry that BlockBuilder::Add writes.
LEMMA AddedEntry ==
    ASSUME NEW b, NEW ks, Open(b, ks), NEW key \in Key, NEW v \in Nat, NEW interval \in Nat \ {0}
    PROVE  LET n == IF b.counter >= interval THEN 0 ELSE Shared(b.last, key)
               e == [shared |-> n, rest |-> SubSeq(key, n + 1, Len(key)), value |-> v]
           IN  /\ e \in Entry /\ n <= Len(KeyBack(ks, Len(ks) + 1))
               /\ key = SubSeq(KeyBack(ks, Len(ks) + 1), 1, n) \o e.rest
               /\ interval = 1 => n = 0
               /\ n = 0 => e.rest = key
<1> DEFINE n == IF b.counter >= interval THEN 0 ELSE Shared(b.last, key)
           p == KeyBack(ks, Len(ks) + 1)
           q == SubSeq(key, n + 1, Len(key))
<1>1. p \in Seq(Nat) /\ b.last = p /\ Len(ks) \in Nat /\ b.counter \in Nat
  BY HoldsTypes DEF Open
<1>2. key \in Seq(Nat)
  BY DEF Key
<1>3. n \in Nat /\ n <= Len(p) /\ n <= Len(key) /\ \A i \in 1 .. n : p[i] = key[i]
  <2> HIDE DEF p
  <2>1. CASE b.counter >= interval
    <3>1. n = 0 /\ Len(p) \in Nat /\ Len(key) \in Nat
      BY <1>1, <1>2, <2>1
    <3> QED BY <3>1
  <2>2. CASE ~ (b.counter >= interval)
    <3>1. n = Shared(p, key)
      BY <1>1, <2>2
    <3> QED BY <1>1, <1>2, <3>1, SharedIs
  <2> QED BY <2>1, <2>2
<1>4. interval = 1 => n = 0
  <2> SUFFICES ASSUME interval = 1, ~ (b.counter >= interval) PROVE n = 0
    OBVIOUS
  <2>1. b.counter = 0
    BY <1>1
  <2>2. Len(ks) = 0
    BY <2>1 DEF Open
  <2>3. p = <<>>
    BY <2>2 DEF KeyBack
  <2>4. Len(p) = 0
    BY <2>3
  <2> HIDE DEF n, p
  <2> QED BY <1>3, <2>4
<1> HIDE DEF n
<1>5. n \in 0 .. Len(key) /\ Len(key) \in Nat
  BY <1>2, <1>3
<1>6. q \in Seq(Nat)
  BY <1>2, <1>5, SuffixIs
<1>7. key = SubSeq(p, 1, n) \o q
  <2> HIDE DEF p
  <2> QED BY <1>1, <1>2, <1>3, <1>5, Rejoined
<1>8. n = 0 => q = key
  BY <1>2, <1>5, SubSeqFull
<1>9. [shared |-> n, rest |-> q, value |-> v] \in Entry
  BY <1>3, <1>6 DEF Entry
<1> QED BY <1>3, <1>4, <1>7, <1>8, <1>9 DEF n

\* The block c is b with one more entry.
Extends(c, b, ks, key, v, interval) ==
    /\ Open(c, Append(ks, key))
    /\ \E e \in Entry : /\ c.entries = Append(b.entries, e) /\ e.value = v
                        /\ interval = 1 => e.shared = 0 /\ e.rest = key

LEMMA BlockAddIs ==
    ASSUME NEW b, NEW ks, Open(b, ks), NEW key \in Key, NEW v \in Nat, NEW interval \in Nat \ {0}
    PROVE  Extends(BlockAdd(b, interval, key, v), b, ks, key, v, interval)
<1> DEFINE c == BlockAdd(b, interval, key, v)
           restart == b.counter >= interval
           n == IF restart THEN 0 ELSE Shared(b.last, key)
           e == [shared |-> n, rest |-> SubSeq(key, n + 1, Len(key)), value |-> v]
           L == Len(ks)
           ls == Append(ks, key)
<1>1. /\ e \in Entry /\ n <= Len(KeyBack(ks, L + 1))
      /\ key = SubSeq(KeyBack(ks, L + 1), 1, n) \o e.rest
      /\ interval = 1 => n = 0
      /\ n = 0 => e.rest = key
  BY AddedEntry
<1>2. /\ c.entries = Append(b.entries, e)
      /\ c.restarts = IF restart THEN Append(b.restarts, L + 1) ELSE b.restarts
      /\ c.counter = IF restart THEN 1 ELSE b.counter + 1
      /\ c.last = key
  <2>1. Len(b.entries) = L
    BY DEF Open, Holds
  <2> QED BY <2>1 DEF BlockAdd
<1>3. e.value = v /\ e.shared = n
  OBVIOUS
<1>r. restart => n = 0
  OBVIOUS
<1> HIDE DEF c, e, n
<1>4. /\ ks \in Seq(Key) /\ L \in Nat /\ b.entries \in Seq(Entry) /\ Len(b.entries) = L
      /\ Len(b.restarts) \in Nat /\ b.counter \in Nat /\ (b.counter = 0 <=> L = 0)
      /\ b.restarts \in Seq(Nat) /\ Len(b.restarts) > 0 /\ b.restarts[1] = 1
  BY HoldsTypes DEF Open, Holds
<1>5. /\ ls \in Seq(Key) /\ Len(ls) = L + 1 /\ ls[L + 1] = key
      /\ \A i \in 1 .. L : ls[i] = ks[i] /\ i \in 1 .. L + 1
      /\ \A i \in 1 .. L + 1 : i \in 1 .. L \/ i = L + 1
  BY <1>4, AppendIs
<1>6. /\ c.entries \in Seq(Entry) /\ Len(c.entries) = L + 1 /\ c.entries[L + 1] = e
      /\ \A i \in 1 .. L : c.entries[i] = b.entries[i]
  <2>1. /\ Append(b.entries, e) \in Seq(Entry) /\ Len(Append(b.entries, e)) = L + 1
        /\ Append(b.entries, e)[L + 1] = e
        /\ \A i \in 1 .. L : Append(b.entries, e)[i] = b.entries[i]
    BY <1>1, <1>4, AppendIs
  <2> QED BY <1>2, <2>1
<1> HIDE DEF ls
<1>7. \A i \in 1 .. L + 1 : KeyBack(ls, i) = KeyBack(ks, i)
  <2> TAKE i \in 1 .. L + 1
  <2>1. i # 1 => i - 1 \in 1 .. L
    BY <1>4
  <2> QED BY <1>5, <2>1 DEF KeyBack
<1>8. ASSUME NEW i \in 1 .. Len(ls)
      PROVE  /\ c.entries[i].shared <= Len(KeyBack(ls, i))
             /\ ls[i] = SubSeq(KeyBack(ls, i), 1, c.entries[i].shared) \o c.entries[i].rest
  <2>1. i \in 1 .. L + 1 /\ L + 1 \in 1 .. L + 1
    BY <1>4, <1>5
  <2>2. CASE i = L + 1
    BY <1>1, <1>3, <1>5, <1>6, <1>7, <2>1, <2>2
  <2>3. CASE i \in 1 .. L
    <3>1. /\ b.entries[i].shared <= Len(KeyBack(ks, i))
          /\ ks[i] = SubSeq(KeyBack(ks, i), 1, b.entries[i].shared) \o b.entries[i].rest
      BY <2>3 DEF Open, Holds
    <3> QED BY <1>5, <1>6, <1>7, <2>1, <2>3, <3>1
  <2> QED BY <1>5, <2>1, <2>2, <2>3
<1>9. /\ c.restarts \in Seq(Nat) /\ Len(c.restarts) > 0 /\ c.restarts[1] = 1
      /\ \A r \in 1 .. Len(c.restarts) : r # 1 =>
            c.restarts[r] \in 1 .. Len(ls) /\ c.entries[c.restarts[r]].shared = 0
      /\ \A q, r \in 1 .. Len(c.restarts) : q < r => c.restarts[q] < c.restarts[r]
  <2> DEFINE R == Len(b.restarts)
  <2>1. /\ \A r \in 1 .. R : r # 1 =>
               b.restarts[r] \in 1 .. L /\ b.entries[b.restarts[r]].shared = 0
        /\ \A q, r \in 1 .. R : q < r => b.restarts[q] < b.restarts[r]
    BY DEF Open, Holds
  <2>2. \A r \in 1 .. R : r # 1 =>
            b.restarts[r] \in 1 .. Len(ls) /\ c.entries[b.restarts[r]].shared = 0
    BY <1>4, <1>5, <1>6, <2>1
  <2>3. CASE ~ restart
    <3>1. c.restarts = b.restarts
      BY <1>2, <2>3
    <3> QED BY <1>4, <2>1, <2>2, <3>1
  <2>4. CASE restart
    <3>1. c.restarts = Append(b.restarts, L + 1) /\ n = 0 /\ L > 0
      <4>1. b.counter # 0
        BY <1>4, <2>4
      <4> QED BY <1>2, <1>4, <1>r, <2>4, <4>1
    <3>2. /\ c.restarts \in Seq(Nat) /\ Len(c.restarts) = R + 1 /\ c.restarts[R + 1] = L + 1
          /\ \A r \in 1 .. R : c.restarts[r] = b.restarts[r]
          /\ \A r \in 1 .. R + 1 : r \in 1 .. R \/ r = R + 1
      <4>1. L + 1 \in Nat
        BY <1>4
      <4> QED BY <1>4, <3>1, <4>1, AppendIs
    <3>3. Len(c.restarts) > 0 /\ c.restarts[1] = 1 /\ R \in Nat /\ R > 0
      <4>1. 1 \in 1 .. R
        BY <1>4
      <4> QED BY <1>4, <3>2, <4>1
    <3>4. ASSUME NEW r \in 1 .. Len(c.restarts), r # 1
          PROVE  c.restarts[r] \in 1 .. Len(ls) /\ c.entries[c.restarts[r]].shared = 0
      <4>1. CASE r \in 1 .. R
        BY <2>2, <3>2, <3>4, <4>1
      <4>2. CASE r = R + 1
        <5>1. c.restarts[r] = L + 1 /\ L + 1 \in 1 .. Len(ls)
          BY <1>4, <1>5, <3>2, <4>2
        <5> QED BY <1>3, <1>6, <3>1, <5>1
      <4> QED BY <3>2, <4>1, <4>2
    <3>5. ASSUME NEW q \in 1 .. Len(c.restarts), NEW r \in 1 .. Len(c.restarts), q < r
          PROVE  c.restarts[q] < c.restarts[r]
      <4>1. q \in 1 .. R
        BY <3>2, <3>3, <3>5
      <4>2. CASE r \in 1 .. R
        BY <2>1, <3>2, <3>5, <4>1, <4>2
      <4>3. CASE r = R + 1
        <5>1. b.restarts[q] \in Nat /\ b.restarts[q] <= L
          <6>1. CASE q = 1
            BY <1>4, <3>1, <6>1
          <6>2. CASE q # 1
            BY <1>4, <2>1, <4>1, <6>2
          <6> QED BY <6>1, <6>2
        <5> QED BY <1>4, <3>2, <4>1, <4>3, <5>1
      <4> QED BY <3>2, <4>2, <4>3
    <3> QED BY <3>2, <3>3, <3>4, <3>5
  <2> QED BY <2>3, <2>4
<1>10. Holds(c, ls)
  <2>1. Len(c.entries) = Len(ls)
    BY <1>5, <1>6
  <2> QED BY <1>5, <1>6, <1>8, <1>9, <2>1 DEF Holds
<1>11. Open(c, ls)
  <2>1. c.counter \in Nat /\ c.counter # 0 /\ Len(ls) # 0
    BY <1>2, <1>4, <1>5
  <2>2. KeyBack(ls, Len(ls) + 1) = key
    <3>1. Len(ls) + 1 # 1 /\ (Len(ls) + 1) - 1 = L + 1
      BY <1>4, <1>5
    <3> QED BY <1>5, <3>1 DEF KeyBack
  <2> QED BY <1>2, <1>10, <2>1, <2>2 DEF Open
<1>12. \E g \in Entry : /\ c.entries = Append(b.entries, g) /\ g.value = v
                        /\ interval = 1 => g.shared = 0 /\ g.rest = key
  BY <1>1, <1>2, <1>3
<1> QED BY <1>11, <1>12 DEF c, ls, Extends

-----------------------------------------------------------------------------
(* Reading a block: one entry after another *)

\* An entry that shares nothing holds its key.
LEMMA WholeKey ==
    ASSUME NEW b, NEW ks, Holds(b, ks), NEW n \in 1 .. Len(ks), b.entries[n].shared = 0
    PROVE  /\ b.entries[n].rest = ks[n]
           /\ \A p \in Seq(Nat) : SubSeq(p, 1, b.entries[n].shared) \o b.entries[n].rest = ks[n]
<1> DEFINE q == b.entries[n].rest
<1>1. ks[n] = SubSeq(KeyBack(ks, n), 1, 0) \o q
  BY DEF Holds
<1>2. q \in Seq(Nat)
  BY HoldsTypes
<1>3. \A p : SubSeq(p, 1, 0) = <<>>
  BY SubSeqEmpty
<1>4. <<>> \o q = q
  BY <1>2, ConcatEmptySeq
<1>5. ks[n] = q
  BY <1>1, <1>3, <1>4
<1> QED BY <1>3, <1>4, <1>5

LEMMA RestartWhole ==
    ASSUME NEW b, NEW ks, Holds(b, ks), Len(ks) > 0, NEW r \in 1 .. Len(b.restarts)
    PROVE  /\ b.restarts[r] \in 1 .. Len(ks) /\ b.entries[b.restarts[r]].shared = 0
           /\ b.entries[b.restarts[r]].rest = ks[b.restarts[r]]
<1>1. /\ b.restarts[1] = 1 /\ Len(ks) \in Nat
      /\ r # 1 => b.restarts[r] \in 1 .. Len(ks) /\ b.entries[b.restarts[r]].shared = 0
  BY HoldsTypes DEF Holds
<1>2. r = 1 => b.entries[1].shared = 0
  <2>1. 1 \in 1 .. Len(ks)
    BY <1>1
  <2>2. b.entries[1].shared <= Len(<<>>) /\ b.entries[1].shared \in Nat
    BY <2>1, HoldsTypes DEF Holds, KeyBack
  <2> QED BY <2>2
<1>3. b.restarts[r] \in 1 .. Len(ks) /\ b.entries[b.restarts[r]].shared = 0
  BY <1>1, <1>2
<1> QED BY <1>3, WholeKey

LEMMA ParseFirst ==
    ASSUME NEW b, NEW ks, Holds(b, ks), NEW r \in 1 .. Len(b.restarts)
    PROVE  LET i == ParseNextKey(b, SeekToRestartPoint(b, r))
           IN  /\ Len(ks) = 0 => i = Invalid(b)
               /\ Len(ks) > 0 => IsAt(b, ks, i, b.restarts[r])
<1> DEFINE s == SeekToRestartPoint(b, r)
           i == ParseNextKey(b, s)
           n == b.restarts[r]
<1>1. s.next = n /\ s.key = <<>> /\ s.restart = r
  BY DEF SeekToRestartPoint
<1>2. /\ Len(b.entries) = Len(ks) /\ Len(ks) \in Nat /\ n \in Nat /\ n >= 1
      /\ Len(b.restarts) \in Nat
  BY HoldsTypes
<1> HIDE DEF s
<1>3. ASSUME Len(ks) = 0 PROVE i = Invalid(b)
  <2>1. s.next > Len(b.entries)
    BY <1>1, <1>2, <1>3
  <2> QED BY <2>1 DEF ParseNextKey
<1>4. ASSUME Len(ks) > 0 PROVE IsAt(b, ks, i, n)
  <2>1. n \in 1 .. Len(ks) /\ b.entries[n].shared = 0
    BY <1>4, RestartWhole
  <2> DEFINE S == {r} \cup {q \in r + 1 .. Len(b.restarts) : b.restarts[q] < n}
             k == SubSeq(<<>>, 1, b.entries[n].shared) \o b.entries[n].rest
  <2>2. k = ks[n]
    <3>1. <<>> \in Seq(Nat)
      BY EmptySeq
    <3>2. \A p \in Seq(Nat) : SubSeq(p, 1, b.entries[n].shared) \o b.entries[n].rest = ks[n]
      <4> HIDE DEF n
      <4> QED BY <2>1, WholeKey
    <3> QED BY <3>1, <3>2
  <2>3. \A q \in r + 1 .. Len(b.restarts) : q \in 1 .. Len(b.restarts) /\ n < b.restarts[q]
    <3>1. \A q \in r + 1 .. Len(b.restarts) : q \in 1 .. Len(b.restarts) /\ r < q
      BY <1>2
    <3> QED BY <3>1 DEF Holds
  <2>4. S = {r}
    <3>1. \A q \in r + 1 .. Len(b.restarts) : ~ (b.restarts[q] < n)
      <4>1. \A q \in r + 1 .. Len(b.restarts) : b.restarts[q] \in Nat
        BY <2>3, HoldsTypes
      <4> QED BY <1>2, <2>3, <4>1
    <3> QED BY <3>1
  <2>5. Max(S) = r
    <3> HIDE DEF S
    <3>1. S \subseteq Nat /\ r \in S /\ \A x \in S : x <= r
      BY <1>2, <2>4
    <3> QED BY <3>1, MaxOf
  <2>6. i = [at |-> n, key |-> k, next |-> n + 1, restart |-> Max(S)]
    <3>1. ~ (s.next > Len(b.entries))
      BY <1>1, <1>2, <2>1
    <3> QED BY <1>1, <3>1 DEF ParseNextKey
  <2> HIDE DEF S, k, i
  <2>7. i = [at |-> n, restart |-> i.restart, key |-> ks[n], next |-> n + 1] /\ i.restart = r
    BY <2>2, <2>5, <2>6
  <2>9. b.restarts[i.restart] <= n
    BY <1>2, <2>7
  <2>8. \A q \in 1 .. Len(b.restarts) : q > r => b.restarts[q] >= n
    <3>1. \A q \in 1 .. Len(b.restarts) : q > r => q \in r + 1 .. Len(b.restarts)
      BY <1>2
    <3>2. \A q \in 1 .. Len(b.restarts) : b.restarts[q] \in Nat
      BY HoldsTypes
    <3> QED BY <1>2, <2>3, <3>1, <3>2
  <2>10. i.restart \in 1 .. Len(b.restarts)
    BY <2>7
  <2>11. \A q \in 1 .. Len(b.restarts) : q > i.restart => b.restarts[q] >= n
    BY <2>7, <2>8
  <2> HIDE DEF n
  <2>12. n \in 1 .. Len(ks) /\ i = [at |-> n, restart |-> i.restart, key |-> ks[n], next |-> n + 1]
    BY <2>1, <2>7
  <2> QED BY <2>9, <2>10, <2>11, <2>12 DEF IsAt
<1> QED BY <1>3, <1>4 DEF s

LEMMA ParseNext ==
    ASSUME NEW b, NEW ks, Holds(b, ks), NEW i, NEW n, IsAt(b, ks, i, n)
    PROVE  LET j == ParseNextKey(b, i)
           IN  /\ n = Len(ks) => j = Invalid(b)
               /\ n # Len(ks) => IsAt(b, ks, j, n + 1)
<1> DEFINE j == ParseNextKey(b, i)
           r == i.restart
<1>1. /\ Len(b.entries) = Len(ks) /\ Len(ks) \in Nat /\ Len(b.restarts) \in Nat
      /\ n \in 1 .. Len(ks) /\ r \in 1 .. Len(b.restarts) /\ b.restarts[r] <= n
      /\ \A q \in 1 .. Len(b.restarts) : q > r => b.restarts[q] >= n
      /\ \A q \in 1 .. Len(b.restarts) : b.restarts[q] \in Nat
  BY HoldsTypes DEF IsAt
<1>2. i.next = n + 1 /\ i.key = ks[n] /\ i.at = n
  <2>1. i = [at |-> n, restart |-> i.restart, key |-> ks[n], next |-> n + 1]
    BY DEF IsAt
  <2> QED BY <2>1
<1>3. n = Len(ks) => j = Invalid(b)
  BY <1>1, <1>2 DEF ParseNextKey
<1>4. ASSUME n # Len(ks) PROVE IsAt(b, ks, j, n + 1)
  <2>1. n + 1 \in 1 .. Len(ks) /\ n + 1 # 1 /\ (n + 1) - 1 = n
    BY <1>1, <1>4
  <2> DEFINE S == {r} \cup {q \in r + 1 .. Len(b.restarts) : b.restarts[q] < n + 1}
             k == SubSeq(i.key, 1, b.entries[n + 1].shared) \o b.entries[n + 1].rest
  <2>2. k = ks[n + 1]
    <3>1. KeyBack(ks, n + 1) = ks[n]
      BY <2>1 DEF KeyBack
    <3> QED BY <1>2, <2>1, <3>1 DEF Holds
  <2>3. S \subseteq 1 .. Len(b.restarts) /\ r \in S
    BY <1>1
  <2>4. Max(S) \in S /\ \A x \in S : x <= Max(S)
    <3> HIDE DEF S
    <3>1. S \subseteq Nat /\ S # {} /\ \A x \in S : x <= Len(b.restarts)
      BY <2>3, <1>1
    <3> QED BY <1>1, <3>1, MaxIs
  <2> DEFINE m == Max(S)
  <2>5. j = [at |-> n + 1, key |-> k, next |-> n + 1 + 1, restart |-> m]
    <3>1. ~ (i.next > Len(b.entries))
      BY <1>1, <1>2, <2>1
    <3> QED BY <1>2, <3>1 DEF ParseNextKey
  <2>6. m \in 1 .. Len(b.restarts) /\ m >= r /\ b.restarts[m] <= n + 1
    <3>1. m \in S /\ m \in 1 .. Len(b.restarts)
      BY <2>3, <2>4
    <3>2. m = r \/ (m \in r + 1 .. Len(b.restarts) /\ b.restarts[m] < n + 1)
      BY <3>1
    <3>3. b.restarts[m] \in Nat
      BY <1>1, <3>1
    <3> HIDE DEF m
    <3> QED BY <1>1, <3>1, <3>2, <3>3
  <2>7. ASSUME NEW q \in 1 .. Len(b.restarts), q > m PROVE b.restarts[q] >= n + 1
    <3>1. q \notin S
      <4>1. q \in S => q <= m
        BY <2>4
      <4> HIDE DEF S, m
      <4> QED BY <1>1, <2>6, <2>7, <4>1
    <3>2. q \in r + 1 .. Len(b.restarts)
      <4> HIDE DEF m
      <4> QED BY <1>1, <2>6, <2>7
    <3>3. ~ (b.restarts[q] < n + 1)
      BY <3>1, <3>2
    <3> QED BY <1>1, <3>3
  <2> HIDE DEF S, k, m, j
  <2>8. j = [at |-> n + 1, restart |-> j.restart, key |-> ks[n + 1], next |-> n + 1 + 1] /\ j.restart = m
    BY <2>2, <2>5
  <2> QED BY <2>1, <2>6, <2>7, <2>8 DEF IsAt
<1> QED BY <1>3, <1>4

LEMMA AtIs ==
    ASSUME NEW b, NEW ks, Holds(b, ks), NEW i, NEW n, IsAt(b, ks, i, n)
    PROVE  /\ i.at = n /\ i.key = ks[n] /\ i.next = n + 1 /\ i.restart \in 1 .. Len(b.restarts)
           /\ Valid(b, i) /\ n \in 1 .. Len(ks) /\ i \in Position
<1>1. i = [at |-> n, restart |-> i.restart, key |-> ks[n], next |-> n + 1]
  BY DEF IsAt
<1>2. n \in 1 .. Len(ks) /\ i.restart \in 1 .. Len(b.restarts) /\ Len(b.entries) = Len(ks)
  BY DEF IsAt, Holds
<1>3. Len(ks) \in Nat /\ Len(b.restarts) \in Nat /\ ks[n] \in Seq(Nat)
  BY <1>2, HoldsTypes
<1>4. i.at = n /\ i.key = ks[n] /\ i.next = n + 1
  BY <1>1
<1>5. Valid(b, i)
  BY <1>2, <1>3, <1>4 DEF Valid
<1>6. i \in Position
  <2>1. n \in Nat /\ i.restart \in Nat /\ n + 1 \in Nat
    BY <1>2, <1>3
  <2>2. [at |-> n, restart |-> i.restart, key |-> ks[n], next |-> n + 1] \in Position
    BY <1>3, <2>1 DEF Position
  <2> QED BY <1>1, <2>2
<1> QED BY <1>2, <1>4, <1>5, <1>6

LEMMA InvalidIs ==
    ASSUME NEW b, NEW ks, Holds(b, ks)
    PROVE  /\ ~ Valid(b, Invalid(b)) /\ Invalid(b) \in Position
           /\ Invalid(b).next = Len(ks) + 1 /\ Invalid(b).at = Len(ks) + 1
           /\ ParseNextKey(b, Invalid(b)) = Invalid(b)
<1>1. Len(b.entries) = Len(ks) /\ Len(ks) \in Nat /\ Len(b.restarts) \in Nat
  BY HoldsTypes
<1>2. /\ Invalid(b).next = Len(ks) + 1 /\ Invalid(b).at = Len(ks) + 1
      /\ Invalid(b) = [at |-> Len(ks) + 1, restart |-> Len(b.restarts) + 1, key |-> <<>>,
                       next |-> Len(ks) + 1]
  BY <1>1 DEF Invalid
<1>3. Invalid(b) \in Position
  <2>1. Len(ks) + 1 \in Nat /\ Len(b.restarts) + 1 \in Nat /\ <<>> \in Seq(Nat)
    BY <1>1, EmptySeq
  <2> QED BY <1>2, <2>1 DEF Position
<1>4. ~ Valid(b, Invalid(b)) /\ ParseNextKey(b, Invalid(b)) = Invalid(b)
  <2>1. Len(ks) + 1 > Len(ks)
    BY <1>1
  <2> QED BY <1>1, <1>2, <2>1 DEF Valid, ParseNextKey
<1> QED BY <1>2, <1>3, <1>4

-----------------------------------------------------------------------------
(* Reading a block: from a restart point on *)

Starts(b) == {SeekToRestartPoint(b, r) : r \in 1 .. Len(b.restarts)}
Spots(b, ks) == {i \in Position : Stands(b, ks, i)} \cup Starts(b)

LEMMA ParseStays ==
    ASSUME NEW b, NEW ks, Holds(b, ks), NEW i \in Spots(b, ks)
    PROVE  /\ ParseNextKey(b, i) \in Spots(b, ks)
           /\ Stands(b, ks, ParseNextKey(b, i)) /\ ParseNextKey(b, i) \in Position
<1> SUFFICES Stands(b, ks, ParseNextKey(b, i))
  <2>1. ASSUME NEW j, Stands(b, ks, j) PROVE j \in Position
    BY <2>1, AtIs, InvalidIs DEF Stands
  <2> QED BY <2>1 DEF Spots
<1>1. CASE i = Invalid(b)
  BY <1>1, InvalidIs DEF Stands
<1>2. ASSUME NEW n \in 1 .. Len(ks), IsAt(b, ks, i, n) PROVE Stands(b, ks, ParseNextKey(b, i))
  <2>1. /\ n = Len(ks) => ParseNextKey(b, i) = Invalid(b)
        /\ n # Len(ks) => IsAt(b, ks, ParseNextKey(b, i), n + 1)
    BY <1>2, ParseNext
  <2>2. Len(ks) \in Nat
    BY HoldsTypes
  <2>3. n # Len(ks) => n + 1 \in 1 .. Len(ks)
    BY <2>2
  <2> QED BY <2>1, <2>3 DEF Stands
<1>3. ASSUME NEW r \in 1 .. Len(b.restarts), i = SeekToRestartPoint(b, r)
      PROVE  Stands(b, ks, ParseNextKey(b, i))
  <2>1. /\ Len(ks) = 0 => ParseNextKey(b, i) = Invalid(b)
        /\ Len(ks) > 0 => IsAt(b, ks, ParseNextKey(b, i), b.restarts[r])
    BY <1>3, ParseFirst
  <2>2. Len(ks) \in Nat /\ (Len(ks) > 0 => b.restarts[r] \in 1 .. Len(ks))
    BY HoldsTypes, RestartWhole
  <2>3. Len(ks) = 0 \/ Len(ks) > 0
    BY <2>2
  <2> QED BY <2>1, <2>2, <2>3 DEF Stands
<1> QED BY <1>1, <1>2, <1>3 DEF Spots, Starts, Stands

LEMMA ParsedIs ==
    ASSUME NEW b, NEW ks, Holds(b, ks), NEW r \in 1 .. Len(b.restarts)
    PROVE  LET f == Parsed(b, r)
           IN  /\ f[0] = SeekToRestartPoint(b, r)
               /\ \A m \in 1 .. Len(ks) + 1 : f[m] = ParseNextKey(b, f[m - 1])
<1> DEFINE V == Spots(b, ks)
           s == SeekToRestartPoint(b, r)
           G == [i \in V |-> ParseNextKey(b, i)]
           N == Len(b.entries) + 1
           W(f, n) == IF n = 0 THEN s ELSE ParseNextKey(b, f[n - 1])
           Is(f) == f = [n \in 0 .. N |-> W(f, n)]
<1>1. Len(b.entries) = Len(ks) /\ Len(ks) \in Nat
  BY HoldsTypes
<1>2. s \in V
  BY DEF Spots, Starts
<1>3. \A i \in V : G[i] \in V
  BY ParseStays
<1>4. \A i \in V : G[i] = ParseNextKey(b, i)
  OBVIOUS
<1>5. N \in Nat /\ N = Len(ks) + 1
  BY <1>1
<1> HIDE DEF V, G, N
<1>p. PICK g : Loops(g, G, V, s, N)
  <2> HIDE DEF s
  <2> QED BY <1>2, <1>3, <1>5, Loop
<1>6. /\ g \in [0 .. N -> V] /\ g[0] = s
      /\ \A m \in 1 .. N : g[m] = G[g[m - 1]] /\ g[m - 1] \in V
  BY <1>p DEF Loops
<1>7. Is(g)
  <2>1. ASSUME NEW m \in 0 .. N PROVE g[m] = W(g, m)
    <3>1. CASE m = 0
      BY <1>6, <3>1
    <3>2. CASE m # 0
      <4>1. m \in 1 .. N
        BY <1>5, <3>2
      <4> QED BY <1>4, <1>6, <3>2, <4>1
    <3> QED BY <3>1, <3>2
  <2>2. g = [n \in 0 .. N |-> g[n]]
    BY <1>6
  <2> HIDE DEF W
  <2> QED BY <2>1, <2>2
<1> DEFINE after == CHOOSE f : Is(f)
<1>8. Is(after)
  BY <1>7
<1>9. Parsed(b, r) = after
  BY DEF Parsed, N
<1> HIDE DEF after
<1>10. \A n \in 0 .. N : after[n] = W(after, n)
  <2> HIDE DEF W
  <2> QED BY <1>8
<1>11. after[0] = s
  BY <1>5, <1>10
<1>12. ASSUME NEW m \in 1 .. N PROVE after[m] = ParseNextKey(b, after[m - 1])
  <2>1. m \in 0 .. N /\ m # 0
    BY <1>5
  <2> QED BY <1>10, <2>1
<1> QED BY <1>5, <1>9, <1>11, <1>12

\* Where the iterator stands after each.
LEMMA ParsedAt ==
    ASSUME NEW b, NEW ks, Holds(b, ks), NEW r \in 1 .. Len(b.restarts),
           NEW m \in 1 .. Len(ks) + 1
    PROVE  LET p == b.restarts[r] + m - 1
           IN  /\ p <= Len(ks) => IsAt(b, ks, Parsed(b, r)[m], p)
               /\ p > Len(ks) => Parsed(b, r)[m] = Invalid(b)
<1> DEFINE f == Parsed(b, r)
           R == b.restarts[r]
           Good(n) == /\ R + n - 1 <= Len(ks) => IsAt(b, ks, f[n], R + n - 1)
                      /\ R + n - 1 > Len(ks) => f[n] = Invalid(b)
           T == {n \in Nat : n + 1 \in 1 .. Len(ks) + 1 => Good(n + 1)}
<1>1. /\ f[0] = SeekToRestartPoint(b, r)
      /\ \A n \in 1 .. Len(ks) + 1 : f[n] = ParseNextKey(b, f[n - 1])
  BY ParsedIs
<1>2. Len(ks) \in Nat /\ R \in Nat /\ R >= 1
  BY HoldsTypes
<1>3. Good(1)
  <2>1. f[1] = ParseNextKey(b, SeekToRestartPoint(b, r))
    <3>1. 1 \in 1 .. Len(ks) + 1 /\ 1 - 1 = 0
      BY <1>2
    <3> QED BY <1>1, <3>1
  <2> HIDE DEF f
  <2>2. /\ Len(ks) = 0 => f[1] = Invalid(b)
        /\ Len(ks) > 0 => IsAt(b, ks, f[1], R)
    BY <2>1, ParseFirst
  <2>3. R + 1 - 1 = R /\ (R <= Len(ks) => Len(ks) > 0)
    BY <1>2
  <2>4. Len(ks) > 0 => R \in 1 .. Len(ks)
    BY RestartWhole
  <2>5. R > Len(ks) => Len(ks) = 0
    BY <1>2, <2>4
  <2> HIDE DEF R
  <2> QED BY <2>2, <2>3, <2>5
<1> HIDE DEF f
<1>4. 0 \in T
  BY <1>3
<1>5. ASSUME NEW n \in T \cap Nat PROVE n + 1 \in T
  <2> SUFFICES ASSUME n + 1 + 1 \in 1 .. Len(ks) + 1 PROVE Good(n + 1 + 1)
    OBVIOUS
  <2>1. n \in Nat /\ n + 1 \in 1 .. Len(ks) + 1 /\ Good(n + 1)
    BY <1>2
  <2>2. f[n + 1 + 1] = ParseNextKey(b, f[n + 1])
    <3>1. n + 1 + 1 - 1 = n + 1
      BY <2>1
    <3> QED BY <1>1, <3>1
  <2> DEFINE p == R + (n + 1) - 1
  <2>3. p \in Nat /\ p + 1 = R + (n + 1 + 1) - 1
    BY <1>2, <2>1
  <2>4. /\ p <= Len(ks) => IsAt(b, ks, f[n + 1], p)
        /\ p > Len(ks) => f[n + 1] = Invalid(b)
    BY <2>1
  <2> HIDE DEF p, Good
  <2>5. CASE p < Len(ks)
    <3>1. IsAt(b, ks, f[n + 1 + 1], p + 1)
      <4>1. p <= Len(ks) /\ p # Len(ks)
        BY <1>2, <2>3, <2>5
      <4> QED BY <2>2, <2>4, <4>1, ParseNext
    <3>2. p + 1 <= Len(ks) /\ ~ (p + 1 > Len(ks))
      BY <1>2, <2>3, <2>5
    <3> QED BY <2>3, <3>1, <3>2 DEF Good
  <2>6. CASE p = Len(ks)
    <3>1. f[n + 1 + 1] = Invalid(b)
      <4>1. p <= Len(ks)
        BY <1>2, <2>6
      <4> QED BY <2>2, <2>4, <2>6, <4>1, ParseNext
    <3>2. ~ (p + 1 <= Len(ks))
      BY <1>2, <2>6
    <3> QED BY <2>3, <3>1, <3>2 DEF Good
  <2>7. CASE p > Len(ks)
    <3>1. f[n + 1 + 1] = Invalid(b)
      BY <2>2, <2>4, <2>7, InvalidIs
    <3>2. ~ (p + 1 <= Len(ks))
      BY <1>2, <2>3, <2>7
    <3> QED BY <2>3, <3>1, <3>2 DEF Good
  <2> QED BY <1>2, <2>3, <2>5, <2>6, <2>7
<1>6. Nat \subseteq T
  <2> HIDE DEF T
  <2> QED BY <1>4, <1>5, FromZero
<1>7. m - 1 \in T /\ (m - 1) + 1 = m
  <2> HIDE DEF T
  <2>1. m - 1 \in Nat /\ (m - 1) + 1 = m
    BY <1>2
  <2> QED BY <1>6, <2>1
<1>8. Good(m)
  <2> HIDE DEF Good
  <2> QED BY <1>7
<1> QED BY <1>8 DEF f

-----------------------------------------------------------------------------
(* Reading a block: where each call of its iterator ends *)

LEMMA FirstEnds ==
    ASSUME NEW b, NEW ks, Holds(b, ks)
    PROVE  /\ Len(ks) = 0 => BlockFirst(b) = Invalid(b)
           /\ Len(ks) > 0 => IsAt(b, ks, BlockFirst(b), 1)
<1>1. 1 \in 1 .. Len(b.restarts) /\ b.restarts[1] = 1
  BY HoldsTypes DEF Holds
<1>2. /\ Len(ks) = 0 => BlockFirst(b) = Invalid(b)
      /\ Len(ks) > 0 => IsAt(b, ks, BlockFirst(b), b.restarts[1])
  BY <1>1, ParseFirst DEF BlockFirst
<1> QED BY <1>1, <1>2

\* Where a pass over the block stops, if `Stop' is at position e.
LEMMA StopsAt ==
    ASSUME NEW b, NEW ks, Holds(b, ks), NEW r \in 1 .. Len(b.restarts),
           NEW e \in 1 .. Len(ks) + 1, e >= b.restarts[r], NEW S,
           S \subseteq 1 .. Len(ks) + 1, e - b.restarts[r] + 1 \in S,
           \A m \in S : b.restarts[r] + m - 1 >= e
    PROVE  LET i == Parsed(b, r)[Min(S)]
           IN  /\ e <= Len(ks) => IsAt(b, ks, i, e)
               /\ e > Len(ks) => i = Invalid(b)
<1> DEFINE R == b.restarts[r]
           m == e - R + 1
<1>1. Len(ks) \in Nat /\ R \in Nat /\ R >= 1
  BY HoldsTypes
<1>2. S \subseteq Nat /\ m \in S /\ m \in 1 .. Len(ks) + 1
  BY <1>1
<1>3. \A x \in S : m <= x
  <2> TAKE x \in S
  <2>1. x \in Nat /\ R + x - 1 >= e
    BY <1>2
  <2> HIDE DEF R
  <2> QED BY <1>1, <2>1
<1>4. Min(S) = m
  <2> HIDE DEF m
  <2> QED BY <1>2, <1>3, MinOf
<1>5. R + m - 1 = e
  <2> HIDE DEF R
  <2> QED BY <1>1
<1>6. /\ R + m - 1 <= Len(ks) => IsAt(b, ks, Parsed(b, r)[m], R + m - 1)
      /\ R + m - 1 > Len(ks) => Parsed(b, r)[m] = Invalid(b)
  <2> HIDE DEF m
  <2> QED BY <1>2, ParsedAt
<1> HIDE DEF m, R
<1> QED BY <1>4, <1>5, <1>6

\* What the iterator would read next, after the m-th step of a pass.
LEMMA NextParsed ==
    ASSUME NEW b, NEW ks, Holds(b, ks), NEW r \in 1 .. Len(b.restarts),
           NEW m \in 1 .. Len(ks) + 1
    PROVE  LET p == b.restarts[r] + m - 1
           IN  Parsed(b, r)[m].next = IF p <= Len(ks) THEN p + 1 ELSE Len(ks) + 1
<1> DEFINE p == b.restarts[r] + m - 1
           i == Parsed(b, r)[m]
<1>1. /\ p <= Len(ks) => IsAt(b, ks, i, p)
      /\ p > Len(ks) => i = Invalid(b)
  BY ParsedAt
<1>2. Len(ks) \in Nat /\ p \in Nat
  <2>1. Len(ks) \in Nat /\ b.restarts[r] \in Nat /\ b.restarts[r] >= 1
    BY HoldsTypes
  <2> QED BY <2>1
<1> HIDE DEF p, i
<1> HIDE DEF p, i
<1>3. p <= Len(ks) => i.next = p + 1
  <2> SUFFICES ASSUME p <= Len(ks) PROVE i.next = p + 1
    OBVIOUS
  <2>1. IsAt(b, ks, i, p)
    BY <1>1
  <2> QED BY <2>1, AtIs
<1>4. ~ (p <= Len(ks)) => i.next = Len(ks) + 1
  <2>1. Invalid(b).next = Len(ks) + 1
    BY InvalidIs
  <2> QED BY <1>1, <1>2, <2>1
<1>5. i.next = IF p <= Len(ks) THEN p + 1 ELSE Len(ks) + 1
  BY <1>3, <1>4
<1> QED BY <1>5 DEF p, i

LEMMA LastEnds ==
    ASSUME NEW b, NEW ks, Holds(b, ks)
    PROVE  /\ Len(ks) = 0 => BlockLast(b) = Invalid(b)
           /\ Len(ks) > 0 => IsAt(b, ks, BlockLast(b), Len(ks))
<1> DEFINE r == Len(b.restarts)
           R == b.restarts[r]
           L == Len(ks)
           S == {n \in 1 .. Len(b.entries) + 1 : Parsed(b, r)[n].next > Len(b.entries)}
           e == IF L = 0 THEN 1 ELSE L
<1>1. r \in 1 .. Len(b.restarts) /\ L \in Nat /\ Len(b.entries) = L
  BY HoldsTypes DEF Holds
<1>2. R \in Nat /\ R >= 1 /\ R <= e
  <2>1. R \in Nat /\ R >= 1
    BY <1>1, HoldsTypes
  <2>2. L > 0 => R \in 1 .. L
    BY <1>1, RestartWhole
  <2>3. L = 0 => R = 1
    BY <1>1 DEF Holds
  <2> HIDE DEF R
  <2> QED BY <1>1, <2>1, <2>2, <2>3
<1>3. \A m \in 1 .. L + 1 :
          Parsed(b, r)[m].next = IF R + m - 1 <= L THEN R + m - 1 + 1 ELSE L + 1
  BY <1>1, NextParsed
<1> HIDE DEF r, R
<1>4. e \in 1 .. L + 1 /\ S \subseteq 1 .. L + 1 /\ e >= R
  BY <1>1, <1>2
<1>5. e - R + 1 \in S
  <2>1. e - R + 1 \in 1 .. L + 1 /\ R + (e - R + 1) - 1 = e
    BY <1>1, <1>2
  <2>2. (IF e <= L THEN e + 1 ELSE L + 1) > L
    BY <1>1
  <2> HIDE DEF e
  <2>3. Parsed(b, r)[e - R + 1].next > L
    BY <1>3, <2>1, <2>2
  <2> QED BY <1>1, <2>1, <2>3
<1>6. \A m \in S : R + m - 1 >= e
  <2> TAKE m \in S
  <2>1. m \in 1 .. L + 1 /\ Parsed(b, r)[m].next > L
    BY <1>1
  <2>2. (IF R + m - 1 <= L THEN R + m - 1 + 1 ELSE L + 1) > L
    BY <1>3, <2>1
  <2> QED BY <1>1, <1>2, <2>1, <2>2
<1>7. LET i == Parsed(b, r)[Min(S)]
      IN  /\ e <= L => IsAt(b, ks, i, e)
          /\ e > L => i = Invalid(b)
  <2> HIDE DEF S, e
  <2>1. r \in 1 .. Len(b.restarts) /\ R = b.restarts[r]
    BY <1>1 DEF r, R
  <2> QED BY <1>4, <1>5, <1>6, <2>1, StopsAt
<1>8. BlockLast(b) = Parsed(b, r)[Min(S)]
  BY DEF BlockLast, r
<1> HIDE DEF S
<1> QED BY <1>1, <1>7, <1>8

LEMMA PrevEnds ==
    ASSUME NEW b, NEW ks, Holds(b, ks), NEW i, NEW n, IsAt(b, ks, i, n)
    PROVE  /\ n = 1 => BlockPrev(b, i) = Invalid(b)
           /\ n # 1 => IsAt(b, ks, BlockPrev(b, i), n - 1)
<1> DEFINE before == {r \in 1 .. Min({i.restart, Len(b.restarts)}) : b.restarts[r] < i.at}
           r == Max(before)
           R == b.restarts[r]
           L == Len(ks)
           S == {m \in 1 .. Len(b.entries) + 1 : Parsed(b, r)[m].next >= i.at}
<1>1. /\ L \in Nat /\ Len(b.entries) = L /\ Len(b.restarts) \in Nat /\ n \in 1 .. L /\ i.at = n
      /\ i.restart \in 1 .. Len(b.restarts) /\ b.restarts[1] = 1
      /\ \A q \in 1 .. Len(b.restarts) : b.restarts[q] \in Nat /\ b.restarts[q] >= 1
  <2>1. n \in 1 .. L /\ i.at = n /\ i.restart \in 1 .. Len(b.restarts)
    BY AtIs
  <2>2. b.restarts[1] = 1
    BY DEF Holds
  <2> QED BY <2>1, <2>2, HoldsTypes
<1>2. Min({i.restart, Len(b.restarts)}) = i.restart
  <2>1. {i.restart, Len(b.restarts)} \subseteq Nat /\ i.restart \in {i.restart, Len(b.restarts)}
    BY <1>1
  <2>2. \A x \in {i.restart, Len(b.restarts)} : i.restart <= x
    BY <1>1
  <2> DEFINE T == {i.restart, Len(b.restarts)}
  <2>3. T \subseteq Nat /\ i.restart \in T /\ \A x \in T : i.restart <= x
    BY <2>1, <2>2
  <2> HIDE DEF T
  <2>4. Min(T) = i.restart
    BY <2>3, MinOf
  <2> QED BY <2>4 DEF T
<1>3. before = {q \in 1 .. i.restart : b.restarts[q] < n}
  BY <1>1, <1>2
<1>p. BlockPrev(b, i) = IF before = {} THEN Invalid(b) ELSE Parsed(b, r)[Min(S)]
  BY DEF BlockPrev
<1> HIDE DEF before
<1>4. \A q \in 1 .. i.restart : q \in 1 .. Len(b.restarts) /\ q \in Nat
  BY <1>1
<1>5. ASSUME n = 1 PROVE BlockPrev(b, i) = Invalid(b)
  <2>1. before = {}
    BY <1>1, <1>3, <1>4, <1>5
  <2> QED BY <1>p, <2>1
<1>6. ASSUME n # 1 PROVE IsAt(b, ks, BlockPrev(b, i), n - 1)
  <2>1. 1 \in before
    BY <1>1, <1>3, <1>6
  <2>2. r \in before
    <3>1. before \subseteq Nat /\ \A x \in before : x <= i.restart
      BY <1>3, <1>4
    <3>2. before # {} /\ i.restart \in Nat
      BY <1>1, <2>1
    <3>3. Max(before) \in before
      <4> HIDE DEF r
      <4> QED BY <3>1, <3>2, MaxIs
    <3> QED BY <3>3
  <2> HIDE DEF r
  <2>3. r \in 1 .. Len(b.restarts) /\ R < n /\ R \in Nat /\ R >= 1
    BY <1>1, <1>3, <1>4, <2>2
  <2>4. \A m \in 1 .. L + 1 :
            Parsed(b, r)[m].next = IF R + m - 1 <= L THEN R + m - 1 + 1 ELSE L + 1
    BY <2>3, NextParsed
  <2> DEFINE e == n - 1
  <2> HIDE DEF R
  <2>5. e \in 1 .. L + 1 /\ e >= R /\ S \subseteq 1 .. L + 1 /\ e <= L /\ e \in Nat /\ n = e + 1
    BY <1>1, <1>6, <2>3
  <2> HIDE DEF e
  <2>6. e - R + 1 \in S
    <3>1. e - R + 1 \in 1 .. L + 1 /\ R + (e - R + 1) - 1 = e
      BY <1>1, <2>3, <2>5
    <3>2. Parsed(b, r)[e - R + 1].next = e + 1
      BY <2>4, <2>5, <3>1
    <3>3. Parsed(b, r)[e - R + 1].next >= i.at
      BY <1>1, <2>5, <3>2
    <3> QED BY <1>1, <3>1, <3>3
  <2>7. \A m \in S : R + m - 1 >= e
    <3> TAKE m \in S
    <3>1. m \in 1 .. L + 1 /\ Parsed(b, r)[m].next >= n
      BY <1>1
    <3>2. (IF R + m - 1 <= L THEN R + m - 1 + 1 ELSE L + 1) >= n
      BY <2>4, <3>1
    <3> QED BY <1>1, <2>3, <2>5, <3>1, <3>2
  <2>8. IsAt(b, ks, Parsed(b, r)[Min(S)], e)
    <3> HIDE DEF S
    <3>1. R = b.restarts[r]
      BY DEF R
    <3> QED BY <2>3, <2>5, <2>6, <2>7, <3>1, StopsAt
  <2> QED BY <1>p, <2>1, <2>8 DEF e
<1> QED BY <1>5, <1>6

-----------------------------------------------------------------------------
(* Reading a block: the search *)

LEMMA Middle ==
    ASSUME NEW l \in Nat, NEW r \in Nat, l < r
    PROVE  (l + r + 1) \div 2 \in Nat /\ l < (l + r + 1) \div 2 /\ (l + r + 1) \div 2 <= r
<1> DEFINE m == (l + r + 1) \div 2
<1>1. l + r + 1 \in Nat /\ 2 \in Nat /\ 2 > 0
  OBVIOUS
<1>2. m \in Nat /\ 2 * m <= l + r + 1 /\ l + r + 1 < 2 * m + 2
  BY <1>1, Quotient
<1> HIDE DEF m
<1>3. l < m /\ m <= r
  BY <1>2
<1> QED BY <1>2, <1>3 DEF m

\* Before a restart point that is not the first, the target is not.
Halves(b, ks, target) ==
    {s \in [left : Nat, right : Nat] :
        /\ 1 <= s.left /\ s.left <= s.right /\ s.right <= Len(b.restarts)
        /\ s.left # 1 => KeyBefore(ks[b.restarts[s.left]], target)}

LEMMA HalveStays ==
    ASSUME NEW b, NEW ks, Holds(b, ks), NEW target, NEW s \in Halves(b, ks, target)
    PROVE  Halve(b, target, s) \in Halves(b, ks, target)
<1> DEFINE mid == (s.left + s.right + 1) \div 2
           V == Halves(b, ks, target)
<1>1. /\ s = [left |-> s.left, right |-> s.right] /\ s.left \in Nat /\ s.right \in Nat
      /\ 1 <= s.left /\ s.left <= s.right /\ s.right <= Len(b.restarts)
      /\ s.left # 1 => KeyBefore(ks[b.restarts[s.left]], target)
  BY DEF Halves
<1>2. CASE s.left >= s.right
  BY <1>2 DEF Halve
<1>3. CASE ~ (s.left >= s.right)
  <2>1. mid \in Nat /\ s.left < mid /\ mid <= s.right
    BY <1>1, <1>3, Middle
  <2> DEFINE lower == [left |-> mid, right |-> s.right]
             upper == [left |-> s.left, right |-> mid - 1]
  <2>2. Halve(b, target, s) =
            IF KeyBefore(b.entries[b.restarts[mid]].rest, target) THEN lower ELSE upper
    <3>1. [s EXCEPT !.left = mid] = lower /\ [s EXCEPT !.right = mid - 1] = upper
      BY <1>1
    <3> QED BY <1>3, <3>1 DEF Halve
  <2> HIDE DEF mid
  <2>3. upper \in V
    <3>1. /\ mid - 1 \in Nat /\ s.left <= mid - 1 /\ mid - 1 <= Len(b.restarts)
      BY <1>1, <2>1, HoldsTypes
    <3> QED BY <1>1, <3>1 DEF Halves
  <2>4. ASSUME KeyBefore(b.entries[b.restarts[mid]].rest, target) PROVE lower \in V
    <3>1. Len(b.restarts) \in Nat
      BY HoldsTypes
    <3>2. mid \in 1 .. Len(b.restarts) /\ mid # 1
      BY <1>1, <2>1, <3>1
    <3>3. Len(ks) > 0
      <4>1. b.restarts[mid] \in 1 .. Len(ks) /\ Len(ks) \in Nat
        BY <3>2, HoldsTypes DEF Holds
      <4> QED BY <4>1
    <3>4. b.entries[b.restarts[mid]].rest = ks[b.restarts[mid]]
      BY <3>2, <3>3, RestartWhole
    <3>5. 1 <= mid /\ mid <= s.right
      BY <1>1, <2>1
    <3>6. KeyBefore(ks[b.restarts[mid]], target)
      BY <2>4, <3>4
    <3> QED BY <1>1, <2>1, <3>5, <3>6 DEF Halves
  <2> HIDE DEF lower, upper
  <2> QED BY <2>2, <2>3, <2>4
<1> QED BY <1>2, <1>3

LEMMA RestartBeforeIs ==
    ASSUME NEW b, NEW ks, Holds(b, ks), NEW target
    PROVE  LET r == RestartBefore(b, target)
           IN  /\ r \in 1 .. Len(b.restarts)
               /\ r # 1 => KeyBefore(ks[b.restarts[r]], target)
<1> DEFINE V == Halves(b, ks, target)
           N == Len(b.restarts)
           s == [left |-> 1, right |-> N]
           G == [i \in V |-> Halve(b, target, i)]
           W(f, n) == IF n = 0 THEN s ELSE Halve(b, target, f[n - 1])
           Is(f) == f = [n \in 0 .. N |-> W(f, n)]
<1>1. N \in Nat /\ N > 0
  BY HoldsTypes DEF Holds
<1>2. s \in V
  <2>1. s \in [left : Nat, right : Nat] /\ s.left = 1 /\ s.right = N
    BY <1>1
  <2> HIDE DEF s
  <2> QED BY <1>1, <2>1 DEF Halves
<1>3. \A i \in V : G[i] \in V
  BY HalveStays
<1>4. \A i \in V : G[i] = Halve(b, target, i)
  OBVIOUS
<1> HIDE DEF V, G, s
<1>p. PICK g : Loops(g, G, V, s, N)
  <2> HIDE DEF N
  <2> QED BY <1>1, <1>2, <1>3, Loop
<1>6. /\ g \in [0 .. N -> V] /\ g[0] = s
      /\ \A m \in 1 .. N : g[m] = G[g[m - 1]] /\ g[m - 1] \in V
  BY <1>p DEF Loops
<1> HIDE DEF N
<1>7. Is(g)
  <2>1. ASSUME NEW m \in 0 .. N PROVE g[m] = W(g, m)
    <3>1. CASE m = 0
      BY <1>6, <3>1
    <3>2. CASE m # 0
      <4>1. m \in 1 .. N
        BY <1>1, <3>2
      <4> QED BY <1>4, <1>6, <3>2, <4>1
    <3> QED BY <3>1, <3>2
  <2>2. g = [n \in 0 .. N |-> g[n]]
    BY <1>6
  <2> HIDE DEF W
  <2> QED BY <2>1, <2>2
<1> DEFINE search == CHOOSE f : Is(f)
<1>8. Is(search)
  BY <1>7
<1>9. RestartBefore(b, target) = search[N].left
  BY DEF RestartBefore, N, s
<1> HIDE DEF search
<1>10. \A n \in 0 .. N : search[n] = W(search, n)
  <2> HIDE DEF W
  <2> QED BY <1>8
<1> DEFINE T == {n \in Nat : n <= N => search[n] \in V}
<1>11. 0 \in T
  <2>1. 0 \in 0 .. N
    BY <1>1
  <2> QED BY <1>2, <1>10, <2>1
<1>12. ASSUME NEW n \in T \cap Nat PROVE n + 1 \in T
  <2> SUFFICES ASSUME n + 1 <= N PROVE search[n + 1] \in V
    OBVIOUS
  <2>1. n \in Nat /\ n + 1 \in 0 .. N /\ n + 1 # 0 /\ (n + 1) - 1 = n /\ n <= N
    BY <1>1
  <2>2. search[n] \in V
    BY <2>1
  <2>3. search[n + 1] = Halve(b, target, search[n])
    BY <1>10, <2>1
  <2> QED BY <1>3, <1>4, <2>2, <2>3
<1>13. N \in T
  <2> HIDE DEF T
  <2>1. Nat \subseteq T
    BY <1>11, <1>12, FromZero
  <2> QED BY <1>1, <2>1
<1>14. search[N] \in V
  BY <1>1, <1>13
<1> DEFINE r == search[N].left
<1>15. r \in 1 .. N /\ (r # 1 => KeyBefore(ks[b.restarts[r]], target))
  <2>1. /\ r \in Nat /\ search[N].right \in Nat
        /\ 1 <= r /\ r <= search[N].right /\ search[N].right <= Len(b.restarts)
        /\ r # 1 => KeyBefore(ks[b.restarts[r]], target)
    BY <1>14 DEF V, Halves
  <2> HIDE DEF r
  <2> QED BY <1>1, <2>1 DEF N
<1> QED BY <1>9, <1>15 DEF N

\* The first of the keys that is not before the target, one past the end if there is none.
FirstFrom(ks, target) ==
    Min({n \in 1 .. Len(ks) + 1 : n <= Len(ks) => ~ KeyBefore(ks[n], target)})

LEMMA FirstFromIs ==
    ASSUME NEW ks, Len(ks) \in Nat, NEW target
    PROVE  LET e == FirstFrom(ks, target)
           IN  /\ e \in 1 .. Len(ks) + 1
               /\ e <= Len(ks) => ~ KeyBefore(ks[e], target)
               /\ \A n \in 1 .. Len(ks) : ~ KeyBefore(ks[n], target) => e <= n
               /\ \A n \in 1 .. e - 1 : n \in 1 .. Len(ks) /\ KeyBefore(ks[n], target)
<1> DEFINE E == {n \in 1 .. Len(ks) + 1 : n <= Len(ks) => ~ KeyBefore(ks[n], target)}
           e == Min(E)
<1>1. Len(ks) + 1 \in E
  OBVIOUS
<1>2. e \in E /\ \A x \in E : e <= x
  <2>1. E \subseteq Nat /\ E # {}
    BY <1>1
  <2> HIDE DEF E
  <2> QED BY <2>1, MinIs
<1> HIDE DEF e
<1>3. e \in 1 .. Len(ks) + 1 /\ (e <= Len(ks) => ~ KeyBefore(ks[e], target))
  BY <1>2
<1>4. \A n \in 1 .. Len(ks) : ~ KeyBefore(ks[n], target) => e <= n
  <2>1. \A n \in 1 .. Len(ks) : n \in 1 .. Len(ks) + 1
    OBVIOUS
  <2> QED BY <1>2, <2>1
<1>5. ASSUME NEW n \in 1 .. e - 1 PROVE n \in 1 .. Len(ks) /\ KeyBefore(ks[n], target)
  <2>1. n \in 1 .. Len(ks) /\ ~ (e <= n)
    BY <1>3
  <2> QED BY <1>4, <2>1
<1>6. FirstFrom(ks, target) = e
  BY DEF FirstFrom, e
<1> QED BY <1>3, <1>4, <1>5, <1>6

LEMMA SeekEnds ==
    ASSUME NEW b, NEW ks, Holds(b, ks), Ascending(ks), NEW target \in Key
    PROVE  LET e == FirstFrom(ks, target)
           IN  /\ e <= Len(ks) => IsAt(b, ks, BlockSeek(b, target), e)
               /\ e > Len(ks) => BlockSeek(b, target) = Invalid(b)
<1> DEFINE r == RestartBefore(b, target)
           R == b.restarts[r]
           L == Len(ks)
           f == Parsed(b, r)
           S == {n \in 1 .. Len(b.entries) + 1 : Valid(b, f[n]) => ~ KeyBefore(f[n].key, target)}
           e == FirstFrom(ks, target)
<1>1. r \in 1 .. Len(b.restarts) /\ (r # 1 => KeyBefore(ks[R], target))
  BY RestartBeforeIs
<1>b. BlockSeek(b, target) = f[Min(S)]
  BY DEF BlockSeek
<1> HIDE DEF r
<1>2. L \in Nat /\ Len(b.entries) = L /\ R \in Nat /\ R >= 1
  BY <1>1, HoldsTypes
<1>3. /\ e \in 1 .. L + 1
      /\ e <= L => ~ KeyBefore(ks[e], target)
      /\ \A n \in 1 .. L : ~ KeyBefore(ks[n], target) => e <= n
  BY <1>2, FirstFromIs
<1> HIDE DEF e
<1>4. e >= R
  <2>1. CASE r = 1
    <3>1. R = 1
      BY <2>1 DEF Holds
    <3> QED BY <1>3, <3>1
  <2>2. CASE r # 1
    <3> SUFFICES ASSUME e < R PROVE FALSE
      BY <1>2, <1>3
    <3>1. R \in 1 .. L
      BY <1>1, <2>2 DEF Holds
    <3>2. e \in 1 .. L
      BY <1>2, <1>3, <3>1
    <3>3. KeyBefore(ks[e], ks[R])
      BY <3>1, <3>2 DEF Ascending
    <3>4. ks[e] \in Key /\ ks[R] \in Key
      BY <3>1, <3>2, HoldsTypes
    <3>5. KeyBefore(ks[e], target)
      BY <1>1, <2>2, <3>3, <3>4, KeyBeforeThat
    <3>6. e <= L
      BY <3>2
    <3> QED BY <1>3, <3>5, <3>6
  <2> QED BY <2>1, <2>2
<1>5. ASSUME NEW m \in 1 .. L + 1
      PROVE  /\ R + m - 1 <= L => Valid(b, f[m]) /\ f[m].key = ks[R + m - 1]
             /\ R + m - 1 > L => ~ Valid(b, f[m])
  <2> DEFINE p == R + m - 1
             i == f[m]
  <2>1. /\ p <= L => IsAt(b, ks, i, p)
        /\ p > L => i = Invalid(b)
    BY <1>1, ParsedAt
  <2> HIDE DEF p, i
  <2>2. ASSUME p <= L PROVE Valid(b, i) /\ i.key = ks[p]
    <3>1. IsAt(b, ks, i, p)
      BY <2>1, <2>2
    <3> QED BY <3>1, AtIs
  <2>3. p > L => ~ Valid(b, i)
    BY <2>1, InvalidIs
  <2> QED BY <2>2, <2>3 DEF p, i
<1> HIDE DEF R, f
<1>6. e - R + 1 \in S
  <2>1. e - R + 1 \in 1 .. L + 1 /\ R + (e - R + 1) - 1 = e
    BY <1>2, <1>3, <1>4
  <2>2. e <= L \/ e > L
    BY <1>2, <1>3
  <2>3. Valid(b, f[e - R + 1]) => ~ KeyBefore(f[e - R + 1].key, target)
    BY <1>3, <1>5, <2>1, <2>2
  <2> QED BY <1>2, <2>1, <2>3
<1>7. \A m \in S : R + m - 1 >= e
  <2> TAKE m \in S
  <2>1. m \in 1 .. L + 1 /\ (Valid(b, f[m]) => ~ KeyBefore(f[m].key, target))
    BY <1>2
  <2> DEFINE p == R + m - 1
  <2>2. /\ p <= L => Valid(b, f[m]) /\ f[m].key = ks[p]
        /\ p \in Nat /\ p >= 1
    BY <1>2, <1>5, <2>1
  <2> HIDE DEF p
  <2>3. CASE p <= L
    <3>1. p \in 1 .. L /\ ~ KeyBefore(ks[p], target)
      BY <2>1, <2>2, <2>3
    <3>2. e <= p
      BY <1>3, <3>1
    <3> QED BY <1>3, <2>2, <3>2 DEF p
  <2>4. CASE ~ (p <= L)
    <3>1. p >= e
      BY <1>2, <1>3, <2>2, <2>4
    <3> QED BY <3>1 DEF p
  <2> QED BY <2>3, <2>4
<1>8. LET i == f[Min(S)]
      IN  /\ e <= L => IsAt(b, ks, i, e)
          /\ e > L => i = Invalid(b)
  <2>1. S \subseteq 1 .. L + 1
    BY <1>2
  <2> HIDE DEF S
  <2>2. R = b.restarts[r] /\ f = Parsed(b, r)
    BY DEF R, f
  <2> QED BY <1>1, <1>3, <1>4, <1>6, <1>7, <2>1, <2>2, StopsAt
<1> HIDE DEF S
<1> QED BY <1>8, <1>b DEF e

-----------------------------------------------------------------------------
(* Where the entries of a table are *)

LEMMA AddedTypes ==
    ASSUME NEW a, AddedInv(a)
    PROVE  /\ a \in Seq(Key) /\ Len(a) \in Nat
           /\ \A n \in 1 .. Len(a) : a[n] \in Key /\ a[n] \in InternalKeys
           /\ \A m, n \in 1 .. Len(a) : m < n => KeyBefore(a[m], a[n])
BY ElementOfSeq DEF AddedInv, Ascending

LEMMA EndOfIs ==
    ASSUME NEW a, NEW d, NEW c, DataInv(a, d, c), Len(a) \in Nat
    PROVE  /\ Len(d) \in Nat /\ EndOf(d, 0) = 0
           /\ \A m \in 0 .. Len(d) : EndOf(d, m) \in Nat /\ EndOf(d, m) <= Len(a)
           /\ \A m \in 1 .. Len(d) :
                 /\ m - 1 \in 0 .. Len(d) /\ m \in 0 .. Len(d)
                 /\ Len(d[m].block.entries) \in Nat /\ Len(d[m].block.entries) > 0
                 /\ EndOf(d, m) = EndOf(d, m - 1) + Len(d[m].block.entries)
                 /\ EndOf(d, m - 1) < EndOf(d, m)
<1>1. Len(d) \in Nat /\ EndOf(d, 0) = 0
  BY DEF DataInv, EndOf
<1>2. ASSUME NEW m \in 0 .. Len(d) PROVE EndOf(d, m) \in Nat /\ EndOf(d, m) <= Len(a)
  <2>1. CASE m = 0
    BY <1>1, <2>1
  <2>2. CASE m # 0
    <3>1. m \in 1 .. Len(d)
      BY <1>1, <2>2
    <3>2. EndOf(d, m) \in 1 .. Len(a)
      BY <3>1 DEF DataInv
    <3> QED BY <3>2
  <2> QED BY <2>1, <2>2
<1>3. ASSUME NEW m \in 1 .. Len(d)
      PROVE  /\ m - 1 \in 0 .. Len(d) /\ m \in 0 .. Len(d)
             /\ Len(d[m].block.entries) \in Nat /\ Len(d[m].block.entries) > 0
             /\ EndOf(d, m) = EndOf(d, m - 1) + Len(d[m].block.entries)
             /\ EndOf(d, m - 1) < EndOf(d, m)
  <2> DEFINE b == d[m].block
             L == Len(b.entries)
  <2>1. Holds(b, Held(a, b)) /\ L > 0 /\ Follows(b, EndOf(d, m - 1))
    BY DEF DataInv
  <2>2. L \in Nat
    BY <2>1, HoldsTypes
  <2>3. m - 1 \in 0 .. Len(d) /\ m \in 0 .. Len(d) /\ m # 0
    BY <1>1
  <2>4. EndOf(d, m) = b.entries[L].value
    BY <2>3 DEF EndOf, Last
  <2>5. L \in 1 .. L
    BY <2>1, <2>2
  <2>6. EndOf(d, m) = EndOf(d, m - 1) + L
    BY <2>1, <2>4, <2>5 DEF Follows
  <2>7. EndOf(d, m - 1) \in Nat
    BY <1>2, <2>3
  <2> HIDE DEF b, L
  <2>8. EndOf(d, m - 1) < EndOf(d, m)
    BY <2>1, <2>2, <2>6, <2>7
  <2> QED BY <2>1, <2>2, <2>3, <2>6, <2>8 DEF b, L
<1> QED BY <1>1, <1>2, <1>3

\* One block ends before another, and their entries are in this order.
LEMMA EndOfOrder ==
    ASSUME NEW a, NEW d, NEW c, DataInv(a, d, c), Len(a) \in Nat,
           NEW m \in 0 .. Len(d), NEW n \in 0 .. Len(d), m < n
    PROVE  EndOf(d, m) < EndOf(d, n) /\ EndOf(d, m) + 1 <= EndOf(d, n)
<1> DEFINE T == {k \in Nat : m + 1 + k <= Len(d) => EndOf(d, m) < EndOf(d, m + 1 + k)}
<1>1. /\ Len(d) \in Nat
      /\ \A k \in 0 .. Len(d) : EndOf(d, k) \in Nat
      /\ \A k \in 1 .. Len(d) : EndOf(d, k - 1) < EndOf(d, k)
  BY EndOfIs
<1>2. 0 \in T
  <2> SUFFICES ASSUME m + 1 + 0 <= Len(d) PROVE EndOf(d, m) < EndOf(d, m + 1 + 0)
    OBVIOUS
  <2>1. m + 1 + 0 \in 1 .. Len(d) /\ (m + 1 + 0) - 1 = m
    BY <1>1
  <2> QED BY <1>1, <2>1
<1>3. ASSUME NEW k \in T \cap Nat PROVE k + 1 \in T
  <2> SUFFICES ASSUME m + 1 + (k + 1) <= Len(d) PROVE EndOf(d, m) < EndOf(d, m + 1 + (k + 1))
    OBVIOUS
  <2>1. /\ m + 1 + (k + 1) \in 1 .. Len(d) /\ (m + 1 + (k + 1)) - 1 = m + 1 + k
        /\ m + 1 + k <= Len(d) /\ m + 1 + k \in 0 .. Len(d) /\ m + 1 + (k + 1) \in 0 .. Len(d)
    BY <1>1
  <2>2. EndOf(d, m) < EndOf(d, m + 1 + k)
    BY <2>1
  <2>3. EndOf(d, m + 1 + k) < EndOf(d, m + 1 + (k + 1))
    BY <1>1, <2>1
  <2>4. EndOf(d, m) \in Nat /\ EndOf(d, m + 1 + k) \in Nat /\ EndOf(d, m + 1 + (k + 1)) \in Nat
    BY <1>1, <2>1
  <2> QED BY <2>2, <2>3, <2>4
<1>4. n - m - 1 \in T
  <2> HIDE DEF T
  <2>1. Nat \subseteq T
    BY <1>2, <1>3, FromZero
  <2>2. n - m - 1 \in Nat
    BY <1>1
  <2> QED BY <2>1, <2>2
<1>5. m + 1 + (n - m - 1) = n /\ n <= Len(d)
  BY <1>1
<1>6. EndOf(d, m) < EndOf(d, n)
  BY <1>4, <1>5
<1>7. EndOf(d, m) \in Nat /\ EndOf(d, n) \in Nat
  BY <1>1
<1> QED BY <1>6, <1>7

LEMMA HeldIs ==
    ASSUME NEW a, NEW d, NEW c, AddedInv(a), DataInv(a, d, c), NEW m \in 1 .. Len(d)
    PROVE  LET b == d[m].block
           IN  /\ Holds(b, Held(a, b)) /\ Len(Held(a, b)) = Len(b.entries) /\ Len(b.entries) > 0
               /\ Len(b.entries) \in Nat /\ Ascending(Held(a, b))
               /\ \A n \in 1 .. Len(b.entries) :
                     /\ EndOf(d, m - 1) + n \in 1 .. Len(a) /\ EndOf(d, m - 1) + n <= EndOf(d, m)
                     /\ b.entries[n].value = EndOf(d, m - 1) + n
                     /\ Held(a, b)[n] = a[EndOf(d, m - 1) + n]
<1> DEFINE b == d[m].block
           L == Len(b.entries)
           E == EndOf(d, m - 1)
<1>1. Holds(b, Held(a, b)) /\ L > 0 /\ Follows(b, E) /\ EndOf(d, m) \in 1 .. Len(a)
  BY DEF DataInv
<1>2. L \in Nat /\ Len(Held(a, b)) = L
  BY <1>1, HoldsTypes
<1>3. Len(a) \in Nat /\ \A i, j \in 1 .. Len(a) : i < j => KeyBefore(a[i], a[j])
  BY AddedTypes
<1>4. EndOf(d, m) = E + L /\ E \in Nat
  BY <1>3, EndOfIs
<1> HIDE DEF E
<1>5. ASSUME NEW n \in 1 .. L
      PROVE  /\ E + n \in 1 .. Len(a) /\ E + n <= EndOf(d, m)
             /\ b.entries[n].value = E + n
             /\ Held(a, b)[n] = a[E + n]
  <2>1. b.entries[n].value = E + n
    BY <1>1 DEF Follows
  <2>2. Held(a, b)[n] = a[E + n]
    BY <2>1 DEF Held
  <2>3. E + n \in 1 .. Len(a) /\ E + n <= EndOf(d, m)
    BY <1>1, <1>2, <1>3, <1>4
  <2> QED BY <2>1, <2>2, <2>3
<1> HIDE DEF b, L
<1>6. Ascending(Held(a, b))
  <2>1. ASSUME NEW i \in 1 .. L, NEW j \in 1 .. L, i < j
        PROVE  KeyBefore(Held(a, b)[i], Held(a, b)[j])
    <3>1. E + i < E + j
      BY <1>2, <1>4, <2>1
    <3>2. KeyBefore(a[E + i], a[E + j])
      BY <1>3, <1>5, <3>1
    <3> QED BY <1>5, <3>2
  <2> QED BY <1>2, <2>1 DEF Ascending
<1> QED BY <1>1, <1>2, <1>5, <1>6 DEF b, L, E

\* The keys of the index.
LEMMA IndexIs ==
    ASSUME NEW a, NEW d, NEW c, NEW x, NEW p,
           AddedInv(a), DataInv(a, d, c), IndexInv(a, d, c, x, p)
    PROVE  LET ks == IndexKeys(x)
           IN  /\ Holds(x, ks) /\ Len(ks) = Len(x.entries) /\ Len(x.entries) \in Nat
               /\ Ascending(ks)
               /\ \A n \in 1 .. Len(x.entries) :
                     /\ ks[n] \in Key /\ ks[n] = x.entries[n].rest /\ x.entries[n].value = n
                     /\ n \in 1 .. Len(d) /\ Between(ks[n], a, EndOf(d, n))
<1> DEFINE ks == IndexKeys(x)
           L == Len(x.entries)
<1>1. Holds(x, ks) /\ Follows(x, 0)
  BY DEF IndexInv, Open
<1>2. Len(ks) = L /\ L \in Nat /\ \A n \in 1 .. L : ks[n] \in Key
  BY <1>1, HoldsTypes
<1>3. \A n \in 1 .. L : ks[n] = x.entries[n].rest
  BY DEF IndexKeys
<1>4. /\ Len(a) \in Nat
      /\ \A n \in 1 .. Len(a) : a[n] \in Key
      /\ \A i, j \in 1 .. Len(a) : i < j => KeyBefore(a[i], a[j])
  BY AddedTypes
<1>5. /\ Len(d) \in Nat
      /\ \A m \in 0 .. Len(d) : EndOf(d, m) \in Nat /\ EndOf(d, m) <= Len(a)
      /\ \A m \in 1 .. Len(d) : EndOf(d, m) \in 1 .. Len(a) /\ m \in 0 .. Len(d)
  BY <1>4, EndOfIs DEF DataInv
<1>6. \A n \in 1 .. L : n \in 1 .. Len(d) /\ x.entries[n].value = n /\ n \in Nat
  <2>1. Len(d) = IF p THEN L + 1 ELSE L
    BY DEF IndexInv
  <2>2. L <= Len(d)
    BY <1>2, <1>5, <2>1
  <2>3. \A n \in 1 .. L : x.entries[n].value = 0 + n
    BY <1>1 DEF Follows
  <2> HIDE DEF L
  <2> QED BY <1>2, <1>5, <2>2, <2>3
<1>7. \A n \in 1 .. L : Between(ks[n], a, EndOf(d, n))
  BY <1>3 DEF IndexInv
<1> HIDE DEF ks, L
<1>8. ASSUME NEW i \in 1 .. L, NEW j \in 1 .. L, i < j PROVE KeyBefore(ks[i], ks[j])
  <2>1. EndOf(d, i) + 1 <= EndOf(d, j) /\ EndOf(d, i) < EndOf(d, j)
    BY <1>4, <1>5, <1>6, <1>8, EndOfOrder
  <2> DEFINE e == EndOf(d, i)
             g == EndOf(d, j)
  <2>2. e \in Nat /\ g \in 1 .. Len(a) /\ e + 1 \in 1 .. Len(a) /\ e < Len(a) /\ e + 1 <= g
    BY <1>4, <1>5, <1>6, <2>1
  <2>3. KeyBefore(ks[i], a[e + 1]) /\ ~ KeyBefore(ks[j], a[g])
    BY <1>7, <2>2 DEF Between
  <2> HIDE DEF e, g
  <2>4. ks[i] \in Key /\ ks[j] \in Key /\ a[e + 1] \in Key /\ a[g] \in Key
    BY <1>2, <1>4, <2>2
  <2>5. CASE e + 1 = g
    BY <2>3, <2>4, <2>5, KeyOrder
  <2>6. CASE e + 1 # g
    <3>1. KeyBefore(a[e + 1], a[g])
      <4>1. e + 1 < g
        BY <2>2, <2>6
      <4> QED BY <1>4, <2>2, <4>1
    <3>2. KeyBefore(ks[i], a[g])
      BY <2>3, <2>4, <3>1, KeyBeforeThat
    <3> QED BY <2>3, <2>4, <3>2, KeyOrder
  <2> QED BY <2>5, <2>6
<1>9. Ascending(ks)
  BY <1>2, <1>8 DEF Ascending
<1> QED BY <1>1, <1>2, <1>3, <1>6, <1>7, <1>9 DEF ks, L

-----------------------------------------------------------------------------
(* Adding to a table: the blocks *)

LEMMA OneMore ==
    ASSUME NEW d, Len(d) \in Nat, d = [m \in 1 .. Len(d) |-> d[m]], NEW r
    PROVE  LET e == Append(d, r)
           IN  /\ Len(e) = Len(d) + 1 /\ e = [m \in 1 .. Len(e) |-> e[m]]
               /\ e[Len(d) + 1] = r /\ Last(e) = r /\ e # <<>>
               /\ \A m \in 1 .. Len(d) : e[m] = d[m] /\ m \in 1 .. Len(e)
               /\ \A m \in 1 .. Len(e) : m \in 1 .. Len(d) \/ m = Len(d) + 1
<1> DEFINE S == {d[m] : m \in 1 .. Len(d)} \cup {r}
           e == Append(d, r)
           L == Len(d)
<1>1. d \in Seq(S)
  <2>1. \A m \in 1 .. L : d[m] \in S
    OBVIOUS
  <2> HIDE DEF S
  <2>2. [m \in 1 .. L |-> d[m]] \in [1 .. L -> S]
    BY <2>1
  <2>3. d \in [1 .. L -> S]
    BY <2>2
  <2>4. Seq(S) = UNION {[1 .. n -> S] : n \in Nat}
    BY SeqDef
  <2> HIDE DEF L
  <2>5. L \in Nat
    BY DEF L
  <2> QED BY <2>3, <2>4, <2>5
<1>2. r \in S
  OBVIOUS
<1> HIDE DEF S
<1>3. /\ e \in Seq(S) /\ L \in Nat /\ Len(e) = L + 1
      /\ e[L + 1] = r
      /\ \A i \in 1 .. L : e[i] = d[i] /\ i \in 1 .. L + 1
      /\ \A i \in 1 .. L + 1 : i \in 1 .. L \/ i = L + 1
  BY <1>1, <1>2, AppendIs
<1> HIDE DEF e
<1>4. e = [m \in 1 .. Len(e) |-> e[m]] /\ e # <<>>
  <2>1. e \in [1 .. Len(e) -> S]
    BY <1>3, LenProperties
  <2>2. e # <<>>
    BY <1>3
  <2> QED BY <2>1, <2>2
<1>5. Last(e) = r
  BY <1>3 DEF Last
<1> QED BY <1>3, <1>4, <1>5 DEF e

LEMMA NoneIs ==
    ASSUME NEW d, Len(d) \in Nat, d = [m \in 1 .. Len(d) |-> d[m]]
    PROVE  d = <<>> <=> Len(d) = 0
<1>1. ASSUME Len(d) = 0 PROVE d = <<>>
  <2>1. d \in [1 .. Len(d) -> {d[m] : m \in 1 .. Len(d)}]
    OBVIOUS
  <2>2. Seq({d[m] : m \in 1 .. Len(d)}) = UNION {[1 .. n -> {d[m] : m \in 1 .. Len(d)}] : n \in Nat}
    BY SeqDef
  <2> DEFINE S == {d[m] : m \in 1 .. Len(d)}
  <2>3. d \in Seq(S)
    BY <2>1, <2>2
  <2> HIDE DEF S
  <2> QED BY <1>1, <2>3, EmptySeq
<1>2. d = <<>> => Len(d) = 0
  OBVIOUS
<1> QED BY <1>1, <1>2

\* What was held before is held after a key has been added.
LEMMA HeldStays ==
    ASSUME NEW a \in Seq(Key), NEW key \in Key, NEW b,
           \A n \in 1 .. Len(b.entries) : b.entries[n].value \in 1 .. Len(a)
    PROVE  /\ Held(Append(a, key), b) = Held(a, b)
           /\ Users(Append(a, key), b) = Users(a, b)
<1>1. \A i \in 1 .. Len(a) : Append(a, key)[i] = a[i]
  BY AppendIs
<1>2. \A n \in 1 .. Len(b.entries) : Append(a, key)[b.entries[n].value] = a[b.entries[n].value]
  BY <1>1
<1> HIDE <1>1
<1>3. Held(Append(a, key), b) = Held(a, b)
  BY <1>2 DEF Held
<1>4. Users(Append(a, key), b) = Users(a, b)
  BY <1>2 DEF Users
<1> QED BY <1>3, <1>4

LEMMA AddedGrows ==
    ASSUME NEW a, AddedInv(a), NEW key \in InternalKeys,
           \A i \in 1 .. Len(a) : KeyBefore(a[i], key)
    PROVE  AddedInv(Append(a, key))
<1> DEFINE b == Append(a, key)
<1>1. /\ a \in Seq(Key) /\ Len(a) \in Nat
      /\ \A n \in 1 .. Len(a) : a[n] \in Key /\ a[n] \in InternalKeys
      /\ \A m, n \in 1 .. Len(a) : m < n => KeyBefore(a[m], a[n])
  BY AddedTypes
<1>2. key \in Key
  BY InternalKeyIs
<1>3. /\ b \in Seq(Key) /\ Len(b) = Len(a) + 1
      /\ b[Len(a) + 1] = key
      /\ \A i \in 1 .. Len(a) : b[i] = a[i]
      /\ \A i \in 1 .. Len(a) + 1 : i \in 1 .. Len(a) \/ i = Len(a) + 1
  BY <1>1, <1>2, AppendIs
<1> HIDE DEF b
<1>4. \A n \in 1 .. Len(b) : b[n] \in InternalKeys
  BY <1>1, <1>3
<1>5. ASSUME NEW m \in 1 .. Len(b), NEW n \in 1 .. Len(b), m < n PROVE KeyBefore(b[m], b[n])
  <2>1. m \in 1 .. Len(a)
    BY <1>1, <1>3, <1>5
  <2>2. CASE n \in 1 .. Len(a)
    BY <1>1, <1>3, <1>5, <2>1, <2>2
  <2>3. CASE n = Len(a) + 1
    BY <1>3, <2>1, <2>3
  <2> QED BY <1>3, <2>2, <2>3
<1> QED BY <1>3, <1>4, <1>5 DEF AddedInv, Ascending, b

\* The open block with one more key.
LEMMA OpenGrows ==
    ASSUME NEW a, NEW d, NEW c, AddedInv(a), DataInv(a, d, c), NEW key \in InternalKeys
    PROVE  LET b == BlockAdd(c, RestartInterval, key, Len(a) + 1)
           IN  /\ DataInv(Append(a, key), d, b) /\ Len(b.entries) > 0
               /\ Users(Append(a, key), b) = Users(a, c) \cup {Front(key)}
               /\ \A m \in 1 .. Len(d) : Users(Append(a, key), d[m].block) = Users(a, d[m].block)
<1> DEFINE b == BlockAdd(c, RestartInterval, key, Len(a) + 1)
           z == Append(a, key)
           L == Len(c.entries)
           E == EndOf(d, Len(d))
<1>1. a \in Seq(Key) /\ Len(a) \in Nat /\ key \in Key
  BY AddedTypes, InternalKeyIs
<1>2. /\ Len(d) \in Nat /\ d = [m \in 1 .. Len(d) |-> d[m]]
      /\ Open(c, Held(a, c)) /\ Follows(c, E) /\ Len(a) = E + L
  BY DEF DataInv
<1>3. L \in Nat /\ Len(Held(a, c)) = L /\ Holds(c, Held(a, c)) /\ c.entries \in Seq(Entry)
      /\ Held(a, c) \in Seq(Key)
  BY <1>2, HoldsTypes DEF Open
<1>4. E \in Nat
  <2>1. Len(d) \in 0 .. Len(d)
    BY <1>2
  <2> QED BY <1>1, <2>1, EndOfIs
<1>5. /\ Open(b, Append(Held(a, c), key))
      /\ \E e \in Entry : /\ b.entries = Append(c.entries, e) /\ e.value = Len(a) + 1
                          /\ RestartInterval = 1 => e.shared = 0 /\ e.rest = key
  <2> DEFINE v == Len(a) + 1
             h == Held(a, c)
  <2>1. RestartInterval \in Nat \ {0} /\ v \in Nat
    BY <1>1, TableAssumption
  <2>2. Open(c, h)
    BY <1>2
  <2> HIDE DEF v, h
  <2>3. Extends(BlockAdd(c, RestartInterval, key, v), c, h, key, v, RestartInterval)
    BY <1>1, <2>1, <2>2, BlockAddIs
  <2> QED BY <2>3 DEF Extends, b, v, h
<1>6. PICK e \in Entry : b.entries = Append(c.entries, e) /\ e.value = Len(a) + 1
  BY <1>5
<1> HIDE DEF b, L, E
<1>7. /\ Len(b.entries) = L + 1 /\ b.entries[L + 1] = e
      /\ \A i \in 1 .. L : b.entries[i] = c.entries[i]
      /\ \A i \in 1 .. L + 1 : i \in 1 .. L \/ i = L + 1
  <2>1. L = Len(c.entries)
    BY DEF L
  <2> QED BY <1>3, <1>6, <2>1, AppendIs
<1>8. /\ z \in Seq(Key) /\ Len(z) = Len(a) + 1 /\ z[Len(a) + 1] = key
      /\ \A i \in 1 .. Len(a) : z[i] = a[i]
  BY <1>1, AppendIs
<1>9. \A n \in 1 .. L : c.entries[n].value = E + n /\ c.entries[n].value \in 1 .. Len(a)
  <2>1. \A n \in 1 .. L : c.entries[n].value = E + n
    BY <1>2 DEF Follows, L
  <2>2. \A n \in 1 .. L : E + n \in 1 .. Len(a)
    BY <1>2, <1>3, <1>4
  <2> QED BY <2>1, <2>2
<1> HIDE DEF z
<1>10. Follows(b, E)
  <2>1. \A n \in 1 .. L + 1 : b.entries[n].value = E + n
    <3> TAKE n \in 1 .. L + 1
    <3>1. CASE n \in 1 .. L
      BY <1>7, <1>9, <3>1
    <3>2. CASE n = L + 1
      <4>1. Len(a) + 1 = E + n
        BY <1>2, <1>3, <1>4, <3>2
      <4> QED BY <1>6, <1>7, <3>2, <4>1
    <3> QED BY <1>7, <3>1, <3>2
  <2> QED BY <1>7, <2>1 DEF Follows
<1>11. Held(z, b) = Append(Held(a, c), key)
  <2> DEFINE h == Append(Held(a, c), key)
  <2>1. /\ h \in Seq(Key) /\ Len(h) = L + 1 /\ h[L + 1] = key
        /\ \A i \in 1 .. L : h[i] = Held(a, c)[i]
    BY <1>1, <1>3, AppendIs
  <2>2. \A n \in 1 .. L + 1 : h[n] = z[b.entries[n].value]
    <3> TAKE n \in 1 .. L + 1
    <3>1. CASE n \in 1 .. L
      <4>1. Held(a, c)[n] = a[c.entries[n].value]
        BY <3>1 DEF Held, L
      <4> QED BY <1>7, <1>8, <1>9, <2>1, <3>1, <4>1
    <3>2. CASE n = L + 1
      BY <1>6, <1>7, <1>8, <2>1, <3>2
    <3> QED BY <1>7, <3>1, <3>2
  <2> HIDE DEF h
  <2>3. h = [n \in 1 .. L + 1 |-> h[n]]
    <3>1. h \in [1 .. Len(h) -> Key]
      BY <2>1, LenProperties
    <3> QED BY <2>1, <3>1
  <2>4. Held(z, b) = [n \in 1 .. L + 1 |-> z[b.entries[n].value]]
    BY <1>7 DEF Held
  <2>5. Held(z, b) = h
    BY <2>2, <2>3, <2>4
  <2> QED BY <2>5 DEF h
<1>12. ASSUME NEW m \in 1 .. Len(d)
       PROVE  /\ Holds(d[m].block, Held(z, d[m].block)) /\ Len(d[m].block.entries) > 0
              /\ Follows(d[m].block, EndOf(d, m - 1)) /\ EndOf(d, m) \in 1 .. Len(z)
              /\ Users(z, d[m].block) = Users(a, d[m].block)
  <2>1. /\ Holds(d[m].block, Held(a, d[m].block)) /\ Len(d[m].block.entries) > 0
        /\ Follows(d[m].block, EndOf(d, m - 1)) /\ EndOf(d, m) \in 1 .. Len(a)
    BY DEF DataInv
  <2>2. \A n \in 1 .. Len(d[m].block.entries) : d[m].block.entries[n].value \in 1 .. Len(a)
    BY HeldIs
  <2>3. /\ Held(z, d[m].block) = Held(a, d[m].block)
        /\ Users(z, d[m].block) = Users(a, d[m].block)
    BY <1>1, <2>2, HeldStays DEF z
  <2>4. EndOf(d, m) \in 1 .. Len(z)
    BY <1>1, <1>8, <2>1
  <2> QED BY <2>1, <2>3, <2>4
<1>13. Len(z) = E + Len(b.entries) /\ Len(b.entries) > 0
  BY <1>2, <1>3, <1>4, <1>7, <1>8 DEF L
<1>14. DataInv(z, d, b)
  <2>1. Open(b, Held(z, b))
    BY <1>5, <1>11
  <2> QED BY <1>2, <1>10, <1>12, <1>13, <2>1 DEF DataInv, E
<1>15. Users(z, b) = Users(a, c) \cup {Front(key)}
  <2>1. Users(z, b) = {Front(z[b.entries[n].value]) : n \in 1 .. L + 1}
    BY <1>7 DEF Users
  <2>2. Users(a, c) = {Front(a[c.entries[n].value]) : n \in 1 .. L}
    BY DEF Users, L
  <2>3. \A n \in 1 .. L : z[b.entries[n].value] = a[c.entries[n].value] /\ n \in 1 .. L + 1
    BY <1>3, <1>7, <1>8, <1>9
  <2>4. z[b.entries[L + 1].value] = key /\ L + 1 \in 1 .. L + 1
    BY <1>3, <1>6, <1>7, <1>8
  <2> QED BY <1>7, <2>1, <2>2, <2>3, <2>4
<1> QED BY <1>12, <1>13, <1>14, <1>15 DEF b, z

\* The open block written to the file.
LEMMA BlockClosed ==
    ASSUME NEW a, NEW d, NEW c, AddedInv(a), DataInv(a, d, c), Len(c.entries) > 0,
           NEW r, r.block = c
    PROVE  LET e == Append(d, r)
           IN  /\ DataInv(a, e, EmptyBlock)
               /\ \A m \in 0 .. Len(d) : EndOf(e, m) = EndOf(d, m)
               /\ Len(e) = Len(d) + 1 /\ EndOf(e, Len(e)) = Len(a)
<1> DEFINE e == Append(d, r)
           E == EndOf(d, Len(d))
           L == Len(c.entries)
<1>1. Len(a) \in Nat
  BY AddedTypes
<1>2. /\ Len(d) \in Nat /\ d = [m \in 1 .. Len(d) |-> d[m]]
      /\ Open(c, Held(a, c)) /\ Follows(c, E) /\ Len(a) = E + L
  BY DEF DataInv
<1>3. Holds(c, Held(a, c)) /\ L \in Nat
  BY <1>2, HoldsTypes DEF Open
<1>4. E \in Nat
  <2>1. Len(d) \in 0 .. Len(d)
    BY <1>2
  <2> QED BY <1>1, <2>1, EndOfIs
<1>5. /\ Len(e) = Len(d) + 1 /\ e = [m \in 1 .. Len(e) |-> e[m]]
      /\ e[Len(d) + 1] = r
      /\ \A m \in 1 .. Len(d) : e[m] = d[m]
      /\ \A m \in 1 .. Len(e) : m \in 1 .. Len(d) \/ m = Len(d) + 1
  BY <1>2, OneMore
<1> HIDE DEF e, E, L
<1>6. \A m \in 0 .. Len(d) : EndOf(e, m) = EndOf(d, m)
  <2> TAKE m \in 0 .. Len(d)
  <2>1. m # 0 => m \in 1 .. Len(d)
    BY <1>2
  <2> QED BY <1>5, <2>1 DEF EndOf
<1>7. EndOf(e, Len(e)) = Len(a)
  <2>1. Len(e) # 0 /\ e[Len(e)].block = c
    BY <1>2, <1>5
  <2>2. EndOf(e, Len(e)) = c.entries[L].value
    BY <2>1 DEF EndOf, Last, L
  <2>3. L \in 1 .. L
    BY <1>3 DEF L
  <2>4. c.entries[L].value = E + L
    BY <1>2, <2>3 DEF Follows, L
  <2> QED BY <1>2, <2>2, <2>4
<1>8. ASSUME NEW m \in 1 .. Len(e)
      PROVE  /\ Holds(e[m].block, Held(a, e[m].block)) /\ Len(e[m].block.entries) > 0
             /\ Follows(e[m].block, EndOf(e, m - 1)) /\ EndOf(e, m) \in 1 .. Len(a)
  <2>1. CASE m \in 1 .. Len(d)
    <3>1. m - 1 \in 0 .. Len(d) /\ m \in 0 .. Len(d)
      BY <1>2, <2>1
    <3>2. EndOf(e, m - 1) = EndOf(d, m - 1) /\ EndOf(e, m) = EndOf(d, m) /\ e[m] = d[m]
      BY <1>5, <1>6, <2>1, <3>1
    <3> QED BY <2>1, <3>2 DEF DataInv
  <2>2. CASE m = Len(d) + 1
    <3>1. m - 1 = Len(d) /\ Len(d) \in 0 .. Len(d) /\ e[m].block = c /\ m = Len(e)
      BY <1>2, <1>5, <2>2
    <3>2. EndOf(e, m - 1) = E /\ EndOf(e, m) = Len(a)
      BY <1>6, <1>7, <3>1 DEF E
    <3>3. Len(a) \in 1 .. Len(a)
      BY <1>1, <1>2, <1>3, <1>4 DEF L
    <3> QED BY <1>2, <1>3, <3>1, <3>2, <3>3
  <2> QED BY <1>5, <2>1, <2>2
<1>9. /\ Held(a, EmptyBlock) = <<>> /\ Len(EmptyBlock.entries) = 0
  BY DEF Held, EmptyBlock
<1>10. DataInv(a, e, EmptyBlock)
  <2>1. Open(EmptyBlock, Held(a, EmptyBlock))
    BY <1>9, EmptyOpen
  <2>2. Follows(EmptyBlock, EndOf(e, Len(e)))
    BY <1>9 DEF Follows
  <2>3. Len(a) = EndOf(e, Len(e)) + Len(EmptyBlock.entries) /\ Len(e) \in Nat
    BY <1>1, <1>2, <1>5, <1>7, <1>9
  <2> QED BY <1>5, <1>8, <2>1, <2>2, <2>3 DEF DataInv
<1> QED BY <1>5, <1>6, <1>7, <1>10 DEF e

-----------------------------------------------------------------------------
(* Adding to a table: the index *)

\* The index block by itself.
IndexOpen(x) ==
    Open(x, IndexKeys(x)) /\ (\A n \in 1 .. Len(x.entries) : x.entries[n].shared = 0) /\ Follows(x, 0)

LEMMA IndexGrows ==
    ASSUME NEW x, IndexOpen(x), NEW k \in Key
    PROVE  LET y == BlockAdd(x, 1, k, Len(x.entries) + 1)
               L == Len(x.entries)
           IN  /\ IndexOpen(y) /\ L \in Nat /\ Len(y.entries) = L + 1 /\ y.entries[L + 1].rest = k
               /\ \A n \in 1 .. L : y.entries[n] = x.entries[n]
               /\ \A n \in 1 .. L + 1 : n \in 1 .. L \/ n = L + 1
<1> DEFINE L == Len(x.entries)
           v == L + 1
           y == BlockAdd(x, 1, k, v)
           ks == IndexKeys(x)
<1>1. Open(x, ks) /\ (\A n \in 1 .. L : x.entries[n].shared = 0) /\ Follows(x, 0)
  BY DEF IndexOpen
<1>2. /\ L \in Nat /\ Len(ks) = L /\ ks \in Seq(Key) /\ x.entries \in Seq(Entry)
  BY <1>1, HoldsTypes DEF Open
<1>3. Extends(BlockAdd(x, 1, k, v), x, ks, k, v, 1)
  <2>1. v \in Nat /\ 1 \in Nat \ {0}
    BY <1>2
  <2> HIDE DEF v, ks
  <2> QED BY <1>1, <2>1, BlockAddIs
<1>4. /\ Open(y, Append(ks, k))
      /\ \E e \in Entry : y.entries = Append(x.entries, e) /\ e.value = v /\ e.shared = 0 /\ e.rest = k
  BY <1>3 DEF Extends
<1> HIDE DEF y
<1>5. PICK e \in Entry : y.entries = Append(x.entries, e) /\ e.value = v /\ e.shared = 0 /\ e.rest = k
  BY <1>4
<1>6. /\ Len(y.entries) = L + 1 /\ y.entries[L + 1] = e
      /\ \A i \in 1 .. L : y.entries[i] = x.entries[i]
      /\ \A i \in 1 .. L + 1 : i \in 1 .. L \/ i = L + 1
  BY <1>2, <1>5, AppendIs
<1>7. /\ Append(ks, k) \in Seq(Key) /\ Len(Append(ks, k)) = L + 1 /\ Append(ks, k)[L + 1] = k
      /\ \A i \in 1 .. L : Append(ks, k)[i] = ks[i]
  BY <1>2, AppendIs
<1>8. \A n \in 1 .. L : ks[n] = x.entries[n].rest
  BY DEF IndexKeys
<1> DEFINE h == Append(ks, k)
<1>9. \A n \in 1 .. L + 1 : h[n] = y.entries[n].rest
  BY <1>5, <1>6, <1>7, <1>8
<1>10. h = [n \in 1 .. L + 1 |-> h[n]]
  <2> HIDE DEF h
  <2>1. h \in [1 .. L + 1 -> Key]
    <3>1. h \in Seq(Key) /\ Len(h) = L + 1
      BY <1>7 DEF h
    <3> QED BY <3>1, LenProperties
  <2> QED BY <2>1
<1>11. IndexKeys(y) = [n \in 1 .. L + 1 |-> y.entries[n].rest]
  BY <1>6 DEF IndexKeys
<1> HIDE DEF h
<1>12. IndexKeys(y) = h
  BY <1>9, <1>10, <1>11
<1>13. \A n \in 1 .. Len(y.entries) : y.entries[n].shared = 0
  BY <1>1, <1>5, <1>6
<1>14. Follows(y, 0)
  <2>1. \A n \in 1 .. L : x.entries[n].value = 0 + n
    BY <1>1 DEF Follows
  <2>2. \A n \in 1 .. L + 1 : y.entries[n].value = 0 + n
    <3> TAKE n \in 1 .. L + 1
    <3>1. CASE n \in 1 .. L
      BY <1>6, <2>1, <3>1
    <3>2. CASE n = L + 1
      <4>1. L + 1 = 0 + n
        BY <1>2, <3>2
      <4> QED BY <1>5, <1>6, <3>2, <4>1
    <3> QED BY <1>6, <3>1, <3>2
  <2> QED BY <1>6, <2>2 DEF Follows
<1>15. IndexOpen(y)
  BY <1>4, <1>12, <1>13, <1>14 DEF IndexOpen, h
<1> QED BY <1>2, <1>5, <1>6, <1>15 DEF y

\* An index key stays where it is when a key is added behind the next block's first.
LEMMA BetweenStays ==
    ASSUME NEW a \in Seq(Key), NEW key \in Key, NEW k, NEW e \in 1 .. Len(a), e < Len(a),
           Between(k, a, e)
    PROVE  Between(k, Append(a, key), e)
<1>1. /\ Len(a) \in Nat /\ Len(Append(a, key)) = Len(a) + 1
      /\ \A i \in 1 .. Len(a) : Append(a, key)[i] = a[i]
  BY AppendIs
<1>2. e + 1 \in 1 .. Len(a)
  BY <1>1
<1>3. Append(a, key)[e] = a[e] /\ Append(a, key)[e + 1] = a[e + 1]
  BY <1>1, <1>2
<1> DEFINE z == Append(a, key)
<1> HIDE DEF z
<1> QED BY <1>3 DEF Between

\* A separator is between the last key and the one added.
LEMMA BetweenNew ==
    ASSUME NEW a \in Seq(Key), Len(a) > 0, Last(a) \in InternalKeys, NEW key \in InternalKeys,
           KeyBefore(Last(a), key)
    PROVE  Separator(Last(a), key) \in Key /\ Between(Separator(Last(a), key), Append(a, key), Len(a))
<1> DEFINE s == Separator(Last(a), key)
           z == Append(a, key)
<1>1. key \in Key
  BY InternalKeyIs
<1>2. /\ s \in Key /\ ~ KeyBefore(s, Last(a)) /\ KeyBefore(s, key)
      /\ s = Last(a) \/ BytesBefore(Front(s), Front(key))
  BY SeparatorIs
<1>3. z[Len(a)] = Last(a) /\ z[Len(a) + 1] = key
  <2>1. Len(a) \in 1 .. Len(a)
    OBVIOUS
  <2>2. z[Len(a) + 1] = key /\ z[Len(a)] = a[Len(a)]
    BY <1>1, <2>1, AppendIs
  <2> QED BY <2>2 DEF Last
<1> HIDE DEF s, z
<1>4. Between(s, z, Len(a))
  BY <1>2, <1>3 DEF Between
<1> QED BY <1>2, <1>4 DEF s, z

LEMMA BetweenLast ==
    ASSUME NEW a \in Seq(Key), Len(a) > 0, Last(a) \in InternalKeys
    PROVE  Successor(Last(a)) \in Key /\ Between(Successor(Last(a)), a, Len(a))
<1>1. Successor(Last(a)) \in Key /\ ~ KeyBefore(Successor(Last(a)), Last(a))
  BY SuccessorIs
<1>2. ~ (Len(a) < Len(a)) /\ Last(a) = a[Len(a)]
  BY DEF Last
<1> QED BY <1>1, <1>2 DEF Between

-----------------------------------------------------------------------------
(* Adding to a table: the filters *)

LEMMA QuotientOrder ==
    ASSUME NEW x \in Nat, NEW y \in Nat, x <= y, NEW n \in Nat, n > 0
    PROVE  x \div n <= y \div n
<1> DEFINE p == x \div n
           q == y \div n
<1>1. p \in Nat /\ n * p <= x /\ x < n * p + n
  BY Quotient
<1>2. q \in Nat /\ n * q <= y /\ y < n * q + n
  BY Quotient
<1> HIDE DEF p, q
<1>3. p <= q
  <2> SUFFICES ASSUME q < p PROVE FALSE
    BY <1>1, <1>2
  <2>1. PICK r \in Nat : p = q + 1 + r
    <3>1. p - q - 1 \in Nat
      BY <1>1, <1>2
    <3> QED BY <3>1, <1>1, <1>2
  <2>2. n * p = n * q + n + n * r /\ n * r >= 0 /\ n * r \in Int /\ n * q \in Int
    BY <2>1, <1>1, <1>2
  <2> QED BY <1>1, <1>2, <2>2
<1> QED BY <1>3 DEF p, q

\* The filters as a value.
FilterType(f) ==
    /\ f = [made |-> f.made, keys |-> f.keys]
    /\ f.made \in Seq(SUBSET Seq(Nat)) /\ f.keys \in SUBSET Seq(Nat)

\* Where the users of a block at this offset are found.
Filed(f, offset, users) ==
    /\ FilterAt(offset) <= Len(f.made) => users \subseteq f.made[FilterAt(offset)]
    /\ FilterAt(offset) > Len(f.made) => users \subseteq f.keys

LEMMA StartBlockIs ==
    ASSUME NEW f, FilterType(f), NEW offset \in Nat, offset \div kFilterBase >= Len(f.made)
    PROVE  LET g == StartBlock(f, offset)
           IN  /\ FilterType(g) /\ Len(g.made) = offset \div kFilterBase
               /\ \A i \in 1 .. Len(f.made) : g.made[i] = f.made[i]
               /\ Len(g.made) > Len(f.made) => g.made[Len(f.made) + 1] = f.keys
               /\ Len(g.made) = Len(f.made) => g = f
<1> DEFINE n == offset \div kFilterBase
           L == Len(f.made)
           missing == n - L
           S == SUBSET Seq(Nat)
           more == [i \in 1 .. missing |-> IF i = 1 THEN f.keys ELSE {}]
           g == StartBlock(f, offset)
<1>1. kFilterBase \in Nat /\ kFilterBase > 0
  BY TableAssumption
<1>2. n \in Nat
  BY <1>1, Quotient
<1>3. f.made \in Seq(S) /\ f.keys \in S /\ L \in Nat /\ n >= L
  BY DEF FilterType
<1>s. {} \in S
  OBVIOUS
<1> HIDE DEF S
<1>4. CASE n = L
  <2>1. g = f
    <3>1. missing <= 0
      BY <1>2, <1>3, <1>4
    <3> QED BY <3>1 DEF StartBlock
  <2> HIDE DEF g
  <2>2. ~ (Len(g.made) > Len(f.made))
    BY <1>3, <2>1
  <2> QED BY <1>4, <2>1, <2>2 DEF g
<1>5. CASE n # L
  <2>1. missing \in Nat /\ missing > 0 /\ L + missing = n
    BY <1>2, <1>3, <1>5
  <2>2. g = [made |-> f.made \o more, keys |-> {}]
    <3>1. ~ (missing <= 0)
      BY <2>1
    <3> QED BY <3>1 DEF StartBlock
  <2> HIDE DEF missing, n
  <2>3. more \in Seq(S) /\ Len(more) = missing /\ more[1] = f.keys
    <3>1. \A i \in 1 .. missing : (IF i = 1 THEN f.keys ELSE {}) \in S
      BY <1>3, <1>s
    <3>2. more \in [1 .. missing -> S]
      BY <3>1
    <3>3. 1 \in 1 .. missing
      BY <2>1
    <3>4. more[1] = f.keys
      BY <3>3
    <3> HIDE DEF more
    <3>5. Seq(S) = UNION {[1 .. j -> S] : j \in Nat}
      BY SeqDef
    <3>6. more \in Seq(S)
      BY <2>1, <3>2, <3>5
    <3>7. Len(more) = missing
      BY <2>1, <3>2, <3>6
    <3> QED BY <3>4, <3>6, <3>7
  <2> HIDE DEF more, g
  <2> DEFINE made == f.made \o more
  <2>4. /\ made \in Seq(S) /\ Len(made) = L + missing
        /\ \A i \in 1 .. L + missing : made[i] = IF i <= L THEN f.made[i] ELSE more[i - L]
    BY <1>3, <2>3, ConcatProperties
  <2> HIDE DEF made
  <2>5. g.made = made /\ g.keys = {} /\ g = [made |-> g.made, keys |-> g.keys]
    BY <2>2 DEF made
  <2>6. \A i \in 1 .. L : g.made[i] = f.made[i]
    <3>1. \A i \in 1 .. L : i \in 1 .. L + missing /\ i <= L
      BY <1>3, <2>1
    <3> QED BY <2>4, <2>5, <3>1
  <2>7. g.made[L + 1] = f.keys
    <3>1. L + 1 \in 1 .. L + missing /\ ~ (L + 1 <= L) /\ (L + 1) - L = 1
      BY <1>3, <2>1
    <3> QED BY <2>3, <2>4, <2>5, <3>1
  <2>8. FilterType(g)
    BY <1>s, <2>4, <2>5 DEF FilterType, S
  <2>9. Len(g.made) = n /\ Len(g.made) # L
    BY <1>2, <1>3, <1>5, <2>1, <2>4, <2>5
  <2> QED BY <2>6, <2>7, <2>8, <2>9 DEF n, g
<1> QED BY <1>4, <1>5

\* What was filed stays filed.
LEMMA FiledStays ==
    ASSUME NEW f, FilterType(f), NEW o \in Nat, NEW here \in Nat, o <= here,
           here \div kFilterBase = Len(f.made), NEW users, Filed(f, o, users),
           NEW next \in Nat, here <= next
    PROVE  /\ Filed(StartBlock(f, next), o, users)
           /\ FilterType(StartBlock(f, next))
           /\ Len(StartBlock(f, next).made) = next \div kFilterBase
<1> DEFINE g == StartBlock(f, next)
           n == next \div kFilterBase
           L == Len(f.made)
           p == FilterAt(o)
<1>1. kFilterBase \in Nat /\ kFilterBase > 0 /\ L \in Nat
  BY TableAssumption DEF FilterType
<1>2. n \in Nat /\ n >= L /\ o \div kFilterBase \in Nat /\ o \div kFilterBase <= L
  BY <1>1, Quotient, QuotientOrder
<1>3. p \in Nat /\ p >= 1 /\ p <= L + 1
  BY <1>1, <1>2 DEF FilterAt
<1>4. /\ FilterType(g) /\ Len(g.made) = n
      /\ \A i \in 1 .. L : g.made[i] = f.made[i]
      /\ n > L => g.made[L + 1] = f.keys
      /\ n = L => g = f
  BY <1>2, StartBlockIs
<1> HIDE DEF g, n, p
<1>5. /\ p <= L => users \subseteq f.made[p]
      /\ p > L => users \subseteq f.keys
  BY DEF Filed, p
<1>6. CASE n = L
  BY <1>4, <1>6 DEF g, n
<1>7. CASE n # L
  <2>1. p <= n /\ ~ (p > n)
    BY <1>1, <1>2, <1>3, <1>7
  <2>2. users \subseteq g.made[p]
    <3>1. CASE p <= L
      <4>1. p \in 1 .. L
        BY <1>1, <1>3, <3>1
      <4> QED BY <1>4, <1>5, <3>1, <4>1
    <3>2. CASE ~ (p <= L)
      <4>1. p = L + 1 /\ p > L /\ n > L
        BY <1>1, <1>2, <1>3, <1>7, <3>2
      <4> QED BY <1>4, <1>5, <4>1
    <3> QED BY <3>1, <3>2
  <2>3. Filed(g, o, users)
    BY <1>4, <2>1, <2>2 DEF Filed, p
  <2> QED BY <1>4, <2>3 DEF g, n
<1> QED BY <1>6, <1>7

-----------------------------------------------------------------------------
(* Adding to a table: the invariant is kept *)

\* With an index entry due for every block but the open one.
Due(d, c, p) == (p => Len(c.entries) = 0 /\ Len(d) > 0) /\ (~ p /\ Len(d) > 0 => Len(c.entries) > 0)

LEMMA EmptyHas == Len(EmptyBlock.entries) = 0 /\ EmptyBlock.entries = <<>>
BY DEF EmptyBlock

LEMMA BuiltDue ==
    ASSUME NEW a, NEW d, NEW c, NEW x, NEW p, NEW f, Built(a, d, c, x, p, f, FALSE)
    PROVE  Due(d, c, p)
<1>1. /\ p => c = EmptyBlock
      /\ p \in BOOLEAN /\ Len(d) = IF p THEN Len(x.entries) + 1 ELSE Len(x.entries)
      /\ ~ p /\ Len(d) > 0 => Len(c.entries) > 0
  BY DEF Built, IndexInv
<1>2. Len(x.entries) \in Nat
  <2>1. Holds(x, IndexKeys(x))
    BY DEF Built, IndexInv, Open
  <2> QED BY <2>1, HoldsTypes
<1>3. p => Len(d) > 0
  BY <1>1, <1>2
<1> QED BY <1>1, <1>3, EmptyHas DEF Due

\* The index after an addition to the data: its keys are between the blocks still.
LEMMA IndexAfterAdd ==
    ASSUME NEW a, NEW d, NEW c, NEW x, NEW p, AddedInv(a), DataInv(a, d, c),
           IndexInv(a, d, c, x, p), Due(d, c, p),
           NEW key \in InternalKeys, \A i \in 1 .. Len(a) : KeyBefore(a[i], key)
    PROVE  LET y == IF p THEN BlockAdd(x, 1, Separator(Last(a), key), Len(d)) ELSE x
           IN  /\ IndexOpen(y) /\ Len(y.entries) = Len(d)
               /\ \A m \in 1 .. Len(d) : Between(y.entries[m].rest, Append(a, key), EndOf(d, m))
<1> DEFINE s == Separator(Last(a), key)
           y == IF p THEN BlockAdd(x, 1, s, Len(d)) ELSE x
           L == Len(x.entries)
           z == Append(a, key)
<1>1. a \in Seq(Key) /\ Len(a) \in Nat /\ key \in Key
  BY AddedTypes, InternalKeyIs
<1>2. IndexOpen(x) /\ p \in BOOLEAN /\ Len(d) = IF p THEN L + 1 ELSE L
  BY DEF IndexInv, IndexOpen
<1>3. L \in Nat
  <2>1. Holds(x, IndexKeys(x))
    BY <1>2 DEF IndexOpen, Open
  <2> QED BY <2>1, HoldsTypes
<1>4. /\ Len(d) \in Nat
      /\ \A m \in 0 .. Len(d) : EndOf(d, m) \in Nat /\ EndOf(d, m) <= Len(a)
      /\ \A m \in 1 .. Len(d) : EndOf(d, m) \in 1 .. Len(a) /\ m \in 0 .. Len(d)
      /\ Len(a) = EndOf(d, Len(d)) + Len(c.entries)
  BY <1>1, EndOfIs DEF DataInv
<1>5. ASSUME NEW m \in 1 .. L PROVE m \in 1 .. Len(d) /\ Between(x.entries[m].rest, z, EndOf(d, m))
  <2>1. m \in 1 .. Len(d) /\ Len(d) \in 1 .. Len(d)
    BY <1>2, <1>3, <1>4
  <2>2. EndOf(d, m) < Len(a)
    <3>1. CASE p
      <4>1. m < Len(d) /\ m \in 0 .. Len(d) /\ Len(d) \in 0 .. Len(d)
        BY <1>2, <1>3, <3>1
      <4>2. EndOf(d, m) < EndOf(d, Len(d))
        BY <1>1, <4>1, EndOfOrder
      <4> QED BY <1>1, <1>4, <4>1, <4>2
    <3>2. CASE ~ p
      <4>1. Len(c.entries) > 0
        BY <1>4, <2>1, <3>2 DEF Due
      <4>2. Holds(c, Held(a, c))
        BY DEF DataInv, Open
      <4>3. Len(c.entries) \in Nat
        BY <4>2, HoldsTypes
      <4>4. EndOf(d, Len(d)) < Len(a)
        BY <1>4, <2>1, <4>1, <4>3
      <4>5. CASE m = Len(d)
        BY <4>4, <4>5
      <4>6. CASE m # Len(d)
        <5>1. m < Len(d) /\ m \in 0 .. Len(d) /\ Len(d) \in 0 .. Len(d)
          BY <1>4, <2>1, <4>6
        <5>2. EndOf(d, m) < EndOf(d, Len(d))
          BY <1>1, <5>1, EndOfOrder
        <5> QED BY <1>1, <1>4, <4>4, <5>1, <5>2
      <4> QED BY <4>5, <4>6
    <3> QED BY <1>2, <3>1, <3>2
  <2>3. Between(x.entries[m].rest, a, EndOf(d, m))
    BY DEF IndexInv
  <2>4. Between(x.entries[m].rest, z, EndOf(d, m))
    BY <1>1, <1>4, <2>1, <2>2, <2>3, BetweenStays
  <2> QED BY <2>1, <2>4
<1>6. CASE ~ p
  <2>1. y = x /\ Len(d) = L
    BY <1>2, <1>6
  <2> HIDE DEF y, z
  <2> QED BY <1>2, <1>5, <2>1 DEF y, z
<1>7. CASE p
  <2>1. Len(d) = L + 1 /\ Len(a) > 0 /\ Len(d) \in 1 .. Len(d) /\ Len(a) = EndOf(d, Len(d))
    <3>1. Len(d) = L + 1 /\ Len(d) \in 1 .. Len(d) /\ Len(c.entries) = 0
      BY <1>2, <1>3, <1>7 DEF Due
    <3>2. EndOf(d, Len(d)) \in 1 .. Len(a)
      BY <1>4, <3>1
    <3> QED BY <1>1, <1>4, <3>1, <3>2
  <2>2. Last(a) \in InternalKeys /\ KeyBefore(Last(a), key)
    <3>1. Len(a) \in 1 .. Len(a)
      BY <1>1, <2>1
    <3>2. a[Len(a)] \in InternalKeys
      BY <3>1, AddedTypes
    <3> QED BY <3>1, <3>2 DEF Last
  <2>3. s \in Key /\ Between(s, z, Len(a))
    BY <1>1, <2>1, <2>2, BetweenNew
  <2>4. y = BlockAdd(x, 1, s, L + 1)
    BY <1>7, <2>1
  <2> HIDE DEF y, s, z
  <2>5. /\ IndexOpen(y) /\ Len(y.entries) = L + 1 /\ y.entries[L + 1].rest = s
        /\ \A n \in 1 .. L : y.entries[n] = x.entries[n]
        /\ \A n \in 1 .. L + 1 : n \in 1 .. L \/ n = L + 1
    <3>1. LET w == BlockAdd(x, 1, s, Len(x.entries) + 1)
          IN  /\ IndexOpen(w) /\ Len(w.entries) = L + 1 /\ w.entries[L + 1].rest = s
              /\ \A n \in 1 .. L : w.entries[n] = x.entries[n]
              /\ \A n \in 1 .. L + 1 : n \in 1 .. L \/ n = L + 1
      BY <1>2, <2>3, IndexGrows
    <3> QED BY <2>4, <3>1
  <2>6. \A m \in 1 .. Len(d) : Between(y.entries[m].rest, z, EndOf(d, m))
    <3> TAKE m \in 1 .. Len(d)
    <3>1. CASE m \in 1 .. L
      BY <1>5, <2>5, <3>1
    <3>2. CASE m = L + 1
      BY <2>1, <2>3, <2>5, <3>2
    <3> QED BY <2>1, <2>5, <3>1, <3>2
  <2> QED BY <2>1, <2>5, <2>6 DEF y, s, z
<1> QED BY <1>2, <1>6, <1>7

\* The data after an addition.
LEMMA DataAfterAdd ==
    ASSUME NEW a, NEW d, NEW c, AddedInv(a), DataInv(a, d, c),
           NEW key \in InternalKeys, \A i \in 1 .. Len(a) : KeyBefore(a[i], key),
           NEW r, r.block = BlockAdd(c, RestartInterval, key, Len(a) + 1)
    PROVE  LET b == r.block
               z == Append(a, key)
               e == Append(d, r)
           IN  /\ AddedInv(z) /\ DataInv(z, d, b) /\ DataInv(z, e, EmptyBlock)
               /\ Len(b.entries) > 0 /\ Len(e) = Len(d) + 1
               /\ \A m \in 0 .. Len(d) : EndOf(e, m) = EndOf(d, m)
<1> DEFINE b == r.block
           z == Append(a, key)
           e == Append(d, r)
<1>1. AddedInv(z)
  BY AddedGrows
<1>2. DataInv(z, d, b) /\ Len(b.entries) > 0
  BY OpenGrows
<1> HIDE DEF z
<1>3. /\ DataInv(z, e, EmptyBlock)
      /\ \A m \in 0 .. Len(d) : EndOf(e, m) = EndOf(d, m)
      /\ Len(e) = Len(d) + 1
  BY <1>1, <1>2, BlockClosed
<1> QED BY <1>1, <1>2, <1>3 DEF z

LEMMA OffsetIs ==
    ASSUME NEW d, Len(d) \in Nat, d = [m \in 1 .. Len(d) |-> d[m]],
           \A m \in 1 .. Len(d) : d[m].offset \in Nat /\ d[m].span \in Nat
    PROVE  /\ OffsetOf(d) \in Nat
           /\ \A r : OffsetOf(Append(d, r)) = r.offset + r.span
<1>1. OffsetOf(d) \in Nat
  <2>1. CASE Len(d) = 0
    <3>1. d = <<>>
      BY <2>1, NoneIs
    <3> QED BY <3>1 DEF OffsetOf
  <2>2. CASE Len(d) # 0
    <3>1. d # <<>>
      BY <2>2
    <3>2. Len(d) \in 1 .. Len(d)
      BY <2>2
    <3>3. OffsetOf(d) = d[Len(d)].offset + d[Len(d)].span
      BY <3>1 DEF OffsetOf, Last
    <3>4. d[Len(d)].offset \in Nat /\ d[Len(d)].span \in Nat
      BY <3>2
    <3> QED BY <3>3, <3>4
  <2> QED BY <2>1, <2>2
<1>2. ASSUME NEW r PROVE OffsetOf(Append(d, r)) = r.offset + r.span
  <2>1. Last(Append(d, r)) = r /\ Append(d, r) # <<>>
    BY OneMore
  <2> QED BY <2>1 DEF OffsetOf
<1> QED BY <1>1, <1>2

LEMMA FiltersAre ==
    ASSUME NEW a, NEW d, NEW c, NEW f
    PROVE  FilterInv(a, d, c, f, FALSE) <=>
              /\ FilterType(f) /\ OffsetOf(d) \div kFilterBase = Len(f.made)
              /\ Users(a, c) \subseteq f.keys
              /\ \A m \in 1 .. Len(d) :
                    /\ d[m].offset \in Nat /\ d[m].span \in Nat /\ d[m].offset <= OffsetOf(d)
                    /\ Filed(f, d[m].offset, Users(a, d[m].block))
BY DEF FilterInv, FilterType, Filed

LEMMA FiltersAfterAdd ==
    ASSUME NEW a, NEW d, NEW c, NEW f, FilterInv(a, d, c, f, FALSE), NEW key \in Key,
           NEW z, NEW b, Users(z, b) = Users(a, c) \cup {Front(key)},
           \A m \in 1 .. Len(d) : Users(z, d[m].block) = Users(a, d[m].block)
    PROVE  FilterInv(z, d, b, [f EXCEPT !.keys = @ \cup {Front(key)}], FALSE)
<1> DEFINE g == [f EXCEPT !.keys = @ \cup {Front(key)}]
<1>1. /\ FilterType(f) /\ OffsetOf(d) \div kFilterBase = Len(f.made)
      /\ Users(a, c) \subseteq f.keys
      /\ \A m \in 1 .. Len(d) :
            /\ d[m].offset \in Nat /\ d[m].span \in Nat /\ d[m].offset <= OffsetOf(d)
            /\ Filed(f, d[m].offset, Users(a, d[m].block))
  BY FiltersAre
<1>2. /\ f = [made |-> f.made, keys |-> f.keys]
      /\ f.made \in Seq(SUBSET Seq(Nat)) /\ f.keys \in SUBSET Seq(Nat)
  BY <1>1 DEF FilterType
<1>3. g.made = f.made /\ g.keys = f.keys \cup {Front(key)} /\ g = [made |-> g.made, keys |-> g.keys]
  <2> DEFINE m == f.made
             k == f.keys
             h == Front(key)
  <2>1. f = [made |-> m, keys |-> k]
    BY <1>2
  <2> HIDE DEF m, k, h
  <2>4. f.keys = k
    BY DEF k
  <2>5. [f EXCEPT !.keys = @ \cup {h}] = [f EXCEPT !.keys = k \cup {h}]
    BY <2>4
  <2> DEFINE j == k \cup {h}
  <2> HIDE DEF j
  <2>6. [f EXCEPT !.keys = j] = [made |-> m, keys |-> j]
    BY <2>1
  <2>2. [f EXCEPT !.keys = @ \cup {h}] = [made |-> m, keys |-> k \cup {h}]
    BY <2>5, <2>6 DEF j
  <2>3. g = [made |-> m, keys |-> k \cup {h}]
    BY <2>2 DEF h
  <2> HIDE DEF g
  <2> QED BY <2>3 DEF m, k, h
<1> HIDE DEF g
<1>4. Front(key) \in Seq(Nat)
  BY KeyParts
<1>5. FilterType(g)
  <2>1. g.keys \in SUBSET Seq(Nat)
    BY <1>2, <1>3, <1>4
  <2> QED BY <1>2, <1>3, <2>1 DEF FilterType
<1>6. \A m \in 1 .. Len(d) : Filed(g, d[m].offset, Users(z, d[m].block))
  BY <1>1, <1>3 DEF Filed
<1>7. Users(z, b) \subseteq g.keys
  BY <1>1, <1>3
<1>8. OffsetOf(d) \div kFilterBase = Len(g.made)
  BY <1>1, <1>3
<1>9. FilterInv(z, d, b, g, FALSE)
  BY <1>1, <1>5, <1>6, <1>7, <1>8, FiltersAre
<1> QED BY <1>9 DEF g

LEMMA FiltersClosed ==
    ASSUME NEW a, NEW d, NEW c, NEW f, FilterInv(a, d, c, f, FALSE),
           Len(d) \in Nat, d = [m \in 1 .. Len(d) |-> d[m]],
           NEW span \in Nat
    PROVE  FilterInv(a, Append(d, [block |-> c, offset |-> OffsetOf(d), span |-> span]),
                     EmptyBlock, StartBlock(f, OffsetOf(d) + span), FALSE)
<1> DEFINE o == OffsetOf(d)
           r == [block |-> c, offset |-> o, span |-> span]
           e == Append(d, r)
           g == StartBlock(f, o + span)
<1>1. /\ FilterType(f) /\ o \div kFilterBase = Len(f.made)
      /\ Users(a, c) \subseteq f.keys
      /\ \A m \in 1 .. Len(d) :
            /\ d[m].offset \in Nat /\ d[m].span \in Nat /\ d[m].offset <= o
            /\ Filed(f, d[m].offset, Users(a, d[m].block))
  BY FiltersAre
<1>2. o \in Nat /\ OffsetOf(e) = o + span
  <2>1. \A s : OffsetOf(Append(d, s)) = s.offset + s.span
    BY <1>1, OffsetIs
  <2>2. OffsetOf(d) \in Nat
    BY <1>1, OffsetIs
  <2> QED BY <2>1, <2>2
<1>r. r.block = c /\ r.offset = o /\ r.span = span
  OBVIOUS
<1> HIDE DEF o, r
<1>3. /\ Len(e) = Len(d) + 1 /\ e[Len(d) + 1] = r
      /\ \A m \in 1 .. Len(d) : e[m] = d[m]
      /\ \A m \in 1 .. Len(e) : m \in 1 .. Len(d) \/ m = Len(d) + 1
  BY OneMore
<1> HIDE DEF e, g
<1>4. o + span \in Nat /\ o <= o + span
  BY <1>2
<1>k. kFilterBase \in Nat /\ kFilterBase > 0
  BY TableAssumption
<1>5. Filed(f, o, Users(a, c))
  <2>1. Len(f.made) \in Nat
    BY <1>1 DEF FilterType
  <2>2. FilterAt(o) = Len(f.made) + 1
    BY <1>1 DEF FilterAt
  <2>3. ~ (FilterAt(o) <= Len(f.made))
    BY <2>1, <2>2
  <2> QED BY <1>1, <2>3 DEF Filed
<1>6. ASSUME NEW w \in Nat, w <= o, NEW users, Filed(f, w, users)
      PROVE  Filed(g, w, users) /\ FilterType(g) /\ Len(g.made) = (o + span) \div kFilterBase
  <2> DEFINE next == o + span
  <2>1. next \in Nat /\ o <= next
    BY <1>4
  <2> HIDE DEF next
  <2>2. /\ Filed(StartBlock(f, next), w, users)
        /\ FilterType(StartBlock(f, next))
        /\ Len(StartBlock(f, next).made) = next \div kFilterBase
    BY <1>1, <1>2, <1>6, <2>1, FiledStays
  <2> QED BY <2>2 DEF next, g
<1>7. Filed(g, o, Users(a, c)) /\ FilterType(g) /\ Len(g.made) = (o + span) \div kFilterBase
  BY <1>2, <1>5, <1>6
<1>8. ASSUME NEW m \in 1 .. Len(e)
      PROVE  /\ e[m].offset \in Nat /\ e[m].span \in Nat /\ e[m].offset <= OffsetOf(e)
             /\ Filed(g, e[m].offset, Users(a, e[m].block))
  <2>1. CASE m \in 1 .. Len(d)
    <3>1. d[m].offset \in Nat /\ d[m].span \in Nat /\ d[m].offset <= o
      BY <1>1, <2>1
    <3>2. Filed(g, d[m].offset, Users(a, d[m].block))
      BY <1>1, <1>6, <2>1, <3>1
    <3>3. d[m].offset <= OffsetOf(e)
      BY <1>2, <1>4, <3>1
    <3> QED BY <1>3, <2>1, <3>1, <3>2, <3>3
  <2>2. CASE m = Len(d) + 1
    BY <1>2, <1>3, <1>4, <1>7, <1>r, <2>2
  <2> QED BY <1>3, <2>1, <2>2
<1>9. Users(a, EmptyBlock) = {}
  BY EmptyHas DEF Users
<1>10. FilterInv(a, e, EmptyBlock, g, FALSE)
  <2>1. OffsetOf(e) \div kFilterBase = Len(g.made) /\ Users(a, EmptyBlock) \subseteq g.keys
    BY <1>2, <1>7, <1>9
  <2> QED BY <1>7, <1>8, <2>1, FiltersAre
<1> QED BY <1>10 DEF e, g, r, o

\* The filters that Finish writes.
LEMMA FiltersFinished ==
    ASSUME NEW a, NEW d, NEW c, NEW f, FilterInv(a, d, c, f, FALSE), NEW b
    PROVE  FilterInv(a, d, b, [f EXCEPT !.made = IF f.keys = {} THEN @ ELSE Append(@, f.keys)], TRUE)
<1> DEFINE more == IF f.keys = {} THEN f.made ELSE Append(f.made, f.keys)
           g == [f EXCEPT !.made = IF f.keys = {} THEN @ ELSE Append(@, f.keys)]
           S == SUBSET Seq(Nat)
           L == Len(f.made)
<1>1. /\ FilterType(f)
      /\ \A m \in 1 .. Len(d) :
            /\ d[m].offset \in Nat /\ d[m].span \in Nat
            /\ Filed(f, d[m].offset, Users(a, d[m].block))
  BY FiltersAre
<1>2. /\ f = [made |-> f.made, keys |-> f.keys] /\ f.made \in Seq(S) /\ f.keys \in S /\ L \in Nat
  BY <1>1 DEF FilterType
<1>3. g.made = more /\ g.keys = f.keys /\ g = [made |-> g.made, keys |-> g.keys]
  <2> DEFINE m == f.made
             k == f.keys
  <2>1. f = [made |-> m, keys |-> k]
    BY <1>2
  <2>2. more = IF k = {} THEN m ELSE Append(m, k)
    OBVIOUS
  <2>4. g = [f EXCEPT !.made = IF k = {} THEN @ ELSE Append(@, k)]
    OBVIOUS
  <2> HIDE DEF m, k, g, more
  <2>3. g = [made |-> more, keys |-> k]
    <3>1. CASE k = {}
      BY <2>1, <2>2, <2>4, <3>1
    <3>2. CASE k # {}
      BY <2>1, <2>2, <2>4, <3>2
    <3> QED BY <3>1, <3>2
  <2> QED BY <2>3 DEF k
<1> HIDE DEF g, S
<1>4. /\ more \in Seq(S) /\ (Len(more) = L \/ (Len(more) = L + 1 /\ more[L + 1] = f.keys))
      /\ \A i \in 1 .. L : more[i] = f.made[i]
  <2>1. CASE f.keys = {}
    BY <1>2, <2>1
  <2>2. CASE f.keys # {}
    <3>1. more = Append(f.made, f.keys)
      BY <2>2
    <3> QED BY <1>2, <3>1, AppendIs
  <2> QED BY <2>1, <2>2
<1> HIDE DEF more
<1>5. ASSUME NEW m \in 1 .. Len(d), FilterAt(d[m].offset) <= Len(g.made)
      PROVE  Users(a, d[m].block) \subseteq g.made[FilterAt(d[m].offset)]
  <2> DEFINE p == FilterAt(d[m].offset)
             users == Users(a, d[m].block)
  <2>1. p \in Nat /\ p >= 1
    <3>1. kFilterBase \in Nat /\ kFilterBase > 0 /\ d[m].offset \in Nat
      BY <1>1, TableAssumption
    <3>2. d[m].offset \div kFilterBase \in Nat
      BY <3>1, Quotient
    <3> QED BY <3>2 DEF FilterAt
  <2>2. /\ p <= L => users \subseteq f.made[p]
        /\ p > L => users \subseteq f.keys
    BY <1>1 DEF Filed
  <2>p. p <= Len(more)
    BY <1>3, <1>5
  <2> HIDE DEF p, users
  <2>3. CASE p <= L
    <3>1. p \in 1 .. L
      BY <1>2, <2>1, <2>3
    <3> QED BY <1>3, <1>4, <2>2, <2>3, <3>1 DEF p, users
  <2>4. CASE ~ (p <= L)
    <3>1. p > L /\ p = L + 1 /\ more[L + 1] = f.keys
      BY <1>2, <1>4, <2>1, <2>p, <2>4
    <3> QED BY <1>3, <2>2, <3>1 DEF p, users
  <2> QED BY <2>3, <2>4
<1>6. FilterInv(a, d, b, g, TRUE)
  BY <1>1, <1>2, <1>3, <1>4, <1>5 DEF FilterInv, S
<1> QED BY <1>6 DEF g

LEMMA AddKeeps ==
    ASSUME BuildInv, NEW key \in Addable, NEW full \in BOOLEAN, NEW span \in Spans,
           Add(key, full, span)
    PROVE  BuildInv'
<1> DEFINE a == added
           z == Append(added, key)
           b == BlockAdd(building, RestartInterval, key, Len(added) + 1)
           g == [filters EXCEPT !.keys = @ \cup {Front(key)}]
           r == [block |-> b, offset |-> OffsetOf(data), span |-> span]
           e == Append(data, r)
           y == IF pending THEN BlockAdd(index, 1, Separator(Last(added), key), Len(data)) ELSE index
<1>1. /\ ~ finished /\ finished' = finished /\ added' = z /\ pending' = full /\ index' = y
      /\ full => data' = e /\ building' = EmptyBlock /\ filters' = StartBlock(g, OffsetOf(data) + span)
      /\ ~ full => data' = data /\ building' = b /\ filters' = g
  BY DEF Add, IndexAdd, Offset, OffsetOf
<1>2. Built(added, data, building, index, pending, filters, FALSE) /\ finished = FALSE
  BY <1>1 DEF BuildInv, Built
<1>3. /\ AddedInv(added) /\ DataInv(added, data, building)
      /\ IndexInv(added, data, building, index, pending)
      /\ FilterInv(added, data, building, filters, FALSE)
      /\ Due(data, building, pending)
  BY <1>2, BuiltDue DEF Built
<1>4. key \in InternalKeys /\ key \in Key /\ \A i \in 1 .. Len(added) : KeyBefore(added[i], key)
  <2>1. DOMAIN added = 1 .. Len(added)
    BY <1>3, AddedTypes
  <2> QED BY <2>1, InternalKeyIs DEF Addable
<1>5. /\ AddedInv(z) /\ DataInv(z, data, b) /\ DataInv(z, e, EmptyBlock)
      /\ Len(b.entries) > 0 /\ Len(e) = Len(data) + 1
      /\ \A m \in 0 .. Len(data) : EndOf(e, m) = EndOf(data, m)
  <2>1. r.block = b
    OBVIOUS
  <2> HIDE DEF r
  <2> QED BY <1>3, <1>4, <2>1, DataAfterAdd
<1>6. /\ IndexOpen(y) /\ Len(y.entries) = Len(data)
      /\ \A m \in 1 .. Len(data) : Between(y.entries[m].rest, z, EndOf(data, m))
  BY <1>3, <1>4, IndexAfterAdd
<1>7. FilterInv(z, data, b, g, FALSE)
  <2>1. /\ Users(z, b) = Users(added, building) \cup {Front(key)}
        /\ \A m \in 1 .. Len(data) : Users(z, data[m].block) = Users(added, data[m].block)
    BY <1>3, <1>4, OpenGrows
  <2> HIDE DEF z, b
  <2> QED BY <1>3, <1>4, <2>1, FiltersAfterAdd
<1>d. Len(data) \in Nat /\ data = [m \in 1 .. Len(data) |-> data[m]]
  BY <1>3 DEF DataInv
<1>8. FilterInv(z, e, EmptyBlock, StartBlock(g, OffsetOf(data) + span), FALSE)
  <2>1. span \in Nat
    BY TableAssumption
  <2> HIDE DEF z, b, g
  <2> QED BY <1>7, <1>d, <2>1, FiltersClosed
<1> HIDE DEF z, b, g, r, e, y
<1>9. CASE full
  <2>1. IndexInv(z, e, EmptyBlock, y, TRUE)
    <3>1. Len(e) = Len(y.entries) + 1
      BY <1>5, <1>6
    <3>2. \A m \in 1 .. Len(y.entries) : m \in 0 .. Len(data) /\ m \in 1 .. Len(data)
      BY <1>6, <1>d
    <3>3. \A m \in 1 .. Len(y.entries) : Between(y.entries[m].rest, z, EndOf(e, m))
      BY <1>5, <1>6, <3>2
    <3> QED BY <1>6, <3>1, <3>3 DEF IndexInv, IndexOpen
  <2>2. Built(z, e, EmptyBlock, y, TRUE, StartBlock(g, OffsetOf(data) + span), FALSE)
    BY <1>5, <1>8, <2>1 DEF Built
  <2> QED BY <1>1, <1>2, <1>9, <2>2 DEF BuildInv
<1>10. CASE ~ full
  <2>1. IndexInv(z, data, b, y, FALSE)
    <3>2. \A m \in 1 .. Len(y.entries) : m \in 1 .. Len(data)
      BY <1>6
    <3> QED BY <1>6, <3>2 DEF IndexInv, IndexOpen
  <2>2. Built(z, data, b, y, FALSE, g, FALSE)
    BY <1>5, <1>7, <2>1 DEF Built
  <2>3. pending' = FALSE
    BY <1>1, <1>10
  <2> QED BY <1>1, <1>2, <1>10, <2>2, <2>3 DEF BuildInv
<1> QED BY <1>9, <1>10

LEMMA FinishKeeps ==
    ASSUME BuildInv, NEW span \in Spans, Finish(span)
    PROVE  BuildInv'
<1> DEFINE last == building.entries # <<>>
           r == [block |-> building, offset |-> OffsetOf(data), span |-> span]
           e == IF last THEN Append(data, r) ELSE data
           g == IF last THEN StartBlock(filters, OffsetOf(data) + span) ELSE filters
           h == [g EXCEPT !.made = IF g.keys = {} THEN @ ELSE Append(@, g.keys)]
           s == Successor(Last(added))
           y == BlockAdd(index, 1, s, Len(e))
<1>1. /\ ~ finished /\ finished' = TRUE /\ added' = added /\ pending' = FALSE /\ index' = y
      /\ data' = e /\ building' = EmptyBlock /\ filters' = h /\ added # <<>>
  BY DEF Finish, IndexAdd, Offset, OffsetOf
<1>2. Built(added, data, building, index, pending, filters, FALSE)
  BY <1>1 DEF BuildInv, Built
<1>3. /\ AddedInv(added) /\ DataInv(added, data, building)
      /\ IndexInv(added, data, building, index, pending)
      /\ FilterInv(added, data, building, filters, FALSE)
      /\ Due(data, building, pending)
  BY <1>2, BuiltDue DEF Built
<1>4. /\ Len(data) \in Nat /\ data = [m \in 1 .. Len(data) |-> data[m]]
      /\ Open(building, Held(added, building)) /\ Len(added) = EndOf(data, Len(data)) + Len(building.entries)
  BY <1>3 DEF DataInv
<1>5. added \in Seq(Key) /\ Len(added) \in Nat /\ Len(added) > 0
  <2>1. added \in Seq(Key)
    BY <1>3, AddedTypes
  <2> QED BY <1>1, <2>1, EmptySeq
<1>6. Len(building.entries) \in Nat /\ building.entries \in Seq(Entry)
  BY <1>4, HoldsTypes DEF Open
<1>7. last <=> Len(building.entries) > 0
  BY <1>6, EmptySeq
<1> DEFINE L == Len(index.entries)
<1>8. L \in Nat /\ IndexOpen(index) /\ Len(data) = IF pending THEN L + 1 ELSE L
  <2>1. IndexOpen(index) /\ Len(data) = IF pending THEN L + 1 ELSE L
    BY <1>3 DEF IndexInv, IndexOpen
  <2>2. Holds(index, IndexKeys(index))
    BY <2>1 DEF IndexOpen, Open
  <2> QED BY <2>1, <2>2, HoldsTypes
<1>9. /\ DataInv(added, e, EmptyBlock) /\ Len(e) = L + 1 /\ EndOf(e, Len(e)) = Len(added)
      /\ \A m \in 0 .. Len(data) : EndOf(e, m) = EndOf(data, m)
  <2>1. CASE last
    <3>1. r.block = building
      OBVIOUS
    <3> HIDE DEF r
    <3>2. e = Append(data, r)
      BY <2>1
    <3> HIDE DEF e
    <3>3. /\ DataInv(added, e, EmptyBlock)
          /\ \A m \in 0 .. Len(data) : EndOf(e, m) = EndOf(data, m)
          /\ Len(e) = Len(data) + 1 /\ EndOf(e, Len(e)) = Len(added)
      BY <1>3, <1>7, <2>1, <3>1, <3>2, BlockClosed
    <3>4. Len(data) = L
      <4>1. ~ pending
        BY <1>6, <1>7, <1>3, <2>1 DEF Due
      <4> QED BY <1>8, <4>1
    <3> QED BY <3>3, <3>4
  <2>2. CASE ~ last
    <3>1. e = data /\ Len(building.entries) = 0
      BY <1>6, <1>7, <2>2
    <3> HIDE DEF e
    <3>2. EndOf(data, Len(data)) = Len(added)
      <4>1. Len(data) \in 0 .. Len(data)
        BY <1>4
      <4>2. EndOf(data, Len(data)) \in Nat
        BY <1>3, <1>5, <4>1, EndOfIs
      <4> QED BY <1>4, <3>1, <4>2
    <3>3. Len(data) > 0
      <4>1. Len(data) = 0 => EndOf(data, Len(data)) = 0
        BY DEF EndOf
      <4> QED BY <1>4, <1>5, <3>2, <4>1
    <3>4. Len(data) = L + 1
      <4>1. pending \in BOOLEAN
        BY <1>3 DEF IndexInv
      <4>2. pending
        BY <1>3, <3>1, <3>3, <4>1 DEF Due
      <4> QED BY <1>8, <4>2
    <3>5. DataInv(added, data, EmptyBlock)
      <4>1. Held(added, EmptyBlock) = <<>>
        BY DEF Held, EmptyBlock
      <4>2. Open(EmptyBlock, Held(added, EmptyBlock))
        BY <4>1, EmptyOpen
      <4>3. Follows(EmptyBlock, EndOf(data, Len(data))) /\ Len(EmptyBlock.entries) = 0
        BY EmptyHas DEF Follows
      <4>4. Len(added) = EndOf(data, Len(data)) + Len(EmptyBlock.entries)
        BY <1>5, <3>2, <4>3
      <4> QED BY <1>3, <4>2, <4>3, <4>4 DEF DataInv
    <3> QED BY <3>1, <3>2, <3>4, <3>5
  <2> QED BY <2>1, <2>2
<1>10. FilterInv(added, e, EmptyBlock, h, TRUE)
  <2>1. FilterInv(added, e, IF last THEN EmptyBlock ELSE building, g, FALSE)
    <3>1. CASE last
      <4>1. span \in Nat
        BY TableAssumption
      <4>2. FilterInv(added, Append(data, r), EmptyBlock, StartBlock(filters, OffsetOf(data) + span), FALSE)
        BY <1>3, <1>4, <4>1, FiltersClosed
      <4> QED BY <3>1, <4>2
    <3>2. CASE ~ last
      BY <1>3, <3>2
    <3> QED BY <3>1, <3>2
  <2> DEFINE c == IF last THEN EmptyBlock ELSE building
  <2> HIDE DEF g, e, c
  <2>2. FilterInv(added, e, c, g, FALSE)
    BY <2>1 DEF c
  <2> QED BY <2>2, FiltersFinished
<1>11. s \in Key /\ Between(s, added, Len(added))
  <2>1. Last(added) \in InternalKeys
    <3>1. Len(added) \in 1 .. Len(added)
      BY <1>5
    <3>2. added[Len(added)] \in InternalKeys
      BY <1>3, <3>1, AddedTypes
    <3> QED BY <3>2 DEF Last
  <2> QED BY <1>5, <2>1, BetweenLast
<1> HIDE DEF e, h, s
<1>12. /\ IndexOpen(y) /\ Len(y.entries) = L + 1 /\ y.entries[L + 1].rest = s
       /\ \A n \in 1 .. L : y.entries[n] = index.entries[n]
       /\ \A n \in 1 .. L + 1 : n \in 1 .. L \/ n = L + 1
  <2>1. LET w == BlockAdd(index, 1, s, Len(index.entries) + 1)
        IN  /\ IndexOpen(w) /\ Len(w.entries) = L + 1 /\ w.entries[L + 1].rest = s
            /\ \A n \in 1 .. L : w.entries[n] = index.entries[n]
            /\ \A n \in 1 .. L + 1 : n \in 1 .. L \/ n = L + 1
    BY <1>8, <1>11, IndexGrows
  <2>2. y = BlockAdd(index, 1, s, Len(index.entries) + 1)
    BY <1>9
  <2> HIDE DEF y
  <2> QED BY <2>1, <2>2
<1> HIDE DEF y
<1>13. IndexInv(added, e, EmptyBlock, y, FALSE)
  <2>1. ASSUME NEW m \in 1 .. Len(y.entries) PROVE Between(y.entries[m].rest, added, EndOf(e, m))
    <3>1. CASE m \in 1 .. L
      <4>1. m \in 0 .. Len(data)
        <5>1. L <= Len(data) /\ m <= L /\ m \in Nat
          BY <1>4, <1>8, <3>1
        <5> HIDE DEF L
        <5> QED BY <1>4, <1>8, <5>1
      <4>2. Between(index.entries[m].rest, added, EndOf(data, m))
        BY <1>3, <3>1 DEF IndexInv
      <4> QED BY <1>9, <1>12, <3>1, <4>1, <4>2
    <3>2. CASE m = L + 1
      BY <1>9, <1>11, <1>12, <3>2
    <3> QED BY <1>12, <3>1, <3>2
  <2>2. Len(e) = Len(y.entries)
    BY <1>9, <1>12
  <2> QED BY <1>12, <2>1, <2>2 DEF IndexInv, IndexOpen
<1>14. Built(added, e, EmptyBlock, y, FALSE, h, TRUE)
  BY <1>1, <1>3, <1>9, <1>10, <1>13 DEF Built
<1> QED BY <1>1, <1>14 DEF BuildInv

LEMMA InitBuilt == TableInit => BuildInv
<1> SUFFICES ASSUME TableInit PROVE BuildInv
  OBVIOUS
<1>1. /\ added = <<>> /\ data = <<>> /\ building = EmptyBlock /\ index = EmptyBlock /\ pending = FALSE
      /\ filters = [made |-> <<>>, keys |-> {}] /\ finished = FALSE
  BY DEF TableInit
<1>2. AddedInv(<<>>)
  BY EmptySeq DEF AddedInv, Ascending
<1>3. DataInv(<<>>, <<>>, EmptyBlock)
  <2>1. Held(<<>>, EmptyBlock) = <<>>
    BY DEF Held, EmptyBlock
  <2>2. Open(EmptyBlock, Held(<<>>, EmptyBlock))
    BY <2>1, EmptyOpen
  <2>3. Follows(EmptyBlock, EndOf(<<>>, Len(<<>>))) /\ Len(EmptyBlock.entries) = 0
    BY EmptyHas DEF Follows
  <2>4. EndOf(<<>>, Len(<<>>)) = 0 /\ Len(<<>>) = 0
    BY DEF EndOf
  <2>5. <<>> = [m \in 1 .. Len(<<>>) |-> (<<>>)[m]]
    OBVIOUS
  <2>6. \A m \in 1 .. Len(<<>>) : FALSE
    OBVIOUS
  <2> QED BY <2>2, <2>3, <2>4, <2>5, <2>6 DEF DataInv
<1>4. IndexInv(<<>>, <<>>, EmptyBlock, EmptyBlock, FALSE)
  <2>1. IndexKeys(EmptyBlock) = <<>>
    BY DEF IndexKeys, EmptyBlock
  <2>2. Open(EmptyBlock, IndexKeys(EmptyBlock))
    BY <2>1, EmptyOpen
  <2>3. \A m \in 1 .. Len(EmptyBlock.entries) : FALSE
    BY EmptyHas
  <2> QED BY <2>2, <2>3, EmptyHas DEF IndexInv, Follows
<1>5. FilterInv(<<>>, <<>>, EmptyBlock, [made |-> <<>>, keys |-> {}], FALSE)
  <2> DEFINE f == [made |-> <<>>, keys |-> {}]
  <2>1. f.made = <<>> /\ f.keys = {} /\ <<>> \in Seq(SUBSET Seq(Nat))
    BY EmptySeq
  <2>2. FilterType(f)
    BY <2>1 DEF FilterType
  <2>3. 0 \div kFilterBase = 0
    <3>1. kFilterBase \in Nat /\ kFilterBase > 0
      BY TableAssumption
    <3>2. kFilterBase * 0 <= 0 /\ 0 < kFilterBase * 0 + kFilterBase /\ 0 \in Nat
      BY <3>1
    <3> QED BY <3>1, <3>2, QuotientIs
  <2>4. OffsetOf(<<>>) \div kFilterBase = Len(f.made)
    BY <2>1, <2>3 DEF OffsetOf
  <2>5. Users(<<>>, EmptyBlock) = {}
    BY EmptyHas DEF Users
  <2>6. \A m \in 1 .. Len(<<>>) : FALSE
    OBVIOUS
  <2> HIDE DEF f
  <2>7. FilterInv(<<>>, <<>>, EmptyBlock, f, FALSE)
    BY <2>2, <2>4, <2>5, <2>6, FiltersAre
  <2> QED BY <2>7 DEF f
<1>6. Built(<<>>, <<>>, EmptyBlock, EmptyBlock, FALSE, [made |-> <<>>, keys |-> {}], FALSE)
  <2>1. ~ (Len(<<>>) > 0)
    OBVIOUS
  <2> QED BY <1>2, <1>3, <1>4, <1>5, <2>1 DEF Built
<1> QED BY <1>1, <1>6 DEF BuildInv


-----------------------------------------------------------------------------
(* A finished table: where a key is looked for *)

LEMMA FinishedIs ==
    ASSUME BuildInv, finished
    PROVE  /\ AddedInv(added) /\ DataInv(added, data, building)
           /\ IndexInv(added, data, building, index, pending)
           /\ FilterInv(added, data, building, filters, TRUE)
           /\ Len(added) \in Nat /\ Len(added) > 0 /\ Len(data) \in Nat /\ Len(data) > 0
           /\ Len(index.entries) = Len(data) /\ EndOf(data, Len(data)) = Len(added)
<1>1. finished = TRUE /\ pending = FALSE /\ building = EmptyBlock /\ added # <<>>
  BY DEF BuildInv, Built, IndexInv
<1>2. /\ AddedInv(added) /\ DataInv(added, data, building)
      /\ IndexInv(added, data, building, index, pending)
      /\ FilterInv(added, data, building, filters, TRUE)
  BY <1>1 DEF BuildInv, Built
<1>3. Len(added) \in Nat /\ Len(added) > 0
  BY <1>1, <1>2, AddedTypes, EmptySeq
<1>4. Len(data) \in Nat /\ EndOf(data, 0) = 0
  BY <1>2, <1>3, EndOfIs
<1>5. Len(index.entries) = Len(data)
  BY <1>1, <1>2 DEF IndexInv
<1>6. EndOf(data, Len(data)) = Len(added)
  <2>1. EndOf(data, Len(data)) \in Nat
    BY <1>2, <1>3, <1>4, EndOfIs
  <2>2. Len(added) = EndOf(data, Len(data)) + Len(building.entries)
    BY <1>2 DEF DataInv
  <2>3. Len(building.entries) = 0
    BY <1>1, EmptyHas
  <2> DEFINE e == EndOf(data, Len(data))
            c == Len(building.entries)
            z == Len(added)
  <2>4. e \in Nat /\ z \in Nat /\ z = e + c /\ c = 0
    BY <1>3, <2>1, <2>2, <2>3
  <2>5. e = z
    <3> HIDE DEF e, c, z
    <3> QED BY <2>4
  <2> QED BY <2>5
<1>7. Len(data) > 0
  BY <1>3, <1>4, <1>6
<1> QED BY <1>2, <1>3, <1>4, <1>5, <1>6, <1>7

\* The keys of a table before and from a place on.
LEMMA PlaceIs ==
    ASSUME NEW a, AddedInv(a), NEW k \in Key, NEW e \in 1 .. Len(a) + 1,
           e # 1 => KeyBefore(a[e - 1], k), e <= Len(a) => ~ KeyBefore(a[e], k)
    PROVE  /\ FirstFrom(a, k) = e
           /\ \A i \in 1 .. Len(a) : KeyBefore(a[i], k) <=> i < e
<1>1. /\ Len(a) \in Nat /\ \A n \in 1 .. Len(a) : a[n] \in Key
      /\ \A m, n \in 1 .. Len(a) : m < n => KeyBefore(a[m], a[n])
  BY AddedTypes
<1>2. \A i \in 1 .. Len(a) : i < e => KeyBefore(a[i], k)
  <2> SUFFICES ASSUME NEW i \in 1 .. Len(a), i < e PROVE KeyBefore(a[i], k)
    OBVIOUS
  <2>1. e - 1 \in 1 .. Len(a) /\ e # 1 /\ (i = e - 1 \/ i < e - 1)
    BY <1>1
  <2>2. CASE i = e - 1
    BY <2>1, <2>2
  <2>3. CASE i < e - 1
    <3>1. KeyBefore(a[i], a[e - 1]) /\ a[i] \in Key /\ a[e - 1] \in Key
      BY <1>1, <2>1, <2>3
    <3> QED BY <2>1, <3>1, KeyBeforeThat
  <2> QED BY <2>1, <2>2, <2>3
<1>3. \A i \in 1 .. Len(a) : e <= i => ~ KeyBefore(a[i], k)
  <2> SUFFICES ASSUME NEW i \in 1 .. Len(a), e <= i PROVE ~ KeyBefore(a[i], k)
    OBVIOUS
  <2>1. e \in 1 .. Len(a) /\ (i = e \/ e < i) /\ ~ KeyBefore(a[e], k)
    BY <1>1
  <2>2. CASE i = e
    BY <2>1, <2>2
  <2>3. CASE e < i
    <3>1. KeyBefore(a[e], a[i]) /\ a[i] \in Key /\ a[e] \in Key
      BY <1>1, <2>1, <2>3
    <3> QED BY <2>1, <3>1, KeyBeforeThat
  <2> QED BY <2>1, <2>2, <2>3
<1>4. \A i \in 1 .. Len(a) : KeyBefore(a[i], k) <=> i < e
  BY <1>1, <1>2, <1>3
<1>5. FirstFrom(a, k) = e
  <2> DEFINE f == FirstFrom(a, k)
  <2>1. /\ f \in 1 .. Len(a) + 1 /\ (f <= Len(a) => ~ KeyBefore(a[f], k))
        /\ \A n \in 1 .. f - 1 : n \in 1 .. Len(a) /\ KeyBefore(a[n], k)
    BY <1>1, FirstFromIs
  <2> HIDE DEF f
  <2>2. ~ (f < e)
    BY <1>1, <1>2, <2>1
  <2>3. ~ (e < f)
    BY <1>1, <1>3, <2>1
  <2>4. f = e
    BY <1>1, <2>1, <2>2, <2>3
  <2> QED BY <2>4 DEF f
<1> QED BY <1>4, <1>5

\* Where the search for k in the index and then in a block ends.
SeekPlaces(k, m, p) ==
    /\ m \in 1 .. Len(data) + 1 /\ p \in 1 .. Len(added) + 1
    /\ \A i \in 1 .. Len(added) : KeyBefore(added[i], k) <=> i < p
    /\ m > Len(data) => BlockSeek(index, k) = Invalid(index) /\ p = Len(added) + 1
    /\ m <= Len(data) =>
          /\ IsAt(index, IndexKeys(index), BlockSeek(index, k), m)
          /\ EndOf(data, m - 1) < p /\ p <= EndOf(data, m) + 1
          /\ p <= Len(added) /\ p > EndOf(data, m) => Front(added[p]) # Front(k)

LEMMA IndexSeekEnds ==
    ASSUME BuildInv, finished, NEW k \in Key
    PROVE  \E m, p : SeekPlaces(k, m, p)
<1>1. /\ AddedInv(added) /\ DataInv(added, data, building)
      /\ IndexInv(added, data, building, index, pending)
      /\ Len(added) \in Nat /\ Len(added) > 0 /\ Len(data) \in Nat /\ Len(data) > 0
      /\ Len(index.entries) = Len(data) /\ EndOf(data, Len(data)) = Len(added)
  BY FinishedIs
<1> DEFINE ks == IndexKeys(index)
<1>2. /\ Holds(index, ks) /\ Len(ks) = Len(data) /\ Ascending(ks)
      /\ \A n \in 1 .. Len(data) : ks[n] \in Key /\ Between(ks[n], added, EndOf(data, n))
  <2>1. /\ Holds(index, ks) /\ Len(ks) = Len(index.entries) /\ Ascending(ks)
        /\ \A n \in 1 .. Len(index.entries) :
              ks[n] \in Key /\ Between(ks[n], added, EndOf(data, n))
    BY <1>1, IndexIs
  <2> QED BY <1>1, <2>1
<1>3. /\ EndOf(data, 0) = 0
      /\ \A n \in 0 .. Len(data) : EndOf(data, n) \in Nat /\ EndOf(data, n) <= Len(added)
      /\ \A n \in 1 .. Len(data) : EndOf(data, n - 1) < EndOf(data, n)
  BY <1>1, EndOfIs
<1>4. /\ \A n \in 1 .. Len(added) : added[n] \in Key
      /\ \A n, o \in 1 .. Len(added) : n < o => KeyBefore(added[n], added[o])
  BY <1>1, AddedTypes
<1> DEFINE m == FirstFrom(ks, k)
          p == FirstFrom(added, k)
<1>5. /\ m \in 1 .. Len(ks) + 1
      /\ m <= Len(ks) => ~ KeyBefore(ks[m], k)
      /\ \A n \in 1 .. m - 1 : n \in 1 .. Len(ks) /\ KeyBefore(ks[n], k)
  <2> HIDE DEF ks
  <2> QED BY <1>1, <1>2, FirstFromIs
<1>6. /\ m <= Len(ks) => IsAt(index, ks, BlockSeek(index, k), m)
      /\ m > Len(ks) => BlockSeek(index, k) = Invalid(index)
  <2> HIDE DEF ks
  <2> QED BY <1>2, SeekEnds
<1>7. /\ p \in 1 .. Len(added) + 1
      /\ p <= Len(added) => ~ KeyBefore(added[p], k)
      /\ \A n \in 1 .. Len(added) : ~ KeyBefore(added[n], k) => p <= n
      /\ \A n \in 1 .. p - 1 : n \in 1 .. Len(added) /\ KeyBefore(added[n], k)
  BY <1>1, FirstFromIs
<1> HIDE DEF m, p
<1>8. \A i \in 1 .. Len(added) : KeyBefore(added[i], k) <=> i < p
  <2>1. p # 1 => KeyBefore(added[p - 1], k)
    BY <1>1, <1>7
  <2> QED BY <1>1, <1>7, <2>1, PlaceIs
<1>9. EndOf(data, m - 1) < p
  <2>1. CASE m = 1
    BY <2>1, <1>3, <1>7
  <2>2. CASE m # 1
    <3> DEFINE e == EndOf(data, m - 1)
    <3>1. m - 1 \in 1 .. Len(data) /\ KeyBefore(ks[m - 1], k)
      BY <2>2, <1>2, <1>5
    <3>2. ks[m - 1] \in Key /\ ~ KeyBefore(ks[m - 1], added[e])
      BY <3>1, <1>2 DEF Between
    <3>3. m - 1 - 1 \in 0 .. Len(data) /\ m - 1 \in 0 .. Len(data)
      BY <3>1, <1>1
    <3>4. e \in 1 .. Len(added)
      BY <3>1, <3>3, <1>1, <1>3
    <3>5. KeyBefore(added[e], k)
      <4> DEFINE u == added[e]
                w == ks[m - 1]
      <4>1. u \in Key /\ w \in Key /\ ~ KeyBefore(w, u) /\ KeyBefore(w, k)
        BY <1>4, <3>1, <3>2, <3>4
      <4>2. KeyBefore(u, k)
        <5> HIDE DEF u, w
        <5> QED BY <4>1, KeyOrder
      <4> QED BY <4>2
    <3> QED BY <3>4, <3>5, <1>8
  <2> QED BY <2>1, <2>2
<1>10. ASSUME m <= Len(data)
       PROVE  /\ p <= EndOf(data, m) + 1
              /\ p <= Len(added) /\ p > EndOf(data, m) => Front(added[p]) # Front(k)
  <2> DEFINE e == EndOf(data, m)
            w == ks[m]
  <2>1. m \in 1 .. Len(data) /\ m \in 0 .. Len(data) /\ m - 1 \in 0 .. Len(data)
    BY <1>1, <1>2, <1>5, <1>10
  <2>2. w \in Key /\ Between(w, added, e) /\ ~ KeyBefore(w, k)
    BY <1>2, <1>5, <2>1
  <2>3. e \in 1 .. Len(added)
    BY <2>1, <1>1, <1>3
  <2> HIDE DEF e, w
  <2>4. CASE e = Len(added)
    <3>1. p <= e + 1 /\ ~ (p <= Len(added) /\ p > e)
      BY <2>4, <2>3, <1>1, <1>7
    <3> QED BY <3>1 DEF e
  <2>5. CASE e # Len(added)
    <3> DEFINE u == added[e + 1]
    <3>1. e < Len(added) /\ e + 1 \in 1 .. Len(added)
      BY <2>5, <2>3, <1>1
    <3>2. KeyBefore(w, u) /\ (w = added[e] \/ BytesBefore(Front(w), Front(u))) /\ u \in Key
      BY <3>1, <2>2, <1>4 DEF Between
    <3>3. ~ KeyBefore(u, k)
      <4> HIDE DEF u
      <4>1. KeyBefore(k, u)
        BY <3>2, <2>2, KeyOrder
      <4> QED BY <4>1, <3>2, KeyOrder
    <3>4. p <= e + 1
      BY <3>1, <3>3, <1>7
    <3>5. ASSUME p > e PROVE Front(added[p]) # Front(k)
      <4>1. p = e + 1
        BY <3>4, <3>5, <1>7, <2>3
      <4>2. KeyBefore(added[e], k) /\ added[e] \in Key
        BY <3>5, <2>3, <1>4, <1>8
      <4>3. w # added[e]
        BY <4>2, <2>2
      <4>4. BytesBefore(Front(w), Front(u))
        BY <3>2, <4>3
      <4>5. Front(u) # Front(k)
        <5> SUFFICES ASSUME Front(u) = Front(k) PROVE FALSE
          OBVIOUS
        <5>1. KeyBefore(w, k)
          BY <4>4 DEF KeyBefore
        <5> QED BY <5>1, <2>2
      <4> QED BY <4>1, <4>5
    <3> QED BY <3>4, <3>5 DEF e
  <2> QED BY <2>4, <2>5
<1>11. m > Len(data) => p = Len(added) + 1
  <2> SUFFICES ASSUME m > Len(data) PROVE p = Len(added) + 1
    OBVIOUS
  <2>1. m - 1 = Len(data)
    BY <1>1, <1>2, <1>5
  <2>2. Len(added) < p
    BY <2>1, <1>9, <1>1
  <2> QED BY <2>2, <1>1, <1>7
<1>12. SeekPlaces(k, m, p)
  BY <1>2, <1>5, <1>6, <1>7, <1>8, <1>9, <1>10, <1>11 DEF SeekPlaces
<1> QED BY <1>12

LEMMA BlockSeekEnds ==
    ASSUME BuildInv, finished, NEW k \in Key, NEW m, NEW p, SeekPlaces(k, m, p), m <= Len(data)
    PROVE  LET b == data[m].block
           IN  /\ m \in 1 .. Len(data) /\ p \in 1 .. Len(added) + 1
               /\ p <= EndOf(data, m) =>
                     IsAt(b, Held(added, b), BlockSeek(b, k), p - EndOf(data, m - 1))
               /\ p > EndOf(data, m) => BlockSeek(b, k) = Invalid(b)
<1> DEFINE b == data[m].block
           ks == Held(added, b)
           s == EndOf(data, m - 1)
           e == EndOf(data, m)
           L == Len(b.entries)
<1>1. /\ AddedInv(added) /\ DataInv(added, data, building) /\ Len(added) \in Nat
      /\ Len(data) \in Nat
  BY FinishedIs
<1>2. /\ m \in 1 .. Len(data) /\ p \in 1 .. Len(added) + 1 /\ s < p /\ p <= e + 1
      /\ \A i \in 1 .. Len(added) : KeyBefore(added[i], k) <=> i < p
  BY <1>1 DEF SeekPlaces
<1>3. /\ Holds(b, ks) /\ Len(ks) = L /\ L > 0 /\ L \in Nat /\ Ascending(ks)
      /\ \A n \in 1 .. L : s + n \in 1 .. Len(added) /\ ks[n] = added[s + n]
  <2>1. m \in 1 .. Len(data)
    BY <1>2
  <2> QED BY <1>1, <2>1, HeldIs
<1>4. s \in Nat /\ e \in Nat /\ e = s + L /\ e <= Len(added)
  <2>1. m \in 0 .. Len(data) /\ m - 1 \in 0 .. Len(data)
    BY <1>1, <1>2
  <2> QED BY <1>1, <1>2, <2>1, EndOfIs
<1>5. AddedInv(ks)
  <2>1. ks \in Seq(Key)
    BY <1>3, HoldsTypes
  <2>2. \A n \in 1 .. L : ks[n] \in InternalKeys
    BY <1>1, <1>3, AddedTypes
  <2> HIDE DEF ks, L
  <2> QED BY <1>3, <2>1, <2>2 DEF AddedInv
<1> HIDE DEF b, ks, s, e, L
<1> DEFINE n == p - s
<1>6. n \in 1 .. Len(ks) + 1 /\ s + n = p
  BY <1>1, <1>2, <1>3, <1>4
<1>7. \A i \in 1 .. L : KeyBefore(ks[i], k) <=> i < n
  <2> SUFFICES ASSUME NEW i \in 1 .. L PROVE KeyBefore(ks[i], k) <=> i < n
    OBVIOUS
  <2>1. s + i \in 1 .. Len(added) /\ ks[i] = added[s + i]
    BY <1>3
  <2>2. KeyBefore(added[s + i], k) <=> s + i < p
    BY <1>2, <2>1
  <2>3. s + i < p <=> i < n
    BY <1>2, <1>4
  <2> QED BY <2>1, <2>2, <2>3
<1> HIDE DEF n
<1>8. FirstFrom(ks, k) = n
  <2>1. n # 1 => KeyBefore(ks[n - 1], k)
    BY <1>3, <1>6, <1>7
  <2>2. n <= Len(ks) => ~ KeyBefore(ks[n], k)
    BY <1>3, <1>6, <1>7
  <2> QED BY <1>5, <1>6, <2>1, <2>2, PlaceIs
<1>9. /\ n <= L => IsAt(b, ks, BlockSeek(b, k), n)
      /\ n > L => BlockSeek(b, k) = Invalid(b)
  BY <1>3, <1>8, SeekEnds
<1>10. /\ p <= e => IsAt(b, ks, BlockSeek(b, k), n)
       /\ p > e => BlockSeek(b, k) = Invalid(b)
  BY <1>2, <1>3, <1>4, <1>6, <1>9
<1> QED BY <1>2, <1>10 DEF b, ks, s, e, n

-----------------------------------------------------------------------------
(* A finished table: lookups *)

\* What lies between two keys of one user is that user's too.
LEMMA SameUser ==
    ASSUME NEW a \in Key, NEW b \in Key, NEW c \in Key, Front(a) = Front(c),
           ~ KeyBefore(b, a), ~ KeyBefore(c, b)
    PROVE  Front(b) = Front(a)
<1>1. ~ BytesBefore(Front(b), Front(a)) /\ ~ BytesBefore(Front(a), Front(b))
  BY DEF KeyBefore
<1>2. Front(a) \in Seq(Nat) /\ Front(b) \in Seq(Nat)
  BY KeyParts
<1> QED BY <1>1, <1>2, BytesTotal

\* The filter of a block lets its users through.
LEMMA FilterLets ==
    ASSUME BuildInv, finished, NEW m \in 1 .. Len(data),
           NEW n \in 1 .. Len(data[m].block.entries)
    PROVE  KeyMayMatch(data[m].offset, Front(Held(added, data[m].block)[n]))
<1> DEFINE b == data[m].block
           o == data[m].offset
           u == Front(Held(added, b)[n])
<1>1. FilterInv(added, data, building, filters, TRUE)
  BY FinishedIs
<1>2. FilterAt(o) <= Len(filters.made) => Users(added, b) \subseteq filters.made[FilterAt(o)]
  BY <1>1 DEF FilterInv
<1>3. u \in Users(added, b)
  BY DEF Users, Held
<1>4. FilterAt(o) <= Len(filters.made) => u \in filters.made[FilterAt(o)]
  <2> HIDE DEF u
  <2> QED BY <1>2, <1>3
<1> HIDE DEF u, b
<1>5. KeyMayMatch(o, u)
  BY <1>4 DEF FilterAt, KeyMayMatch
<1> QED BY <1>5 DEF u, b

\* What a lookup comes back with: the entry from the key on, if in the block.
LEMMA GetEnds ==
    ASSUME BuildInv, finished, NEW k \in Key, NEW m, NEW p, SeekPlaces(k, m, p)
    PROVE  \/ InternalGet(k) = <<>>
           \/ p \in 1 .. Len(added) /\ InternalGet(k) = added[p]
<1> DEFINE i == BlockSeek(index, k)
           x == IndexKeys(index)
<1>1. /\ AddedInv(added) /\ DataInv(added, data, building)
      /\ IndexInv(added, data, building, index, pending)
      /\ Len(added) \in Nat /\ Len(data) \in Nat /\ Len(index.entries) = Len(data)
  BY FinishedIs
<1>2. Holds(index, x) /\ \A n \in 1 .. Len(data) : index.entries[n].value = n
  <2>1. Holds(index, x) /\ \A n \in 1 .. Len(index.entries) : index.entries[n].value = n
    BY <1>1, IndexIs
  <2> QED BY <1>1, <2>1
<1> HIDE DEF x
<1>3. m \in 1 .. Len(data) + 1
  BY DEF SeekPlaces
<1>4. CASE m > Len(data)
  <2>1. i = Invalid(index)
    BY <1>4 DEF SeekPlaces
  <2>2. ~ Valid(index, i)
    BY <1>2, <2>1, InvalidIs
  <2> QED BY <2>2 DEF InternalGet
<1>5. CASE m <= Len(data)
  <2> DEFINE b == data[m].block
             ks == Held(added, b)
             j == BlockSeek(b, k)
             n == p - EndOf(data, m - 1)
  <2>1. m \in 1 .. Len(data) /\ p \in 1 .. Len(added) + 1
    BY <1>1, <1>3, <1>5 DEF SeekPlaces
  <2>2. Holds(b, ks)
    BY <1>1, <2>1, HeldIs
  <2>3. /\ p <= EndOf(data, m) => IsAt(b, ks, j, n)
        /\ p > EndOf(data, m) => j = Invalid(b)
    BY <1>5, BlockSeekEnds
  <2>4. i.at = m /\ Valid(index, i)
    <3>1. IsAt(index, x, i, m)
      BY <1>5 DEF SeekPlaces, x
    <3> HIDE DEF i
    <3> QED BY <1>2, <3>1, AtIs
  <2>5. data[index.entries[i.at].value] = data[m]
    BY <1>2, <2>1, <2>4
  <2>6. InternalGet(k) = IF KeyMayMatch(data[m].offset, Front(k)) /\ Valid(b, j) THEN j.key ELSE <<>>
    BY <2>4, <2>5 DEF InternalGet
  <2>7. CASE p > EndOf(data, m)
    <3>1. ~ Valid(b, j)
      BY <2>2, <2>3, <2>7, InvalidIs
    <3> QED BY <2>6, <3>1
  <2>8. CASE ~ (p > EndOf(data, m))
    <3>1. /\ EndOf(data, m) \in Nat /\ EndOf(data, m - 1) \in Nat /\ EndOf(data, m) <= Len(added)
      <4>1. m \in 0 .. Len(data) /\ m - 1 \in 0 .. Len(data)
        BY <1>1, <2>1
      <4> QED BY <1>1, <4>1, EndOfIs
    <3>2. p \in 1 .. Len(added)
      BY <1>1, <2>1, <2>8, <3>1
    <3>3. IsAt(b, ks, j, n)
      BY <2>1, <2>3, <2>8, <3>1
    <3>4. j.key = ks[n] /\ n \in 1 .. Len(ks)
      <4> HIDE DEF j, ks, b, n
      <4> QED BY <2>2, <3>3, AtIs
    <3>5. /\ Len(ks) = Len(b.entries)
          /\ \A o \in 1 .. Len(b.entries) : ks[o] = added[EndOf(data, m - 1) + o]
      BY <1>1, <2>1, HeldIs
    <3>6. EndOf(data, m - 1) + n = p
      BY <2>1, <3>1
    <3>7. j.key = added[p]
      <4> HIDE DEF j, ks, n
      <4> QED BY <3>4, <3>5, <3>6
    <3> HIDE DEF j, b
    <3> QED BY <2>6, <3>2, <3>7
  <2> QED BY <2>7, <2>8
<1> QED BY <1>1, <1>3, <1>4, <1>5

\* It comes back with the entry, where that is of the same user.
LEMMA GetFinds ==
    ASSUME BuildInv, finished, NEW k \in Key, NEW m, NEW p, SeekPlaces(k, m, p),
           p \in 1 .. Len(added), Front(added[p]) = Front(k)
    PROVE  InternalGet(k) = added[p]
<1> DEFINE i == BlockSeek(index, k)
           x == IndexKeys(index)
           b == data[m].block
           ks == Held(added, b)
           j == BlockSeek(b, k)
           n == p - EndOf(data, m - 1)
<1>1. /\ AddedInv(added) /\ DataInv(added, data, building)
      /\ IndexInv(added, data, building, index, pending)
      /\ Len(added) \in Nat /\ Len(data) \in Nat /\ Len(index.entries) = Len(data)
  BY FinishedIs
<1>2. Holds(index, x) /\ \A o \in 1 .. Len(data) : index.entries[o].value = o
  <2>1. Holds(index, x) /\ \A o \in 1 .. Len(index.entries) : index.entries[o].value = o
    BY <1>1, IndexIs
  <2> QED BY <1>1, <2>1
<1>3. m \in 1 .. Len(data) + 1 /\ m <= Len(data)
  BY <1>1 DEF SeekPlaces
<1>4. m \in 1 .. Len(data)
  BY <1>1, <1>3
<1>5. EndOf(data, m) \in Nat /\ EndOf(data, m - 1) \in Nat /\ EndOf(data, m) <= Len(added)
  <2>1. m \in 0 .. Len(data) /\ m - 1 \in 0 .. Len(data)
    BY <1>1, <1>4
  <2> QED BY <1>1, <2>1, EndOfIs
<1>6. p <= EndOf(data, m)
  <2>1. ~ (p <= Len(added) /\ p > EndOf(data, m))
    BY <1>3 DEF SeekPlaces
  <2> QED BY <1>1, <1>5, <2>1
<1>7. Holds(b, ks) /\ Len(ks) = Len(b.entries)
      /\ \A o \in 1 .. Len(b.entries) : ks[o] = added[EndOf(data, m - 1) + o]
  BY <1>1, <1>4, HeldIs
<1>8. IsAt(b, ks, j, n)
  BY <1>3, <1>6, BlockSeekEnds
<1>9. j.key = ks[n] /\ n \in 1 .. Len(ks) /\ Valid(b, j)
  <2> HIDE DEF j, ks, b, n
  <2> QED BY <1>7, <1>8, AtIs
<1>10. EndOf(data, m - 1) + n = p
  BY <1>1, <1>5
<1>11. ks[n] = added[p] /\ n \in 1 .. Len(b.entries)
  <2> HIDE DEF ks, n
  <2> QED BY <1>7, <1>9, <1>10
<1>12. KeyMayMatch(data[m].offset, Front(k))
  <2>1. KeyMayMatch(data[m].offset, Front(ks[n]))
    <3> HIDE DEF n
    <3> QED BY <1>4, <1>11, FilterLets
  <2> HIDE DEF ks, n
  <2> QED BY <1>11, <2>1
<1>13. i.at = m /\ Valid(index, i)
  <2>1. IsAt(index, x, i, m)
    BY <1>3 DEF SeekPlaces
  <2> HIDE DEF i, x
  <2> QED BY <1>2, <2>1, AtIs
<1>14. data[index.entries[i.at].value] = data[m]
  <2> HIDE DEF x, i
  <2> QED BY <1>2, <1>4, <1>13
<1>15. InternalGet(k) = IF KeyMayMatch(data[m].offset, Front(k)) /\ Valid(b, j) THEN j.key ELSE <<>>
  BY <1>13, <1>14 DEF InternalGet
<1>16. InternalGet(k) = j.key
  <2> HIDE DEF j, b
  <2> QED BY <1>9, <1>12, <1>15
<1>17. j.key = added[p]
  <2> HIDE DEF j, b, ks, n
  <2> QED BY <1>9, <1>11
<1> HIDE DEF j
<1> QED BY <1>16, <1>17

LEMMA LookupKnows ==
    ASSUME BuildInv, finished
    PROVE  LookupFinds
<1> SUFFICES ASSUME NEW k \in InternalKeys
             PROVE  LET own == {i \in DOMAIN added \ Ahead(k) : Front(added[i]) = Front(k)}
                        got == InternalGet(k)
                    IN  IF own # {} THEN got = FirstOf(own)
                        ELSE got # <<>> => Front(got) # Front(k)
  BY DEF LookupFinds
<1> DEFINE own == {i \in DOMAIN added \ Ahead(k) : Front(added[i]) = Front(k)}
           got == InternalGet(k)
<1>1. k \in Key
  BY InternalKeyIs
<1>2. AddedInv(added)
  BY FinishedIs
<1>3. /\ added \in Seq(Key) /\ Len(added) \in Nat
      /\ \A n \in 1 .. Len(added) : added[n] \in Key
      /\ \A a, b \in 1 .. Len(added) : a < b => KeyBefore(added[a], added[b])
  BY <1>2, AddedTypes
<1>4. DOMAIN added = 1 .. Len(added)
  BY <1>3
<1>5. PICK m, p : SeekPlaces(k, m, p)
  BY <1>1, IndexSeekEnds
<1>6. p \in 1 .. Len(added) + 1 /\ \A i \in 1 .. Len(added) : KeyBefore(added[i], k) <=> i < p
  BY <1>5 DEF SeekPlaces
<1>7. \A i : i \in own <=> i \in 1 .. Len(added) /\ ~ (i < p) /\ Front(added[i]) = Front(k)
  BY <1>4, <1>6 DEF Ahead
<1> HIDE DEF own, got
<1>8. CASE own # {}
  <2>1. PICK i \in own : TRUE
    BY <1>8
  <2>2. i \in 1 .. Len(added) /\ p <= i /\ Front(added[i]) = Front(k)
    BY <1>3, <1>6, <1>7, <2>1
  <2>3. p \in 1 .. Len(added)
    BY <1>3, <1>6, <2>2
  <2>4. Front(added[p]) = Front(k)
    <3>1. ~ KeyBefore(added[p], k)
      BY <1>6, <2>3
    <3>2. ~ KeyBefore(added[i], added[p])
      <4>1. added[i] \in Key /\ added[p] \in Key
        BY <1>3, <2>2, <2>3
      <4>2. CASE i = p
        BY <4>1, <4>2, KeysDiffer
      <4>3. CASE i # p
        <5>1. p < i
          BY <2>2, <2>3, <4>3
        <5>2. KeyBefore(added[p], added[i])
          BY <1>3, <2>2, <2>3, <5>1
        <5> QED BY <4>1, <5>2, KeyOrder
      <4> QED BY <4>2, <4>3
    <3>3. added[i] \in Key /\ added[p] \in Key
      BY <1>3, <2>2, <2>3
    <3> QED BY <1>1, <2>2, <3>1, <3>2, <3>3, SameUser
  <2>5. got = added[p]
    BY <1>1, <1>5, <2>3, <2>4, GetFinds DEF got
  <2>6. Min(own) = p
    <3>1. p \in own
      BY <1>7, <2>3, <2>4
    <3>2. own \subseteq Nat /\ \A y \in own : p <= y
      BY <1>3, <1>6, <1>7
    <3> QED BY <3>1, <3>2, MinOf
  <2> QED BY <1>8, <2>5, <2>6 DEF FirstOf, own, got
<1>9. CASE own = {}
  <2> SUFFICES ASSUME got # <<>> PROVE Front(got) # Front(k)
    BY <1>9 DEF own, got
  <2>1. p \in 1 .. Len(added) /\ got = added[p]
    BY <1>1, <1>5, GetEnds DEF got
  <2>2. p \notin own
    BY <1>9
  <2> QED BY <1>7, <2>1, <2>2
<1> QED BY <1>8, <1>9

-----------------------------------------------------------------------------
(* The iterator: one block to the next *)

\* The handle of the index entry an iterator stands at is the number of its block.
LEMMA HandleIs ==
    ASSUME BuildInv, finished, NEW t, Stands(index, IndexKeys(index), t.index)
    PROVE  /\ Handle(t) \in 0 .. Len(data)
           /\ Handle(t) = 0 <=> t.index = Invalid(index)
           /\ Handle(t) # 0 => /\ IsAt(index, IndexKeys(index), t.index, Handle(t))
                               /\ Handle(t) \in 1 .. Len(data)
           /\ t.index \in Position
<1> DEFINE x == IndexKeys(index)
<1>1. /\ AddedInv(added) /\ DataInv(added, data, building)
      /\ IndexInv(added, data, building, index, pending)
      /\ Len(data) \in Nat /\ Len(index.entries) = Len(data)
  BY FinishedIs
<1>2. /\ Holds(index, x) /\ Len(x) = Len(data)
      /\ \A n \in 1 .. Len(data) : index.entries[n].value = n
  <2>1. /\ Holds(index, x) /\ Len(x) = Len(index.entries)
        /\ \A n \in 1 .. Len(index.entries) : index.entries[n].value = n
    BY <1>1, IndexIs
  <2> QED BY <1>1, <2>1
<1>3. t.index = Invalid(index) \/ \E n \in 1 .. Len(x) : IsAt(index, x, t.index, n)
  BY DEF Stands
<1> HIDE DEF x
<1>4. CASE t.index = Invalid(index)
  <2>1. ~ Valid(index, t.index) /\ t.index \in Position
    BY <1>2, <1>4, InvalidIs
  <2>2. Handle(t) = 0
    BY <2>1 DEF Handle
  <2> QED BY <1>1, <1>4, <2>1, <2>2
<1>5. CASE t.index # Invalid(index)
  <2>1. PICK n \in 1 .. Len(x) : IsAt(index, x, t.index, n)
    BY <1>3, <1>5
  <2> DEFINE i == t.index
  <2>2. i.at = n /\ Valid(index, i) /\ i \in Position
    <3> HIDE DEF i
    <3>1. IsAt(index, x, i, n)
      BY <2>1 DEF i
    <3> QED BY <1>2, <3>1, AtIs
  <2>3. Handle(t) = n
    BY <1>2, <2>1, <2>2 DEF Handle
  <2> QED BY <1>1, <1>2, <1>5, <2>1, <2>2, <2>3 DEF x
<1> QED BY <1>4, <1>5

Iter(i, d, b, e, s) == [index |-> i, data |-> d, block |-> b, error |-> e, status |-> s]

LEMMA IterIs ==
    ASSUME NEW t \in IterType
    PROVE  /\ t = Iter(t.index, t.data, t.block, t.error, t.status)
           /\ t.index \in Position /\ t.data \in Position /\ t.block \in 0 .. Len(data)
           /\ t.error \in BOOLEAN /\ t.status \in BOOLEAN
BY DEF IterType, Iter

WithIndex(t, i) == [t EXCEPT !.index = i]
WithData(t, d)  == [t EXCEPT !.data = d]
WithBlock(t, b, e, s) == [t EXCEPT !.status = s, !.block = b, !.error = e]

LEMMA WithIndexIs ==
    ASSUME NEW t \in IterType, NEW i
    PROVE  WithIndex(t, i) = Iter(i, t.data, t.block, t.error, t.status)
BY DEF IterType, Iter, WithIndex

LEMMA WithDataIs ==
    ASSUME NEW t \in IterType, NEW d
    PROVE  WithData(t, d) = Iter(t.index, d, t.block, t.error, t.status)
BY DEF IterType, Iter, WithData

LEMMA WithBlockIs ==
    ASSUME NEW t \in IterType, NEW b, NEW e, NEW s
    PROVE  WithBlock(t, b, e, s) = Iter(t.index, t.data, b, e, s)
<1>1. t = [index |-> t.index, data |-> t.data, block |-> t.block, error |-> t.error,
           status |-> t.status]
  BY DEF IterType
<1> DEFINE i == t.index
           d == t.data
           v == [t EXCEPT !.status = s]
           w == [v EXCEPT !.block = b]
<1>2. v = [index |-> i, data |-> d, block |-> t.block, error |-> t.error, status |-> s]
  BY <1>1
<1> HIDE DEF v, i, d
<1>3. w = [index |-> i, data |-> d, block |-> b, error |-> t.error, status |-> s]
  BY <1>2
<1> HIDE DEF w
<1>4. [w EXCEPT !.error = e] = [index |-> i, data |-> d, block |-> b, error |-> e, status |-> s]
  BY <1>3
<1>5. WithBlock(t, b, e, s) = [w EXCEPT !.error = e]
  BY DEF WithBlock, v, w
<1> QED BY <1>4, <1>5 DEF Iter, i, d

LEMMA IterMade ==
    ASSUME NEW i, NEW d, NEW b, NEW e, NEW s
    PROVE  LET t == Iter(i, d, b, e, s)
           IN  /\ t.index = i /\ t.data = d /\ t.block = b /\ t.error = e /\ t.status = s
               /\ i \in Position /\ d \in Position /\ b \in 0 .. Len(data) /\ e \in BOOLEAN
                     /\ s \in BOOLEAN => t \in IterType
BY DEF IterType, Iter

\* data_iter_ is put at a position of its block.
PutAt(t, pos) == IF t.block = 0 \/ t.error THEN t ELSE [t EXCEPT !.data = pos]

\* What is true once the block of the index entry is at hand.
Arrived(t, u, pos) ==
    /\ InBlocks(u) /\ u.index = t.index /\ u.block = Handle(t)
    /\ Ok(u) => Ok(t)
    /\ u.block # 0 /\ ~ u.error => u.data = pos
    /\ u.block = 0 => ~ u.error /\ (Ok(u) <=> Ok(t))

LEMMA Arrives ==
    ASSUME BuildInv, finished, NEW t, InBlocks(t), NEW unread, 0 \notin unread, NEW pos,
           Handle(t) # 0 =>
              /\ pos \in Position
              /\ Stands(data[Handle(t)].block, Held(added, data[Handle(t)].block), pos)
    PROVE  Arrived(t, PutAt(InitDataBlock(t, unread), pos), pos)
<1> DEFINE h == Handle(t)
           i == InitDataBlock(t, unread)
           u == PutAt(i, pos)
           x == IndexKeys(index)
           H(m) == Held(added, data[m].block)
<1>1. /\ t \in IterType /\ Stands(index, x, t.index)
      /\ t.block # 0 /\ ~ t.error => Stands(data[t.block].block, H(t.block), t.data)
  BY DEF InBlocks
<1>2. h \in 0 .. Len(data)
  BY <1>1, HandleIs
<1>3. /\ t = Iter(t.index, t.data, t.block, t.error, t.status)
      /\ t.index \in Position /\ t.data \in Position /\ t.block \in 0 .. Len(data)
      /\ t.error \in BOOLEAN /\ t.status \in BOOLEAN
  BY <1>1, IterIs
<1>4. CASE h # 0 /\ h = t.block
  <2>1. i = t
    BY <1>4 DEF InitDataBlock
  <2>2. CASE t.error
    <3>1. u = t
      BY <2>1, <2>2 DEF PutAt
    <3> HIDE DEF u
    <3>2. InBlocks(u) /\ u.index = t.index /\ u.block = h /\ u.error /\ u.block # 0
      BY <1>4, <2>2, <3>1
    <3> QED BY <3>1, <3>2 DEF Arrived, u
  <2>3. CASE ~ t.error
    <3>1. u = Iter(t.index, pos, t.block, t.error, t.status)
      <4>1. u = WithData(t, pos)
        BY <1>4, <2>1, <2>3 DEF PutAt, WithData
      <4> HIDE DEF u
      <4> QED BY <1>1, <4>1, WithDataIs
    <3> HIDE DEF u
    <3>2. /\ u.index = t.index /\ u.data = pos /\ u.block = t.block /\ u.error = t.error
          /\ u.status = t.status
      BY <3>1, IterMade
    <3>3. u \in IterType
      BY <1>3, <1>4, <3>1, IterMade
    <3>4. Stands(data[u.block].block, Held(added, data[u.block].block), u.data)
      BY <1>4, <3>2
    <3>5. InBlocks(u)
      BY <1>1, <3>2, <3>3, <3>4 DEF InBlocks
    <3>6. (Ok(u) <=> Ok(t)) /\ u.block = h /\ u.block # 0
      BY <1>4, <3>2 DEF Ok
    <3> QED BY <3>2, <3>5, <3>6 DEF Arrived, u
  <2> QED BY <2>2, <2>3
<1>5. CASE ~ (h # 0 /\ h = t.block)
  <2> DEFINE e == h \in unread
             s == t.status /\ ~ t.error
  <2>1. i = SetDataIterator(t, h, unread)
    BY <1>5 DEF InitDataBlock
  <2>2. i = Iter(t.index, t.data, h, e, s)
    <3>1. SetDataIterator(t, h, unread) = WithBlock(t, h, e, s)
      BY DEF SetDataIterator, WithBlock
    <3> HIDE DEF i, h, e, s
    <3> QED BY <1>1, <2>1, <3>1, WithBlockIs
  <2> HIDE DEF i
  <2>3. e \in BOOLEAN /\ s \in BOOLEAN /\ (s <=> Ok(t)) /\ (h = 0 => ~ e)
    <3> HIDE DEF h
    <3>1. e \in BOOLEAN /\ s \in BOOLEAN
      OBVIOUS
    <3>2. s <=> Ok(t)
      BY Zenon DEF Ok
    <3>3. h = 0 => ~ e
      BY Zenon
    <3> QED BY <3>1, <3>2, <3>3
  <2> HIDE DEF e, s, h
  <2>4. i.index = t.index /\ i.data = t.data /\ i.block = h /\ i.error = e /\ i.status = s
    BY <2>2, IterMade
  <2>5. i \in IterType
    BY <1>2, <1>3, <2>2, <2>3, IterMade
  <2>6. CASE h = 0 \/ e
    <3>1. u = i
      BY <2>4, <2>6 DEF PutAt
    <3> HIDE DEF u
    <3>2. InBlocks(u)
      BY <1>1, <2>4, <2>5, <2>6, <3>1 DEF InBlocks
    <3>3. (Ok(u) => Ok(t)) /\ (h = 0 => (Ok(u) <=> Ok(t)))
      <4>1. Ok(u) <=> s /\ ~ e
        BY Zenon, <2>4, <3>1 DEF Ok
      <4> QED BY Zenon, <2>3, <4>1
    <3>4. u.index = t.index /\ u.block = h
      BY <2>4, <3>1
    <3>5. u.block # 0 /\ ~ u.error => u.data = pos
      BY Zenon, <2>4, <2>6, <3>1
    <3>6. u.block = 0 => ~ u.error
      BY Zenon, <2>3, <2>4, <3>1
    <3>7. Arrived(t, u, pos)
      BY Zenon, <3>2, <3>3, <3>4, <3>5, <3>6 DEF Arrived, h
    <3> QED BY <3>7 DEF u, i
  <2>7. CASE h # 0 /\ ~ e
    <3>1. u = Iter(t.index, pos, h, e, s)
      <4>1. u = WithData(i, pos)
        BY <2>4, <2>7 DEF PutAt, WithData
      <4>2. WithData(i, pos) = Iter(i.index, pos, i.block, i.error, i.status)
        BY <2>5, WithDataIs
      <4> HIDE DEF u
      <4> QED BY <2>4, <4>1, <4>2
    <3> HIDE DEF u
    <3>2. u.index = t.index /\ u.data = pos /\ u.block = h /\ u.error = e /\ u.status = s
      BY <3>1, IterMade
    <3>3. u \in IterType
      <4>1. pos \in Position
        BY <2>7 DEF h
      <4> QED BY <1>2, <1>3, <2>3, <3>1, <4>1, IterMade
    <3>4. Stands(data[u.block].block, Held(added, data[u.block].block), u.data)
      BY <2>7, <3>2 DEF h
    <3>5. InBlocks(u)
      BY <1>1, <3>2, <3>3, <3>4 DEF InBlocks
    <3>6. Ok(u) => Ok(t)
      <4>1. Ok(u) => s
        BY Zenon, <3>2 DEF Ok
      <4> QED BY Zenon, <2>3, <4>1
    <3>7. u.block # 0
      BY <2>7, <3>2
    <3>8. Arrived(t, u, pos)
      BY Zenon, <3>2, <3>5, <3>6, <3>7 DEF Arrived, h
    <3> QED BY <3>8 DEF u, i
  <2> QED BY <2>6, <2>7
<1> QED BY <1>4, <1>5

\* An iterator of which the index is about to be moved.
Kept(t) ==
    /\ t \in IterType
    /\ t.block # 0 /\ ~ t.error =>
          Stands(data[t.block].block, Held(added, data[t.block].block), t.data)

LEMMA KeptIs ==
    ASSUME NEW t
    PROVE  InBlocks(t) <=> Kept(t) /\ Stands(index, IndexKeys(index), t.index)
BY DEF InBlocks, Kept

LEMMA NewKept == BuildInv /\ finished => Kept(NewTwoLevelIterator)
<1> SUFFICES ASSUME BuildInv, finished PROVE Kept(NewTwoLevelIterator)
  OBVIOUS
<1> DEFINE i == Invalid(EmptyBlock)
<1>1. i \in Position
  BY EmptyOpen, InvalidIs DEF Open
<1>2. 0 \in 0 .. Len(data)
  BY FinishedIs
<1>3. NewTwoLevelIterator = [index |-> i, data |-> i, block |-> 0, error |-> FALSE, status |-> TRUE]
  BY DEF NewTwoLevelIterator
<1> HIDE DEF i
<1>4. NewTwoLevelIterator \in IterType /\ NewTwoLevelIterator.block = 0
  BY <1>1, <1>2, <1>3 DEF IterType
<1> QED BY <1>4 DEF Kept

\* The m-th index entry, or none.
IndexAt(i, m) ==
    \/ m = 0 /\ i = Invalid(index)
    \/ m \in 1 .. Len(data) /\ IsAt(index, IndexKeys(index), i, m)

\* Once the index is at i and data_iter_, of block m, at pos.
Onto(t, u, i, m, pos) ==
    /\ InBlocks(u) /\ u.index = i /\ u.block = m /\ Handle(u) = m
    /\ Ok(u) => Ok(t)
    /\ m = 0 => (Ok(u) <=> Ok(t))
    /\ u.block # 0 /\ ~ u.error => u.data = pos

LEMMA IndexAtIs ==
    ASSUME BuildInv, finished, NEW i, NEW m, IndexAt(i, m)
    PROVE  /\ Stands(index, IndexKeys(index), i) /\ i \in Position
           /\ \A t : t.index = i => Handle(t) = m
<1> DEFINE x == IndexKeys(index)
<1>1. /\ AddedInv(added) /\ DataInv(added, data, building)
      /\ IndexInv(added, data, building, index, pending)
      /\ Len(data) \in Nat /\ Len(index.entries) = Len(data)
  BY FinishedIs
<1>2. /\ Holds(index, x) /\ Len(x) = Len(data)
      /\ \A n \in 1 .. Len(data) : index.entries[n].value = n
  <2>1. /\ Holds(index, x) /\ Len(x) = Len(index.entries)
        /\ \A n \in 1 .. Len(index.entries) : index.entries[n].value = n
    BY <1>1, IndexIs
  <2> QED BY <1>1, <2>1
<1>3. (m = 0 /\ i = Invalid(index)) \/ (m \in 1 .. Len(data) /\ IsAt(index, x, i, m))
  BY DEF IndexAt
<1>4. Stands(index, x, i)
  <2> HIDE DEF x
  <2> QED BY <1>2, <1>3 DEF Stands
<1> HIDE DEF x
<1>5. i \in Position
  BY <1>2, <1>3, InvalidIs, AtIs
<1>6. ASSUME NEW t, t.index = i PROVE Handle(t) = m
  <2>1. CASE m = 0 /\ i = Invalid(index)
    <3>1. ~ Valid(index, t.index)
      BY <1>2, <1>6, <2>1, InvalidIs
    <3> QED BY <2>1, <3>1 DEF Handle
  <2>2. CASE m \in 1 .. Len(data) /\ IsAt(index, x, i, m)
    <3>1. Valid(index, i) /\ i.at = m
      BY <1>2, <2>2, AtIs
    <3>2. Handle(t) = index.entries[m].value
      BY <1>6, <3>1 DEF Handle
    <3> QED BY <1>2, <2>2, <3>2
  <2> QED BY <1>3, <2>1, <2>2
<1> QED BY <1>4, <1>5, <1>6 DEF x

LEMMA Onward ==
    ASSUME BuildInv, finished, NEW t, Kept(t), NEW unread, 0 \notin unread,
           NEW i, NEW m, IndexAt(i, m), NEW pos,
           m # 0 => /\ pos \in Position
                    /\ Stands(data[m].block, Held(added, data[m].block), pos)
    PROVE  Onto(t, PutAt(InitDataBlock(WithIndex(t, i), unread), pos), i, m, pos)
<1> DEFINE v == WithIndex(t, i)
           u == PutAt(InitDataBlock(v, unread), pos)
<1>1. /\ t \in IterType
      /\ t.block # 0 /\ ~ t.error =>
            Stands(data[t.block].block, Held(added, data[t.block].block), t.data)
  BY DEF Kept
<1>2. i \in Position /\ Stands(index, IndexKeys(index), i) /\ \A s : s.index = i => Handle(s) = m
  BY IndexAtIs
<1>3. v = Iter(i, t.data, t.block, t.error, t.status)
  BY <1>1, WithIndexIs
<1>4. /\ t.data \in Position /\ t.block \in 0 .. Len(data)
      /\ t.error \in BOOLEAN /\ t.status \in BOOLEAN
  BY <1>1, IterIs
<1> HIDE DEF v
<1>5. /\ v.index = i /\ v.data = t.data /\ v.block = t.block /\ v.error = t.error
      /\ v.status = t.status
  BY <1>3, IterMade
<1>6. v \in IterType
  BY <1>2, <1>3, <1>4, IterMade
<1>7. InBlocks(v)
  BY <1>1, <1>2, <1>5, <1>6 DEF InBlocks
<1>8. Handle(v) = m
  BY <1>2, <1>5
<1>9. Arrived(v, u, pos)
  <2>1. Handle(v) # 0 =>
            /\ pos \in Position
            /\ Stands(data[Handle(v)].block, Held(added, data[Handle(v)].block), pos)
    BY <1>8
  <2> QED BY <1>7, <2>1, Arrives
<1> HIDE DEF u
<1>10. Ok(v) <=> Ok(t)
  BY <1>5 DEF Ok
<1>11. /\ InBlocks(u) /\ u.index = i /\ u.block = m /\ (Ok(u) => Ok(t))
       /\ u.block # 0 /\ ~ u.error => u.data = pos
  BY <1>5, <1>8, <1>9, <1>10 DEF Arrived
<1>12. m = 0 => (Ok(u) <=> Ok(t))
  BY <1>8, <1>9, <1>10 DEF Arrived
<1>13. Handle(u) = m
  BY <1>2, <1>11
<1>14. Onto(t, u, i, m, pos)
  BY <1>11, <1>12, <1>13 DEF Onto
<1> QED BY <1>14 DEF u, v

-----------------------------------------------------------------------------
(* The iterator: past blocks that are at their end *)

\* It is at the entry at place p, or has none where there is no such place.
Settled(t, p) ==
    /\ InBlocks(t)
    /\ Ok(t) => IF p \in 1 .. Len(added) THEN OnEntry(t, p) ELSE t.block = 0 /\ Handle(t) = 0

\* It has come to the end, or to the start, of a block, and the next entry is at p.
Beyond(t, m) ==
    /\ InBlocks(t) /\ m = Handle(t)
    /\ Ok(t) => /\ t.block = m /\ m \in 1 .. Len(data)
                /\ t.data = Invalid(data[m].block)

PastEnd(t, p)     == Beyond(t, Handle(t)) /\ (Ok(t) => p = EndOf(data, t.block) + 1)
BeforeStart(t, p) == Beyond(t, Handle(t)) /\ (Ok(t) => p = EndOf(data, t.block - 1))

LEMMA OntoSettles ==
    ASSUME BuildInv, finished, NEW t, NEW u, NEW i, NEW m, IndexAt(i, m), NEW pos,
           Onto(t, u, i, m, pos), NEW p,
           m = 0 => p \notin 1 .. Len(added),
           m # 0 => \E n \in 1 .. Len(data[m].block.entries) :
                       /\ IsAt(data[m].block, Held(added, data[m].block), pos, n)
                       /\ p = EndOf(data, m - 1) + n
    PROVE  Settled(u, p)
<1>1. /\ InBlocks(u) /\ u.index = i /\ u.block = m /\ Handle(u) = m
      /\ u.block # 0 /\ ~ u.error => u.data = pos
  BY DEF Onto
<1> SUFFICES ASSUME Ok(u)
             PROVE  IF p \in 1 .. Len(added) THEN OnEntry(u, p) ELSE u.block = 0 /\ Handle(u) = 0
  BY <1>1 DEF Settled
<1>2. CASE m = 0
  BY <1>1, <1>2
<1>3. CASE m # 0
  <2> DEFINE b == data[m].block
             h == Held(added, b)
  <2>1. m \in 1 .. Len(data) /\ IsAt(index, IndexKeys(index), i, m)
    BY <1>3 DEF IndexAt
  <2>2. PICK n \in 1 .. Len(b.entries) : IsAt(b, h, pos, n) /\ p = EndOf(data, m - 1) + n
    BY <1>3
  <2>3. /\ EndOf(data, m - 1) + n \in 1 .. Len(added)
        /\ b.entries[n].value = EndOf(data, m - 1) + n
    <3>1. AddedInv(added) /\ DataInv(added, data, building)
      BY FinishedIs
    <3> QED BY <2>1, <3>1, HeldIs
  <2>4. u.data = pos
    BY <1>1, <1>3 DEF Ok
  <2>5. OnEntry(u, p)
    BY <1>1, <2>1, <2>2, <2>3, <2>4 DEF OnEntry
  <2> QED BY <2>2, <2>3, <2>5
<1> QED BY <1>2, <1>3

LEMMA OntoBeyond ==
    ASSUME BuildInv, finished, NEW t, NEW u, NEW i, NEW m, IndexAt(i, m), NEW pos,
           Onto(t, u, i, m, pos), m # 0, pos = Invalid(data[m].block)
    PROVE  /\ Beyond(u, Handle(u)) /\ Handle(u) = m /\ (Ok(u) => u.block = m)
           /\ PastEnd(u, EndOf(data, m) + 1) /\ BeforeStart(u, EndOf(data, m - 1))
<1>1. /\ InBlocks(u) /\ u.index = i /\ u.block = m /\ Handle(u) = m
      /\ u.block # 0 /\ ~ u.error => u.data = pos
  BY DEF Onto
<1>2. m \in 1 .. Len(data)
  BY DEF IndexAt
<1>3. Ok(u) => u.data = pos
  BY <1>1 DEF Ok
<1>4. Beyond(u, Handle(u))
  BY <1>1, <1>2, <1>3 DEF Beyond
<1> QED BY <1>1, <1>4 DEF PastEnd, BeforeStart

\* One turn of the loop of SkipEmptyDataBlocksForward, and of ...Backward.
StepForward(u, unread) ==
    IF DataValid(u) THEN u
    ELSE IF Handle(u) = 0 THEN SetDataIterator(u, 0, unread)
    ELSE Placed(InitDataBlock([u EXCEPT !.index = ParseNextKey(index, @)], unread), BlockFirst)

StepBackward(u, unread) ==
    IF DataValid(u) THEN u
    ELSE IF Handle(u) = 0 THEN SetDataIterator(u, 0, unread)
    ELSE Placed(InitDataBlock([u EXCEPT !.index = BlockPrev(index, @)], unread), BlockLast)

LEMMA SettledValid ==
    ASSUME BuildInv, finished, NEW t, NEW p \in 1 .. Len(added), Ok(t), OnEntry(t, p)
    PROVE  DataValid(t)
<1> DEFINE b == data[t.block].block
           h == Held(added, b)
           i == t.data
<1>1. t.block \in 1 .. Len(data) /\ \E n \in 1 .. Len(b.entries) : IsAt(b, h, i, n)
  BY DEF OnEntry
<1>2. Holds(b, h)
  <2>1. AddedInv(added) /\ DataInv(added, data, building)
    BY FinishedIs
  <2> QED BY <1>1, <2>1, HeldIs
<1> HIDE DEF b, h, i
<1>3. Valid(b, i)
  BY <1>1, <1>2, AtIs
<1>4. t.block # 0 /\ ~ t.error
  BY <1>1 DEF Ok
<1> QED BY <1>3, <1>4 DEF DataValid, b, i

LEMMA BeyondNot ==
    ASSUME BuildInv, finished, NEW t, NEW m, Beyond(t, m), Ok(t)
    PROVE  ~ DataValid(t) /\ m \in 1 .. Len(data) /\ IndexAt(t.index, m) /\ t.block = m
<1>1. /\ InBlocks(t) /\ m = Handle(t) /\ t.block = m /\ m \in 1 .. Len(data)
      /\ t.data = Invalid(data[m].block)
  BY DEF Beyond
<1>2. ~ Valid(data[m].block, t.data)
  <2> DEFINE b == data[m].block
             h == Held(added, b)
  <2>1. Holds(b, h)
    <3>1. AddedInv(added) /\ DataInv(added, data, building)
      BY FinishedIs
    <3> QED BY <1>1, <3>1, HeldIs
  <2> HIDE DEF b, h
  <2>2. ~ Valid(b, Invalid(b))
    BY <2>1, InvalidIs
  <2> QED BY <1>1, <2>2 DEF b
<1>3. ~ DataValid(t)
  BY <1>1, <1>2 DEF DataValid
<1>4. IsAt(index, IndexKeys(index), t.index, m)
  <2>1. Stands(index, IndexKeys(index), t.index)
    BY <1>1 DEF InBlocks
  <2> QED BY <1>1, <2>1, HandleIs
<1> QED BY <1>1, <1>3, <1>4 DEF IndexAt

\* A turn without a block: nothing changes but the status.
LEMMA TurnWithout ==
    ASSUME BuildInv, finished, NEW t, InBlocks(t), Handle(t) = 0, NEW unread, 0 \notin unread
    PROVE  LET u == SetDataIterator(t, 0, unread)
           IN  InBlocks(u) /\ u.block = 0 /\ Handle(u) = 0 /\ (Ok(u) <=> Ok(t))
<1> DEFINE u == SetDataIterator(t, 0, unread)
<1>1. InitDataBlock(t, unread) = u
  BY DEF InitDataBlock
<1>2. Arrived(t, PutAt(u, 0), 0)
  <2>1. Arrived(t, PutAt(InitDataBlock(t, unread), 0), 0)
    BY Arrives
  <2> QED BY <1>1, <2>1
<1> DEFINE v == PutAt(u, 0)
<1>3. t \in IterType /\ Stands(index, IndexKeys(index), t.index)
  BY DEF InBlocks
<1>4. u.block = 0
  <2>1. u = WithBlock(t, 0, 0 \in unread, t.status /\ ~ t.error)
    BY DEF SetDataIterator, WithBlock
  <2> DEFINE e == 0 \in unread
             s == t.status /\ ~ t.error
  <2> HIDE DEF e, s
  <2>2. u = Iter(t.index, t.data, 0, e, s)
    <3>1. u = WithBlock(t, 0, e, s)
      BY <2>1 DEF e, s
    <3> HIDE DEF u
    <3> QED BY <1>3, <3>1, WithBlockIs
  <2> HIDE DEF u
  <2> QED BY <2>2, IterMade
<1> HIDE DEF u
<1>5. v = u
  BY <1>4 DEF PutAt
<1> HIDE DEF v
<1>6. InBlocks(u) /\ u.index = t.index /\ (Ok(u) <=> Ok(t))
  BY <1>2, <1>4, <1>5 DEF Arrived, v
<1>7. Handle(u) = 0
  BY <1>6 DEF Handle
<1> QED BY <1>4, <1>6, <1>7 DEF u

LEMMA InitBlockIs ==
    ASSUME BuildInv, finished, NEW t, Kept(t), NEW i, NEW m, IndexAt(i, m), NEW unread
    PROVE  InitDataBlock(WithIndex(t, i), unread).block = m
<1> DEFINE v == WithIndex(t, i)
<1>1. i \in Position /\ \A s : s.index = i => Handle(s) = m
  BY IndexAtIs
<1>2. v = Iter(i, t.data, t.block, t.error, t.status) /\ t \in IterType
  BY WithIndexIs DEF Kept
<1>3. /\ t.data \in Position /\ t.block \in 0 .. Len(data)
      /\ t.error \in BOOLEAN /\ t.status \in BOOLEAN
  BY <1>2, IterIs
<1> HIDE DEF v
<1>4. v.index = i /\ v \in IterType
  BY <1>1, <1>2, <1>3, IterMade
<1>5. Handle(v) = m
  BY <1>1, <1>4
<1>6. CASE m # 0 /\ m = v.block
  BY <1>5, <1>6 DEF InitDataBlock, v
<1>7. CASE ~ (m # 0 /\ m = v.block)
  <2> DEFINE e == m \in unread
             s == v.status /\ ~ v.error
             w == InitDataBlock(v, unread)
  <2>1. w = WithBlock(v, m, e, s)
    BY <1>5, <1>7 DEF InitDataBlock, SetDataIterator, WithBlock
  <2> HIDE DEF e, s, w
  <2>2. w = Iter(v.index, v.data, m, e, s)
    BY <1>4, <2>1, WithBlockIs
  <2>3. w.block = m
    BY <2>2, IterMade
  <2> QED BY <2>3 DEF w, v
<1> QED BY <1>6, <1>7

\* The index entries around one.
LEMMA IndexMoves ==
    ASSUME BuildInv, finished, NEW i, NEW m \in 1 .. Len(data), IndexAt(i, m)
    PROVE  /\ IndexAt(ParseNextKey(index, i), IF m = Len(data) THEN 0 ELSE m + 1)
           /\ IndexAt(BlockPrev(index, i), m - 1)
<1> DEFINE x == IndexKeys(index)
<1>1. /\ AddedInv(added) /\ DataInv(added, data, building)
      /\ IndexInv(added, data, building, index, pending)
      /\ Len(data) \in Nat /\ Len(index.entries) = Len(data)
  BY FinishedIs
<1>2. Holds(index, x) /\ Len(x) = Len(data)
  <2>1. Holds(index, x) /\ Len(x) = Len(index.entries)
    BY <1>1, IndexIs
  <2> QED BY <1>1, <2>1
<1>3. IsAt(index, x, i, m)
  BY DEF IndexAt
<1> HIDE DEF x
<1>4. /\ m = Len(data) => ParseNextKey(index, i) = Invalid(index)
      /\ m # Len(data) => IsAt(index, x, ParseNextKey(index, i), m + 1)
  BY <1>2, <1>3, ParseNext
<1>5. /\ m = 1 => BlockPrev(index, i) = Invalid(index)
      /\ m # 1 => IsAt(index, x, BlockPrev(index, i), m - 1)
  BY <1>2, <1>3, PrevEnds
<1>6. /\ m # Len(data) => m + 1 \in 1 .. Len(data) /\ m + 1 # 0
      /\ m # 1 => m - 1 \in 1 .. Len(data)
  BY <1>1
<1>7. IndexAt(ParseNextKey(index, i), IF m = Len(data) THEN 0 ELSE m + 1)
  BY <1>4, <1>6 DEF IndexAt, x
<1>8. IndexAt(BlockPrev(index, i), m - 1)
  BY <1>5, <1>6 DEF IndexAt, x
<1> QED BY <1>7, <1>8

\* Where the first and the last entry of a block are.
LEMMA BlockEnds ==
    ASSUME BuildInv, finished, NEW m \in 1 .. Len(data)
    PROVE  LET b == data[m].block
               h == Held(added, b)
               n == Len(b.entries)
           IN  /\ IsAt(b, h, BlockFirst(b), 1) /\ Stands(b, h, BlockFirst(b))
               /\ BlockFirst(b) \in Position
               /\ IsAt(b, h, BlockLast(b), n) /\ Stands(b, h, BlockLast(b))
               /\ BlockLast(b) \in Position
               /\ n \in Nat /\ n > 0
               /\ EndOf(data, m) = EndOf(data, m - 1) + n /\ EndOf(data, m - 1) \in Nat
               /\ EndOf(data, m) \in Nat /\ EndOf(data, m) <= Len(added)
<1> DEFINE b == data[m].block
           h == Held(added, b)
           n == Len(b.entries)
<1>1. /\ AddedInv(added) /\ DataInv(added, data, building) /\ Len(added) \in Nat
      /\ Len(data) \in Nat
  BY FinishedIs
<1>2. Holds(b, h) /\ Len(h) = n /\ n > 0 /\ n \in Nat
  BY <1>1, HeldIs
<1>3. /\ EndOf(data, m) = EndOf(data, m - 1) + n /\ EndOf(data, m - 1) \in Nat
      /\ EndOf(data, m) \in Nat /\ EndOf(data, m) <= Len(added)
  <2>1. m - 1 \in 0 .. Len(data) /\ m \in 0 .. Len(data)
    BY <1>1
  <2> QED BY <1>1, <2>1, EndOfIs
<1> HIDE DEF b, h, n
<1>4. IsAt(b, h, BlockFirst(b), 1)
  BY <1>2, FirstEnds
<1>5. IsAt(b, h, BlockLast(b), n)
  BY <1>2, LastEnds
<1>6. BlockFirst(b) \in Position /\ BlockLast(b) \in Position
  BY <1>2, <1>4, <1>5, AtIs
<1>7. 1 \in 1 .. Len(h) /\ n \in 1 .. Len(h)
  BY <1>2
<1>8. Stands(b, h, BlockFirst(b)) /\ Stands(b, h, BlockLast(b))
  BY <1>4, <1>5, <1>7 DEF Stands
<1> QED BY <1>2, <1>3, <1>4, <1>5, <1>6, <1>8 DEF b, h, n

\* An iterator that is put at the first, or at the last, entry of a block.
LEMMA PlacedIs ==
    ASSUME BuildInv, finished, NEW t, Kept(t), NEW unread, 0 \notin unread,
           NEW i, NEW m, IndexAt(i, m)
    PROVE  LET v == InitDataBlock([t EXCEPT !.index = i], unread)
               b == data[m].block
           IN  /\ Onto(t, Placed(v, BlockFirst), i, m, BlockFirst(b))
               /\ Onto(t, Placed(v, BlockLast), i, m, BlockLast(b))
<1> DEFINE v == InitDataBlock([t EXCEPT !.index = i], unread)
           b == data[m].block
<1>1. v = InitDataBlock(WithIndex(t, i), unread)
  BY DEF WithIndex
<1> HIDE DEF v
<1>2. v.block = m
  BY <1>1, InitBlockIs
<1>3. /\ Placed(v, BlockFirst) = PutAt(v, BlockFirst(b))
      /\ Placed(v, BlockLast) = PutAt(v, BlockLast(b))
  BY <1>2 DEF Placed, PutAt
<1>4. m # 0 => m \in 1 .. Len(data)
  BY DEF IndexAt
<1>5. m # 0 => /\ BlockFirst(b) \in Position /\ BlockLast(b) \in Position
               /\ Stands(b, Held(added, b), BlockFirst(b))
               /\ Stands(b, Held(added, b), BlockLast(b))
  BY <1>4, BlockEnds
<1> DEFINE f == BlockFirst(b)
           l == BlockLast(b)
<1> HIDE DEF f, l
<1>6. m # 0 => /\ f \in Position /\ l \in Position
               /\ Stands(data[m].block, Held(added, data[m].block), f)
               /\ Stands(data[m].block, Held(added, data[m].block), l)
  BY <1>5 DEF f, l
<1>7. Onto(t, PutAt(InitDataBlock(WithIndex(t, i), unread), f), i, m, f)
  BY <1>6, Onward
<1>8. Onto(t, PutAt(InitDataBlock(WithIndex(t, i), unread), l), i, m, l)
  BY <1>6, Onward
<1> QED BY <1>1, <1>3, <1>7, <1>8 DEF f, l, v

LEMMA StepForwardIs ==
    ASSUME BuildInv, finished, NEW t, InBlocks(t), NEW unread, 0 \notin unread
    PROVE  LET u == StepForward(t, unread)
           IN  /\ InBlocks(u)
               /\ \A p : Settled(t, p) \/ PastEnd(t, p) => Settled(u, p)
<1> DEFINE u == StepForward(t, unread)
           h == Handle(t)
<1>1. \A p : Settled(t, p) /\ Ok(t) => (p \in 1 .. Len(added) /\ DataValid(t)) \/ (h = 0 /\ p \notin 1 .. Len(added))
  BY SettledValid DEF Settled
<1>2. \A p : PastEnd(t, p) /\ Ok(t) =>
          ~ DataValid(t) /\ h \in 1 .. Len(data) /\ t.block = h /\ p = EndOf(data, h) + 1
  BY BeyondNot DEF PastEnd
<1>3. CASE DataValid(t)
  <2>1. u = t
    BY <1>3 DEF StepForward
  <2> HIDE DEF u
  <2>2. \A p : PastEnd(t, p) => ~ Ok(t)
    BY <1>2, <1>3
  <2>3. \A p : PastEnd(t, p) => Settled(u, p)
    BY <2>1, <2>2 DEF Settled
  <2>4. InBlocks(u) /\ \A p : Settled(t, p) \/ PastEnd(t, p) => Settled(u, p)
    BY <2>1, <2>3
  <2> QED BY <2>4 DEF u
<1>4. CASE ~ DataValid(t) /\ h = 0
  <2>1. u = SetDataIterator(t, 0, unread)
    BY <1>4 DEF StepForward
  <2>2. InBlocks(u) /\ u.block = 0 /\ Handle(u) = 0 /\ (Ok(u) <=> Ok(t))
    BY <1>4, <2>1, TurnWithout
  <2> HIDE DEF u
  <2>3. ASSUME NEW p, Settled(t, p) \/ PastEnd(t, p) PROVE Settled(u, p)
    <3>1. Ok(t) => p \notin 1 .. Len(added)
      <4>1. 0 \notin 1 .. Len(data)
        BY FinishedIs
      <4> QED BY <1>1, <1>2, <1>4, <2>3, <4>1
    <3> QED BY <2>2, <3>1 DEF Settled
  <2>4. InBlocks(u) /\ \A p : Settled(t, p) \/ PastEnd(t, p) => Settled(u, p)
    BY <2>2, <2>3
  <2> QED BY <2>4 DEF u
<1>5. CASE ~ DataValid(t) /\ h # 0
  <2> DEFINE i == ParseNextKey(index, t.index)
             m == IF h = Len(data) THEN 0 ELSE h + 1
             pos == BlockFirst(data[m].block)
  <2>1. h \in 1 .. Len(data) /\ IndexAt(t.index, h) /\ Kept(t) /\ Len(data) \in Nat
    <3>1. Stands(index, IndexKeys(index), t.index) /\ Kept(t)
      BY KeptIs
    <3>2. Len(data) \in Nat
      BY FinishedIs
    <3> QED BY <1>5, <3>1, <3>2, HandleIs DEF IndexAt
  <2> HIDE DEF h
  <2>2. IndexAt(i, m)
    BY <2>1, IndexMoves
  <2>3. u = Placed(InitDataBlock([t EXCEPT !.index = i], unread), BlockFirst)
    BY <1>5 DEF StepForward, h
  <2> HIDE DEF i, m
  <2>4. Onto(t, u, i, m, pos)
    BY <2>1, <2>2, <2>3, PlacedIs
  <2>5. InBlocks(u) /\ (Ok(u) => Ok(t))
    BY <2>4 DEF Onto
  <2> HIDE DEF u
  <2>6. ASSUME NEW p, Settled(t, p) \/ PastEnd(t, p) PROVE Settled(u, p)
    <3>1. CASE ~ Ok(t)
      BY <2>5, <3>1 DEF Settled
    <3>2. CASE Ok(t)
      <4>1. t.block = h /\ p = EndOf(data, h) + 1
        BY <1>1, <1>2, <1>5, <2>6, <3>2
      <4>2. m = 0 => p \notin 1 .. Len(added)
        <5> SUFFICES ASSUME m = 0 PROVE p \notin 1 .. Len(added)
          OBVIOUS
        <5>1. h = Len(data)
          BY <2>1 DEF m
        <5>2. EndOf(data, h) = Len(added) /\ Len(added) \in Nat
          BY <5>1, FinishedIs
        <5> QED BY <4>1, <5>2
      <4>3. m # 0 => m = h + 1 /\ m - 1 = h /\ m \in 1 .. Len(data)
        BY <2>1 DEF m
      <4>4. m # 0 => \E n \in 1 .. Len(data[m].block.entries) :
                        /\ IsAt(data[m].block, Held(added, data[m].block), pos, n)
                        /\ p = EndOf(data, m - 1) + n
        <5> SUFFICES ASSUME m # 0
                     PROVE  \E n \in 1 .. Len(data[m].block.entries) :
                               /\ IsAt(data[m].block, Held(added, data[m].block), pos, n)
                               /\ p = EndOf(data, m - 1) + n
          OBVIOUS
        <5>1. /\ IsAt(data[m].block, Held(added, data[m].block), pos, 1)
              /\ Len(data[m].block.entries) \in Nat /\ Len(data[m].block.entries) > 0
          BY <4>3, BlockEnds
        <5>2. 1 \in 1 .. Len(data[m].block.entries) /\ p = EndOf(data, m - 1) + 1
          BY <4>1, <4>3, <5>1
        <5> QED BY <5>1, <5>2
      <4> HIDE DEF pos
      <4> QED BY <2>2, <2>4, <4>2, <4>4, OntoSettles
    <3> QED BY <3>1, <3>2
  <2>7. InBlocks(u) /\ \A p : Settled(t, p) \/ PastEnd(t, p) => Settled(u, p)
    BY <2>5, <2>6
  <2> QED BY <2>7 DEF u
<1> QED BY <1>3, <1>4, <1>5

LEMMA StepBackwardIs ==
    ASSUME BuildInv, finished, NEW t, InBlocks(t), NEW unread, 0 \notin unread
    PROVE  LET u == StepBackward(t, unread)
           IN  /\ InBlocks(u)
               /\ \A p : Settled(t, p) \/ BeforeStart(t, p) => Settled(u, p)
<1> DEFINE u == StepBackward(t, unread)
           h == Handle(t)
<1>1. \A p : Settled(t, p) /\ Ok(t) => (p \in 1 .. Len(added) /\ DataValid(t)) \/ (h = 0 /\ p \notin 1 .. Len(added))
  BY SettledValid DEF Settled
<1>2. \A p : BeforeStart(t, p) /\ Ok(t) =>
          ~ DataValid(t) /\ h \in 1 .. Len(data) /\ t.block = h /\ p = EndOf(data, h - 1)
  BY BeyondNot DEF BeforeStart
<1>3. CASE DataValid(t)
  <2>1. u = t
    BY <1>3 DEF StepBackward
  <2> HIDE DEF u
  <2>2. \A p : BeforeStart(t, p) => ~ Ok(t)
    BY <1>2, <1>3
  <2>3. \A p : BeforeStart(t, p) => Settled(u, p)
    BY <2>1, <2>2 DEF Settled
  <2>4. InBlocks(u) /\ \A p : Settled(t, p) \/ BeforeStart(t, p) => Settled(u, p)
    BY <2>1, <2>3
  <2> QED BY <2>4 DEF u
<1>4. CASE ~ DataValid(t) /\ h = 0
  <2>1. u = SetDataIterator(t, 0, unread)
    BY <1>4 DEF StepBackward
  <2>2. InBlocks(u) /\ u.block = 0 /\ Handle(u) = 0 /\ (Ok(u) <=> Ok(t))
    BY <1>4, <2>1, TurnWithout
  <2> HIDE DEF u
  <2>3. ASSUME NEW p, Settled(t, p) \/ BeforeStart(t, p) PROVE Settled(u, p)
    <3>1. Ok(t) => p \notin 1 .. Len(added)
      <4>1. 0 \notin 1 .. Len(data)
        BY FinishedIs
      <4> QED BY <1>1, <1>2, <1>4, <2>3, <4>1
    <3> QED BY <2>2, <3>1 DEF Settled
  <2>4. InBlocks(u) /\ \A p : Settled(t, p) \/ BeforeStart(t, p) => Settled(u, p)
    BY <2>2, <2>3
  <2> QED BY <2>4 DEF u
<1>5. CASE ~ DataValid(t) /\ h # 0
  <2> DEFINE i == BlockPrev(index, t.index)
             m == h - 1
             pos == BlockLast(data[m].block)
  <2>1. h \in 1 .. Len(data) /\ IndexAt(t.index, h) /\ Kept(t) /\ Len(data) \in Nat
    <3>1. Stands(index, IndexKeys(index), t.index) /\ Kept(t)
      BY KeptIs
    <3>2. Len(data) \in Nat
      BY FinishedIs
    <3> QED BY <1>5, <3>1, <3>2, HandleIs DEF IndexAt
  <2> HIDE DEF h
  <2>2. IndexAt(i, m)
    BY <2>1, IndexMoves
  <2>3. u = Placed(InitDataBlock([t EXCEPT !.index = i], unread), BlockLast)
    BY <1>5 DEF StepBackward, h
  <2> HIDE DEF i, m
  <2>4. Onto(t, u, i, m, pos)
    BY <2>1, <2>2, <2>3, PlacedIs
  <2>5. InBlocks(u) /\ (Ok(u) => Ok(t))
    BY <2>4 DEF Onto
  <2> HIDE DEF u
  <2>6. ASSUME NEW p, Settled(t, p) \/ BeforeStart(t, p) PROVE Settled(u, p)
    <3>1. CASE ~ Ok(t)
      BY <2>5, <3>1 DEF Settled
    <3>2. CASE Ok(t)
      <4>1. t.block = h /\ p = EndOf(data, h - 1)
        BY <1>1, <1>2, <1>5, <2>6, <3>2
      <4>2. m = 0 => p \notin 1 .. Len(added)
        <5> SUFFICES ASSUME m = 0 PROVE p \notin 1 .. Len(added)
          OBVIOUS
        <5>1. EndOf(data, h - 1) = 0
          BY DEF m, EndOf
        <5> QED BY <4>1, <5>1
      <4>3. m # 0 => m = h - 1 /\ m \in 1 .. Len(data)
        BY <2>1 DEF m
      <4>4. m # 0 => \E n \in 1 .. Len(data[m].block.entries) :
                        /\ IsAt(data[m].block, Held(added, data[m].block), pos, n)
                        /\ p = EndOf(data, m - 1) + n
        <5> SUFFICES ASSUME m # 0
                     PROVE  \E n \in 1 .. Len(data[m].block.entries) :
                               /\ IsAt(data[m].block, Held(added, data[m].block), pos, n)
                               /\ p = EndOf(data, m - 1) + n
          OBVIOUS
        <5> DEFINE n == Len(data[m].block.entries)
        <5>1. /\ IsAt(data[m].block, Held(added, data[m].block), pos, n)
              /\ n \in Nat /\ n > 0 /\ EndOf(data, m) = EndOf(data, m - 1) + n
          BY <4>3, BlockEnds
        <5>2. n \in 1 .. n /\ p = EndOf(data, m - 1) + n
          BY <4>1, <4>3, <5>1
        <5> QED BY <5>1, <5>2
      <4> HIDE DEF pos
      <4> QED BY <2>2, <2>4, <4>2, <4>4, OntoSettles
    <3> QED BY <3>1, <3>2
  <2>7. InBlocks(u) /\ \A p : Settled(t, p) \/ BeforeStart(t, p) => Settled(u, p)
    BY <2>5, <2>6
  <2> QED BY <2>7 DEF u
<1> QED BY <1>3, <1>4, <1>5

LEMMA SkipForwardIs ==
    ASSUME BuildInv, finished, NEW t, InBlocks(t), NEW unread, 0 \notin unread
    PROVE  LET u == SkipForward(t, unread)
           IN  InBlocks(u) /\ \A p : Settled(t, p) \/ PastEnd(t, p) => Settled(u, p)
<1> DEFINE V == {u \in IterType : InBlocks(u)}
           N == Len(data) + 1
           G == [u \in V |-> StepForward(u, unread)]
           W(f, n) == IF n = 0 THEN t ELSE StepForward(f[n - 1], unread)
           Is(f) == f = [n \in 0 .. N |-> W(f, n)]
<1>1. N \in Nat /\ N > 0
  BY FinishedIs
<1>2. \A u : InBlocks(u) <=> u \in V
  BY DEF InBlocks
<1>3. \A u \in V : G[u] = StepForward(u, unread)
  OBVIOUS
<1>4. \A u \in V : /\ G[u] \in V
                   /\ \A p : Settled(u, p) \/ PastEnd(u, p) => Settled(G[u], p)
  <2> SUFFICES ASSUME NEW u \in V
               PROVE  /\ G[u] \in V
                      /\ \A p : Settled(u, p) \/ PastEnd(u, p) => Settled(G[u], p)
    OBVIOUS
  <2>1. InBlocks(u)
    BY <1>2
  <2>2. G[u] = StepForward(u, unread)
    BY <1>3
  <2> HIDE DEF V, G
  <2>3. /\ InBlocks(G[u])
        /\ \A p : Settled(u, p) \/ PastEnd(u, p) => Settled(G[u], p)
    BY <2>1, <2>2, StepForwardIs
  <2> QED BY <1>2, <2>3
<1>5. t \in V
  BY <1>2
<1> HIDE DEF V, G
<1>p. PICK g : Loops(g, G, V, t, N)
  <2> HIDE DEF N
  <2> QED BY <1>1, <1>4, <1>5, Loop
<1>6. /\ g \in [0 .. N -> V] /\ g[0] = t
      /\ \A m \in 1 .. N : g[m] = G[g[m - 1]] /\ g[m - 1] \in V
  BY <1>p DEF Loops
<1>7. Is(g)
  <2> HIDE DEF N
  <2>1. ASSUME NEW m \in 0 .. N PROVE g[m] = W(g, m)
    <3>1. CASE m = 0
      BY <1>6, <3>1
    <3>2. CASE m # 0
      <4>1. m \in 1 .. N
        BY <1>1, <3>2
      <4> QED BY <1>3, <1>6, <3>2, <4>1
    <3> QED BY <3>1, <3>2
  <2>2. g = [n \in 0 .. N |-> g[n]]
    BY <1>6
  <2> HIDE DEF W
  <2> QED BY <2>1, <2>2
<1> DEFINE from == CHOOSE f : Is(f)
<1>8. Is(from)
  <2> HIDE DEF N, W
  <2> QED BY <1>7
<1>9. SkipForward(t, unread) = from[N]
  BY DEF SkipForward, Skip, StepForward
<1> HIDE DEF from, N
<1>10. \A n \in 0 .. N : from[n] = W(from, n)
  <2> HIDE DEF W
  <2> QED BY <1>8
<1>11. from[0] = t
  <2>1. 0 \in 0 .. N
    BY <1>1
  <2> QED BY <1>10, <2>1
<1> DEFINE T == {n \in Nat : n <= N => from[n] \in V}
<1>12. 0 \in T
  BY <1>5, <1>11
<1>13. ASSUME NEW n \in T \cap Nat PROVE n + 1 \in T
  <2> SUFFICES ASSUME n + 1 <= N PROVE from[n + 1] \in V
    OBVIOUS
  <2>1. n \in Nat /\ n + 1 \in 0 .. N /\ n + 1 # 0 /\ (n + 1) - 1 = n /\ n <= N
    BY <1>1
  <2>2. from[n] \in V
    BY <2>1
  <2>3. from[n + 1] = StepForward(from[n], unread)
    BY <1>10, <2>1
  <2> QED BY <1>3, <1>4, <2>2, <2>3
<1>14. \A n \in Nat : n <= N => from[n] \in V
  <2>1. Nat \subseteq T
    <3> HIDE DEF T
    <3> QED BY <1>12, <1>13, FromZero
  <2> QED BY <2>1
<1>15. ASSUME NEW n \in Nat, n + 1 <= N
       PROVE  /\ from[n] \in V
              /\ \A p : Settled(from[n], p) \/ PastEnd(from[n], p) => Settled(from[n + 1], p)
  <2>1. n + 1 \in 0 .. N /\ n + 1 # 0 /\ (n + 1) - 1 = n /\ n <= N
    BY <1>1, <1>15
  <2>2. from[n] \in V
    BY <1>14, <2>1
  <2>3. from[n + 1] = StepForward(from[n], unread)
    BY <1>10, <2>1
  <2>4. from[n + 1] = G[from[n]]
    BY <1>3, <2>2, <2>3
  <2> QED BY <1>4, <2>2, <2>4
<1>16. ASSUME NEW p, Settled(t, p) \/ PastEnd(t, p) PROVE Settled(from[N], p)
  <2> DEFINE U == {n \in Nat : n + 1 <= N => Settled(from[n + 1], p)}
  <2>1. 0 \in U
    <3>1. 0 + 1 <= N => Settled(from[0 + 1], p)
      BY <1>11, <1>15, <1>16
    <3> QED BY <3>1
  <2>2. ASSUME NEW n \in U \cap Nat PROVE n + 1 \in U
    <3> SUFFICES ASSUME (n + 1) + 1 <= N PROVE Settled(from[(n + 1) + 1], p)
      OBVIOUS
    <3>1. n + 1 <= N /\ n + 1 \in Nat
      BY <1>1
    <3>2. Settled(from[n + 1], p)
      BY <3>1
    <3> QED BY <1>15, <3>1, <3>2
  <2>3. Nat \subseteq U
    <3> HIDE DEF U
    <3> QED BY <2>1, <2>2, FromZero
  <2>4. N - 1 \in Nat /\ (N - 1) + 1 = N
    BY <1>1
  <2>5. N - 1 \in U
    BY <2>3, <2>4
  <2>6. (N - 1) + 1 <= N => Settled(from[(N - 1) + 1], p)
    BY <2>5
  <2> QED BY <1>1, <2>4, <2>6
<1>17. InBlocks(from[N])
  BY <1>1, <1>2, <1>14
<1> QED BY <1>9, <1>16, <1>17

LEMMA SkipBackwardIs ==
    ASSUME BuildInv, finished, NEW t, InBlocks(t), NEW unread, 0 \notin unread
    PROVE  LET u == SkipBackward(t, unread)
           IN  InBlocks(u) /\ \A p : Settled(t, p) \/ BeforeStart(t, p) => Settled(u, p)
<1> DEFINE V == {u \in IterType : InBlocks(u)}
           N == Len(data) + 1
           G == [u \in V |-> StepBackward(u, unread)]
           W(f, n) == IF n = 0 THEN t ELSE StepBackward(f[n - 1], unread)
           Is(f) == f = [n \in 0 .. N |-> W(f, n)]
<1>1. N \in Nat /\ N > 0
  BY FinishedIs
<1>2. \A u : InBlocks(u) <=> u \in V
  BY DEF InBlocks
<1>3. \A u \in V : G[u] = StepBackward(u, unread)
  OBVIOUS
<1>4. \A u \in V : /\ G[u] \in V
                   /\ \A p : Settled(u, p) \/ BeforeStart(u, p) => Settled(G[u], p)
  <2> SUFFICES ASSUME NEW u \in V
               PROVE  /\ G[u] \in V
                      /\ \A p : Settled(u, p) \/ BeforeStart(u, p) => Settled(G[u], p)
    OBVIOUS
  <2>1. InBlocks(u)
    BY <1>2
  <2>2. G[u] = StepBackward(u, unread)
    BY <1>3
  <2> HIDE DEF V, G
  <2>3. /\ InBlocks(G[u])
        /\ \A p : Settled(u, p) \/ BeforeStart(u, p) => Settled(G[u], p)
    BY <2>1, <2>2, StepBackwardIs
  <2> QED BY <1>2, <2>3
<1>5. t \in V
  BY <1>2
<1> HIDE DEF V, G
<1>p. PICK g : Loops(g, G, V, t, N)
  <2> HIDE DEF N
  <2> QED BY <1>1, <1>4, <1>5, Loop
<1>6. /\ g \in [0 .. N -> V] /\ g[0] = t
      /\ \A m \in 1 .. N : g[m] = G[g[m - 1]] /\ g[m - 1] \in V
  BY <1>p DEF Loops
<1>7. Is(g)
  <2> HIDE DEF N
  <2>1. ASSUME NEW m \in 0 .. N PROVE g[m] = W(g, m)
    <3>1. CASE m = 0
      BY <1>6, <3>1
    <3>2. CASE m # 0
      <4>1. m \in 1 .. N
        BY <1>1, <3>2
      <4> QED BY <1>3, <1>6, <3>2, <4>1
    <3> QED BY <3>1, <3>2
  <2>2. g = [n \in 0 .. N |-> g[n]]
    BY <1>6
  <2> HIDE DEF W
  <2> QED BY <2>1, <2>2
<1> DEFINE from == CHOOSE f : Is(f)
<1>8. Is(from)
  <2> HIDE DEF N, W
  <2> QED BY <1>7
<1>9. SkipBackward(t, unread) = from[N]
  BY DEF SkipBackward, Skip, StepBackward
<1> HIDE DEF from, N
<1>10. \A n \in 0 .. N : from[n] = W(from, n)
  <2> HIDE DEF W
  <2> QED BY <1>8
<1>11. from[0] = t
  <2>1. 0 \in 0 .. N
    BY <1>1
  <2> QED BY <1>10, <2>1
<1> DEFINE T == {n \in Nat : n <= N => from[n] \in V}
<1>12. 0 \in T
  BY <1>5, <1>11
<1>13. ASSUME NEW n \in T \cap Nat PROVE n + 1 \in T
  <2> SUFFICES ASSUME n + 1 <= N PROVE from[n + 1] \in V
    OBVIOUS
  <2>1. n \in Nat /\ n + 1 \in 0 .. N /\ n + 1 # 0 /\ (n + 1) - 1 = n /\ n <= N
    BY <1>1
  <2>2. from[n] \in V
    BY <2>1
  <2>3. from[n + 1] = StepBackward(from[n], unread)
    BY <1>10, <2>1
  <2> QED BY <1>3, <1>4, <2>2, <2>3
<1>14. \A n \in Nat : n <= N => from[n] \in V
  <2>1. Nat \subseteq T
    <3> HIDE DEF T
    <3> QED BY <1>12, <1>13, FromZero
  <2> QED BY <2>1
<1>15. ASSUME NEW n \in Nat, n + 1 <= N
       PROVE  /\ from[n] \in V
              /\ \A p : Settled(from[n], p) \/ BeforeStart(from[n], p) => Settled(from[n + 1], p)
  <2>1. n + 1 \in 0 .. N /\ n + 1 # 0 /\ (n + 1) - 1 = n /\ n <= N
    BY <1>1, <1>15
  <2>2. from[n] \in V
    BY <1>14, <2>1
  <2>3. from[n + 1] = StepBackward(from[n], unread)
    BY <1>10, <2>1
  <2>4. from[n + 1] = G[from[n]]
    BY <1>3, <2>2, <2>3
  <2> QED BY <1>4, <2>2, <2>4
<1>16. ASSUME NEW p, Settled(t, p) \/ BeforeStart(t, p) PROVE Settled(from[N], p)
  <2> DEFINE U == {n \in Nat : n + 1 <= N => Settled(from[n + 1], p)}
  <2>1. 0 \in U
    <3>1. 0 + 1 <= N => Settled(from[0 + 1], p)
      BY <1>11, <1>15, <1>16
    <3> QED BY <3>1
  <2>2. ASSUME NEW n \in U \cap Nat PROVE n + 1 \in U
    <3> SUFFICES ASSUME (n + 1) + 1 <= N PROVE Settled(from[(n + 1) + 1], p)
      OBVIOUS
    <3>1. n + 1 <= N /\ n + 1 \in Nat
      BY <1>1
    <3>2. Settled(from[n + 1], p)
      BY <3>1
    <3> QED BY <1>15, <3>1, <3>2
  <2>3. Nat \subseteq U
    <3> HIDE DEF U
    <3> QED BY <2>1, <2>2, FromZero
  <2>4. N - 1 \in Nat /\ (N - 1) + 1 = N
    BY <1>1
  <2>5. N - 1 \in U
    BY <2>3, <2>4
  <2>6. (N - 1) + 1 <= N => Settled(from[(N - 1) + 1], p)
    BY <2>5
  <2> QED BY <1>1, <2>4, <2>6
<1>17. InBlocks(from[N])
  BY <1>1, <1>2, <1>14
<1> QED BY <1>9, <1>16, <1>17

-----------------------------------------------------------------------------
(* The iterator: its calls *)

EntryAt(p) == IF p \in 1 .. Len(added) THEN added[p] ELSE <<>>

\* The entries before and from a place on.
LEMMA WantFrom ==
    ASSUME BuildInv, NEW p \in 1 .. Len(added) + 1, NEW S,
           \A i : i \in S <=> i \in 1 .. Len(added) /\ ~ (i < p)
    PROVE  FirstOf(S) = EntryAt(p)
<1>1. Len(added) \in Nat
  BY AddedTypes DEF BuildInv, Built
<1>2. CASE p = Len(added) + 1
  <2>1. S = {} /\ p \notin 1 .. Len(added)
    BY <1>1, <1>2
  <2> QED BY <2>1 DEF FirstOf, EntryAt
<1>3. CASE p # Len(added) + 1
  <2>1. p \in 1 .. Len(added) /\ p \in S /\ S \subseteq Nat /\ \A i \in S : p <= i
    BY <1>1, <1>3
  <2>2. Min(S) = p /\ S # {}
    BY <2>1, MinOf
  <2> QED BY <2>1, <2>2 DEF FirstOf, EntryAt
<1> QED BY <1>2, <1>3

LEMMA WantUpTo ==
    ASSUME BuildInv, NEW p \in 0 .. Len(added), NEW S,
           \A i : i \in S <=> i \in 1 .. Len(added) /\ i <= p
    PROVE  LastOf(S) = EntryAt(p)
<1>1. Len(added) \in Nat
  BY AddedTypes DEF BuildInv, Built
<1>2. CASE p = 0
  <2>1. S = {} /\ p \notin 1 .. Len(added)
    BY <1>1, <1>2
  <2> QED BY <2>1 DEF LastOf, EntryAt
<1>3. CASE p # 0
  <2>1. p \in 1 .. Len(added) /\ p \in S /\ S \subseteq Nat /\ \A i \in S : i <= p
    BY <1>1, <1>3
  <2>2. Max(S) = p /\ S # {}
    BY <2>1, MaxOf
  <2> QED BY <2>1, <2>2 DEF LastOf, EntryAt
<1> QED BY <1>2, <1>3

LEMMA CallKeeps ==
    ASSUME BuildInv, NEW new, NEW want, Call(new, want), NEW p, Settled(new, p), want = EntryAt(p)
    PROVE  TableInv'
<1>1. /\ finished /\ tableIter' = new /\ expected' = want
      /\ added' = added /\ data' = data /\ building' = building /\ index' = index
      /\ pending' = pending /\ filters' = filters /\ finished' = finished
  BY DEF Call
<1>2. BuildInv'
  BY <1>1 DEF BuildInv
<1>3. InBlocks(new) /\ (Ok(new) => Expects(new, want))
  <2> SUFFICES ASSUME Ok(new) PROVE Expects(new, want)
    BY DEF Settled
  <2>1. CASE p \in 1 .. Len(added)
    <3>1. OnEntry(new, p) /\ want = added[p]
      BY <2>1 DEF Settled, EntryAt
    <3>2. new.block # 0
      <4>1. new.block \in 1 .. Len(data) /\ Len(data) \in Nat
        BY <1>1, <3>1, FinishedIs DEF OnEntry
      <4> QED BY <4>1
    <3> QED BY <2>1, <3>1, <3>2 DEF Expects
  <2>2. CASE p \notin 1 .. Len(added)
    <3>1. new.block = 0 /\ want = <<>>
      BY <2>2 DEF Settled, EntryAt
    <3> QED BY <3>1 DEF Expects
  <2> QED BY <2>1, <2>2
<1>4. InBlocks(tableIter)' /\ (Ok(tableIter)' => Expects(tableIter, expected)')
  <2>1. InBlocks(tableIter)' <=> InBlocks(new)
    BY <1>1 DEF InBlocks, IterType
  <2>2. Ok(tableIter)' <=> Ok(new)
    BY <1>1 DEF Ok
  <2>3. Expects(tableIter, expected)' <=> Expects(new, want)
    BY <1>1 DEF Expects, OnEntry
  <2> QED BY <1>3, <2>1, <2>2, <2>3
<1>5. IteratorInv'
  BY <1>1, <1>4 DEF IteratorInv
<1> QED BY <1>2, <1>5 DEF TableInv

LEMMA IterKept ==
    ASSUME BuildInv, IteratorInv, finished
    PROVE  Kept(tableIter) /\ (DataValid(tableIter) => InBlocks(tableIter))
<1>1. CASE tableIter = NewTwoLevelIterator
  <2>1. Kept(tableIter)
    BY <1>1, NewKept
  <2>2. tableIter.block = 0
    BY <1>1 DEF NewTwoLevelIterator
  <2> QED BY <2>1, <2>2 DEF DataValid
<1>2. CASE InBlocks(tableIter)
  BY <1>2, KeptIs
<1> QED BY <1>1, <1>2 DEF IteratorInv

LEMMA UnreadIs ==
    ASSUME BuildInv, finished, NEW unread \in {{}} \cup {{n} : n \in DOMAIN data}
    PROVE  0 \notin unread
<1>1. Len(data) \in Nat /\ data = [m \in 1 .. Len(data) |-> data[m]]
  BY FinishedIs DEF DataInv
<1>2. DOMAIN data = 1 .. Len(data)
  BY <1>1
<1> QED BY <1>1, <1>2

LEMMA SeekKeeps ==
    ASSUME BuildInv, IteratorInv, NEW unread \in {{}} \cup {{n} : n \in DOMAIN data},
           NEW k \in InternalKeys, TableSeek(k, unread)
    PROVE  TableInv'
<1>1. finished
  BY DEF TableSeek, Call
<1>2. 0 \notin unread /\ Kept(tableIter) /\ k \in Key
  BY <1>1, UnreadIs, IterKept, InternalKeyIs
<1>3. PICK m, p : SeekPlaces(k, m, p)
  BY <1>1, <1>2, IndexSeekEnds
<1>4. /\ AddedInv(added) /\ Len(added) \in Nat /\ Len(data) \in Nat
      /\ EndOf(data, Len(data)) = Len(added)
  BY <1>1, FinishedIs
<1>5. /\ m \in 1 .. Len(data) + 1 /\ p \in 1 .. Len(added) + 1
      /\ \A i \in 1 .. Len(added) : KeyBefore(added[i], k) <=> i < p
      /\ m > Len(data) => BlockSeek(index, k) = Invalid(index) /\ p = Len(added) + 1
      /\ m <= Len(data) =>
            /\ IsAt(index, IndexKeys(index), BlockSeek(index, k), m)
            /\ EndOf(data, m - 1) < p /\ p <= EndOf(data, m) + 1
  BY <1>3 DEF SeekPlaces
<1> DEFINE i == BlockSeek(index, k)
           o == IF m > Len(data) THEN 0 ELSE m
           v == InitDataBlock([tableIter EXCEPT !.index = i], unread)
           pos == BlockSeek(data[o].block, k)
           u == Placed(v, LAMBDA b : BlockSeek(b, k))
           want == FirstOf(DOMAIN added \ Ahead(k))
<1>6. /\ o # 0 => o = m /\ m \in 1 .. Len(data) /\ m <= Len(data)
      /\ o = 0 => m > Len(data)
  BY <1>4, <1>5
<1>7. IndexAt(i, o)
  BY <1>5, <1>6 DEF IndexAt
<1>8. v = InitDataBlock(WithIndex(tableIter, i), unread)
  BY DEF WithIndex
<1> HIDE DEF i, o, v
<1>9. v.block = o
  BY <1>1, <1>2, <1>7, <1>8, InitBlockIs
<1>10. u = PutAt(v, pos)
  BY <1>9 DEF Placed, PutAt
<1>11. ASSUME o # 0
       PROVE  /\ p <= EndOf(data, o) =>
                    /\ IsAt(data[o].block, Held(added, data[o].block), pos, p - EndOf(data, o - 1))
                    /\ p - EndOf(data, o - 1) \in 1 .. Len(data[o].block.entries)
                    /\ p = EndOf(data, o - 1) + (p - EndOf(data, o - 1))
              /\ ~ (p <= EndOf(data, o)) => pos = Invalid(data[o].block) /\ p = EndOf(data, o) + 1
              /\ pos \in Position /\ Stands(data[o].block, Held(added, data[o].block), pos)
  <2> DEFINE b == data[o].block
             h == Held(added, b)
             n == p - EndOf(data, o - 1)
  <2>1. /\ p <= EndOf(data, o) => IsAt(b, h, pos, n)
        /\ p > EndOf(data, o) => pos = Invalid(b)
    BY <1>1, <1>2, <1>3, <1>6, <1>11, BlockSeekEnds
  <2>2. Holds(b, h) /\ Len(h) = Len(b.entries)
    <3>1. DataInv(added, data, building)
      BY <1>1, FinishedIs
    <3> QED BY <1>4, <1>6, <1>11, <3>1, HeldIs
  <2>3. /\ EndOf(data, o - 1) \in Nat /\ EndOf(data, o) \in Nat
        /\ EndOf(data, o) = EndOf(data, o - 1) + Len(b.entries) /\ Len(b.entries) \in Nat
    BY <1>1, <1>6, <1>11, BlockEnds
  <2> HIDE DEF b, h, pos
  <2>4. n \in Nat /\ n > 0 /\ p = EndOf(data, o - 1) + n
    BY <1>5, <1>6, <1>11, <2>3
  <2>5. CASE p <= EndOf(data, o)
    <3>1. n \in 1 .. Len(h) /\ IsAt(b, h, pos, n)
      BY <2>1, <2>2, <2>3, <2>4, <2>5
    <3> HIDE DEF n
    <3>2. pos \in Position /\ Stands(b, h, pos)
      BY <2>2, <3>1, AtIs DEF Stands
    <3> QED BY <2>2, <2>4, <2>5, <3>1, <3>2 DEF b, h, n
  <2>6. CASE ~ (p <= EndOf(data, o))
    <3>1. pos = Invalid(b) /\ p = EndOf(data, o) + 1
      BY <1>5, <1>6, <1>11, <2>1, <2>3, <2>6
    <3>2. pos \in Position /\ Stands(b, h, pos)
      BY <2>2, <3>1, InvalidIs DEF Stands
    <3> QED BY <2>6, <3>1, <3>2 DEF b, h
  <2> QED BY <2>5, <2>6
<1> HIDE DEF pos, u
<1>12. Onto(tableIter, u, i, o, pos)
  BY <1>1, <1>2, <1>7, <1>8, <1>10, <1>11, Onward
<1>13. Settled(u, p) \/ PastEnd(u, p)
  <2>1. CASE o = 0
    <3>1. p \notin 1 .. Len(added)
      BY <1>4, <1>5, <1>6, <2>1
    <3> QED BY <1>1, <1>7, <1>12, <2>1, <3>1, OntoSettles
  <2>2. CASE o # 0 /\ p <= EndOf(data, o)
    <3>1. \E n \in 1 .. Len(data[o].block.entries) :
             /\ IsAt(data[o].block, Held(added, data[o].block), pos, n)
             /\ p = EndOf(data, o - 1) + n
      BY <1>11, <2>2
    <3> QED BY <1>1, <1>7, <1>12, <2>2, <3>1, OntoSettles
  <2>3. CASE o # 0 /\ ~ (p <= EndOf(data, o))
    BY <1>1, <1>7, <1>11, <1>12, <2>3, OntoBeyond
  <2> QED BY <2>1, <2>2, <2>3
<1>14. InBlocks(u)
  BY <1>12 DEF Onto
<1>15. Settled(SkipForward(u, unread), p)
  BY <1>1, <1>2, <1>13, <1>14, SkipForwardIs
<1>16. want = EntryAt(p)
  <2> DEFINE S == DOMAIN added \ Ahead(k)
  <2>1. \A j : j \in S <=> j \in 1 .. Len(added) /\ ~ (j < p)
    <3>1. DOMAIN added = 1 .. Len(added)
      BY <1>4, AddedTypes
    <3> QED BY <1>5, <3>1 DEF Ahead
  <2> HIDE DEF S
  <2>2. FirstOf(S) = EntryAt(p)
    BY <1>5, <2>1, WantFrom
  <2> QED BY <2>2 DEF S
<1>17. Call(SkipForward(u, unread), want)
  BY DEF TableSeek, u, v, i
<1> HIDE DEF want
<1> QED BY <1>15, <1>16, <1>17, CallKeeps

LEMMA FirstKeeps ==
    ASSUME BuildInv, IteratorInv, NEW unread \in {{}} \cup {{n} : n \in DOMAIN data},
           TableSeekToFirst(unread)
    PROVE  TableInv'
<1>1. finished
  BY DEF TableSeekToFirst, Call
<1>2. 0 \notin unread /\ Kept(tableIter)
  BY <1>1, UnreadIs, IterKept
<1>3. /\ AddedInv(added) /\ DataInv(added, data, building)
      /\ IndexInv(added, data, building, index, pending)
      /\ Len(added) \in Nat /\ Len(added) > 0 /\ Len(data) \in Nat /\ Len(data) > 0
      /\ Len(index.entries) = Len(data)
  BY <1>1, FinishedIs
<1> DEFINE i == BlockFirst(index)
           v == InitDataBlock([tableIter EXCEPT !.index = i], unread)
           u == Placed(v, BlockFirst)
           want == FirstOf(DOMAIN added)
           b == data[1].block
           pos == BlockFirst(b)
<1>4. 1 \in 1 .. Len(data) /\ 1 \in 1 .. Len(added) + 1
  BY <1>3
<1>5. IndexAt(i, 1)
  <2> DEFINE x == IndexKeys(index)
  <2>1. Holds(index, x) /\ Len(x) = Len(index.entries)
    BY <1>3, IndexIs
  <2> HIDE DEF x
  <2>2. IsAt(index, x, i, 1)
    BY <1>3, <2>1, FirstEnds
  <2> QED BY <1>4, <2>2 DEF IndexAt, x
<1>6. Onto(tableIter, u, i, 1, pos)
  BY <1>1, <1>2, <1>5, PlacedIs
<1>7. /\ IsAt(b, Held(added, b), pos, 1) /\ Len(b.entries) \in Nat /\ Len(b.entries) > 0
  BY <1>1, <1>4, BlockEnds
<1>8. 1 \in 1 .. Len(b.entries) /\ 1 = EndOf(data, 1 - 1) + 1
  BY <1>7 DEF EndOf
<1> HIDE DEF i, v, u, pos
<1>9. Settled(u, 1)
  <2> DEFINE m == 1
  <2>1. \E n \in 1 .. Len(data[m].block.entries) :
           /\ IsAt(data[m].block, Held(added, data[m].block), pos, n)
           /\ 1 = EndOf(data, m - 1) + n
    BY <1>7, <1>8
  <2>2. IndexAt(i, m) /\ Onto(tableIter, u, i, m, pos)
    BY <1>5, <1>6
  <2>3. m = 0 => 1 \notin 1 .. Len(added)
    OBVIOUS
  <2> HIDE DEF m
  <2>4. m # 0 => \E n \in 1 .. Len(data[m].block.entries) :
                    /\ IsAt(data[m].block, Held(added, data[m].block), pos, n)
                    /\ 1 = EndOf(data, m - 1) + n
    BY <2>1
  <2> QED BY <1>1, <2>2, <2>3, <2>4, OntoSettles
<1>10. Settled(SkipForward(u, unread), 1)
  <2>1. InBlocks(u)
    BY <1>6 DEF Onto
  <2> QED BY <1>1, <1>2, <1>9, <2>1, SkipForwardIs
<1>11. want = EntryAt(1)
  <2> DEFINE S == DOMAIN added
  <2>1. \A j : j \in S <=> j \in 1 .. Len(added) /\ ~ (j < 1)
    <3>1. S = 1 .. Len(added)
      BY <1>3, AddedTypes
    <3> QED BY <1>3, <3>1
  <2> HIDE DEF S
  <2>2. FirstOf(S) = EntryAt(1)
    BY <1>4, <2>1, WantFrom
  <2> QED BY <2>2 DEF S
<1>12. Call(SkipForward(u, unread), want)
  BY DEF TableSeekToFirst, u, v, i
<1> HIDE DEF want
<1> QED BY <1>10, <1>11, <1>12, CallKeeps

LEMMA LastKeeps ==
    ASSUME BuildInv, IteratorInv, NEW unread \in {{}} \cup {{n} : n \in DOMAIN data},
           TableSeekToLast(unread)
    PROVE  TableInv'
<1>1. finished
  BY DEF TableSeekToLast, Call
<1>2. 0 \notin unread /\ Kept(tableIter)
  BY <1>1, UnreadIs, IterKept
<1>3. /\ AddedInv(added) /\ DataInv(added, data, building)
      /\ IndexInv(added, data, building, index, pending)
      /\ Len(added) \in Nat /\ Len(added) > 0 /\ Len(data) \in Nat /\ Len(data) > 0
      /\ Len(index.entries) = Len(data) /\ EndOf(data, Len(data)) = Len(added)
  BY <1>1, FinishedIs
<1> DEFINE i == BlockLast(index)
           v == InitDataBlock([tableIter EXCEPT !.index = i], unread)
           u == Placed(v, BlockLast)
           want == LastOf(DOMAIN added)
           m == Len(data)
           b == data[m].block
           pos == BlockLast(b)
           p == Len(added)
<1>4. m \in 1 .. Len(data) /\ m # 0 /\ p \in 0 .. Len(added)
  BY <1>3
<1>5. IndexAt(i, m)
  <2> DEFINE x == IndexKeys(index)
  <2>1. Holds(index, x) /\ Len(x) = m
    BY <1>3, IndexIs
  <2> HIDE DEF x, m
  <2>2. IsAt(index, x, i, m)
    BY <1>3, <1>4, <2>1, LastEnds
  <2> QED BY <1>4, <2>2 DEF IndexAt, x
<1> HIDE DEF m
<1>6. Onto(tableIter, u, i, m, pos)
  BY <1>1, <1>2, <1>5, PlacedIs
<1>7. /\ IsAt(b, Held(added, b), pos, Len(b.entries)) /\ Len(b.entries) \in Nat
      /\ Len(b.entries) > 0 /\ EndOf(data, m) = EndOf(data, m - 1) + Len(b.entries)
  BY <1>1, <1>4, BlockEnds
<1>8. Len(b.entries) \in 1 .. Len(b.entries) /\ p = EndOf(data, m - 1) + Len(b.entries)
  BY <1>3, <1>7 DEF m
<1> HIDE DEF i, v, u, pos, p
<1>9. Settled(u, p)
  <2>1. \E n \in 1 .. Len(data[m].block.entries) :
           /\ IsAt(data[m].block, Held(added, data[m].block), pos, n)
           /\ p = EndOf(data, m - 1) + n
    BY <1>7, <1>8
  <2>2. m = 0 => p \notin 1 .. Len(added)
    BY <1>4
  <2>3. m # 0 => \E n \in 1 .. Len(data[m].block.entries) :
                    /\ IsAt(data[m].block, Held(added, data[m].block), pos, n)
                    /\ p = EndOf(data, m - 1) + n
    BY <2>1
  <2> QED BY <1>1, <1>5, <1>6, <2>2, <2>3, OntoSettles
<1>10. Settled(SkipBackward(u, unread), p)
  <2>1. InBlocks(u)
    BY <1>6 DEF Onto
  <2> QED BY <1>1, <1>2, <1>9, <2>1, SkipBackwardIs
<1>11. want = EntryAt(p)
  <2> DEFINE S == DOMAIN added
  <2>1. \A j : j \in S <=> j \in 1 .. Len(added) /\ j <= p
    <3>1. S = 1 .. Len(added)
      BY <1>3, AddedTypes
    <3> QED BY <1>3, <3>1 DEF p
  <2> HIDE DEF S
  <2>2. LastOf(S) = EntryAt(p)
    BY <1>4, <2>1, WantUpTo
  <2> QED BY <2>2 DEF S
<1>12. Call(SkipBackward(u, unread), want)
  BY DEF TableSeekToLast, u, v, i
<1> HIDE DEF want
<1> QED BY <1>10, <1>11, <1>12, CallKeeps

LEMMA DataMoved ==
    ASSUME BuildInv, finished, NEW t, InBlocks(t), NEW m, t.block = m, m # 0, ~ t.error,
           NEW pos \in Position, Stands(data[m].block, Held(added, data[m].block), pos)
    PROVE  LET u == WithData(t, pos)
           IN  /\ InBlocks(u) /\ u.block = m /\ u.index = t.index /\ u.data = pos
               /\ Handle(u) = Handle(t) /\ (Ok(u) <=> Ok(t))
<1> DEFINE u == WithData(t, pos)
<1>1. t \in IterType /\ Stands(index, IndexKeys(index), t.index)
  BY DEF InBlocks
<1>2. u = Iter(t.index, pos, t.block, t.error, t.status)
  BY <1>1, WithDataIs
<1>3. /\ t.index \in Position /\ t.block \in 0 .. Len(data)
      /\ t.error \in BOOLEAN /\ t.status \in BOOLEAN
  BY <1>1, IterIs
<1> HIDE DEF u
<1>4. u.index = t.index /\ u.data = pos /\ u.block = t.block /\ u.error = t.error /\ u.status = t.status
  BY <1>2, IterMade
<1>5. u \in IterType
  BY <1>2, <1>3, IterMade
<1>6. InBlocks(u)
  BY <1>1, <1>4, <1>5 DEF InBlocks
<1>7. Handle(u) = Handle(t)
  BY <1>4 DEF Handle
<1>8. Ok(u) <=> Ok(t)
  BY <1>4 DEF Ok
<1> QED BY <1>4, <1>6, <1>7, <1>8 DEF u

\* The iterator is at the n-th entry of its block, at place p of the table.
HereAt(n, p) ==
    LET m == tableIter.block
        b == data[m].block
    IN  /\ InBlocks(tableIter) /\ m \in 1 .. Len(data) /\ m # 0 /\ ~ tableIter.error
        /\ n \in 1 .. Len(b.entries) /\ IsAt(b, Held(added, b), tableIter.data, n)
        /\ p = EndOf(data, m - 1) + n /\ p \in 1 .. Len(added) /\ KeyHere = added[p]
        /\ Ok(tableIter) => IsAt(index, IndexKeys(index), tableIter.index, m)

LEMMA HereIs ==
    ASSUME BuildInv, IteratorInv, finished, DataValid(tableIter)
    PROVE  \E n, p : HereAt(n, p)
<1> DEFINE t == tableIter
           m == t.block
           b == data[m].block
           h == Held(added, b)
           i == t.data
<1>1. InBlocks(t) /\ t.block # 0 /\ ~ t.error /\ Valid(b, i)
  BY IterKept DEF DataValid
<1>2. m \in 1 .. Len(data)
  <2>1. t \in IterType
    BY <1>1 DEF InBlocks
  <2>2. m \in 0 .. Len(data)
    BY <2>1, IterIs
  <2>3. Len(data) \in Nat
    BY FinishedIs
  <2> QED BY <1>1, <2>2, <2>3
<1>3. AddedInv(added) /\ DataInv(added, data, building)
  BY FinishedIs
<1>4. /\ Holds(b, h) /\ Len(h) = Len(b.entries)
      /\ \A n \in 1 .. Len(b.entries) :
            /\ EndOf(data, m - 1) + n \in 1 .. Len(added)
            /\ h[n] = added[EndOf(data, m - 1) + n]
  BY <1>2, <1>3, HeldIs
<1>5. Stands(b, h, i)
  BY <1>1 DEF InBlocks
<1>6. Ok(t) => IsAt(index, IndexKeys(index), t.index, m)
  <2> SUFFICES ASSUME Ok(t) PROVE IsAt(index, IndexKeys(index), t.index, m)
    OBVIOUS
  <2>1. t # NewTwoLevelIterator
    BY <1>1 DEF NewTwoLevelIterator
  <2>2. Expects(t, expected)
    BY <2>1 DEF IteratorInv
  <2> QED BY <1>1, <2>2 DEF Expects, OnEntry
<1> HIDE DEF b, h, i
<1>7. PICK n \in 1 .. Len(h) : IsAt(b, h, i, n)
  <2>1. i # Invalid(b)
    BY <1>1, <1>4, InvalidIs
  <2> QED BY <1>5, <2>1 DEF Stands
<1>8. i.key = h[n]
  BY <1>4, <1>7, AtIs
<1>9. KeyHere = i.key
  BY DEF KeyHere, i
<1>10. HereAt(n, EndOf(data, m - 1) + n)
  BY <1>1, <1>2, <1>4, <1>6, <1>7, <1>8, <1>9 DEF HereAt, b, h, i
<1> QED BY <1>10

\* The entries behind and ahead of one.
LEMMA AroundIs ==
    ASSUME BuildInv, finished, NEW p \in 1 .. Len(added)
    PROVE  FirstOf(Behind(added[p])) = EntryAt(p + 1) /\ LastOf(Ahead(added[p])) = EntryAt(p - 1)
<1>1. AddedInv(added) /\ Len(added) \in Nat
  BY FinishedIs
<1>2. /\ DOMAIN added = 1 .. Len(added) /\ \A n \in 1 .. Len(added) : added[n] \in Key
      /\ \A n, o \in 1 .. Len(added) : n < o => KeyBefore(added[n], added[o])
  BY <1>1, AddedTypes
<1>3. ASSUME NEW n \in 1 .. Len(added), NEW o \in 1 .. Len(added)
      PROVE  KeyBefore(added[n], added[o]) <=> n < o
  <2>1. added[n] \in Key /\ added[o] \in Key
    BY <1>2
  <2>2. CASE n < o
    BY <1>2, <2>2
  <2>3. CASE n = o
    <3>1. ~ KeyBefore(added[n], added[n])
      BY <2>1, KeysDiffer
    <3> QED BY <2>3, <3>1
  <2>4. CASE o < n
    <3>1. KeyBefore(added[o], added[n])
      BY <1>2, <2>4
    <3>2. ~ KeyBefore(added[n], added[o])
      BY <2>1, <3>1, KeyOrder
    <3> QED BY <2>4, <3>2
  <2> QED BY <2>2, <2>3, <2>4
<1> DEFINE B == Behind(added[p])
           A == Ahead(added[p])
<1>4. \A j : j \in B <=> j \in 1 .. Len(added) /\ ~ (j < p + 1)
  <2>1. \A j : j \in B <=> j \in 1 .. Len(added) /\ KeyBefore(added[p], added[j])
    BY <1>2 DEF Behind
  <2> HIDE DEF B
  <2>2. \A j \in 1 .. Len(added) : KeyBefore(added[p], added[j]) <=> ~ (j < p + 1)
    BY <1>1, <1>3
  <2> QED BY <2>1, <2>2
<1>5. \A j : j \in A <=> j \in 1 .. Len(added) /\ j <= p - 1
  <2>1. \A j : j \in A <=> j \in 1 .. Len(added) /\ KeyBefore(added[j], added[p])
    BY <1>2 DEF Ahead
  <2> HIDE DEF A
  <2>2. \A j \in 1 .. Len(added) : KeyBefore(added[j], added[p]) <=> j <= p - 1
    BY <1>1, <1>3
  <2> QED BY <2>1, <2>2
<1> HIDE DEF A, B
<1>6. p + 1 \in 1 .. Len(added) + 1 /\ p - 1 \in 0 .. Len(added)
  BY <1>1
<1>7. FirstOf(B) = EntryAt(p + 1)
  BY <1>4, <1>6, WantFrom
<1>8. LastOf(A) = EntryAt(p - 1)
  BY <1>5, <1>6, WantUpTo
<1> QED BY <1>7, <1>8 DEF A, B

LEMMA NextKeeps ==
    ASSUME BuildInv, IteratorInv, finished, DataValid(tableIter), NEW unread, 0 \notin unread,
           LET b == data[tableIter.block].block
           IN  Call(SkipForward([tableIter EXCEPT !.data = ParseNextKey(b, @)], unread), FirstOf(Behind(KeyHere)))
    PROVE  TableInv'
<1>1. PICK n, p : HereAt(n, p)
  BY HereIs
<1> DEFINE t == tableIter
           m == t.block
           b == data[m].block
           h == Held(added, b)
           pos == ParseNextKey(b, t.data)
           u == WithData(t, pos)
           want == FirstOf(Behind(KeyHere))
<1>2. /\ InBlocks(t) /\ m \in 1 .. Len(data) /\ m # 0 /\ ~ t.error
      /\ n \in 1 .. Len(b.entries) /\ IsAt(b, h, t.data, n)
      /\ p = EndOf(data, m - 1) + n /\ p \in 1 .. Len(added) /\ KeyHere = added[p]
      /\ Ok(t) => IsAt(index, IndexKeys(index), t.index, m)
  BY <1>1 DEF HereAt
<1>3. Holds(b, h) /\ Len(h) = Len(b.entries) /\ Len(b.entries) \in Nat
      /\ \A o \in 1 .. Len(b.entries) : b.entries[o].value = EndOf(data, m - 1) + o
  <2>1. AddedInv(added) /\ DataInv(added, data, building)
    BY FinishedIs
  <2> QED BY <1>2, <2>1, HeldIs
<1>4. EndOf(data, m - 1) \in Nat /\ EndOf(data, m) = EndOf(data, m - 1) + Len(b.entries)
  BY <1>2, BlockEnds
<1>5. want = EntryAt(p + 1)
  <2>1. FirstOf(Behind(added[p])) = EntryAt(p + 1)
    BY <1>2, AroundIs
  <2> QED BY <1>2, <2>1
<1> HIDE DEF m, b, h, want
<1>6. /\ n = Len(h) => pos = Invalid(b)
      /\ n # Len(h) => IsAt(b, h, pos, n + 1)
  BY <1>2, <1>3, ParseNext
<1>7. n # Len(h) => n + 1 \in 1 .. Len(h)
  BY <1>2, <1>3
<1>8. pos \in Position /\ Stands(b, h, pos)
  <2> HIDE DEF pos
  <2>1. pos \in Position
    BY <1>3, <1>6, AtIs, InvalidIs
  <2> QED BY <1>6, <1>7, <2>1 DEF Stands
<1> HIDE DEF pos
<1>9. /\ InBlocks(u) /\ u.block = m /\ u.index = t.index /\ u.data = pos
      /\ Handle(u) = Handle(t) /\ (Ok(u) <=> Ok(t))
  <2>1. pos \in Position /\ Stands(data[m].block, Held(added, data[m].block), pos)
    BY <1>8 DEF b, h
  <2>2. t.block = m
    BY DEF m
  <2> QED BY <1>2, <2>1, <2>2, DataMoved
<1>10. Call(SkipForward(u, unread), want)
  BY DEF WithData, want, pos, b, m
<1> HIDE DEF u
<1>11. ASSUME Ok(t) PROVE Settled(u, p + 1) \/ PastEnd(u, p + 1)
  <2>1. IsAt(index, IndexKeys(index), u.index, m)
    BY <1>2, <1>9, <1>11
  <2>2. CASE n # Len(h)
    <3>1. n + 1 \in 1 .. Len(b.entries) /\ IsAt(b, h, pos, n + 1)
      BY <1>3, <1>6, <1>7, <2>2
    <3>2. p + 1 = EndOf(data, m - 1) + (n + 1) /\ b.entries[n + 1].value = p + 1
      <4> DEFINE e == EndOf(data, m - 1)
      <4>1. e \in Nat /\ n \in Nat /\ p = e + n /\ b.entries[n + 1].value = e + (n + 1)
        BY <1>2, <1>3, <1>4, <3>1
      <4> HIDE DEF e
      <4>2. p + 1 = e + (n + 1)
        BY <4>1
      <4> QED BY <4>1, <4>2 DEF e
    <3>3. p + 1 \in 1 .. Len(added)
      <4>1. EndOf(data, m - 1) + (n + 1) \in 1 .. Len(added)
        <5>1. AddedInv(added) /\ DataInv(added, data, building)
          BY FinishedIs
        <5>2. \A o \in 1 .. Len(b.entries) : EndOf(data, m - 1) + o \in 1 .. Len(added)
          BY <1>2, <5>1, HeldIs DEF b
        <5> QED BY <3>1, <5>2
      <4> QED BY <3>2, <4>1
    <3>4. OnEntry(u, p + 1)
      BY <1>2, <1>9, <2>1, <3>1, <3>2 DEF OnEntry, b, h
    <3> QED BY <1>9, <3>3, <3>4 DEF Settled
  <2>3. CASE n = Len(h)
    <3>1. u.data = Invalid(data[m].block)
      BY <1>6, <1>9, <2>3 DEF b
    <3>2. Handle(u) = m
      <4>1. IndexAt(u.index, m)
        BY <1>2, <2>1 DEF IndexAt
      <4> QED BY <4>1, IndexAtIs
    <3>3. Beyond(u, Handle(u))
      BY <1>2, <1>9, <3>1, <3>2 DEF Beyond
    <3>4. p + 1 = EndOf(data, u.block) + 1
      <4>1. p = EndOf(data, m)
        BY <1>2, <1>3, <1>4, <2>3
      <4> QED BY <1>9, <4>1
    <3> QED BY <1>9, <3>3, <3>4 DEF PastEnd
  <2> QED BY <2>2, <2>3
<1>12. \E o : want = EntryAt(o) /\ (Settled(u, o) \/ PastEnd(u, o))
  <2>1. CASE Ok(t)
    BY <1>5, <1>11, <2>1
  <2>2. CASE ~ Ok(t)
    <3>1. Settled(u, p + 1)
      BY <1>9, <2>2 DEF Settled
    <3> QED BY <1>5, <3>1
  <2> QED BY <2>1, <2>2
<1>13. PICK o : want = EntryAt(o) /\ (Settled(u, o) \/ PastEnd(u, o))
  BY <1>12
<1>14. Settled(SkipForward(u, unread), o)
  BY <1>9, <1>13, SkipForwardIs
<1> QED BY <1>10, <1>13, <1>14, CallKeeps

LEMMA PrevKeeps ==
    ASSUME BuildInv, IteratorInv, finished, DataValid(tableIter), NEW unread, 0 \notin unread,
           LET b == data[tableIter.block].block
           IN  Call(SkipBackward([tableIter EXCEPT !.data = BlockPrev(b, @)], unread), LastOf(Ahead(KeyHere)))
    PROVE  TableInv'
<1>1. PICK n, p : HereAt(n, p)
  BY HereIs
<1> DEFINE t == tableIter
           m == t.block
           b == data[m].block
           h == Held(added, b)
           pos == BlockPrev(b, t.data)
           u == WithData(t, pos)
           want == LastOf(Ahead(KeyHere))
<1>2. /\ InBlocks(t) /\ m \in 1 .. Len(data) /\ m # 0 /\ ~ t.error
      /\ n \in 1 .. Len(b.entries) /\ IsAt(b, h, t.data, n)
      /\ p = EndOf(data, m - 1) + n /\ p \in 1 .. Len(added) /\ KeyHere = added[p]
      /\ Ok(t) => IsAt(index, IndexKeys(index), t.index, m)
  BY <1>1 DEF HereAt
<1>3. Holds(b, h) /\ Len(h) = Len(b.entries) /\ Len(b.entries) \in Nat
      /\ \A o \in 1 .. Len(b.entries) : b.entries[o].value = EndOf(data, m - 1) + o
  <2>1. AddedInv(added) /\ DataInv(added, data, building)
    BY FinishedIs
  <2> QED BY <1>2, <2>1, HeldIs
<1>4. EndOf(data, m - 1) \in Nat /\ EndOf(data, m) = EndOf(data, m - 1) + Len(b.entries)
  BY <1>2, BlockEnds
<1>5. want = EntryAt(p - 1)
  <2>1. LastOf(Ahead(added[p])) = EntryAt(p - 1)
    BY <1>2, AroundIs
  <2> QED BY <1>2, <2>1
<1> HIDE DEF m, b, h, want
<1>6. /\ n = 1 => pos = Invalid(b)
      /\ n # 1 => IsAt(b, h, pos, n - 1)
  BY <1>2, <1>3, PrevEnds
<1>7. n # 1 => n - 1 \in 1 .. Len(h)
  BY <1>2, <1>3
<1>8. pos \in Position /\ Stands(b, h, pos)
  <2> HIDE DEF pos
  <2>1. pos \in Position
    BY <1>3, <1>6, AtIs, InvalidIs
  <2> QED BY <1>6, <1>7, <2>1 DEF Stands
<1> HIDE DEF pos
<1>9. /\ InBlocks(u) /\ u.block = m /\ u.index = t.index /\ u.data = pos
      /\ Handle(u) = Handle(t) /\ (Ok(u) <=> Ok(t))
  <2>1. pos \in Position /\ Stands(data[m].block, Held(added, data[m].block), pos)
    BY <1>8 DEF b, h
  <2>2. t.block = m
    BY DEF m
  <2> QED BY <1>2, <2>1, <2>2, DataMoved
<1>10. Call(SkipBackward(u, unread), want)
  BY DEF WithData, want, pos, b, m
<1> HIDE DEF u
<1>11. ASSUME Ok(t) PROVE Settled(u, p - 1) \/ BeforeStart(u, p - 1)
  <2>1. IsAt(index, IndexKeys(index), u.index, m)
    BY <1>2, <1>9, <1>11
  <2>2. CASE n # 1
    <3>1. n - 1 \in 1 .. Len(b.entries) /\ IsAt(b, h, pos, n - 1)
      BY <1>3, <1>6, <1>7, <2>2
    <3>2. p - 1 = EndOf(data, m - 1) + (n - 1) /\ b.entries[n - 1].value = p - 1
      <4> DEFINE e == EndOf(data, m - 1)
      <4>1. e \in Nat /\ n \in Nat /\ p = e + n /\ b.entries[n - 1].value = e + (n - 1)
        BY <1>2, <1>3, <1>4, <3>1
      <4> HIDE DEF e
      <4>2. p - 1 = e + (n - 1)
        BY <4>1
      <4> QED BY <4>1, <4>2 DEF e
    <3>3. p - 1 \in 1 .. Len(added)
      <4>1. EndOf(data, m - 1) + (n - 1) \in 1 .. Len(added)
        <5>1. AddedInv(added) /\ DataInv(added, data, building)
          BY FinishedIs
        <5>2. \A o \in 1 .. Len(b.entries) : EndOf(data, m - 1) + o \in 1 .. Len(added)
          BY <1>2, <5>1, HeldIs DEF b
        <5> QED BY <3>1, <5>2
      <4> QED BY <3>2, <4>1
    <3>4. OnEntry(u, p - 1)
      BY <1>2, <1>9, <2>1, <3>1, <3>2 DEF OnEntry, b, h
    <3> QED BY <1>9, <3>3, <3>4 DEF Settled
  <2>3. CASE n = 1
    <3>1. u.data = Invalid(data[m].block)
      BY <1>6, <1>9, <2>3 DEF b
    <3>2. Handle(u) = m
      <4>1. IndexAt(u.index, m)
        BY <1>2, <2>1 DEF IndexAt
      <4> QED BY <4>1, IndexAtIs
    <3>3. Beyond(u, Handle(u))
      BY <1>2, <1>9, <3>1, <3>2 DEF Beyond
    <3>4. p - 1 = EndOf(data, u.block - 1)
      <4> DEFINE e == EndOf(data, m - 1)
      <4>1. e \in Nat /\ p = e + 1
        BY <1>2, <1>4, <2>3
      <4> HIDE DEF e
      <4>2. p - 1 = e
        BY <4>1
      <4> QED BY <1>9, <4>2 DEF e
    <3> QED BY <1>9, <3>3, <3>4 DEF BeforeStart
  <2> QED BY <2>2, <2>3
<1>12. \E o : want = EntryAt(o) /\ (Settled(u, o) \/ BeforeStart(u, o))
  <2>1. CASE Ok(t)
    BY <1>5, <1>11, <2>1
  <2>2. CASE ~ Ok(t)
    <3>1. Settled(u, p - 1)
      BY <1>9, <2>2 DEF Settled
    <3> QED BY <1>5, <3>1
  <2> QED BY <2>1, <2>2
<1>13. PICK o : want = EntryAt(o) /\ (Settled(u, o) \/ BeforeStart(u, o))
  BY <1>12
<1>14. Settled(SkipBackward(u, unread), o)
  BY <1>9, <1>13, SkipBackwardIs
<1> QED BY <1>10, <1>13, <1>14, CallKeeps

-----------------------------------------------------------------------------
(* The table *)

\* The invariant holds of an empty table and is kept by every step: adding an entry,
\* finishing, and every call of the iterator, whichever blocks cannot be read.
LEMMA TableStep ==
    ASSUME TableInv, [TableNext]_tableVars
    PROVE  TableInv'
<1>1. BuildInv /\ IteratorInv
  BY DEF TableInv
<1>2. ASSUME NEW key \in Addable, NEW full \in BOOLEAN, NEW span \in Spans, Add(key, full, span)
      PROVE  TableInv'
  <2>1. BuildInv'
    BY <1>1, <1>2, AddKeeps
  <2>2. ~ finished /\ tableIter' = tableIter /\ expected' = expected
    BY <1>2 DEF Add
  <2>3. IteratorInv'
    BY <1>1, <2>2 DEF IteratorInv, NewTwoLevelIterator, Invalid
  <2> QED BY <2>1, <2>3 DEF TableInv
<1>3. ASSUME NEW span \in Spans, Finish(span) PROVE TableInv'
  <2>1. BuildInv'
    BY <1>1, <1>3, FinishKeeps
  <2>2. ~ finished /\ tableIter' = tableIter /\ expected' = expected
    BY <1>3 DEF Finish
  <2>3. IteratorInv'
    BY <1>1, <2>2 DEF IteratorInv, NewTwoLevelIterator, Invalid
  <2> QED BY <2>1, <2>3 DEF TableInv
<1>4. ASSUME NEW unread \in {{}} \cup {{n} : n \in DOMAIN data}, TableMove(unread) PROVE TableInv'
  <2>1. finished /\ DataValid(tableIter)
    BY <1>4 DEF TableMove, Call
  <2>2. 0 \notin unread
    BY <1>1, <2>1, UnreadIs
  <2> DEFINE b == data[tableIter.block].block
  <2>3. CASE Call(SkipForward([tableIter EXCEPT !.data = ParseNextKey(b, @)], unread),
                  FirstOf(Behind(KeyHere)))
    BY <1>1, <2>1, <2>2, <2>3, NextKeeps
  <2>4. CASE Call(SkipBackward([tableIter EXCEPT !.data = BlockPrev(b, @)], unread),
                  LastOf(Ahead(KeyHere)))
    BY <1>1, <2>1, <2>2, <2>4, PrevKeeps
  <2> QED BY <1>4, <2>3, <2>4 DEF TableMove
<1>5. CASE UNCHANGED tableVars
  <2>1. /\ added' = added /\ data' = data /\ building' = building /\ index' = index
        /\ pending' = pending /\ filters' = filters /\ finished' = finished
        /\ tableIter' = tableIter /\ expected' = expected
    BY <1>5 DEF tableVars
  <2>2. BuildInv'
    BY <1>1, <2>1 DEF BuildInv
  <2>3. IteratorInv'
    BY <1>1, <2>1 DEF IteratorInv, InBlocks, IterType, Ok, Expects, OnEntry, NewTwoLevelIterator, Invalid
  <2> QED BY <2>2, <2>3 DEF TableInv
<1>6. ASSUME NEW unread \in {{}} \cup {{n} : n \in DOMAIN data},
             \/ \E k \in InternalKeys : TableSeek(k, unread)
             \/ TableSeekToFirst(unread) \/ TableSeekToLast(unread)
      PROVE  TableInv'
  BY <1>1, <1>6, SeekKeeps, FirstKeeps, LastKeeps
<1> QED BY <1>2, <1>3, <1>4, <1>5, <1>6 DEF TableNext

LEMMA TableStarts == TableInit => TableInv
<1> SUFFICES ASSUME TableInit PROVE TableInv
  OBVIOUS
<1>1. BuildInv
  BY InitBuilt
<1>2. IteratorInv
  BY DEF TableInit, IteratorInv
<1> QED BY <1>1, <1>2 DEF TableInv

LEMMA IteratorKnows == TableInv => IteratorHonest
<1> SUFFICES ASSUME TableInv, finished, Ok(tableIter) PROVE KeyHere = expected
  BY DEF IteratorHonest, Ok
<1>1. BuildInv /\ IteratorInv
  BY DEF TableInv
<1>2. CASE tableIter = NewTwoLevelIterator /\ expected = <<>>
  <2>1. tableIter.block = 0
    BY <1>2 DEF NewTwoLevelIterator
  <2> QED BY <1>2, <2>1 DEF KeyHere, DataValid
<1>3. CASE InBlocks(tableIter) /\ Expects(tableIter, expected)
  <2>1. CASE tableIter.block = 0
    BY <1>3, <2>1 DEF Expects, KeyHere, DataValid
  <2>2. CASE tableIter.block # 0
    <3>1. PICK p \in 1 .. Len(added) : OnEntry(tableIter, p) /\ expected = added[p]
      BY <1>3, <2>2 DEF Expects
    <3>2. DataValid(tableIter)
      BY <1>1, <3>1, SettledValid
    <3>3. PICK n, q : HereAt(n, q)
      BY <1>1, <3>2, HereIs
    <3>4. q = p
      <4> DEFINE m == tableIter.block
                 b == data[m].block
                 h == Held(added, b)
                 i == tableIter.data
      <4>1. PICK o \in 1 .. Len(b.entries) : IsAt(b, h, i, o) /\ b.entries[o].value = p
        BY <3>1 DEF OnEntry
      <4>2. /\ m \in 1 .. Len(data) /\ n \in 1 .. Len(b.entries) /\ IsAt(b, h, i, n)
            /\ q = EndOf(data, m - 1) + n
        BY <3>3 DEF HereAt
      <4>3. /\ Holds(b, h)
            /\ \A j \in 1 .. Len(b.entries) : b.entries[j].value = EndOf(data, m - 1) + j
        <5>1. AddedInv(added) /\ DataInv(added, data, building)
          BY <1>1, FinishedIs
        <5>2. m \in 1 .. Len(data)
          BY <4>2
        <5> HIDE DEF m, b, h
        <5>3. LET c == data[m].block
              IN  /\ Holds(c, Held(added, c))
                  /\ \A j \in 1 .. Len(c.entries) : c.entries[j].value = EndOf(data, m - 1) + j
          BY <5>1, <5>2, HeldIs
        <5> QED BY <5>3 DEF b, h
      <4> HIDE DEF b, h, i
      <4>4. i.at = o /\ i.at = n
        BY <4>1, <4>2, <4>3, AtIs
      <4>5. n = o
        BY <4>4
      <4> QED BY <4>1, <4>2, <4>3, <4>5
    <3>5. KeyHere = added[q]
      BY <3>3 DEF HereAt
    <3> QED BY <3>1, <3>4, <3>5
  <2> QED BY <2>1, <2>2
<1> QED BY <1>1, <1>2, <1>3 DEF IteratorInv

\* For any table that can be built, of any keys, blocks, filters and restart points: the
\* iterator of table.cc stands at the entry its calls should have led to, or its
\* status owns up that a block could not be read; and Table::InternalGet finds the
\* first entry of a user that a lookup may see, and never another.
THEOREM TableCorrect == TableSpec => []TableHonest
<1>1. TableInit => TableInv
  BY TableStarts
<1>2. TableInv /\ [TableNext]_tableVars => TableInv'
  BY TableStep
<1>3. TableInv => TableHonest
  <2> SUFFICES ASSUME TableInv PROVE TableHonest
    OBVIOUS
  <2>1. LookupFinds
    <3>1. CASE finished
      BY <3>1, LookupKnows DEF TableInv
    <3>2. CASE ~ finished
      BY <3>2 DEF LookupFinds
    <3> QED BY <3>1, <3>2
  <2> QED BY <2>1, IteratorKnows DEF TableHonest
<1> QED BY <1>1, <1>2, <1>3, PTL DEF TableSpec
=============================================================================
