----------------------------- MODULE LevelDB_proofs -----------------------------
(****************************************************************************)
(* What LevelDB keeps of its queue, its numbers and its files: the types,   *)
(* and that no file is deleted that something still refers to.  Then what   *)
(* it keeps of the batches it was given: what readers find, what the disk   *)
(* gives back, and that the store implements DurableStore.  First the       *)
(* lemmas about the operators LevelDB is built from: files written, what a  *)
(* log gives back, the replay of the logs by Open, the numbers of a group.  *)
(****************************************************************************)
EXTENDS LevelDB, NaturalsInduction, WellFoundedInduction, FiniteSetTheorems,
        SequenceTheorems, TLAPS

Entry   == [batch : Nat, seq : Nat]
LogFile == [recs : Seq(SUBSET Entry), synced : Nat]

-----------------------------------------------------------------------------
(* Numbers *)

\* Induction over the naturals, for a set in place of a predicate.
LEMMA NaturalsFrom0 ==
    ASSUME NEW S, 0 \in S, \A n \in S \cap Nat : n + 1 \in S
    PROVE  Nat \subseteq S
<1> SUFFICES ASSUME NEW m \in Nat, m \notin S PROVE FALSE
  OBVIOUS
<1> DEFINE T == {n \in Nat : n \notin S}
<1>1. T \subseteq Nat /\ T # {}
  OBVIOUS
<1>2. IsWellFoundedOn({ss \in Nat \X Nat : ss[1] < ss[2]}, Nat)
  BY NatLessThanWellFounded DEF OpToRel
<1>3. PICK x \in T : \A y \in T : ~ (<<y, x>> \in {ss \in Nat \X Nat : ss[1] < ss[2]})
  <2> HIDE DEF T
  <2> QED BY <1>1, <1>2, WFMin
<1>4. \A y \in T : ~ (y < x)
  BY <1>3
<1>5. x # 0 /\ x - 1 \in Nat /\ x - 1 < x /\ x = (x - 1) + 1
  OBVIOUS
<1>6. x - 1 \in S
  BY <1>4, <1>5
<1> QED BY <1>5, <1>6

\* A set of naturals with a bound has a largest one.
LEMMA MaxOfBounded ==
    ASSUME NEW S, S \subseteq Nat, S # {}, NEW b \in Nat, \A n \in S : n <= b
    PROVE  Max(S) \in S /\ \A n \in S : n <= Max(S)
<1> DEFINE T == {k \in Nat : \A n \in S : n <= k => \E m \in S : m <= k /\ \A l \in S : l <= k => l <= m}
<1>1. 0 \in T
  OBVIOUS
<1>2. ASSUME NEW k \in T \cap Nat PROVE k + 1 \in T
  <2>1. SUFFICES ASSUME NEW n \in S, n <= k + 1
                 PROVE  \E m \in S : m <= k + 1 /\ \A l \in S : l <= k + 1 => l <= m
    OBVIOUS
  <2>2. CASE k + 1 \in S
    BY <2>2
  <2>3. CASE k + 1 \notin S
    <3>1. \A l \in S : l <= k + 1 => l <= k
      BY <2>3
    <3>2. PICK m \in S : m <= k /\ \A l \in S : l <= k => l <= m
      BY <1>2, <2>1, <3>1
    <3> QED BY <3>1, <3>2
  <2> QED BY <2>2, <2>3
<1>3. b \in T
  <2> HIDE DEF T
  <2> QED BY <1>1, <1>2, NaturalsFrom0
<1>4. PICK m \in S : \A l \in S : l <= m
  BY <1>3
<1>5. \E top \in S : \A l \in S : top >= l
  BY <1>4
<1>6. Max(S) \in S /\ \A l \in S : Max(S) >= l
  BY <1>5 DEF Max
<1> QED BY <1>6

-----------------------------------------------------------------------------
(* Files *)

LEMMA LogFileIs ==
    /\ \A recs \in Seq(SUBSET Entry), synced \in Nat :
          [recs |-> recs, synced |-> synced] \in LogFile
    /\ \A x \in LogFile : /\ x.recs \in Seq(SUBSET Entry) /\ x.synced \in Nat
                          /\ x = [recs |-> x.recs, synced |-> x.synced]
BY DEF LogFile

-----------------------------------------------------------------------------
(* What a log gives back *)

\* The records before the first torn one.
Whole(recs) == {i \in 1 .. Len(recs) : \A k \in 1 .. i : recs[k] # Torn}

LEMMA ReadableIs ==
    ASSUME NEW S, NEW recs \in Seq(S)
    PROVE  /\ Readable(recs) = UNION {recs[i] : i \in Whole(recs)}
           /\ \A e : e \in Readable(recs) <=> \E i \in Whole(recs) : e \in recs[i]
<1>1. DOMAIN recs = 1 .. Len(recs)
  BY LenProperties
<1> QED BY <1>1 DEF Readable, Whole

LEMMA ReadableTyped ==
    ASSUME NEW recs \in Seq(SUBSET Entry)
    PROVE  Readable(recs) \subseteq Entry
<1>1. \A i \in 1 .. Len(recs) : recs[i] \in SUBSET Entry
  BY ElementOfSeq
<1> QED BY <1>1, ReadableIs DEF Whole

LEMMA ReadableNone == Readable(<<>>) = {}
<1>1. <<>> \in Seq({0}) /\ Len(<<>>) = 0
  BY EmptySeq
<1>2. Whole(<<>>) = {}
  BY <1>1 DEF Whole
<1>3. \A e : e \notin Readable(<<>>)
  BY <1>1, <1>2, ReadableIs
<1> QED BY <1>3

\* A record is found unless it is torn, or behind a torn one.
LEMMA ReadableAppend ==
    ASSUME NEW S, NEW recs \in Seq(S), NEW rec \in S
    PROVE  /\ Readable(recs) \subseteq Readable(Append(recs, rec))
           /\ Readable(Append(recs, rec)) \subseteq Readable(recs) \cup rec
           /\ Torn \notin ToSet(recs) => rec \subseteq Readable(Append(recs, rec))
           /\ rec = Torn => Readable(Append(recs, rec)) = Readable(recs)
<1> DEFINE new == Append(recs, rec)
           n   == Len(recs)
<1>1. /\ n \in Nat /\ new \in Seq(S) /\ Len(new) = n + 1 /\ new[n + 1] = rec
      /\ \A i \in 1 .. n : new[i] = recs[i]
  BY LenProperties, AppendProperties
<1> HIDE DEF new, n
<1>2. \A i \in 1 .. n : i \in Whole(recs) <=> i \in Whole(new)
  <2>1. ASSUME NEW i \in 1 .. n PROVE i \in Whole(recs) <=> i \in Whole(new)
    <3>1. \A k \in 1 .. i : k \in 1 .. n
      BY <1>1
    <3>2. i \in 1 .. n + 1
      BY <1>1
    <3>3. \A k \in 1 .. i : new[k] = recs[k]
      BY <1>1, <3>1
    <3>4. i \in 1 .. Len(recs) /\ i \in 1 .. Len(new)
      BY <1>1, <3>2 DEF n
    <3> QED BY <3>3, <3>4 DEF Whole
  <2> QED BY <2>1
<1>3. Whole(recs) \subseteq 1 .. n /\ Whole(new) \subseteq 1 .. n + 1
  BY <1>1 DEF Whole, n
<1>4. \A i \in 1 .. n + 1 : i \in 1 .. n \/ i = n + 1
  BY <1>1
<1>5. Readable(recs) \subseteq Readable(new)
  <2>1. ASSUME NEW e \in Readable(recs) PROVE e \in Readable(new)
    <3>1. PICK i \in Whole(recs) : e \in recs[i]
      BY ReadableIs
    <3>2. i \in 1 .. n /\ i \in Whole(new) /\ new[i] = recs[i]
      BY <1>1, <1>2, <1>3, <3>1
    <3> QED BY <1>1, <3>1, <3>2, ReadableIs
  <2> QED BY <2>1
<1>6. Readable(new) \subseteq Readable(recs) \cup rec
  <2>1. ASSUME NEW e \in Readable(new) PROVE e \in Readable(recs) \cup rec
    <3>1. PICK i \in Whole(new) : e \in new[i]
      BY <1>1, ReadableIs
    <3>2. i = n + 1 \/ i \in 1 .. n
      BY <1>3, <1>4, <3>1
    <3>3. CASE i = n + 1
      BY <1>1, <3>1, <3>3
    <3>4. CASE i \in 1 .. n
      <4>1. i \in Whole(recs) /\ e \in recs[i]
        BY <1>1, <1>2, <3>1, <3>4
      <4> QED BY <4>1, ReadableIs
    <3> QED BY <3>2, <3>3, <3>4
  <2> QED BY <2>1
<1>7. ASSUME Torn \notin ToSet(recs) PROVE rec \subseteq Readable(new)
  <2>1. CASE rec = Torn
    BY <2>1 DEF Torn
  <2>2. CASE rec # Torn
    <3>1. \A k \in 1 .. n : recs[k] # Torn
      <4>1. DOMAIN recs = 1 .. n
        BY LenProperties DEF n
      <4> QED BY <1>7, <4>1 DEF ToSet
    <3>2. \A k \in 1 .. n + 1 : new[k] # Torn
      BY <1>1, <1>4, <2>2, <3>1
    <3>3. n + 1 \in Whole(new)
      <4>1. n + 1 \in 1 .. Len(new)
        BY <1>1
      <4> QED BY <3>2, <4>1 DEF Whole
    <3> QED BY <1>1, <3>3, ReadableIs
  <2> QED BY <2>1, <2>2
<1> QED BY <1>5, <1>6, <1>7 DEF new, Torn

\* The beginning of a log.
LEMMA ReadablePrefix ==
    ASSUME NEW S, NEW recs \in Seq(S), NEW n \in Nat, n <= Len(recs)
    PROVE  /\ SubSeq(recs, 1, n) \in Seq(S) /\ Len(SubSeq(recs, 1, n)) = n
           /\ \A i \in 1 .. n : SubSeq(recs, 1, n)[i] = recs[i]
           /\ Readable(SubSeq(recs, 1, n)) \subseteq Readable(recs)
           /\ n = Len(recs) => SubSeq(recs, 1, n) = recs
<1> DEFINE sub == SubSeq(recs, 1, n)
<1>1. Len(recs) \in Nat /\ \A i \in 1 .. Len(recs) : recs[i] \in S
  BY LenProperties, ElementOfSeq
<1>2. \A i \in 1 .. n : i \in 1 .. Len(recs)
  BY <1>1
<1>3. /\ sub \in Seq(S) /\ Len(sub) = IF 1 <= n THEN n - 1 + 1 ELSE 0
      /\ \A i \in 1 .. n - 1 + 1 : sub[i] = recs[1 + i - 1]
  <2>1. \A i \in 1 .. n : recs[i] \in S
    BY <1>1, <1>2
  <2> QED BY <2>1, SubSeqProperties
<1>4. Len(sub) = n
  BY <1>3
<1>5. \A i \in 1 .. n : sub[i] = recs[i]
  <2>1. ASSUME NEW i \in 1 .. n PROVE sub[i] = recs[i]
    <3>1. i \in 1 .. n - 1 + 1 /\ 1 + i - 1 = i
      OBVIOUS
    <3> QED BY <1>3, <3>1
  <2> QED BY <2>1
<1> HIDE DEF sub
<1>6. Readable(sub) \subseteq Readable(recs)
  <2>1. ASSUME NEW e \in Readable(sub) PROVE e \in Readable(recs)
    <3>1. PICK i \in Whole(sub) : e \in sub[i]
      BY <1>3, ReadableIs
    <3>2. i \in 1 .. n /\ \A k \in 1 .. i : k \in 1 .. n
      BY <1>4, <3>1 DEF Whole
    <3>3. i \in Whole(recs) /\ recs[i] = sub[i]
      BY <1>2, <1>5, <3>1, <3>2 DEF Whole
    <3> QED BY <3>1, <3>3, ReadableIs
  <2> QED BY <2>1
<1>7. ASSUME n = Len(recs) PROVE sub = recs
  BY <1>3, <1>4, <1>5, <1>7, SeqEqual
<1> QED BY <1>3, <1>4, <1>5, <1>6, <1>7 DEF sub

-----------------------------------------------------------------------------
(* The replay of the logs *)

\* f goes through the logs of the descriptor up to number n.
Replays(f, n) ==
    f = [m \in 0 .. n |->
            IF m = 0 THEN ReplayStart
            ELSE IF m - 1 \in LiveLogs THEN RecoverLogFile(f[m - 1], m - 1)
            ELSE f[m - 1]]

Step(acc, m) == IF m \in LiveLogs THEN RecoverLogFile(acc, m) ELSE acc

LEMMA ReplaysIs ==
    ASSUME NEW n \in Nat, NEW f, Replays(f, n)
    PROVE  /\ f[0] = ReplayStart
           /\ \A m \in 0 .. n : m + 1 \in 0 .. n => f[m + 1] = Step(f[m], m)
<1> DEFINE V(m) == IF m = 0 THEN ReplayStart
                   ELSE IF m - 1 \in LiveLogs THEN RecoverLogFile(f[m - 1], m - 1)
                   ELSE f[m - 1]
<1>1. \A m \in 0 .. n : f[m] = V(m)
  <2>1. f = [m \in 0 .. n |-> V(m)]
    BY DEF Replays
  <2> HIDE DEF V
  <2> QED BY <2>1
<1>2. 0 \in 0 .. n
  OBVIOUS
<1>3. ASSUME NEW m \in 0 .. n, m + 1 \in 0 .. n PROVE f[m + 1] = Step(f[m], m)
  <2>1. m + 1 # 0 /\ (m + 1) - 1 = m
    OBVIOUS
  <2>2. f[m + 1] = V(m + 1)
    BY <1>1, <1>3
  <2>3. V(m + 1) = IF m \in LiveLogs THEN RecoverLogFile(f[m], m) ELSE f[m]
    BY <2>1
  <2> HIDE DEF V
  <2> QED BY <2>2, <2>3 DEF Step
<1> QED BY <1>1, <1>2, <1>3

LEMMA ReplaysOnce ==
    ASSUME NEW n \in Nat, NEW f, Replays(f, n), NEW m \in Nat, NEW g, Replays(g, m)
    PROVE  \A k \in Nat : k <= n /\ k <= m => f[k] = g[k]
<1> DEFINE T == {k \in Nat : k <= n /\ k <= m => f[k] = g[k]}
<1>1. 0 \in T
  BY ReplaysIs
<1>2. ASSUME NEW k \in T \cap Nat PROVE k + 1 \in T
  <2>1. SUFFICES ASSUME k + 1 <= n, k + 1 <= m PROVE f[k + 1] = g[k + 1]
    OBVIOUS
  <2>2. k \in 0 .. n /\ k \in 0 .. m /\ k + 1 \in 0 .. n /\ k + 1 \in 0 .. m /\ f[k] = g[k]
    BY <1>2, <2>1
  <2>3. f[k + 1] = Step(f[k], k) /\ g[k + 1] = Step(g[k], k)
    BY <2>2, ReplaysIs
  <2> QED BY <2>2, <2>3
<1> HIDE DEF T
<1>3. Nat \subseteq T
  BY <1>1, <1>2, NaturalsFrom0
<1> QED BY <1>3 DEF T

LEMMA ReplaysExists ==
    ASSUME NEW n \in Nat
    PROVE  \E f : Replays(f, n)
<1> DEFINE T == {k \in Nat : \E f : Replays(f, k)}
<1>1. 0 \in T
  <2> DEFINE f == [m \in 0 .. 0 |-> ReplayStart]
  <2>1. \A m \in 0 .. 0 : m = 0
    OBVIOUS
  <2>2. Replays(f, 0)
    BY <2>1 DEF Replays
  <2> QED BY <2>2
<1>2. ASSUME NEW k \in T \cap Nat PROVE k + 1 \in T
  <2>1. PICK g : Replays(g, k)
    BY <1>2
  <2> DEFINE f == [m \in 0 .. k + 1 |-> IF m = k + 1 THEN Step(g[k], k) ELSE g[m]]
             V(h, m) == IF m = 0 THEN ReplayStart
                        ELSE IF m - 1 \in LiveLogs THEN RecoverLogFile(h[m - 1], m - 1)
                        ELSE h[m - 1]
  <2>2. ASSUME NEW m \in 0 .. k + 1 PROVE f[m] = V(f, m)
    <3>1. CASE m = 0
      <4>1. 0 # k + 1 /\ 0 \in 0 .. k + 1
        OBVIOUS
      <4>2. f[0] = g[0]
        BY <4>1
      <4> QED BY <2>1, <3>1, <4>2, ReplaysIs
    <3>2. CASE m # 0
      <4>1. /\ m - 1 \in 0 .. k /\ m - 1 \in 0 .. k + 1 /\ m - 1 # k + 1 /\ (m - 1) + 1 = m
            /\ m # k + 1 => m \in 0 .. k
        BY <3>2
      <4>2. f[m - 1] = g[m - 1]
        BY <4>1
      <4>3. f[m] = Step(g[m - 1], m - 1)
        <5>1. CASE m = k + 1
          BY <4>1, <5>1
        <5>2. CASE m # k + 1
          <6>1. g[m] = Step(g[m - 1], m - 1)
            BY <2>1, <4>1, <5>2, ReplaysIs
          <6> QED BY <5>2, <6>1
        <5> QED BY <5>1, <5>2
      <4> HIDE DEF f
      <4> QED BY <3>2, <4>2, <4>3 DEF Step
    <3> QED BY <3>1, <3>2
  <2>3. f = [m \in 0 .. k + 1 |-> V(f, m)]
    <3>1. DOMAIN f = 0 .. k + 1 /\ f = [m \in 0 .. k + 1 |-> f[m]]
      OBVIOUS
    <3> HIDE DEF f, V
    <3> QED BY <2>2, <3>1
  <2>4. Replays(f, k + 1)
    <3> HIDE DEF f
    <3> QED BY <2>3 DEF Replays
  <2> QED BY <2>4
<1> HIDE DEF T
<1>3. Nat \subseteq T
  BY <1>1, <1>2, NaturalsFrom0
<1> QED BY <1>3 DEF T

\* The replay goes through the logs one after the other.
LEMMA ReplayedIs ==
    /\ Replayed[0] = ReplayStart
    /\ \A n \in Nat : Replayed[n + 1] = Step(Replayed[n], n)
<1> DEFINE At(n) == CHOOSE f : Replays(f, n)
           whole == [n \in Nat |-> At(n)[n]]
           V(h, m) == IF m = 0 THEN ReplayStart
                      ELSE IF m - 1 \in LiveLogs THEN RecoverLogFile(h[m - 1], m - 1)
                      ELSE h[m - 1]
<1>1. ASSUME NEW n \in Nat PROVE Replays(At(n), n)
  BY ReplaysExists
<1>2. ASSUME NEW n \in Nat PROVE whole[n] = At(n)[n]
  OBVIOUS
<1> HIDE DEF At
<1>3. ASSUME NEW n \in Nat PROVE whole[n] = V(whole, n)
  <2>1. CASE n = 0
    <3>1. At(0)[0] = ReplayStart
      BY <1>1, ReplaysIs
    <3> QED BY <2>1, <3>1
  <2>2. CASE n # 0
    <3>1. n - 1 \in Nat /\ n - 1 \in 0 .. n /\ (n - 1) + 1 = n /\ n \in 0 .. n /\ n - 1 <= n
          /\ n - 1 <= n - 1
      BY <2>2
    <3>2. At(n)[n] = Step(At(n)[n - 1], n - 1)
      BY <1>1, <3>1, ReplaysIs
    <3>3. At(n)[n - 1] = At(n - 1)[n - 1]
      BY <1>1, <3>1, ReplaysOnce
    <3>4. whole[n] = At(n)[n] /\ whole[n - 1] = At(n - 1)[n - 1]
      BY <1>2, <3>1
    <3> HIDE DEF whole
    <3> QED BY <2>2, <3>2, <3>3, <3>4 DEF Step
  <2> QED BY <2>1, <2>2
<1>4. whole = [m \in Nat |-> V(whole, m)]
  <2>1. whole = [m \in Nat |-> whole[m]]
    OBVIOUS
  <2> HIDE DEF whole, V
  <2> QED BY <1>3, <2>1
<1> HIDE DEF whole
<1>5. Replayed = [m \in Nat |-> V(Replayed, m)]
  BY <1>4 DEF Replayed
<1>6. \A m \in Nat : Replayed[m] = V(Replayed, m)
  <2> HIDE DEF V
  <2> QED BY <1>5
<1>7. ASSUME NEW n \in Nat PROVE Replayed[n + 1] = Step(Replayed[n], n)
  <2>1. n + 1 \in Nat /\ n + 1 # 0 /\ (n + 1) - 1 = n
    OBVIOUS
  <2>2. Replayed[n + 1] = V(Replayed, n + 1)
    BY <1>6, <2>1
  <2>3. V(Replayed, n + 1) = Step(Replayed[n], n)
    BY <2>1 DEF Step
  <2> QED BY <2>2, <2>3
<1> QED BY <1>6, <1>7

\* The numbers of what is replayed: below the counter, from the first one on,
\* and every log of the descriptor is below it afterwards.
Renumbered(acc, n) ==
    /\ acc.next \in Nat /\ acc.next >= ReplayStart.next
    /\ DOMAIN acc.made \subseteq Nat /\ acc.made \in [DOMAIN acc.made -> SUBSET Entry]
    /\ \A f \in DOMAIN acc.made : ReplayStart.next <= f /\ f < acc.next
    /\ \A m \in LiveLogs : m < n => m < acc.next

\* What is replayed: what the logs give back, but for the one that goes on.
Replaying(acc, n) ==
    \A e : (\E f \in DOMAIN acc.made : e \in acc.made[f])
           <=> \E m \in LiveLogs : m < n /\ m \notin ReusedLog /\ e \in Readable(logs[m].recs)

LEMMA StepRenumbers ==
    ASSUME NEW n \in Nat, NEW acc, Renumbered(acc, n), Replaying(acc, n),
           acc = [next |-> acc.next, made |-> acc.made],
           LiveLogs \subseteq Nat, ReplayStart.next \in Nat,
           \A m \in LiveLogs : Readable(logs[m].recs) \in SUBSET Entry
    PROVE  /\ Renumbered(Step(acc, n), n + 1) /\ Replaying(Step(acc, n), n + 1)
           /\ Step(acc, n) = [next |-> Step(acc, n).next, made |-> Step(acc, n).made]
<1> DEFINE found == Readable(logs[n].recs)
           Past(x) == IF x <= n THEN n + 1 ELSE x
<1>1. \A m \in LiveLogs : m < n + 1 => m < n \/ m = n
  OBVIOUS
<1>2. CASE n \notin LiveLogs
  <2>1. Step(acc, n) = acc
    BY <1>2 DEF Step
  <2>2. \A m \in LiveLogs : m < n + 1 <=> m < n
    BY <1>1, <1>2
  <2> QED BY <2>1, <2>2 DEF Renumbered, Replaying
<1>3. CASE n \in LiveLogs /\ (n \in ReusedLog \/ found = {})
  <2>1. Step(acc, n) = [acc EXCEPT !.next = Past(@)]
    BY <1>3 DEF Step, RecoverLogFile
  <2>2. Step(acc, n) = [next |-> Past(acc.next), made |-> acc.made]
    BY <2>1
  <2>3. Past(acc.next) \in Nat /\ Past(acc.next) >= acc.next /\ Past(acc.next) > n
    BY DEF Renumbered
  <2> HIDE DEF Past
  <2>4. Renumbered(Step(acc, n), n + 1)
    <3>1. ASSUME NEW f \in DOMAIN acc.made PROVE f < Past(acc.next)
      BY <2>3 DEF Renumbered
    <3>2. ASSUME NEW m \in LiveLogs, m < n + 1 PROVE m < Past(acc.next)
      BY <1>1, <2>3, <3>2 DEF Renumbered
    <3>3. Past(acc.next) >= ReplayStart.next
      BY <2>3 DEF Renumbered
    <3> QED BY <2>2, <2>3, <3>1, <3>2, <3>3 DEF Renumbered
  <2>5. Replaying(Step(acc, n), n + 1)
    <3>1. ASSUME NEW e, NEW m \in LiveLogs, m < n + 1, m \notin ReusedLog, e \in Readable(logs[m].recs)
          PROVE  m < n
      BY <1>1, <1>3, <3>1
    <3> QED BY <2>2, <3>1 DEF Replaying
  <2> QED BY <2>2, <2>4, <2>5
<1>4. CASE n \in LiveLogs /\ ~ (n \in ReusedLog \/ found = {})
  <2>1. Step(acc, n) = [next |-> Past(acc.next + 1), made |-> With(acc.made, acc.next, found)]
    BY <1>4 DEF Step, RecoverLogFile
  <2>2. Past(acc.next + 1) \in Nat /\ Past(acc.next + 1) > acc.next /\ Past(acc.next + 1) > n
    BY DEF Renumbered
  <2>3. acc.next \notin DOMAIN acc.made /\ acc.next \in Nat /\ found \in SUBSET Entry
    BY <1>4 DEF Renumbered
  <2> DEFINE new == With(acc.made, acc.next, found)
  <2>4. /\ DOMAIN new = DOMAIN acc.made \cup {acc.next} /\ new[acc.next] = found
        /\ \A f \in DOMAIN acc.made : new[f] = acc.made[f]
        /\ new \in [DOMAIN acc.made \cup {acc.next} -> SUBSET Entry]
    <3>1. acc.made \in [DOMAIN acc.made -> SUBSET Entry]
      BY DEF Renumbered
    <3> DEFINE made == acc.made
               x == acc.next
    <3>0. x \notin DOMAIN made /\ new = With(made, x, found)
      BY <2>3
    <3> HIDE DEF found, new, made, x
    <3>2. DOMAIN new = DOMAIN made \cup {x} /\ new[x] = found
      BY <3>0 DEF With
    <3>3. \A f \in DOMAIN made : new[f] = made[f]
      BY <3>0 DEF With
    <3>4. new \in [DOMAIN made \cup {x} -> SUBSET Entry]
      <4>1. made \in [DOMAIN made -> SUBSET Entry]
        BY <3>1 DEF made
      <4> QED BY <2>3, <3>0, <4>1 DEF With
    <3> QED BY <3>2, <3>3, <3>4 DEF made, x
  <2> HIDE DEF Past, new, found
  <2>5. Renumbered(Step(acc, n), n + 1)
    <3>1. ASSUME NEW f \in DOMAIN new PROVE ReplayStart.next <= f /\ f < Past(acc.next + 1) /\ f \in Nat
      <4>1. CASE f = acc.next
        BY <2>2, <2>3, <4>1 DEF Renumbered
      <4>2. CASE f \in DOMAIN acc.made
        BY <2>2, <4>2 DEF Renumbered
      <4> QED BY <2>4, <4>1, <4>2
    <3>2. ASSUME NEW m \in LiveLogs, m < n + 1 PROVE m < Past(acc.next + 1)
      BY <1>1, <2>2, <2>3, <3>2 DEF Renumbered
    <3>3. Past(acc.next + 1) >= ReplayStart.next
      BY <2>2, <2>3 DEF Renumbered
    <3>4. Step(acc, n).next = Past(acc.next + 1) /\ Step(acc, n).made = new
      BY <2>1 DEF new
    <3>5. DOMAIN new \subseteq Nat /\ new \in [DOMAIN new -> SUBSET Entry]
      BY <2>4, <3>1
    <3> QED BY <2>2, <3>1, <3>2, <3>3, <3>4, <3>5 DEF Renumbered
  <2>6. Replaying(Step(acc, n), n + 1)
    <3>1. Step(acc, n).made = new
      BY <2>1 DEF new
    <3>2. ASSUME NEW e
          PROVE  (\E f \in DOMAIN new : e \in new[f])
                 <=> e \in found \/ \E f \in DOMAIN acc.made : e \in acc.made[f]
      BY <2>3, <2>4
    <3>3. ASSUME NEW e
          PROVE  (\E m \in LiveLogs : m < n + 1 /\ m \notin ReusedLog /\ e \in Readable(logs[m].recs))
                 <=> \/ e \in found
                     \/ \E m \in LiveLogs : m < n /\ m \notin ReusedLog /\ e \in Readable(logs[m].recs)
      <4>1. n \in LiveLogs /\ n \notin ReusedLog /\ n < n + 1
        BY <1>4
      <4>2. \A m \in LiveLogs : m < n => m < n + 1
        OBVIOUS
      <4> QED BY <1>1, <4>1, <4>2 DEF found
    <3> QED BY <3>1, <3>2, <3>3 DEF Replaying
  <2> QED BY <2>1, <2>5, <2>6
<1> QED BY <1>2, <1>3, <1>4

\* What Open makes of the logs.
LEMMA ReplayIs ==
    ASSUME manifest.next \in Nat, manifest.log \in Nat, LiveLogs \subseteq Nat,
           \A m \in LiveLogs : Readable(logs[m].recs) \in SUBSET Entry,
           \E b \in Nat : \A m \in LiveLogs : m <= b
    PROVE  /\ Replay.next \in Nat /\ manifest.next < Replay.next /\ manifest.log < Replay.next
           /\ \A m \in LiveLogs : m < Replay.next
           /\ DOMAIN Replay.made \subseteq Nat
           /\ Replay.made \in [DOMAIN Replay.made -> SUBSET Entry]
           /\ \A f \in DOMAIN Replay.made : manifest.next < f /\ f < Replay.next
           /\ \A e : (\E f \in DOMAIN Replay.made : e \in Replay.made[f])
                     <=> \E m \in LiveLogs : m \notin ReusedLog /\ e \in Readable(logs[m].recs)
<1> DEFINE Good(n) == /\ Renumbered(Replayed[n], n) /\ Replaying(Replayed[n], n)
                      /\ Replayed[n] = [next |-> Replayed[n].next, made |-> Replayed[n].made]
           T == {n \in Nat : Good(n)}
<1>1. /\ ReplayStart.next \in Nat /\ manifest.next < ReplayStart.next
      /\ manifest.log < ReplayStart.next
      /\ ReplayStart = [next |-> ReplayStart.next, made |-> NoFiles]
  BY DEF ReplayStart
<1>2. 0 \in T
  <2>1. Replayed[0] = ReplayStart /\ ReplayStart.made = NoFiles /\ DOMAIN NoFiles = {}
    BY ReplayedIs DEF ReplayStart, NoFiles
  <2>2. \A m \in LiveLogs : ~ (m < 0)
    OBVIOUS
  <2>3. Renumbered(ReplayStart, 0)
    <3>1. NoFiles \in [{} -> SUBSET Entry]
      BY DEF NoFiles
    <3> QED BY <1>1, <2>1, <2>2, <3>1 DEF Renumbered
  <2>4. Replaying(ReplayStart, 0)
    BY <2>1, <2>2 DEF Replaying
  <2> QED BY <1>1, <2>1, <2>3, <2>4
<1>3. ASSUME NEW n \in T \cap Nat PROVE n + 1 \in T
  <2>1. Replayed[n + 1] = Step(Replayed[n], n) /\ n + 1 \in Nat
    BY ReplayedIs
  <2>2. Good(n)
    BY <1>3
  <2> QED BY <1>1, <2>1, <2>2, StepRenumbers
<1> HIDE DEF T, Good
<1>4. Nat \subseteq T
  BY <1>2, <1>3, NaturalsFrom0
<1> DEFINE k == 1 + Max({0} \cup LiveLogs)
<1>5. k \in Nat /\ \A m \in LiveLogs : m < k
  <2>1. PICK b \in Nat : \A m \in LiveLogs : m <= b
    OBVIOUS
  <2>2. \A m \in {0} \cup LiveLogs : m <= b
    BY <2>1
  <2> DEFINE S == {0} \cup LiveLogs
             x == Max(S)
  <2>3. S \subseteq Nat /\ S # {} /\ LiveLogs \subseteq S
    OBVIOUS
  <2> HIDE DEF S
  <2>4. x \in S /\ \A m \in S : m <= x
    BY <2>2, <2>3, MaxOfBounded DEF S
  <2> HIDE DEF x
  <2>5. 1 + x \in Nat /\ \A m \in LiveLogs : m < 1 + x
    BY <2>3, <2>4
  <2> QED BY <2>5 DEF x, S
<1>6. Replay = Replayed[k]
  BY DEF Replay
<1> HIDE DEF k
<1>7. Renumbered(Replay, k) /\ Replaying(Replay, k)
  BY <1>4, <1>5, <1>6 DEF T, Good
<1>8. \A e : (\E m \in LiveLogs : m < k /\ m \notin ReusedLog /\ e \in Readable(logs[m].recs))
             <=> \E m \in LiveLogs : m \notin ReusedLog /\ e \in Readable(logs[m].recs)
  BY <1>5
<1>9. /\ Replay.next \in Nat /\ Replay.next >= ReplayStart.next
      /\ \A m \in LiveLogs : m < Replay.next
      /\ DOMAIN Replay.made \subseteq Nat /\ Replay.made \in [DOMAIN Replay.made -> SUBSET Entry]
      /\ \A f \in DOMAIN Replay.made : ReplayStart.next <= f /\ f < Replay.next
  BY <1>5, <1>7 DEF Renumbered
<1>10. \A f \in DOMAIN Replay.made : manifest.next < f
  BY <1>1, <1>9
<1>11. manifest.next < Replay.next /\ manifest.log < Replay.next
  BY <1>1, <1>9
<1> QED BY <1>7, <1>8, <1>9, <1>10, <1>11 DEF Replaying
-----------------------------------------------------------------------------
(* The state of the database *)

Version == [l0 : SUBSET Nat, deep : SUBSET Nat, log : Nat]

Stages == {"append", "sync", "insert", "inserted", "failed", "syncError"}
JobSet == [pc : Stages \cup {"idle", "queued"}, batch : SUBSET Nat, sync : BOOLEAN, slow : BOOLEAN]

Alive == mode # "down"
Up    == mode \in {"open", "closing"}

\* How far the front writer is with its group.
Foremost == IF writers = <<>> THEN "none" ELSE job[writers[1]].pc
Stage    == IF Foremost = "queued" THEN "none" ELSE Foremost

-----------------------------------------------------------------------------
(* The queue of writers *)

QueueTyped ==
    /\ writers \in Seq(Thread) /\ group \in Nat
    /\ job \in [Thread -> JobSet]

\* A thread is in the queue once, while it has a job, and only the front one
\* is further than that.
InQueue ==
    /\ \A i, j \in 1 .. Len(writers) : writers[i] = writers[j] => i = j
    /\ \A t \in Thread : job[t].pc # "idle" <=> \E i \in 1 .. Len(writers) : writers[i] = t
    /\ \A i \in 2 .. Len(writers) : job[writers[i]].pc = "queued"
    /\ mode # "open" => writers = <<>>

\* Batches are asked for once, and not answered while somebody waits for them.
BatchesApart ==
    /\ \A t \in Thread : job[t].batch # {} =>
           job[t].pc # "idle" /\ \E b \in 1 .. issued : job[t].batch = {b} /\ b \notin acked
    /\ \A t, u \in Thread : t # u => job[t].batch \cap job[u].batch = {}

\* The group of the front writer: some of the queue, and sync if a part is.
GroupTaken ==
    IF Stage = "none" THEN group = 0
    ELSE /\ group \in 1 .. Len(writers) /\ job[writers[1]].batch # {}
         /\ \A i \in 1 .. group : job[writers[i]].sync => job[writers[1]].sync
         /\ Stage = "sync" => job[writers[1]].sync

\* What was answered with OK was asked for, and what must last was answered.
Answered == issued \in Nat /\ acked \subseteq 1 .. issued /\ sure \subseteq acked

QueueInv == QueueTyped /\ InQueue /\ BatchesApart /\ GroupTaken /\ Answered

LEMMA JobSetIs ==
    /\ \A j \in JobSet : /\ j = [pc |-> j.pc, batch |-> j.batch, sync |-> j.sync, slow |-> j.slow]
                         /\ j.pc \in Stages \cup {"idle", "queued"} /\ j.batch \in SUBSET Nat
                         /\ j.sync \in BOOLEAN /\ j.slow \in BOOLEAN
    /\ \A pc \in Stages \cup {"idle", "queued"}, batch \in SUBSET Nat, sync, slow \in BOOLEAN :
          [pc |-> pc, batch |-> batch, sync |-> sync, slow |-> slow] \in JobSet
BY DEF JobSet

LEMMA JobsAre ==
    ASSUME QueueTyped
    PROVE  /\ Len(writers) \in Nat /\ \A i \in 1 .. Len(writers) : writers[i] \in Thread
           /\ \A t \in Thread : /\ job[t] \in JobSet /\ job[t].batch \in SUBSET Nat
                                /\ job[t].pc \in Stages \cup {"idle", "queued"}
                                /\ job[t].sync \in BOOLEAN
           /\ writers # <<>> => /\ Len(writers) >= 1 /\ Head(writers) = writers[1]
                                /\ writers[1] \in Thread
<1>1. writers \in Seq(Thread) /\ job \in [Thread -> JobSet]
  BY DEF QueueTyped
<1>2. Len(writers) \in Nat /\ \A i \in 1 .. Len(writers) : writers[i] \in Thread
  BY <1>1, LenProperties, ElementOfSeq
<1>3. \A t \in Thread : job[t] \in JobSet
  BY <1>1
<1>4. \A t \in Thread : /\ job[t].batch \in SUBSET Nat /\ job[t].sync \in BOOLEAN
                        /\ job[t].pc \in Stages \cup {"idle", "queued"}
  BY <1>3, JobSetIs
<1>5. ASSUME writers # <<>>
      PROVE  Len(writers) >= 1 /\ Head(writers) = writers[1] /\ writers[1] \in Thread
  <2>1. Len(writers) # 0
    BY <1>1, <1>5, EmptySeq
  <2>2. 1 \in 1 .. Len(writers)
    BY <1>2, <2>1
  <2> QED BY <1>1, <1>2, <1>5, <2>1, <2>2, HeadTailProperties
<1> QED BY <1>2, <1>3, <1>4, <1>5

\* Who is further than the queue is its front.
LEMMA FrontIs ==
    ASSUME QueueInv, NEW t \in Thread, job[t].pc \in Stages
    PROVE  /\ writers # <<>> /\ writers[1] = t /\ Stage = job[t].pc /\ mode = "open"
           /\ group \in 1 .. Len(writers)
<1>1. Len(writers) \in Nat
  BY JobsAre DEF QueueInv
<1>2. PICK i \in 1 .. Len(writers) : writers[i] = t
  BY DEF QueueInv, InQueue, Stages
<1>3. i \notin 2 .. Len(writers)
  BY <1>2 DEF QueueInv, InQueue, Stages
<1>4. i = 1 /\ Len(writers) # 0
  BY <1>1, <1>2, <1>3
<1>5. writers # <<>>
  BY <1>4, EmptySeq
<1>6. writers[1] = t /\ mode = "open"
  BY <1>2, <1>4, <1>5 DEF QueueInv, InQueue
<1>7. Stage = job[t].pc /\ Stage # "none"
  BY <1>5, <1>6 DEF Stage, Foremost, Stages
<1> QED BY <1>5, <1>6, <1>7 DEF QueueInv, GroupTaken

\* How far it is: the batches and the places in the queue stay.
LEMMA StageStep ==
    ASSUME QueueInv, NEW t \in Thread, job[t].pc \in Stages,
           NEW x \in Stages, x = "sync" => job[t].sync,
           job' = [job EXCEPT ![t].pc = x],
           UNCHANGED <<writers, group, mode, issued, acked, sure>>
    PROVE  /\ QueueInv' /\ Stage' = x
           /\ \A u \in Thread : job'[u].batch = job[u].batch /\ job'[u].sync = job[u].sync
<1>1. job \in [Thread -> JobSet] /\ writers \in Seq(Thread) /\ group \in Nat
  BY DEF QueueInv, QueueTyped
<1>2. /\ writers # <<>> /\ writers[1] = t /\ Stage = job[t].pc /\ group \in 1 .. Len(writers)
      /\ Len(writers) \in Nat /\ \A i \in 1 .. Len(writers) : writers[i] \in Thread
  BY FrontIs, JobsAre DEF QueueInv
<1>3. /\ job'[t].pc = x /\ job'[t].batch = job[t].batch /\ job'[t].sync = job[t].sync
      /\ job'[t].slow = job[t].slow
  BY <1>1, JobSetIs
<1>4. \A u \in Thread : u # t => job'[u] = job[u]
  BY <1>1
<1>5. \A u \in Thread : job'[u].batch = job[u].batch /\ job'[u].sync = job[u].sync
  BY <1>3, <1>4
<1>6. QueueTyped'
  <2>1. job[t] \in JobSet
    BY <1>1
  <2>2. job'[t] \in JobSet
    <3>1. job'[t] = [job[t] EXCEPT !.pc = x]
      BY <1>1
    <3>2. [job[t] EXCEPT !.pc = x]
              = [pc |-> x, batch |-> job[t].batch, sync |-> job[t].sync, slow |-> job[t].slow]
      BY <2>1, JobSetIs
    <3> QED BY <2>1, <3>1, <3>2, JobSetIs
  <2>3. job' \in [Thread -> JobSet]
    <3>1. \A u \in Thread : job'[u] \in JobSet
      BY <1>1, <1>4, <2>2
    <3>2. DOMAIN job' = Thread /\ job' = [u \in Thread |-> job'[u]]
      BY <1>1
    <3> QED BY <3>1, <3>2
  <2> QED BY <1>1, <2>3 DEF QueueTyped
<1>7. \A u \in Thread : job'[u].pc # "idle" <=> job[u].pc # "idle"
  BY <1>3, <1>4 DEF Stages
<1>8. InQueue'
  <2>1. \A i \in 2 .. Len(writers) : writers[i] # t
    <3>1. \A i \in 2 .. Len(writers) : job[writers[i]].pc = "queued"
      BY DEF QueueInv, InQueue
    <3> QED BY <3>1 DEF Stages
  <2>2. \A i \in 2 .. Len(writers) : job'[writers[i]].pc = "queued"
    <3>1. ASSUME NEW i \in 2 .. Len(writers) PROVE job'[writers[i]].pc = "queued"
      <4>1. i \in 1 .. Len(writers)
        BY <1>2
      <4> QED BY <1>2, <1>4, <2>1, <4>1 DEF QueueInv, InQueue
    <3> QED BY <3>1
  <2> QED BY <1>7, <2>2 DEF QueueInv, InQueue
<1>9. BatchesApart'
  BY <1>5, <1>7 DEF QueueInv, BatchesApart
<1>10. Stage' = x
  BY <1>2, <1>3 DEF Stage, Foremost, Stages
<1>11. GroupTaken'
  <2>1. Stage # "none" /\ x # "none"
    BY <1>2 DEF Stages
  <2>2. \A i \in 1 .. group : writers[i] \in Thread
    BY <1>2
  <2>3. /\ \A i \in 1 .. group : job[writers[i]].sync => job[writers[1]].sync
        /\ job[writers[1]].batch # {}
    BY <2>1 DEF QueueInv, GroupTaken
  <2>4. \A i \in 1 .. group : job'[writers[i]].sync => job'[writers[1]].sync
    BY <1>2, <1>5, <2>2, <2>3
  <2> QED BY <1>2, <1>3, <1>10, <2>1, <2>3, <2>4 DEF GroupTaken
<1> QED BY <1>5, <1>6, <1>8, <1>9, <1>10, <1>11 DEF QueueInv, Answered

\* A thread calls Write.
LEMMA WriteQueue ==
    ASSUME QueueInv, NEW t \in Thread, NEW batch, NEW sync \in BOOLEAN,
           batch = {} \/ batch = {issued + 1}, Write(t, batch, sync)
    PROVE  QueueInv' /\ Stage' = Stage /\ (Stage # "none" => GroupEntries' = GroupEntries)
<1> DEFINE L == Len(writers)
           new == [pc |-> "queued", batch |-> batch, sync |-> sync, slow |-> FALSE]
<1>1. /\ mode = "open" /\ job[t].pc = "idle" /\ issued' = issued + 1
      /\ writers' = Append(writers, t) /\ job' = [job EXCEPT ![t] = new]
      /\ UNCHANGED <<group, mode, acked, sure, lastSeq>>
  BY DEF Write, queue, ghosts, vset
<1>2. job \in [Thread -> JobSet] /\ writers \in Seq(Thread) /\ group \in Nat /\ issued \in Nat
  BY DEF QueueInv, QueueTyped, Answered
<1>3. L \in Nat /\ \A i \in 1 .. L : writers[i] \in Thread
  BY JobsAre DEF QueueInv
<1>4. /\ writers' \in Seq(Thread) /\ Len(writers') = L + 1 /\ writers'[L + 1] = t
      /\ \A i \in 1 .. L : writers'[i] = writers[i]
  BY <1>1, <1>2, AppendProperties
<1>5. batch \in SUBSET Nat
  BY <1>2
<1>6. new \in JobSet
  BY <1>5, JobSetIs
<1>7. job'[t].pc = "queued" /\ job'[t].batch = batch /\ job'[t].sync = sync
  BY <1>1, <1>2
<1>8. \A u \in Thread : u # t => job'[u] = job[u]
  BY <1>1, <1>2
<1>9. job' \in [Thread -> JobSet]
  BY <1>1, <1>2, <1>6
<1>10. \A i \in 1 .. L : writers[i] # t
  BY <1>1 DEF QueueInv, InQueue
<1> HIDE DEF L, new
<1>11. \A i \in 1 .. L + 1 : i \in 1 .. L \/ i = L + 1
  BY <1>3
<1>12. InQueue'
  <2>1. ASSUME NEW i \in 1 .. L + 1, NEW j \in 1 .. L + 1, writers'[i] = writers'[j] PROVE i = j
    <3>1. CASE i \in 1 .. L /\ j \in 1 .. L
      BY <1>4, <2>1, <3>1 DEF QueueInv, InQueue, L
    <3>2. CASE i = L + 1 \/ j = L + 1
      BY <1>4, <1>10, <1>11, <2>1, <3>2
    <3> QED BY <1>11, <3>1, <3>2
  <2>2. ASSUME NEW u \in Thread
        PROVE  job'[u].pc # "idle" <=> \E i \in 1 .. L + 1 : writers'[i] = u
    <3>1. CASE u = t
      <4>1. L + 1 \in 1 .. L + 1
        BY <1>3
      <4> QED BY <1>4, <1>7, <3>1, <4>1
    <3>2. CASE u # t
      <4>1. job[u].pc # "idle" <=> \E i \in 1 .. L : writers[i] = u
        BY DEF QueueInv, InQueue, L
      <4>2. \A i \in 1 .. L : i \in 1 .. L + 1
        BY <1>3
      <4> QED BY <1>4, <1>8, <1>11, <3>2, <4>1, <4>2
    <3> QED BY <3>1, <3>2
  <2>3. ASSUME NEW i \in 2 .. L + 1 PROVE job'[writers'[i]].pc = "queued"
    <3>1. CASE i = L + 1
      BY <1>4, <1>7, <3>1
    <3>2. CASE i # L + 1
      <4>1. i \in 2 .. L /\ i \in 1 .. L
        BY <1>3, <3>2
      <4>2. job[writers[i]].pc = "queued"
        BY <4>1 DEF QueueInv, InQueue, L
      <4> QED BY <1>3, <1>4, <1>8, <1>10, <4>1, <4>2
    <3> QED BY <3>1, <3>2
  <2> QED BY <1>1, <1>4, <2>1, <2>2, <2>3 DEF InQueue
<1>13. BatchesApart'
  <2>1. ASSUME NEW u \in Thread, job'[u].batch # {}
        PROVE  job'[u].pc # "idle" /\ \E b \in 1 .. issued' : job'[u].batch = {b} /\ b \notin acked'
    <3>1. CASE u = t
      <4>1. issued + 1 \in 1 .. issued' /\ issued + 1 \notin acked
        BY <1>1, <1>2 DEF QueueInv, Answered
      <4> QED BY <1>1, <1>7, <2>1, <3>1, <4>1
    <3>2. CASE u # t
      <4>1. \A b \in 1 .. issued : b \in 1 .. issued'
        BY <1>1, <1>2
      <4>2. job[u].pc # "idle" /\ \E b \in 1 .. issued : job[u].batch = {b} /\ b \notin acked
        BY <1>8, <2>1, <3>2 DEF QueueInv, BatchesApart
      <4> QED BY <1>1, <1>8, <3>2, <4>1, <4>2
    <3> QED BY <3>1, <3>2
  <2>2. ASSUME NEW u \in Thread, u # t PROVE job[u].batch \cap batch = {}
    <3>1. \A b \in 1 .. issued : b # issued + 1
      BY <1>2
    <3> QED BY <3>1 DEF QueueInv, BatchesApart
  <2>3. ASSUME NEW u \in Thread, NEW v \in Thread, u # v PROVE job'[u].batch \cap job'[v].batch = {}
    <3>1. CASE u # t /\ v # t
      BY <1>8, <2>3, <3>1 DEF QueueInv, BatchesApart
    <3>2. CASE u = t
      BY <1>7, <1>8, <2>2, <2>3, <3>2
    <3>3. CASE v = t
      BY <1>7, <1>8, <2>2, <2>3, <3>3
    <3> QED BY <3>1, <3>2, <3>3
  <2> QED BY <2>1, <2>3 DEF BatchesApart
<1>14. Stage' = Stage /\ (Stage # "none" => L >= 1)
  <2>1. CASE writers = <<>>
    <3>1. L = 0
      BY <2>1, EmptySeq DEF L
    <3>2. writers' # <<>>
      BY <1>4, <1>3, EmptySeq
    <3> QED BY <1>4, <1>7, <2>1, <3>1, <3>2 DEF Stage, Foremost
  <2>2. CASE writers # <<>>
    <3>1. L >= 1 /\ writers[1] \in Thread
      BY <2>2, JobsAre DEF QueueInv, L
    <3>2. 1 \in 1 .. L
      BY <1>3, <3>1
    <3>3. writers' # <<>>
      BY <1>4, <1>3, EmptySeq
    <3>4. writers'[1] = writers[1] /\ writers[1] # t
      BY <1>4, <1>10, <3>2
    <3> QED BY <1>8, <2>2, <3>1, <3>3, <3>4 DEF Stage, Foremost
  <2> QED BY <2>1, <2>2
<1>15. ASSUME Stage # "none"
       PROVE  /\ group \in 1 .. L /\ writers'[1] = writers[1]
              /\ \A i \in 1 .. group : i \in 1 .. L /\ writers'[i] = writers[i]
                                       /\ job'[writers[i]] = job[writers[i]]
  <2>1. group \in 1 .. L
    BY <1>15 DEF QueueInv, GroupTaken, L
  <2>2. \A i \in 1 .. group : i \in 1 .. L
    BY <1>3, <2>1
  <2>3. 1 \in 1 .. group
    BY <1>3, <2>1
  <2> QED BY <1>3, <1>4, <1>8, <1>10, <2>1, <2>2, <2>3
<1>16. GroupTaken'
  <2>1. CASE Stage = "none"
    BY <1>1, <1>14, <2>1 DEF QueueInv, GroupTaken
  <2>2. CASE Stage # "none"
    <3>1. group \in 1 .. L + 1 /\ 1 \in 1 .. group
      BY <1>3, <1>15, <2>2
    <3>2. /\ \A i \in 1 .. group : job[writers[i]].sync => job[writers[1]].sync
          /\ job[writers[1]].batch # {} /\ (Stage = "sync" => job[writers[1]].sync)
      BY <2>2 DEF QueueInv, GroupTaken
    <3>3. \A i \in 1 .. group : job'[writers'[i]].sync => job'[writers'[1]].sync
      BY <1>15, <2>2, <3>1, <3>2
    <3>4. job'[writers'[1]] = job[writers[1]]
      BY <1>15, <2>2, <3>1
    <3>5. group' = group /\ Len(writers') = L + 1 /\ Stage' = Stage
      BY <1>1, <1>4, <1>14
    <3> QED BY <2>2, <3>1, <3>2, <3>3, <3>4, <3>5 DEF GroupTaken
  <2> QED BY <2>1, <2>2
<1>17. ASSUME Stage # "none" PROVE GroupEntries' = GroupEntries
  <2>1. \A i \in 1 .. group : job'[writers'[i]] = job[writers[i]]
    BY <1>15, <1>17
  <2>2. \A i \in 1 .. group : \A j \in 1 .. i : j \in 1 .. group
    BY <1>2
  <2>3. \A i \in 1 .. group : {j \in 1 .. i : job'[writers'[j]].batch # {}}
                              = {j \in 1 .. i : job[writers[j]].batch # {}}
    BY <2>1, <2>2
  <2> DEFINE Own(i) == {[batch |-> b, seq |-> lastSeq
                             + Cardinality({j \in 1 .. i : job[writers[j]].batch # {}})]
                          : b \in job[writers[i]].batch}
             New(i) == {[batch |-> b, seq |-> lastSeq
                             + Cardinality({j \in 1 .. i : job'[writers'[j]].batch # {}})]
                          : b \in job'[writers'[i]].batch}
  <2>4. \A i \in 1 .. group : New(i) = Own(i)
    BY <2>1, <2>3
  <2>5. GroupEntries = UNION {Own(i) : i \in 1 .. group}
    BY DEF GroupEntries
  <2>6. GroupEntries' = UNION {New(i) : i \in 1 .. group}
    BY <1>1 DEF GroupEntries
  <2> HIDE DEF Own, New
  <2> QED BY <2>4, <2>5, <2>6
<1>18. QueueTyped' /\ Answered'
  <2>1. issued' \in Nat /\ acked' \subseteq 1 .. issued' /\ sure' \subseteq acked'
    BY <1>1, <1>2 DEF QueueInv, Answered
  <2> QED BY <1>1, <1>2, <1>4, <1>9, <2>1 DEF QueueTyped, Answered
<1> QED BY <1>12, <1>13, <1>14, <1>16, <1>17, <1>18 DEF QueueInv

\* The front writer waits for a millisecond, once.
LEMMA DelayQueue ==
    ASSUME QueueInv, NEW t \in Thread, Delay(t)
    PROVE  QueueInv' /\ Stage' = Stage /\ Stage = "none"
<1>1. /\ writers # <<>> /\ Head(writers) = t /\ job[t].pc = "queued"
      /\ job' = [job EXCEPT ![t].slow = TRUE]
      /\ UNCHANGED <<writers, group, mode, issued, acked, sure>>
  BY DEF Delay, MakingRoom, AtFront, bounds, ghosts
<1>2. job \in [Thread -> JobSet]
  BY DEF QueueInv, QueueTyped
<1>3. /\ job'[t].pc = job[t].pc /\ job'[t].batch = job[t].batch /\ job'[t].sync = job[t].sync
  BY <1>1, <1>2, JobSetIs
<1>4. \A u \in Thread : u # t => job'[u] = job[u]
  BY <1>1, <1>2
<1>5. \A u \in Thread : job'[u].pc = job[u].pc /\ job'[u].batch = job[u].batch /\ job'[u].sync = job[u].sync
  BY <1>3, <1>4
<1>6. job' \in [Thread -> JobSet]
  <2>1. job[t] \in JobSet
    BY <1>2
  <2>2. [job[t] EXCEPT !.slow = TRUE]
              = [pc |-> job[t].pc, batch |-> job[t].batch, sync |-> job[t].sync, slow |-> TRUE]
    BY <2>1, JobSetIs
  <2>3. [job[t] EXCEPT !.slow = TRUE] \in JobSet
    BY <2>1, <2>2 DEF JobSet
  <2> QED BY <1>1, <1>2, <2>3
<1>7. /\ \A i \in 1 .. Len(writers) : writers[i] \in Thread
      /\ writers[1] = t /\ Len(writers) \in Nat
  BY <1>1, JobsAre DEF QueueInv
<1>8. Stage = "none" /\ Stage' = "none"
  BY <1>1, <1>3, <1>7 DEF Stage, Foremost
<1>9. InQueue'
  <2>1. \A i \in 2 .. Len(writers) : i \in 1 .. Len(writers)
    BY <1>7
  <2> QED BY <1>1, <1>5, <1>7, <2>1 DEF QueueInv, InQueue
<1>10. BatchesApart'
  BY <1>1, <1>5 DEF QueueInv, BatchesApart
<1> QED BY <1>1, <1>6, <1>8, <1>9, <1>10 DEF QueueInv, QueueTyped, GroupTaken, Answered

\* BuildBatchGroup: a part of the queue, and sync only if its front is.
LEMMA GroupIs ==
    ASSUME QueueInv, NEW t \in Thread, AtFront(t), job[t].batch # {}
    PROVE  /\ BuildBatchGroup \in 1 .. Len(writers)
           /\ \A i \in 1 .. BuildBatchGroup : job[writers[i]].sync => job[writers[1]].sync
<1> DEFINE S == {n \in DOMAIN writers :
                    /\ \A i \in 2 .. n : job[writers[i]].sync => job[Head(writers)].sync
                    /\ Cardinality(UNION {job[writers[i]].batch : i \in 1 .. n}) <= MaxGroup}
<1>1. /\ writers # <<>> /\ Head(writers) = t /\ writers[1] = t /\ Len(writers) \in Nat
      /\ Len(writers) >= 1
  BY JobsAre DEF AtFront, QueueInv
<1>2. DOMAIN writers = 1 .. Len(writers)
  BY LenProperties DEF QueueInv, QueueTyped
<1>3. 1 \in S
  <2>1. UNION {job[writers[i]].batch : i \in 1 .. 1} = job[t].batch
    BY <1>1
  <2>2. PICK b \in 1 .. issued : job[t].batch = {b}
    BY DEF QueueInv, BatchesApart
  <2>3. Cardinality(job[t].batch) = 1
    BY <2>2, FS_Singleton
  <2>4. 1 <= MaxGroup
    BY LevelDBAssumption DEF LevelDBAssumption
  <2>5. 1 \in DOMAIN writers /\ 2 .. 1 = {}
    BY <1>1, <1>2
  <2> QED BY <2>1, <2>3, <2>4, <2>5
<1>4. S \subseteq 1 .. Len(writers) /\ S \subseteq Nat /\ \A n \in S : n <= Len(writers)
  BY <1>1, <1>2
<1>5. Max(S) \in S
  <2> HIDE DEF S
  <2> QED BY <1>1, <1>3, <1>4, MaxOfBounded
<1>6. BuildBatchGroup = Max(S)
  BY DEF BuildBatchGroup
<1> DEFINE g == Max(S)
<1>7. \A i \in 2 .. g : job[writers[i]].sync => job[writers[1]].sync
  BY <1>1, <1>5
<1>8. g \in 1 .. Len(writers)
  BY <1>4, <1>5
<1> HIDE DEF g, S
<1>9. \A i \in 1 .. g : i = 1 \/ i \in 2 .. g
  BY <1>1, <1>8
<1> QED BY <1>6, <1>7, <1>8, <1>9 DEF g

\* The front writer takes a group along.
LEMMA StartQueue ==
    ASSUME QueueInv, NEW t \in Thread, AtFront(t), job[t].pc = "queued", job[t].batch # {},
           StartGroup(t), UNCHANGED <<mode, issued>>
    PROVE  QueueInv' /\ Stage = "none" /\ Stage' = "append"
<1>1. /\ job' = [job EXCEPT ![t].pc = "append"] /\ group' = BuildBatchGroup
      /\ UNCHANGED <<writers, acked, sure, mode, issued>>
  BY DEF StartGroup
<1>2. job \in [Thread -> JobSet] /\ writers \in Seq(Thread)
  BY DEF QueueInv, QueueTyped
<1>3. /\ writers # <<>> /\ writers[1] = t /\ Len(writers) \in Nat
      /\ \A i \in 1 .. Len(writers) : writers[i] \in Thread
  BY JobsAre DEF AtFront, QueueInv
<1>4. /\ job'[t].pc = "append" /\ job'[t].batch = job[t].batch /\ job'[t].sync = job[t].sync
  BY <1>1, <1>2, JobSetIs
<1>5. \A u \in Thread : u # t => job'[u] = job[u]
  BY <1>1, <1>2
<1>6. \A u \in Thread : job'[u].batch = job[u].batch /\ job'[u].sync = job[u].sync
  BY <1>4, <1>5
<1>7. \A u \in Thread : job'[u].pc # "idle" <=> job[u].pc # "idle"
  BY <1>4, <1>5
<1>8. job' \in [Thread -> JobSet]
  <2>1. job[t] \in JobSet
    BY <1>2
  <2>2. [job[t] EXCEPT !.pc = "append"]
              = [pc |-> "append", batch |-> job[t].batch, sync |-> job[t].sync, slow |-> job[t].slow]
    BY <2>1, JobSetIs
  <2>3. [job[t] EXCEPT !.pc = "append"] \in JobSet
    BY <2>1, <2>2, JobSetIs DEF Stages
  <2> QED BY <1>1, <1>2, <2>3
<1>9. InQueue'
  <2>1. ASSUME NEW i \in 2 .. Len(writers) PROVE job'[writers[i]].pc = "queued"
    <3>1. i \in 1 .. Len(writers) /\ 1 \in 1 .. Len(writers) /\ i # 1
      BY <1>3
    <3>2. writers[i] # t
      BY <1>3, <3>1 DEF QueueInv, InQueue
    <3> QED BY <1>3, <1>5, <3>1, <3>2 DEF QueueInv, InQueue
  <2> QED BY <1>1, <1>7, <2>1 DEF QueueInv, InQueue
<1>10. BatchesApart'
  BY <1>1, <1>6, <1>7 DEF QueueInv, BatchesApart
<1>11. Stage = "none" /\ Stage' = "append"
  BY <1>1, <1>3, <1>4 DEF Stage, Foremost
<1> DEFINE g == BuildBatchGroup
<1>12. g \in 1 .. Len(writers) /\ \A i \in 1 .. g : job[writers[i]].sync => job[writers[1]].sync
  BY GroupIs
<1> HIDE DEF g
<1>13. \A i \in 1 .. g : writers[i] \in Thread
  BY <1>3, <1>12
<1>14. \A i \in 1 .. g : job'[writers[i]].sync => job'[writers[1]].sync
  BY <1>3, <1>6, <1>12, <1>13
<1>15. g \in Nat /\ group' = g
  BY <1>1, <1>3, <1>12 DEF g
<1> QED BY <1>1, <1>2, <1>3, <1>4, <1>8, <1>9, <1>10, <1>11, <1>12, <1>14, <1>15
        DEF QueueInv, QueueTyped, GroupTaken, Answered

\* The first n writers are answered.
LEMMA AnswerQueue ==
    ASSUME QueueInv, NEW n \in 1 .. Len(writers), NEW ok, Answer(n, ok), UNCHANGED <<mode, issued>>
    PROVE  QueueInv' /\ Stage' = "none"
<1> DEFINE L == Len(writers)
           done == {writers[i] : i \in 1 .. n}
<1>1. /\ writers' = SubSeq(writers, n + 1, L)
      /\ job' = [u \in Thread |-> IF u \in done THEN Idle ELSE job[u]]
      /\ group' = 0
      /\ acked' = IF ok THEN acked \cup UNION {job[u].batch : u \in done} ELSE acked
      /\ sure' = IF ok THEN sure \cup UNION {job[u].batch : u \in {v \in done : job[v].sync}} ELSE sure
  BY DEF Answer
<1>2. writers \in Seq(Thread) /\ job \in [Thread -> JobSet]
  BY DEF QueueInv, QueueTyped
<1>3. /\ L \in Nat /\ n \in Nat /\ 1 <= n /\ n <= L /\ \A i \in 1 .. L : writers[i] \in Thread
      /\ writers # <<>>
  <2>1. L \in Nat /\ \A i \in 1 .. L : writers[i] \in Thread
    BY JobsAre DEF QueueInv
  <2>2. L # 0
    BY <2>1
  <2> QED BY <2>1, <2>2, EmptySeq
<1>4. /\ writers' \in Seq(Thread) /\ Len(writers') = L - n
      /\ \A i \in 1 .. L - n : writers'[i] = writers[n + i]
  <2> DEFINE new == SubSeq(writers, n + 1, L)
  <2>1. \A i \in n + 1 .. L : writers[i] \in Thread
    BY <1>3
  <2>2. /\ new \in Seq(Thread)
        /\ Len(new) = IF n + 1 <= L THEN L - (n + 1) + 1 ELSE 0
        /\ \A i \in 1 .. L - (n + 1) + 1 : new[i] = writers[n + 1 + i - 1]
    BY <1>2, <1>3, <2>1, SubSeqProperties
  <2> HIDE DEF new
  <2>3. Len(new) = L - n
    BY <1>3, <2>2
  <2>4. ASSUME NEW i \in 1 .. L - n PROVE new[i] = writers[n + i]
    <3>1. i \in 1 .. L - (n + 1) + 1 /\ n + 1 + i - 1 = n + i
      BY <1>3
    <3> QED BY <2>2, <3>1
  <2> QED BY <1>1, <2>2, <2>3, <2>4 DEF new
<1>5. \A u \in Thread : job'[u] = IF u \in done THEN Idle ELSE job[u]
  BY <1>1
<1>6. Idle.pc = "idle" /\ Idle.batch = {} /\ Idle \in JobSet
  <2>1. {} \in SUBSET Nat
    OBVIOUS
  <2> QED BY <2>1 DEF Idle, JobSet
<1>7. \A u \in Thread : u \in done <=> \E i \in 1 .. n : writers[i] = u
  OBVIOUS
<1>8. \A i \in 1 .. n : i \in 1 .. L
  BY <1>3
<1>9. \A i \in 1 .. L - n : n + i \in 1 .. L /\ n + i \notin 1 .. n
  BY <1>3
<1>10. mode = "open"
  BY <1>3 DEF QueueInv, InQueue
<1>11. \A i, j \in 1 .. L : writers[i] = writers[j] => i = j
  BY DEF QueueInv, InQueue
<1>12. \A i \in 1 .. L - n : writers[n + i] \notin done /\ writers'[i] = writers[n + i]
  BY <1>4, <1>8, <1>9, <1>11
<1> HIDE DEF L, done
<1>13. InQueue'
  <2>1. ASSUME NEW i \in 1 .. L - n, NEW j \in 1 .. L - n, writers'[i] = writers'[j] PROVE i = j
    <3>1. n + i = n + j
      BY <1>9, <1>11, <1>12, <2>1
    <3> QED BY <1>3, <3>1
  <2>2. ASSUME NEW u \in Thread
        PROVE  job'[u].pc # "idle" <=> \E i \in 1 .. L - n : writers'[i] = u
    <3>1. CASE u \in done
      BY <1>5, <1>6, <1>12, <3>1
    <3>2. CASE u \notin done
      <4>1. job[u].pc # "idle" <=> \E i \in 1 .. L : writers[i] = u
        BY DEF QueueInv, InQueue, L
      <4>2. ASSUME NEW i \in 1 .. L, writers[i] = u PROVE \E k \in 1 .. L - n : writers'[k] = u
        <5>1. i \notin 1 .. n
          BY <1>7, <3>2, <4>2
        <5>2. i - n \in 1 .. L - n /\ n + (i - n) = i
          BY <1>3, <5>1
        <5> QED BY <1>12, <4>2, <5>2
      <4>3. ASSUME NEW i \in 1 .. L - n, writers'[i] = u PROVE \E k \in 1 .. L : writers[k] = u
        BY <1>9, <1>12, <4>3
      <4> QED BY <1>5, <3>2, <4>1, <4>2, <4>3
    <3> QED BY <3>1, <3>2
  <2>3. ASSUME NEW i \in 1 .. L - n PROVE job'[writers'[i]].pc = "queued"
    <3>1. n + i \in 2 .. L /\ n + i \in 1 .. L
      BY <1>3
    <3>2. job[writers[n + i]].pc = "queued"
      BY <3>1 DEF QueueInv, InQueue, L
    <3> QED BY <1>3, <1>5, <1>12, <3>1, <3>2
  <2>4. \A i \in 2 .. L - n : i \in 1 .. L - n
    BY <1>3
  <2> QED BY <1>4, <1>10, <2>1, <2>2, <2>3, <2>4 DEF InQueue
<1>14. Stage' = "none"
  <2>1. CASE writers' = <<>>
    BY <2>1 DEF Stage, Foremost
  <2>2. CASE writers' # <<>>
    <3>1. Len(writers') # 0
      BY <1>4, <2>2, EmptySeq
    <3>2. 1 \in 1 .. L - n /\ n + 1 \in 2 .. L /\ n + 1 \in 1 .. L
      BY <1>3, <1>4, <3>1
    <3>3. job[writers[n + 1]].pc = "queued"
      BY <3>2 DEF QueueInv, InQueue, L
    <3>4. job'[writers'[1]].pc = "queued"
      BY <1>3, <1>5, <1>12, <3>2, <3>3
    <3> QED BY <2>2, <3>4 DEF Stage, Foremost
  <2> QED BY <2>1, <2>2
<1>15. ASSUME NEW u \in Thread, u \notin done, NEW b \in Nat, job[u].batch = {b}, b \notin acked
       PROVE  b \notin acked'
  <2>1. ASSUME NEW v \in done PROVE b \notin job[v].batch
    <3>1. v \in Thread
      BY <1>3, <1>8 DEF done
    <3> QED BY <1>15, <2>1, <3>1 DEF QueueInv, BatchesApart
  <2> QED BY <1>1, <1>15, <2>1
<1>16. BatchesApart'
  <2>1. ASSUME NEW u \in Thread, job'[u].batch # {}
        PROVE  job'[u].pc # "idle" /\ \E b \in 1 .. issued' : job'[u].batch = {b} /\ b \notin acked'
    <3>1. u \notin done /\ job'[u] = job[u]
      BY <1>5, <1>6, <2>1
    <3>2. job[u].pc # "idle" /\ \E b \in 1 .. issued : job[u].batch = {b} /\ b \notin acked
      BY <2>1, <3>1 DEF QueueInv, BatchesApart
    <3>3. issued \in Nat
      BY DEF QueueInv, Answered
    <3>4. PICK b \in 1 .. issued : job[u].batch = {b} /\ b \notin acked
      BY <3>2
    <3>5. b \notin acked'
      BY <1>15, <3>1, <3>3, <3>4
    <3> QED BY <3>1, <3>2, <3>4, <3>5
  <2>2. ASSUME NEW u \in Thread, NEW v \in Thread, u # v
        PROVE  job'[u].batch \cap job'[v].batch = {}
    BY <1>5, <1>6, <2>2 DEF QueueInv, BatchesApart
  <2> QED BY <2>1, <2>2 DEF BatchesApart
<1>17. QueueTyped'
  <2>1. job' \in [Thread -> JobSet]
    BY <1>1, <1>2, <1>6
  <2> QED BY <1>1, <1>4, <2>1 DEF QueueTyped
<1>18. Answered'
  <2>1. ASSUME NEW v \in done PROVE v \in Thread /\ job[v].batch \subseteq 1 .. issued
    <3>1. v \in Thread
      BY <1>3, <1>8 DEF done
    <3> QED BY <3>1 DEF QueueInv, BatchesApart
  <2>2. UNION {job[u].batch : u \in done} \subseteq 1 .. issued
    BY <2>1
  <2>3. UNION {job[u].batch : u \in {v \in done : job[v].sync}} \subseteq UNION {job[u].batch : u \in done}
    OBVIOUS
  <2>4. issued \in Nat /\ issued' = issued /\ acked \subseteq 1 .. issued /\ sure \subseteq acked
    BY DEF QueueInv, Answered
  <2>5. CASE ok
    BY <1>1, <2>2, <2>3, <2>4, <2>5 DEF Answered
  <2>6. CASE ~ ok
    BY <1>1, <2>4, <2>6 DEF Answered
  <2> QED BY <2>5, <2>6
<1>19. GroupTaken'
  BY <1>1, <1>14 DEF GroupTaken
<1> QED BY <1>13, <1>14, <1>16, <1>17, <1>18, <1>19 DEF QueueInv

\* What lives in memory is gone.
LEMMA ResetQueue ==
    ASSUME QueueInv, Reset, UNCHANGED <<issued, acked, sure>>
    PROVE  QueueInv' /\ Stage' = "none"
<1>1. /\ writers' = <<>> /\ job' = [u \in Thread |-> Idle] /\ group' = 0
  BY DEF Reset
<1>2. Idle.pc = "idle" /\ Idle.batch = {} /\ Idle \in JobSet
  <2>1. {} \in SUBSET Nat
    OBVIOUS
  <2> QED BY <2>1 DEF Idle, JobSet
<1>3. \A u \in Thread : job'[u].pc = "idle" /\ job'[u].batch = {}
  BY <1>1, <1>2
<1>4. QueueTyped'
  <2>1. <<>> \in Seq(Thread)
    BY EmptySeq
  <2>2. job' \in [Thread -> JobSet]
    BY <1>1, <1>2
  <2> QED BY <1>1, <2>1, <2>2 DEF QueueTyped
<1>5. Len(writers') = 0
  BY <1>1, EmptySeq
<1>6. InQueue'
  BY <1>1, <1>3, <1>5 DEF InQueue
<1>7. BatchesApart'
  BY <1>3 DEF BatchesApart
<1>8. Stage' = "none"
  BY <1>1 DEF Stage, Foremost
<1>9. GroupTaken' /\ Answered'
  BY <1>1, <1>8 DEF GroupTaken, QueueInv, Answered
<1> QED BY <1>4, <1>6, <1>7, <1>8, <1>9 DEF QueueInv

\* Nothing happens to the queue.
LEMMA SameQueue ==
    ASSUME QueueInv, UNCHANGED <<writers, job, group, issued, acked, sure>>,
           mode' = mode \/ writers = <<>>
    PROVE  QueueInv' /\ Stage' = Stage
<1>1. InQueue'
  BY DEF QueueInv, InQueue
<1>2. Stage' = Stage
  BY DEF Stage, Foremost
<1> QED BY <1>1, <1>2 DEF QueueInv, QueueTyped, BatchesApart, GroupTaken, Answered

-----------------------------------------------------------------------------
(* The entries of a group *)

\* The members of a group that bring a batch, and the number each one gets.
Bringers == {i \in 1 .. group : job[writers[i]].batch # {}}
Place(i) == Cardinality({j \in 1 .. i : job[writers[j]].batch # {}})

\* A group has one entry for each batch, numbered on without a gap or a clash.
LEMMA GroupEntriesAre ==
    ASSUME QueueInv, lastSeq \in Nat, Stage # "none"
    PROVE  /\ GroupEntries \subseteq Entry /\ GroupEntries # {}
           /\ Cardinality(GroupEntries) \in Nat
           /\ \A e \in GroupEntries : /\ lastSeq < e.seq
                                      /\ e.seq <= lastSeq + Cardinality(GroupEntries)
                                      /\ e.batch \in 1 .. issued /\ e.batch \notin acked
           /\ \A d, e \in GroupEntries : d.seq = e.seq => d = e
           /\ Ids(GroupEntries) = UNION {job[writers[i]].batch : i \in 1 .. group}
<1> DEFINE L == Len(writers)
<1>1. /\ L \in Nat /\ group \in 1 .. L /\ group \in Nat
      /\ \A i \in 1 .. L : writers[i] \in Thread /\ job[writers[i]].batch \in SUBSET Nat
      /\ \A i \in 1 .. group : i \in 1 .. L
      /\ job[writers[1]].batch # {} /\ 1 \in 1 .. group
  <2>1. /\ L \in Nat /\ group \in 1 .. L /\ job[writers[1]].batch # {}
        /\ \A i \in 1 .. L : writers[i] \in Thread
    BY JobsAre DEF QueueInv, GroupTaken
  <2>2. \A i \in 1 .. L : job[writers[i]].batch \in SUBSET Nat
    BY <2>1, JobsAre DEF QueueInv
  <2> QED BY <2>1, <2>2
<1>2. ASSUME NEW i \in Bringers
      PROVE  \E b \in 1 .. issued : job[writers[i]].batch = {b} /\ b \notin acked
  BY <1>1 DEF QueueInv, BatchesApart, Bringers
<1>3. IsFiniteSet(1 .. group) /\ Bringers \in SUBSET (1 .. group)
  BY <1>1, FS_Interval DEF Bringers
<1>4. IsFiniteSet(Bringers) /\ Cardinality(Bringers) \in Nat
  BY <1>3, FS_Subset, FS_CardinalityType
<1>5. ASSUME NEW i \in Bringers
      PROVE  /\ Place(i) \in Nat /\ 1 <= Place(i) /\ Place(i) <= Cardinality(Bringers)
             /\ \A j \in Bringers : j < i => Place(j) < Place(i)
  <2> DEFINE U(k) == {j \in 1 .. k : job[writers[j]].batch # {}}
  <2>1. \A k \in Bringers : U(k) \in SUBSET Bringers /\ k \in U(k)
    BY <1>1, <1>3 DEF Bringers
  <2>2. \A k \in Bringers : IsFiniteSet(U(k)) /\ Cardinality(U(k)) \in Nat
                            /\ Cardinality(U(k)) <= Cardinality(Bringers)
    <3> HIDE DEF U
    <3> QED BY <1>4, <2>1, FS_Subset, FS_CardinalityType
  <2>3. Place(i) # 0
    <3> HIDE DEF U
    <3>1. Cardinality(U(i)) # 0
      BY <2>1, <2>2, FS_EmptySet
    <3> QED BY <3>1 DEF Place, U
  <2>4. ASSUME NEW j \in Bringers, j < i PROVE Place(j) < Place(i)
    <3>1. U(j) \in SUBSET U(i) /\ i \notin U(j)
      BY <1>1, <1>3, <2>4
    <3> HIDE DEF U
    <3>2. Cardinality(U(j)) <= Cardinality(U(i)) /\ Cardinality(U(j)) # Cardinality(U(i))
      BY <2>1, <2>2, <3>1, FS_Subset
    <3>3. Cardinality(U(j)) < Cardinality(U(i))
      BY <2>2, <2>4, <3>2
    <3> QED BY <3>3 DEF Place, U
  <2>5. \A k \in Bringers : Place(k) = Cardinality(U(k))
    BY DEF Place
  <2> HIDE DEF U
  <2> QED BY <2>2, <2>3, <2>4, <2>5
<1> DEFINE Of(i) == CHOOSE b \in 1 .. issued : job[writers[i]].batch = {b} /\ b \notin acked
           ent == [i \in Bringers |-> [batch |-> Of(i), seq |-> lastSeq + Place(i)]]
<1>6. ASSUME NEW i \in Bringers
      PROVE  Of(i) \in 1 .. issued /\ job[writers[i]].batch = {Of(i)} /\ Of(i) \notin acked
  BY <1>2
<1>7. GroupEntries = {ent[i] : i \in Bringers}
  <2> HIDE DEF Of
  <2>1. ASSUME NEW i \in 1 .. group
        PROVE  {[batch |-> b, seq |-> lastSeq + Place(i)] : b \in job[writers[i]].batch}
               = IF i \in Bringers THEN {ent[i]} ELSE {}
    <3>1. CASE i \in Bringers
      BY <1>6, <3>1
    <3>2. CASE i \notin Bringers
      BY <3>2 DEF Bringers
    <3> QED BY <3>1, <3>2
  <2>2. GroupEntries = UNION {{[batch |-> b, seq |-> lastSeq + Place(i)]
                                  : b \in job[writers[i]].batch} : i \in 1 .. group}
    BY DEF GroupEntries, Place
  <2> HIDE DEF ent
  <2>3. GroupEntries = UNION {IF i \in Bringers THEN {ent[i]} ELSE {} : i \in 1 .. group}
    BY <2>1, <2>2
  <2> QED BY <1>3, <2>3
<1>8. \A i \in Bringers : ent[i].batch = Of(i) /\ ent[i].seq = lastSeq + Place(i)
  OBVIOUS
<1>9. \A i, j \in Bringers : ent[i].seq = ent[j].seq => i = j
  <2>1. ASSUME NEW i \in Bringers, NEW j \in Bringers, ent[i].seq = ent[j].seq PROVE i = j
    <3>1. Place(i) \in Nat /\ Place(j) \in Nat /\ lastSeq + Place(i) = lastSeq + Place(j)
      BY <1>5, <1>8, <2>1
    <3>2. Place(i) = Place(j) /\ i \in Nat /\ j \in Nat
      BY <1>3, <3>1
    <3>3. ~ (i < j) /\ ~ (j < i)
      BY <1>5, <3>1, <3>2
    <3> QED BY <3>2, <3>3
  <2> QED BY <2>1
<1>10. issued \in Nat
  BY DEF QueueInv, Answered
<1>11. \A i \in Bringers : ent[i] \in Entry
  <2>1. ASSUME NEW i \in Bringers PROVE ent[i] \in Entry
    <3>1. lastSeq + Place(i) \in Nat
      BY <1>5
    <3>2. Of(i) \in Nat
      BY <1>6, <1>10
    <3> HIDE DEF Of
    <3>3. ent[i] = [batch |-> Of(i), seq |-> lastSeq + Place(i)]
      OBVIOUS
    <3> HIDE DEF ent
    <3> QED BY <3>1, <3>2, <3>3 DEF Entry
  <2> QED BY <2>1
<1>12. Cardinality(GroupEntries) = Cardinality(Bringers)
  <2>1. DOMAIN ent = Bringers
    OBVIOUS
  <2> HIDE DEF ent
  <2>2. ent \in [Bringers -> GroupEntries]
    <3>1. \A i \in Bringers : ent[i] \in GroupEntries
      BY <1>7
    <3>2. ent = [i \in Bringers |-> ent[i]]
      BY DEF ent
    <3> QED BY <3>1, <3>2
  <2>3. ent \in Surjection(Bringers, GroupEntries)
    BY <1>7, <2>2 DEF Surjection
  <2>4. ent \in Injection(Bringers, GroupEntries)
    BY <1>9, <2>2 DEF Injection, IsInjective
  <2> QED BY <1>4, <2>3, <2>4, FS_Surjection
<1>13. 1 \in Bringers
  BY <1>1 DEF Bringers
<1>14. Ids(GroupEntries) = UNION {job[writers[i]].batch : i \in 1 .. group}
  <2>1. ASSUME NEW b \in UNION {job[writers[i]].batch : i \in 1 .. group}
        PROVE  b \in Ids(GroupEntries)
    <3>1. PICK i \in 1 .. group : b \in job[writers[i]].batch
      OBVIOUS
    <3>2. i \in Bringers
      BY <3>1 DEF Bringers
    <3>3. b = Of(i)
      BY <1>6, <3>1, <3>2
    <3> HIDE DEF Of, ent
    <3> QED BY <1>7, <1>8, <3>2, <3>3 DEF Ids
  <2>2. ASSUME NEW b \in Ids(GroupEntries)
        PROVE  b \in UNION {job[writers[i]].batch : i \in 1 .. group}
    <3> HIDE DEF Of, ent
    <3>1. PICK i \in Bringers : b = ent[i].batch
      BY <1>7, <2>2 DEF Ids
    <3>2. b \in job[writers[i]].batch
      BY <1>6, <1>8, <3>1
    <3> QED BY <1>3, <3>1, <3>2
  <2> HIDE DEF Of, ent
  <2> QED BY <2>1, <2>2
<1> HIDE DEF ent, Of
<1>15. ASSUME NEW e \in GroupEntries
       PROVE  /\ e \in Entry /\ lastSeq < e.seq /\ e.seq <= lastSeq + Cardinality(GroupEntries)
              /\ e.batch \in 1 .. issued /\ e.batch \notin acked
  <2>1. PICK i \in Bringers : e = ent[i]
    BY <1>7
  <2>2. lastSeq < lastSeq + Place(i) /\ lastSeq + Place(i) <= lastSeq + Cardinality(Bringers)
    BY <1>4, <1>5
  <2>3. e \in Entry /\ e.batch = Of(i) /\ e.seq = lastSeq + Place(i)
    BY <1>8, <1>11, <2>1
  <2>4. Of(i) \in 1 .. issued /\ Of(i) \notin acked
    BY <1>6
  <2> DEFINE top == lastSeq + Cardinality(GroupEntries)
  <2>5. lastSeq + Place(i) <= top
    BY <1>12, <2>2
  <2> HIDE DEF top
  <2>6. lastSeq < e.seq /\ e.seq <= top
    BY <2>2, <2>3, <2>5
  <2>7. e.batch \in 1 .. issued /\ e.batch \notin acked
    BY <2>3, <2>4
  <2> QED BY <2>3, <2>6, <2>7 DEF top
<1>16. \A d, e \in GroupEntries : d.seq = e.seq => d = e
  BY <1>7, <1>9
<1>17. GroupEntries # {} /\ Cardinality(GroupEntries) \in Nat
  BY <1>4, <1>7, <1>12, <1>13
<1>18. GroupEntries \subseteq Entry
  BY <1>15
<1> QED BY <1>14, <1>15, <1>16, <1>17, <1>18

-----------------------------------------------------------------------------
(* Numbers and files *)

LogsTyped ==
    /\ DOMAIN logs \subseteq Nat /\ logs \in [DOMAIN logs -> LogFile]
    /\ \A n \in DOMAIN logs : logs[n].synced <= Len(logs[n].recs)
    /\ \E b \in Nat : \A n \in DOMAIN logs : n <= b

TablesTyped == DOMAIN tables \subseteq Nat \ {None} /\ tables \in [DOMAIN tables -> SUBSET Entry]

VersionsTyped ==
    /\ manifest \in [l0 : SUBSET Nat, deep : SUBSET Nat, log : Nat, next : Nat, last : Nat]
    /\ version \in Version
    /\ edit \in [del : SUBSET Nat, l0 : SUBSET Nat, deep : SUBSET Nat, log : Nat]
    /\ logfile \in Nat /\ nextFile \in Nat /\ lastSeq \in Nat

MemoryTyped ==
    /\ mem \subseteq Entry /\ committed \subseteq Entry
    /\ imm = <<>> \/ \E s \in SUBSET Entry : imm = <<s>>

FlushSet == [pc : {"idle", "building", "built", "logged"}, file : Nat]
CompSet  == [pc : {"idle", "working", "built", "logged"}, inputs : SUBSET Nat, file : Nat]
ReadSet  == [snap : Nat, seen : SUBSET Entry, files : SUBSET Nat, due : SUBSET Entry]

BackTyped ==
    /\ scheduled \in BOOLEAN /\ bgError \in BOOLEAN /\ pending \subseteq Nat
    /\ flush \in FlushSet /\ comp \in CompSet
    /\ mode \in {"down", "replayed", "saved", "open", "closing"}
    /\ read \in [Reader -> ReadSet]

\* Nothing is under way in a store that is not open.
Quiet ==
    /\ ~ Up => /\ flush = NoFlush /\ comp = NoComp /\ imm = <<>> /\ pending = {}
               /\ ~ bgError /\ ~ scheduled /\ committed = {}
               /\ \A r \in Reader : read[r] = Nothing
    /\ mode = "down" => mem = {} /\ version = NoVersion /\ edit = NoEdit

\* Numbers of files are below the counter, those of the MANIFEST also below the
\* one that is in it; the log written to is the last one.
NumbersBelow ==
    /\ \A f \in FilesOf(manifest) : f < manifest.next
    /\ Alive =>
        /\ \A f \in FilesOf(manifest) \cup FilesOf(version) \cup pending
                    \cup edit.l0 \cup edit.deep \cup {logfile} : f < nextFile
        /\ \A n \in DOMAIN logs : n <= logfile
        /\ logfile \in DOMAIN logs
        /\ version.log <= manifest.log /\ manifest.log <= logfile
        /\ \A r \in Reader : \A f \in read[r].files : f < nextFile

\* Not in any version, on the disk, in memory, or pinned by a reader.
Fresh(f) ==
    /\ f \notin FilesOf(manifest) \cup FilesOf(version)
    /\ \A r \in Reader : f \notin read[r].files

\* What the background thread is at, it has been scheduled for.
Scheduled ==
    /\ flush.pc # "idle" => imm # <<>> /\ scheduled
    /\ comp.pc # "idle" => scheduled
    /\ comp.pc = "idle" => comp = NoComp
    /\ comp.pc \in {"built", "logged"} => flush.pc = "idle"

\* The table of a flush and the output of a compaction are protected, and
\* nobody refers to them, until they are in the MANIFEST.
Protected ==
    /\ comp.inputs \subseteq FilesOf(version)
    /\ flush.pc # "idle" => flush.file # comp.file /\ flush.file # None
    /\ flush.pc \in {"building", "built"} => flush.file \in pending /\ Fresh(flush.file)
    /\ comp.file # None => comp.file \in pending /\ comp.file \in DOMAIN tables
    /\ comp.pc \in {"working", "built"} => comp.file = None \/ Fresh(comp.file)

\* The edit that is being written.
EditIs ==
    /\ flush.pc = "logged" => edit \in FlushEdits /\ manifest.log = logfile
    /\ comp.pc = "logged" => edit = CompactionEdit
    /\ mode = "replayed" => edit.del = {} /\ edit.deep = {} /\ edit.log = logfile

\* What the tables that are not in a version yet hold.
Outputs ==
    /\ flush.pc \in {"built", "logged"} /\ imm[1] # {} =>
           flush.file \in DOMAIN tables /\ tables[flush.file] = imm[1]
    /\ comp.pc \in {"built", "logged"} /\ comp.file # None =>
           tables[comp.file] = InTables(comp.inputs)

\* No error, and the MANIFEST says what the current version says, with the edit
\* that was logged and is not installed.
SameFiles(m, v) == m.l0 = v.l0 /\ m.deep = v.deep /\ m.log = v.log

InStep ==
    Alive /\ ~ bgError =>
        SameFiles(manifest, IF flush.pc = "logged" \/ comp.pc = "logged"
                            THEN Applied(version, edit) ELSE version)

\* The tables that are referred to are there.
Referred ==
    /\ FilesOf(manifest) \cup FilesOf(version) \subseteq DOMAIN tables
    /\ \A r \in Reader : read[r].files \subseteq DOMAIN tables
    /\ mode = "replayed" => edit.l0 \subseteq DOMAIN tables

FileInv ==
    /\ LogsTyped /\ TablesTyped /\ VersionsTyped /\ MemoryTyped /\ BackTyped
    /\ Quiet /\ NumbersBelow /\ Scheduled /\ Protected /\ EditIs /\ Outputs /\ InStep /\ Referred

LEMMA InvTyped ==
    ASSUME QueueInv, FileInv
    PROVE  /\ lastSeq \in Nat /\ Stage # "none" => GroupEntries \subseteq Entry
           /\ lastSeq \in Nat /\ logfile \in Nat /\ nextFile \in Nat
BY GroupEntriesAre DEF FileInv, VersionsTyped

\* A step of the queue leaves the files alone: they stay as they are named, and
\* an error is not forgotten.
LEMMA FilesStill ==
    ASSUME FileInv,
           UNCHANGED <<tables, manifest, version, edit, imm, logfile, nextFile, scheduled, pending,
                       flush, comp, mode, read>>,
           DOMAIN logs' = DOMAIN logs, lastSeq' \in Nat, bgError' \in BOOLEAN,
           bgError => bgError',
           ~ Up => bgError' = bgError /\ committed' = committed /\ mem' = mem
    PROVE  /\ TablesTyped' /\ VersionsTyped' /\ BackTyped' /\ Quiet' /\ NumbersBelow'
           /\ Scheduled' /\ Protected' /\ EditIs' /\ Outputs' /\ InStep' /\ Referred'
<1>1. TablesTyped' /\ VersionsTyped'
  BY DEF FileInv, TablesTyped, VersionsTyped
<1>2. BackTyped'
  BY DEF FileInv, BackTyped
<1>3. Quiet'
  BY DEF FileInv, Quiet, Up
<1>4. NumbersBelow'
  BY DEF FileInv, NumbersBelow, Alive, FilesOf
<1>5. Scheduled'
  BY DEF FileInv, Scheduled
<1>6. Protected'
  BY DEF FileInv, Protected, Fresh, FilesOf
<1>7. EditIs'
  BY DEF FileInv, EditIs, FlushEdits, CompactionEdit
<1>8. Outputs'
  BY DEF FileInv, Outputs, InTables
<1>9. InStep'
  BY DEF FileInv, InStep, Alive, SameFiles, Applied
<1>10. Referred'
  BY DEF FileInv, Referred, FilesOf
<1> QED BY <1>1, <1>2, <1>3, <1>4, <1>5, <1>6, <1>7, <1>8, <1>9, <1>10

\* Steps of the queue that leave the disk and the memtables alone.
LEMMA IdleFiles ==
    ASSUME FileInv, UNCHANGED <<disk, memory, vset, back, mode, read, committed>>
    PROVE  FileInv'
<1>1. UNCHANGED <<logs, tables, manifest, version, edit, mem, imm, logfile, nextFile, lastSeq,
                  scheduled, pending, bgError, flush, comp, mode, read, committed>>
  BY DEF disk, memory, vset, back
<1>2. LogsTyped' /\ MemoryTyped' /\ lastSeq' \in Nat /\ bgError' \in BOOLEAN
  BY <1>1 DEF FileInv, LogsTyped, MemoryTyped, VersionsTyped, BackTyped
<1> QED BY <1>1, <1>2, FilesStill DEF FileInv

\* A record is added to the log that is written to, or a part of one.
LEMMA AppendTyped ==
    ASSUME FileInv, NEW n \in DOMAIN logs, NEW rec \in SUBSET Entry, AppendTo(n, rec)
    PROVE  /\ LogsTyped' /\ DOMAIN logs' = DOMAIN logs
           /\ logs'[n].recs = Append(logs[n].recs, rec) /\ logs'[n].synced = logs[n].synced
           /\ \A m \in DOMAIN logs : m # n => logs'[m] = logs[m]
<1>1. /\ logs \in [DOMAIN logs -> LogFile] /\ DOMAIN logs \subseteq Nat
      /\ \A m \in DOMAIN logs : logs[m].synced <= Len(logs[m].recs)
      /\ \E b \in Nat : \A m \in DOMAIN logs : m <= b
  BY DEF FileInv, LogsTyped
<1>2. logs' = [logs EXCEPT ![n].recs = Append(@, rec)]
  BY DEF AppendTo
<1>3. /\ logs[n] \in LogFile /\ logs[n].recs \in Seq(SUBSET Entry) /\ logs[n].synced \in Nat
      /\ logs[n] = [recs |-> logs[n].recs, synced |-> logs[n].synced]
  BY <1>1, LogFileIs
<1> DEFINE new == Append(logs[n].recs, rec)
<1>4. new \in Seq(SUBSET Entry) /\ Len(new) = Len(logs[n].recs) + 1 /\ Len(logs[n].recs) \in Nat
  BY <1>3, AppendProperties, LenProperties
<1>5. logs'[n] = [recs |-> new, synced |-> logs[n].synced]
  <2>1. logs'[n] = [logs[n] EXCEPT !.recs = new]
    BY <1>1, <1>2
  <2> HIDE DEF new
  <2> QED BY <1>3, <2>1
<1>6. DOMAIN logs' = DOMAIN logs /\ \A m \in DOMAIN logs : m # n => logs'[m] = logs[m]
  BY <1>1, <1>2
<1> HIDE DEF new
<1>7. logs'[n] \in LogFile
  BY <1>3, <1>4, <1>5, LogFileIs
<1>8. logs' \in [DOMAIN logs -> LogFile]
  <2>1. \A m \in DOMAIN logs : logs'[m] \in LogFile
    BY <1>1, <1>6, <1>7
  <2>2. logs' = [m \in DOMAIN logs |-> logs'[m]]
    BY <1>1, <1>2
  <2> QED BY <2>1, <2>2
<1>9. ASSUME NEW m \in DOMAIN logs PROVE logs'[m].synced <= Len(logs'[m].recs)
  <2>1. CASE m = n
    <3>1. logs[n].synced <= Len(logs[n].recs)
      BY <1>1
    <3> QED BY <1>3, <1>4, <1>5, <2>1, <3>1
  <2>2. CASE m # n
    BY <1>1, <1>6, <2>2
  <2> QED BY <2>1, <2>2
<1>10. LogsTyped'
  BY <1>1, <1>6, <1>8, <1>9 DEF LogsTyped
<1> QED BY <1>5, <1>6, <1>10 DEF new

LEMMA LogAtHand ==
    ASSUME FileInv, Alive
    PROVE  /\ logfile \in DOMAIN logs /\ logfile \in Nat /\ logs[logfile] \in LogFile
           /\ logs[logfile].recs \in Seq(SUBSET Entry) /\ logs[logfile].synced \in Nat
           /\ logs[logfile].synced <= Len(logs[logfile].recs)
BY LogFileIs DEF FileInv, LogsTyped, NumbersBelow, VersionsTyped

LEMMA AddRecordFiles ==
    ASSUME QueueInv, FileInv, NEW t \in Thread, AddRecord(t) \/ AddRecordFails(t)
    PROVE  /\ QueueInv' /\ FileInv'
           /\ Stage = "append"
           /\ AddRecord(t) => Stage' \in {"sync", "insert"}
           /\ AddRecordFails(t) => Stage' = "failed"
<1>1. /\ job[t].pc = "append"
      /\ UNCHANGED <<tables, manifest, writers, group, mem, imm, logfile, version, nextFile, lastSeq,
                     edit, scheduled, bgError, pending, flush, comp, mode, read, issued, acked,
                     sure, committed>>
  BY DEF AddRecord, AddRecordFails, memory, vset, back, bounds, ghosts
<1>2. job[t].pc \in Stages
  BY <1>1 DEF Stages
<1>3. Stage = "append" /\ mode = "open"
  BY <1>1, <1>2, FrontIs
<1>4. Alive /\ GroupEntries \in SUBSET Entry /\ Torn \in SUBSET Entry
  BY <1>3, InvTyped DEF Alive, Torn
<1>5. logfile \in DOMAIN logs
  BY <1>4, LogAtHand
<1>6. LogsTyped' /\ DOMAIN logs' = DOMAIN logs
  <2>1. CASE UNCHANGED logs
    BY <2>1 DEF FileInv, LogsTyped
  <2>2. CASE AppendTo(logfile, Torn)
    BY <1>4, <1>5, <2>2, AppendTyped
  <2>3. CASE AppendTo(logfile, GroupEntries)
    BY <1>4, <1>5, <2>3, AppendTyped
  <2> QED BY <2>1, <2>2, <2>3 DEF AddRecord, AddRecordFails
<1>7. MemoryTyped' /\ lastSeq' \in Nat /\ bgError' \in BOOLEAN
  BY <1>1 DEF FileInv, MemoryTyped, VersionsTyped, BackTyped
<1>8. FileInv'
  BY <1>1, <1>6, <1>7, FilesStill DEF FileInv
<1>9. ASSUME AddRecord(t) PROVE QueueInv' /\ Stage' \in {"sync", "insert"}
  <2> DEFINE x == IF job[t].sync THEN "sync" ELSE "insert"
  <2>1. job' = [job EXCEPT ![t].pc = x]
    BY <1>9 DEF AddRecord
  <2>2. x \in Stages /\ (x = "sync" => job[t].sync) /\ x \in {"sync", "insert"}
    BY DEF Stages
  <2> HIDE DEF x
  <2> QED BY <1>1, <1>2, <2>1, <2>2, StageStep
<1>10. ASSUME AddRecordFails(t) PROVE QueueInv' /\ Stage' = "failed"
  <2>1. job' = [job EXCEPT ![t].pc = "failed"]
    BY <1>10 DEF AddRecordFails
  <2>2. "failed" \in Stages /\ "failed" # "sync"
    BY DEF Stages
  <2> QED BY <1>1, <1>2, <2>1, <2>2, StageStep
<1> QED BY <1>3, <1>8, <1>9, <1>10

LEMMA SyncLogFiles ==
    ASSUME QueueInv, FileInv, NEW t \in Thread, SyncLog(t) \/ SyncLogFails(t)
    PROVE  /\ QueueInv' /\ FileInv'
           /\ Stage = "sync"
           /\ SyncLog(t) => Stage' = "insert"
           /\ SyncLogFails(t) => Stage' = "syncError" /\ UNCHANGED logs
           /\ \A n \in DOMAIN logs : logs'[n].recs = logs[n].recs
           /\ DOMAIN logs' = DOMAIN logs
           /\ SyncLog(t) => /\ logs'[logfile].synced = Len(logs[logfile].recs)
                            /\ \A n \in DOMAIN logs : n # logfile => logs'[n] = logs[n]
<1>1. /\ job[t].pc = "sync"
      /\ UNCHANGED <<tables, manifest, writers, group, mem, imm, logfile, version, nextFile, lastSeq,
                     edit, scheduled, bgError, pending, flush, comp, mode, read, issued, acked,
                     sure, committed>>
      /\ SyncLogFails(t) => UNCHANGED logs
  BY DEF SyncLog, SyncLogFails, disk, memory, vset, back, bounds, ghosts
<1>2. job[t].pc \in Stages
  BY <1>1 DEF Stages
<1>3. Stage = "sync" /\ mode = "open"
  BY <1>1, <1>2, FrontIs
<1>4. /\ logfile \in DOMAIN logs /\ logs[logfile] \in LogFile
      /\ logs[logfile].recs \in Seq(SUBSET Entry)
  BY <1>3, LogAtHand DEF Alive
<1>5. /\ logs \in [DOMAIN logs -> LogFile] /\ DOMAIN logs \subseteq Nat
      /\ \A m \in DOMAIN logs : logs[m].synced <= Len(logs[m].recs)
      /\ \E b \in Nat : \A m \in DOMAIN logs : m <= b
  BY DEF FileInv, LogsTyped
<1>6. ASSUME SyncLog(t)
      PROVE  /\ LogsTyped' /\ DOMAIN logs' = DOMAIN logs
             /\ logs'[logfile] = [recs |-> logs[logfile].recs, synced |-> Len(logs[logfile].recs)]
             /\ \A n \in DOMAIN logs : n # logfile => logs'[n] = logs[n]
  <2>1. logs' = [logs EXCEPT ![logfile].synced = Len(logs[logfile].recs)]
    BY <1>6 DEF SyncLog
  <2> DEFINE k == Len(logs[logfile].recs)
             recs == logs[logfile].recs
  <2>2. k \in Nat /\ k = Len(recs) /\ recs \in Seq(SUBSET Entry)
    BY <1>4, LenProperties
  <2>3. logs[logfile] = [recs |-> recs, synced |-> logs[logfile].synced]
    BY <1>4, LogFileIs
  <2>4. logs' = [logs EXCEPT ![logfile].synced = k]
    BY <2>1
  <2> HIDE DEF k
  <2>5. logs'[logfile] = [logs[logfile] EXCEPT !.synced = k]
    BY <1>4, <1>5, <2>4
  <2>6. /\ DOMAIN logs' = DOMAIN logs /\ \A n \in DOMAIN logs : n # logfile => logs'[n] = logs[n]
        /\ logs' = [n \in DOMAIN logs |-> logs'[n]]
    BY <1>5, <2>4
  <2> HIDE DEF recs
  <2>7. logs'[logfile] = [recs |-> recs, synced |-> k]
    BY <2>3, <2>5
  <2>8. logs'[logfile] \in LogFile
    BY <2>2, <2>7, LogFileIs
  <2>9. logs' \in [DOMAIN logs -> LogFile]
    <3>1. \A n \in DOMAIN logs : logs'[n] \in LogFile
      BY <1>5, <2>6, <2>8
    <3> QED BY <2>6, <3>1
  <2>10. \A n \in DOMAIN logs : logs'[n].synced <= Len(logs'[n].recs)
    <3>1. logs'[logfile].synced <= Len(logs'[logfile].recs)
      BY <2>2, <2>7
    <3> QED BY <1>5, <2>6, <3>1
  <2>11. LogsTyped'
    BY <1>5, <2>6, <2>9, <2>10 DEF LogsTyped
  <2> QED BY <2>6, <2>7, <2>11 DEF recs, k
<1>7. LogsTyped' /\ DOMAIN logs' = DOMAIN logs /\ \A n \in DOMAIN logs : logs'[n].recs = logs[n].recs
  <2>1. CASE SyncLog(t)
    BY <1>6, <2>1
  <2>2. CASE SyncLogFails(t)
    BY <1>1, <2>2 DEF FileInv, LogsTyped
  <2> QED BY <2>1, <2>2
<1>8. MemoryTyped' /\ lastSeq' \in Nat /\ bgError' \in BOOLEAN
  BY <1>1 DEF FileInv, MemoryTyped, VersionsTyped, BackTyped
<1>9. FileInv'
  BY <1>1, <1>7, <1>8, FilesStill DEF FileInv
<1>10. ASSUME NEW x \in {"insert", "syncError"}, job' = [job EXCEPT ![t].pc = x]
       PROVE  QueueInv' /\ Stage' = x
  <2>1. x \in Stages /\ x # "sync"
    BY DEF Stages
  <2> QED BY <1>1, <1>2, <1>10, <2>1, StageStep
<1>11. SyncLog(t) => QueueInv' /\ Stage' = "insert"
  BY <1>10 DEF SyncLog
<1>12. SyncLogFails(t) => QueueInv' /\ Stage' = "syncError"
  BY <1>10 DEF SyncLogFails
<1> QED BY <1>1, <1>3, <1>6, <1>7, <1>9, <1>11, <1>12

LEMMA InsertFiles ==
    ASSUME QueueInv, FileInv, NEW t \in Thread, InsertInto(t)
    PROVE  QueueInv' /\ FileInv' /\ Stage = "insert" /\ Stage' = "inserted"
<1>1. /\ job[t].pc = "insert" /\ job' = [job EXCEPT ![t].pc = "inserted"]
      /\ mem' = mem \cup GroupEntries
      /\ UNCHANGED <<logs, tables, manifest, writers, group, imm, logfile, version, nextFile,
                     lastSeq, edit, scheduled, bgError, pending, flush, comp, mode, read, issued,
                     acked, sure, committed>>
  BY DEF InsertInto, disk, vset, back, bounds, ghosts
<1>2. job[t].pc \in Stages /\ "inserted" \in Stages /\ "inserted" # "sync"
  BY <1>1 DEF Stages
<1>3. Stage = "insert" /\ mode = "open"
  BY <1>1, <1>2, FrontIs
<1>4. GroupEntries \subseteq Entry /\ Up
  BY <1>3, InvTyped DEF Up
<1>5. MemoryTyped' /\ LogsTyped' /\ lastSeq' \in Nat /\ bgError' \in BOOLEAN
  BY <1>1, <1>4 DEF FileInv, MemoryTyped, VersionsTyped, BackTyped, LogsTyped
<1>6. FileInv'
  BY <1>1, <1>4, <1>5, FilesStill DEF FileInv
<1>7. QueueInv' /\ Stage' = "inserted"
  BY <1>1, <1>2, StageStep
<1> QED BY <1>3, <1>6, <1>7

LEMMA FinishWriteFiles ==
    ASSUME QueueInv, FileInv, NEW t \in Thread, FinishWrite(t)
    PROVE  /\ QueueInv' /\ FileInv' /\ Stage \in {"inserted", "failed", "syncError"}
           /\ Stage = job[t].pc /\ Stage' = "none"
<1>1. /\ job[t].pc \in {"inserted", "failed", "syncError"}
      /\ bgError' = (bgError \/ job[t].pc = "syncError")
      /\ lastSeq' = lastSeq + Cardinality(GroupEntries)
      /\ committed' = IF job[t].pc = "inserted" THEN committed \cup GroupEntries ELSE committed
      /\ Answer(group, job[t].pc = "inserted")
      /\ UNCHANGED <<logs, tables, manifest, mem, imm, logfile, version, nextFile, edit, scheduled,
                     pending, flush, comp, mode, read, issued>>
  BY DEF FinishWrite, disk, memory, bounds
<1>2. job[t].pc \in Stages
  BY <1>1 DEF Stages
<1>3. Stage = job[t].pc /\ mode = "open" /\ group \in 1 .. Len(writers)
  BY <1>2, FrontIs
<1>4. QueueInv' /\ Stage' = "none"
  BY <1>1, <1>3, AnswerQueue
<1>5. Stage # "none" /\ Up
  BY <1>1, <1>3 DEF Up
<1>6. GroupEntries \subseteq Entry /\ Cardinality(GroupEntries) \in Nat /\ lastSeq \in Nat
  BY <1>5, GroupEntriesAre, InvTyped
<1>7. MemoryTyped' /\ LogsTyped' /\ lastSeq' \in Nat
  BY <1>1, <1>6 DEF FileInv, MemoryTyped, LogsTyped
<1>8. bgError' \in BOOLEAN /\ (bgError => bgError')
  BY <1>1
<1>9. FileInv'
  BY <1>1, <1>5, <1>7, <1>8, FilesStill DEF FileInv
<1> QED BY <1>1, <1>3, <1>4, <1>9

\* The steps of Write that touch nothing but the queue.
LEMMA QueueFiles ==
    ASSUME QueueInv, FileInv, NEW t \in Thread,
           \/ \E batch \in {{}, {issued + 1}}, sync \in BOOLEAN : Write(t, batch, sync)
           \/ BadBackground(t) \/ Delay(t) \/ Proceed(t) \/ NewLogFails(t)
    PROVE  /\ QueueInv' /\ FileInv' /\ UNCHANGED <<disk, memory, vset, back, mode, read, committed>>
           /\ Stage' = Stage \/ (Stage = "none" /\ Stage' = "append")
           /\ Stage # "none" => GroupEntries' = GroupEntries
<1>1. ASSUME NEW batch \in {{}, {issued + 1}}, NEW sync \in BOOLEAN, Write(t, batch, sync)
      PROVE  /\ QueueInv' /\ UNCHANGED <<disk, memory, vset, back, mode, read, committed>>
             /\ Stage' = Stage /\ (Stage # "none" => GroupEntries' = GroupEntries)
  <2>1. QueueInv' /\ Stage' = Stage /\ (Stage # "none" => GroupEntries' = GroupEntries)
    BY <1>1, WriteQueue
  <2>2. UNCHANGED <<disk, memory, vset, back, mode, read, committed>>
    BY <1>1 DEF Write, ghosts
  <2> QED BY <2>1, <2>2
<1>2. ASSUME BadBackground(t) \/ NewLogFails(t)
      PROVE  /\ QueueInv' /\ UNCHANGED <<disk, memory, vset, back, mode, read, committed>>
             /\ Stage' = Stage /\ Stage = "none"
  <2>1. /\ AtFront(t) /\ job[t].pc = "queued" /\ Answer(1, FALSE)
        /\ UNCHANGED <<disk, memory, vset, back, mode, read, committed, issued>>
    BY <1>2 DEF BadBackground, NewLogFails, MaySwitch, MakingRoom, bounds
  <2>2. Len(writers) \in Nat /\ Len(writers) >= 1 /\ writers # <<>> /\ writers[1] = t
    BY <2>1, JobsAre DEF AtFront, QueueInv
  <2>3. 1 \in 1 .. Len(writers)
    BY <2>2
  <2>4. QueueInv' /\ Stage' = "none"
    BY <2>1, <2>3, AnswerQueue
  <2>5. Stage = "none"
    BY <2>1, <2>2 DEF Stage, Foremost
  <2> QED BY <2>1, <2>4, <2>5
<1>3. ASSUME Delay(t)
      PROVE  /\ QueueInv' /\ UNCHANGED <<disk, memory, vset, back, mode, read, committed>>
             /\ Stage' = Stage /\ Stage = "none"
  <2>1. UNCHANGED <<disk, memory, vset, back, mode, read, committed>>
    BY <1>3 DEF Delay, ghosts
  <2> QED BY <1>3, <2>1, DelayQueue
<1>4. ASSUME Proceed(t)
      PROVE  /\ QueueInv' /\ UNCHANGED <<disk, memory, vset, back, mode, read, committed>>
             /\ Stage = "none" /\ Stage' = "append"
  <2>1. /\ AtFront(t) /\ job[t].pc = "queued" /\ job[t].batch # {} /\ StartGroup(t)
        /\ UNCHANGED <<disk, memory, vset, back, mode, read, committed, issued>>
    BY <1>4 DEF Proceed, MakingRoom, HasRoom, bounds
  <2> QED BY <2>1, StartQueue
<1>5. /\ QueueInv' /\ UNCHANGED <<disk, memory, vset, back, mode, read, committed>>
      /\ Stage' = Stage \/ (Stage = "none" /\ Stage' = "append")
      /\ Stage # "none" => GroupEntries' = GroupEntries
  BY <1>1, <1>2, <1>3, <1>4
<1>6. FileInv'
  BY <1>5, IdleFiles
<1> QED BY <1>5, <1>6

\* A new log and a new memtable.
LEMMA SwitchFiles ==
    ASSUME QueueInv, FileInv, NEW t \in Thread, SwitchMemTable(t)
    PROVE  /\ QueueInv' /\ FileInv' /\ Stage = "none" /\ Stage' \in {"none", "append"}
           /\ mode = "open" /\ imm = <<>> /\ nextFile \notin DOMAIN logs
<1>1. /\ AtFront(t) /\ job[t].pc = "queued" /\ ~ bgError /\ imm = <<>>
      /\ logs' = With(logs, nextFile, NewLog)
      /\ logfile' = nextFile /\ nextFile' = nextFile + 1
      /\ imm' = <<mem>> /\ mem' = {}
      /\ scheduled' = (scheduled \/ Wanted(version, imm', bgError))
      /\ UNCHANGED <<tables, manifest, version, lastSeq, bgError, pending, flush, comp,
                     edit, mode, read, issued, committed>>
  BY DEF SwitchMemTable, MaySwitch, MakingRoom, bounds
<1>2. /\ Len(writers) \in Nat /\ Len(writers) >= 1 /\ writers # <<>> /\ writers[1] = t
  BY <1>1, JobsAre DEF AtFront, QueueInv
<1>3. 1 \in 1 .. Len(writers) /\ mode = "open" /\ Up /\ Alive
  BY <1>2 DEF QueueInv, InQueue, Up, Alive
<1>4. QueueInv' /\ Stage = "none" /\ Stage' \in {"none", "append"}
  <2>1. Stage = "none"
    BY <1>1, <1>2 DEF Stage, Foremost
  <2>2. CASE job[t].batch = {}
    <3>1. Answer(1, TRUE)
      BY <2>2 DEF SwitchMemTable
    <3> QED BY <1>1, <1>3, <2>1, <3>1, AnswerQueue
  <2>3. CASE job[t].batch # {}
    <3>1. StartGroup(t)
      BY <2>3 DEF SwitchMemTable
    <3> QED BY <1>1, <2>3, <3>1, StartQueue
  <2> QED BY <2>2, <2>3
<1>5. /\ logs \in [DOMAIN logs -> LogFile] /\ DOMAIN logs \subseteq Nat
      /\ \A m \in DOMAIN logs : logs[m].synced <= Len(logs[m].recs)
      /\ \A n \in DOMAIN logs : n <= logfile
      /\ logfile \in Nat /\ nextFile \in Nat /\ logfile < nextFile
  BY <1>3 DEF FileInv, LogsTyped, VersionsTyped, NumbersBelow
<1>6. NewLog \in LogFile /\ NewLog.synced <= Len(NewLog.recs)
  <2>1. <<>> \in Seq(SUBSET Entry) /\ Len(<<>>) = 0
    BY EmptySeq
  <2>2. NewLog.recs = <<>> /\ NewLog.synced = 0
    BY DEF NewLog
  <2>3. NewLog \in LogFile
    BY <2>1 DEF NewLog, LogFile
  <2> QED BY <2>1, <2>2, <2>3
<1>7. nextFile \notin DOMAIN logs
  BY <1>5
<1>8. /\ DOMAIN logs' = DOMAIN logs \cup {nextFile} /\ logs'[nextFile] = NewLog
      /\ \A n \in DOMAIN logs : logs'[n] = logs[n]
      /\ logs' = [n \in DOMAIN logs \cup {nextFile} |-> logs'[n]]
  BY <1>1, <1>7 DEF With
<1>9. LogsTyped'
  <2>1. \A n \in DOMAIN logs' : logs'[n] \in LogFile /\ logs'[n].synced <= Len(logs'[n].recs)
    BY <1>5, <1>6, <1>8
  <2>2. \A n \in DOMAIN logs' : n <= nextFile
    BY <1>5, <1>8
  <2>3. logs' \in [DOMAIN logs' -> LogFile]
    BY <1>8, <2>1
  <2> QED BY <1>5, <1>8, <2>1, <2>2, <2>3 DEF LogsTyped
<1>10. TablesTyped' /\ VersionsTyped'
  BY <1>1, <1>5 DEF FileInv, TablesTyped, VersionsTyped
<1>11. MemoryTyped'
  BY <1>1 DEF FileInv, MemoryTyped
<1>12. scheduled' \in BOOLEAN /\ (scheduled => scheduled')
  BY <1>1
<1>13. BackTyped'
  BY <1>1, <1>12 DEF FileInv, BackTyped
<1>14. Quiet'
  BY <1>1, <1>3 DEF FileInv, Quiet, Up
<1>15. NumbersBelow'
  <2>1. \A f \in FilesOf(manifest) \cup FilesOf(version) \cup pending \cup edit.l0 \cup edit.deep :
           f \in Nat /\ f < nextFile
    BY <1>3 DEF FileInv, NumbersBelow, VersionsTyped, BackTyped, FilesOf, Version
  <2>2. \A r \in Reader : \A f \in read[r].files : f \in Nat /\ f < nextFile
    BY <1>3 DEF FileInv, NumbersBelow, BackTyped, ReadSet
  <2>3. /\ version.log \in Nat /\ manifest.log \in Nat /\ version.log <= manifest.log
        /\ manifest.log <= logfile
    BY <1>3 DEF FileInv, NumbersBelow, VersionsTyped, Version
  <2>4. \A f \in FilesOf(manifest) : f < manifest.next
    BY DEF FileInv, NumbersBelow
  <2> QED BY <1>1, <1>3, <1>5, <1>8, <2>1, <2>2, <2>3, <2>4 DEF NumbersBelow, Alive, FilesOf
<1>16. flush.pc = "idle"
  BY <1>1 DEF FileInv, Scheduled
<1>17. Scheduled'
  BY <1>1, <1>12, <1>16 DEF FileInv, Scheduled
<1>18. Protected'
  BY <1>1 DEF FileInv, Protected, Fresh, FilesOf
<1>19. EditIs'
  BY <1>1, <1>3, <1>16 DEF FileInv, EditIs, CompactionEdit
<1>20. Outputs'
  BY <1>1, <1>16 DEF FileInv, Outputs, InTables
<1>21. InStep'
  BY <1>1 DEF FileInv, InStep, Alive, SameFiles, Applied
<1>22. Referred'
  BY <1>1 DEF FileInv, Referred, FilesOf
<1> QED BY <1>1, <1>3, <1>4, <1>7, <1>9, <1>10, <1>11, <1>13, <1>14, <1>15, <1>17, <1>18, <1>19,
           <1>20, <1>21, <1>22 DEF FileInv

-----------------------------------------------------------------------------
(* The background thread *)

LEMMA NumbersAre ==
    ASSUME FileInv, Alive
    PROVE  /\ nextFile \in Nat /\ logfile \in Nat /\ logfile < nextFile /\ nextFile # None
           /\ \A f \in FilesOf(manifest) \cup FilesOf(version) \cup pending \cup edit.l0 \cup edit.deep :
                 f \in Nat /\ f < nextFile
           /\ \A r \in Reader : \A f \in read[r].files : f \in Nat /\ f < nextFile
           /\ version.log \in Nat /\ manifest.log \in Nat
           /\ version.log <= manifest.log /\ manifest.log <= logfile
           /\ flush.file \in Nat /\ comp.file \in Nat /\ comp.inputs \subseteq Nat
           /\ \A n \in DOMAIN logs : n \in Nat /\ n <= logfile
           /\ logfile \in DOMAIN logs
           /\ \A f \in FilesOf(manifest) : f < manifest.next
<1>1. nextFile \in Nat /\ logfile \in Nat
  BY DEF FileInv, VersionsTyped
<1>2. \A f \in FilesOf(manifest) \cup FilesOf(version) \cup pending \cup edit.l0 \cup edit.deep : f \in Nat
  BY DEF FileInv, VersionsTyped, Version, FilesOf, BackTyped
<1>3. \A f \in FilesOf(manifest) \cup FilesOf(version) \cup pending \cup edit.l0 \cup edit.deep
                \cup {logfile} : f < nextFile
  BY DEF FileInv, NumbersBelow
<1>4. \A r \in Reader : \A f \in read[r].files : f \in Nat /\ f < nextFile
  BY DEF FileInv, NumbersBelow, BackTyped, ReadSet
<1>5. /\ version.log \in Nat /\ manifest.log \in Nat
      /\ version.log <= manifest.log /\ manifest.log <= logfile
  BY DEF FileInv, VersionsTyped, Version, NumbersBelow
<1>6. flush.file \in Nat /\ comp.file \in Nat /\ comp.inputs \subseteq Nat
  BY DEF FileInv, BackTyped, FlushSet, CompSet
<1>7. /\ \A n \in DOMAIN logs : n \in Nat /\ n <= logfile
      /\ logfile \in DOMAIN logs
  BY DEF FileInv, LogsTyped, NumbersBelow
<1>8. \A f \in FilesOf(manifest) : f < manifest.next
  BY DEF FileInv, NumbersBelow
<1> QED BY <1>1, <1>2, <1>3, <1>4, <1>5, <1>6, <1>7, <1>8 DEF None

LEMMA FreshNumber ==
    ASSUME FileInv, Alive
    PROVE  /\ Fresh(nextFile) /\ nextFile \notin pending /\ nextFile # comp.file
           /\ nextFile \notin comp.inputs
<1>1. Fresh(nextFile) /\ nextFile \notin pending
  BY NumbersAre DEF Fresh
<1>2. nextFile # comp.file
  BY <1>1, NumbersAre DEF FileInv, Protected
<1>3. nextFile \notin comp.inputs
  BY <1>1 DEF FileInv, Protected, Fresh
<1> QED BY <1>1, <1>2, <1>3

\* The records of the background thread, field by field.
LEMMA BackIs ==
    ASSUME FileInv
    PROVE  /\ flush = [pc |-> flush.pc, file |-> flush.file] /\ flush.file \in Nat
           /\ flush.pc \in {"idle", "building", "built", "logged"}
           /\ comp = [pc |-> comp.pc, inputs |-> comp.inputs, file |-> comp.file]
           /\ comp.inputs \in SUBSET Nat /\ comp.file \in Nat
           /\ comp.pc \in {"idle", "working", "built", "logged"}
           /\ NoFlush \in FlushSet /\ NoFlush.pc = "idle"
           /\ NoComp \in CompSet /\ NoComp.pc = "idle" /\ NoComp.inputs = {} /\ NoComp.file = None
<1>1. flush \in FlushSet /\ comp \in CompSet
  BY DEF FileInv, BackTyped
<1>2. NoFlush \in FlushSet /\ NoFlush.pc = "idle"
  BY DEF NoFlush, FlushSet, None
<1>3. NoComp \in CompSet /\ NoComp.pc = "idle" /\ NoComp.inputs = {} /\ NoComp.file = None
  <2>1. {} \in SUBSET Nat /\ 0 \in Nat
    OBVIOUS
  <2> QED BY <2>1 DEF NoComp, CompSet, None
<1> QED BY <1>1, <1>2, <1>3 DEF FlushSet, CompSet

LEMMA StartFlushFiles ==
    ASSUME FileInv, StartFlush
    PROVE  FileInv'
<1>1. /\ mode = "open" /\ imm # <<>> /\ flush.pc = "idle"
      /\ scheduled
      /\ comp.pc = "working" \/ comp.pc = "idle"
      /\ flush' = [pc |-> "building", file |-> nextFile]
      /\ pending' = pending \cup {nextFile}
      /\ nextFile' = nextFile + 1
      /\ UNCHANGED <<logs, tables, manifest, mem, imm, logfile, version, lastSeq, edit, scheduled,
                     bgError, comp, mode, read, committed>>
  <2>1. comp.pc = "working" => scheduled
    BY DEF FileInv, Scheduled
  <2> QED BY <2>1 DEF StartFlush, BackgroundIdle, disk, memory, bounds, ghosts
<1>2. Alive /\ Up
  BY <1>1 DEF Alive, Up
<1>3. /\ Fresh(nextFile) /\ nextFile \notin pending /\ nextFile # comp.file /\ nextFile \in Nat
      /\ nextFile # None
  BY <1>2, FreshNumber, NumbersAre
<1>4. flush'.pc = "building" /\ flush'.file = nextFile
  BY <1>1
<1>5. LogsTyped' /\ TablesTyped' /\ VersionsTyped' /\ MemoryTyped'
  <2>1. LogsTyped' /\ TablesTyped' /\ MemoryTyped'
    BY <1>1 DEF FileInv, LogsTyped, TablesTyped, MemoryTyped
  <2>2. nextFile' \in Nat
    BY <1>1, <1>3
  <2> QED BY <1>1, <2>1, <2>2 DEF FileInv, VersionsTyped
<1>6. BackTyped'
  <2>1. flush' \in FlushSet
    BY <1>1, <1>3 DEF FlushSet
  <2> QED BY <1>1, <1>3, <2>1 DEF FileInv, BackTyped
<1>7. Quiet'
  BY <1>1, <1>2 DEF FileInv, Quiet, Up
<1>8. NumbersBelow'
  <2>1. \A f \in FilesOf(manifest) \cup FilesOf(version) \cup pending \cup edit.l0 \cup edit.deep
                \cup {logfile} : f \in Nat /\ f < nextFile
    BY <1>2, NumbersAre
  <2>2. \A r \in Reader : \A f \in read[r].files : f \in Nat /\ f < nextFile
    BY <1>2, NumbersAre
  <2>3. nextFile \in Nat /\ nextFile' = nextFile + 1
    BY <1>1, <1>3
  <2>4. \A f \in FilesOf(manifest) \cup FilesOf(version) \cup pending' \cup edit.l0 \cup edit.deep
                \cup {logfile} : f < nextFile'
    BY <1>1, <2>1, <2>3
  <2>5. \A r \in Reader : \A f \in read[r].files : f < nextFile'
    BY <2>2, <2>3
  <2> QED BY <1>1, <1>2, <2>4, <2>5 DEF FileInv, NumbersBelow, Alive, FilesOf
<1>9. Scheduled'
  BY <1>1, <1>4 DEF FileInv, Scheduled
<1>10. Protected'
  <2>2. (Fresh(flush.file))'
    BY <1>1, <1>3, <1>4 DEF Fresh, FilesOf
  <2>3. comp.pc \in {"working", "built"} => comp.file = None \/ (Fresh(comp.file))'
    BY <1>1 DEF FileInv, Protected, Fresh, FilesOf
  <2> QED BY <1>1, <1>3, <1>4, <2>2, <2>3 DEF FileInv, Protected, FilesOf
<1>11. EditIs'
  BY <1>1, <1>4 DEF FileInv, EditIs, CompactionEdit
<1>12. Outputs'
  BY <1>1, <1>4 DEF FileInv, Outputs, InTables
<1>13. InStep'
  BY <1>1, <1>4 DEF FileInv, InStep, Alive, SameFiles, Applied
<1>14. Referred'
  BY <1>1 DEF FileInv, Referred, FilesOf
<1> QED BY <1>5, <1>6, <1>7, <1>8, <1>9, <1>10, <1>11, <1>12, <1>13, <1>14 DEF FileInv

LEMMA BuildTableFiles ==
    ASSUME FileInv, BuildTable
    PROVE  /\ FileInv'
           /\ flush.file \notin FilesOf(manifest) \cup FilesOf(version)
           /\ \A r \in Reader : flush.file \notin read[r].files
           /\ \A f \in DOMAIN tables : f # flush.file => f \in DOMAIN tables' /\ tables'[f] = tables[f]
<1>1. /\ flush.pc = "building"
      /\ tables' = IF imm[1] = {} THEN tables ELSE With(tables, flush.file, imm[1])
      /\ flush' = [flush EXCEPT !.pc = "built"]
      /\ UNCHANGED <<logs, manifest, mem, imm, logfile, version, nextFile, lastSeq, edit, scheduled,
                     bgError, pending, comp, mode, read, committed>>
  BY DEF BuildTable, memory, vset, bounds, ghosts
<1>2. Up /\ Alive
  <2>1. Up
    BY <1>1, BackIs DEF FileInv, Quiet
  <2> QED BY <2>1 DEF Up, Alive
<1>3. flush' = [pc |-> "built", file |-> flush.file] /\ flush.file \in Nat
  BY <1>1, BackIs
<1>4. flush'.pc = "built" /\ flush'.file = flush.file
  BY <1>3
<1>5. imm # <<>> /\ imm[1] \in SUBSET Entry /\ imm = <<imm[1]>>
  <2>1. imm # <<>>
    BY <1>1 DEF FileInv, Scheduled
  <2>2. PICK s \in SUBSET Entry : imm = <<s>>
    BY <2>1 DEF FileInv, MemoryTyped
  <2> QED BY <2>1, <2>2
<1>6. /\ flush.file \in pending /\ Fresh(flush.file) /\ flush.file # comp.file
      /\ flush.file \notin comp.inputs /\ flush.file # None
  BY <1>1 DEF FileInv, Protected, Fresh
<1> DEFINE f0 == flush.file
           s0 == imm[1]
<1>7. /\ DOMAIN tables \subseteq DOMAIN tables' /\ DOMAIN tables' \subseteq DOMAIN tables \cup {f0}
      /\ \A f \in DOMAIN tables : f # f0 => tables'[f] = tables[f]
      /\ s0 # {} => f0 \in DOMAIN tables' /\ tables'[f0] = s0
      /\ tables' \in [DOMAIN tables' -> SUBSET Entry]
  <2>1. tables \in [DOMAIN tables -> SUBSET Entry] /\ s0 \in SUBSET Entry
    BY <1>5 DEF FileInv, TablesTyped
  <2>2. tables' = IF s0 = {} THEN tables ELSE With(tables, f0, s0)
    BY <1>1
  <2> HIDE DEF f0, s0
  <2> QED BY <2>1, <2>2 DEF With
<1>8. LogsTyped' /\ VersionsTyped' /\ MemoryTyped'
  BY <1>1 DEF FileInv, LogsTyped, VersionsTyped, MemoryTyped
<1>9. TablesTyped'
  BY <1>3, <1>6, <1>7 DEF FileInv, TablesTyped
<1>10. BackTyped'
  <2>1. flush' \in FlushSet
    BY <1>3 DEF FlushSet
  <2> QED BY <1>1, <2>1 DEF FileInv, BackTyped
<1>11. Quiet'
  BY <1>1, <1>2 DEF FileInv, Quiet, Up
<1>12. NumbersBelow'
  BY <1>1 DEF FileInv, NumbersBelow, Alive, FilesOf
<1>13. Scheduled'
  BY <1>1, <1>4 DEF FileInv, Scheduled
<1>14. Protected'
  <2>2. (Fresh(flush.file))'
    BY <1>1, <1>4, <1>6 DEF Fresh, FilesOf
  <2>3. comp.file # None => comp.file \in DOMAIN tables'
    BY <1>7 DEF FileInv, Protected
  <2>4. comp.pc \in {"working", "built"} => comp.file = None \/ (Fresh(comp.file))'
    BY <1>1 DEF FileInv, Protected, Fresh, FilesOf
  <2> QED BY <1>1, <1>4, <1>6, <2>2, <2>3, <2>4 DEF FileInv, Protected, FilesOf
<1>15. EditIs'
  BY <1>1, <1>4 DEF FileInv, EditIs, CompactionEdit
<1>16. Outputs'
  <2>1. comp.pc \notin {"built", "logged"}
    BY <1>1 DEF FileInv, Scheduled
  <2> QED BY <1>1, <1>4, <1>7, <2>1 DEF Outputs
<1>17. InStep'
  BY <1>1, <1>4 DEF FileInv, InStep, Alive, SameFiles, Applied
<1>18. Referred'
  BY <1>1, <1>7 DEF FileInv, Referred, FilesOf
<1>19. FileInv'
  BY <1>8, <1>9, <1>10, <1>11, <1>12, <1>13, <1>14, <1>15, <1>16, <1>17, <1>18 DEF FileInv
<1> QED BY <1>6, <1>7, <1>19 DEF Fresh

\* A flush that fails leaves at most a number in the MANIFEST: that of the new
\* table, which is there.
LEMMA FlushEditIs ==
    ASSUME FileInv, flush.pc = "built" \/ flush.pc = "logged", NEW e \in FlushEdits
    PROVE  /\ e \in [del : SUBSET Nat, l0 : SUBSET Nat, deep : SUBSET Nat, log : Nat]
           /\ e.del = {} /\ e.log = logfile
           /\ e.l0 \cup e.deep = IF imm[1] = {} THEN {} ELSE {flush.file}
<1>1. /\ logfile \in Nat /\ {flush.file} \in SUBSET Nat /\ {} \in SUBSET Nat
  BY BackIs DEF FileInv, VersionsTyped
<1> DEFINE e0 == [NoEdit EXCEPT !.log = logfile]
<1>2. e0 = [del |-> {}, l0 |-> {}, deep |-> {}, log |-> logfile]
  BY DEF NoEdit
<1>3. CASE imm[1] = {}
  <2>1. e = e0
    BY <1>3 DEF FlushEdits
  <2> QED BY <1>1, <1>2, <1>3, <2>1
<1>4. CASE imm[1] # {}
  <2>1. e = [e0 EXCEPT !.l0 = {flush.file}] \/ e = [e0 EXCEPT !.deep = {flush.file}]
    BY <1>4 DEF FlushEdits
  <2>2. \/ e = [del |-> {}, l0 |-> {flush.file}, deep |-> {}, log |-> logfile]
        \/ e = [del |-> {}, l0 |-> {}, deep |-> {flush.file}, log |-> logfile]
    BY <1>2, <2>1
  <2> QED BY <1>1, <1>4, <2>2
<1> QED BY <1>3, <1>4

\* A version, or the MANIFEST, with an edit applied to it, field by field.
LEMMA AppliedIs ==
    ASSUME VersionsTyped, NEW e \in [del : SUBSET Nat, l0 : SUBSET Nat, deep : SUBSET Nat, log : Nat]
    PROVE  /\ Applied(version, e) \in Version
           /\ Applied(version, e).l0 = (version.l0 \ e.del) \cup e.l0
           /\ Applied(version, e).deep = (version.deep \ e.del) \cup e.deep
           /\ Applied(version, e).log = e.log
           /\ Logged(e) \in [l0 : SUBSET Nat, deep : SUBSET Nat, log : Nat, next : Nat, last : Nat]
           /\ Logged(e).l0 = (manifest.l0 \ e.del) \cup e.l0
           /\ Logged(e).deep = (manifest.deep \ e.del) \cup e.deep
           /\ Logged(e).log = e.log
           /\ Logged(e).next = nextFile /\ Logged(e).last = lastSeq
<1>1. /\ version = [l0 |-> version.l0, deep |-> version.deep, log |-> version.log]
      /\ version.l0 \in SUBSET Nat /\ version.deep \in SUBSET Nat
      /\ manifest = [l0 |-> manifest.l0, deep |-> manifest.deep, log |-> manifest.log,
                     next |-> manifest.next, last |-> manifest.last]
      /\ manifest.l0 \in SUBSET Nat /\ manifest.deep \in SUBSET Nat
      /\ nextFile \in Nat /\ lastSeq \in Nat
      /\ e.log \in Nat /\ e.l0 \in SUBSET Nat /\ e.deep \in SUBSET Nat
  BY DEF VersionsTyped, Version
<1> DEFINE a == (version.l0 \ e.del) \cup e.l0
           b == (version.deep \ e.del) \cup e.deep
           c == (manifest.l0 \ e.del) \cup e.l0
           d == (manifest.deep \ e.del) \cup e.deep
<1>2. a \in SUBSET Nat /\ b \in SUBSET Nat /\ c \in SUBSET Nat /\ d \in SUBSET Nat
  BY <1>1
<1>3. /\ Applied(version, e) = [version EXCEPT !.l0 = a, !.deep = b, !.log = e.log]
      /\ Applied(manifest, e) = [manifest EXCEPT !.l0 = c, !.deep = d, !.log = e.log]
  BY DEF Applied
<1> HIDE DEF a, b, c, d
<1>4. /\ Applied(version, e) = [l0 |-> a, deep |-> b, log |-> e.log]
      /\ Applied(manifest, e) = [l0 |-> c, deep |-> d, log |-> e.log, next |-> manifest.next,
                                 last |-> manifest.last]
  BY <1>1, <1>3
<1>5. Logged(e) = [l0 |-> c, deep |-> d, log |-> e.log, next |-> nextFile, last |-> lastSeq]
  <2> DEFINE r == Applied(manifest, e)
  <2>1. /\ r = [l0 |-> c, deep |-> d, log |-> e.log, next |-> manifest.next, last |-> manifest.last]
        /\ Logged(e) = [r EXCEPT !.next = nextFile, !.last = lastSeq]
    BY <1>4 DEF Logged
  <2> HIDE DEF r
  <2> QED BY <2>1
<1>6. Applied(version, e) \in Version
  BY <1>1, <1>2, <1>4 DEF Version
<1>7. Logged(e) \in [l0 : SUBSET Nat, deep : SUBSET Nat, log : Nat, next : Nat, last : Nat]
  BY <1>1, <1>2, <1>5
<1> QED BY <1>4, <1>5, <1>6, <1>7 DEF a, b, c, d

LEMMA NoEditIs ==
    /\ NoEdit \in [del : SUBSET Nat, l0 : SUBSET Nat, deep : SUBSET Nat, log : Nat]
    /\ NoEdit.del = {} /\ NoEdit.l0 = {} /\ NoEdit.deep = {} /\ NoEdit.log = 0
<1>1. {} \in SUBSET Nat /\ 0 \in Nat
  OBVIOUS
<1> QED BY <1>1 DEF NoEdit

\* A flush that fails.  The record may be in the MANIFEST all the same.
LEMMA FlushFailsFiles ==
    ASSUME FileInv, BuildTableFails \/ FlushStopped \/ LogFlushFails
    PROVE  /\ FileInv'
           /\ manifest' = manifest
              \/ (flush.pc = "built" /\ mode = "open" /\ \E e \in FlushEdits : manifest' = Logged(e))
           /\ bgError' = TRUE
<1>1. /\ flush.pc = "building" \/ flush.pc = "built"
      /\ manifest' = manifest
         \/ (flush.pc = "built" /\ mode = "open" /\ \E e \in FlushEdits : manifest' = Logged(e))
      /\ UNCHANGED <<logs, tables, mem, imm, logfile, version, nextFile, lastSeq, edit,
                     comp, mode, read, committed>>
      /\ FlushFails
  BY DEF BuildTableFails, FlushStopped, LogFlushFails, disk, memory, vset, ghosts
<1>2. /\ bgError' = TRUE /\ flush' = NoFlush /\ pending' = pending \ {flush.file}
      /\ scheduled' = (comp.pc # "idle" /\ scheduled)
  BY <1>1 DEF FlushFails
<1>3. Up /\ Alive
  <2>1. Up
    BY <1>1, BackIs DEF FileInv, Quiet
  <2> QED BY <2>1 DEF Up, Alive
<1>4. flush'.pc = "idle" /\ flush' \in FlushSet
  BY <1>2, BackIs
<1>5. flush.file # comp.file /\ flush.file \in Nat /\ comp.pc \notin {"built", "logged"}
  BY <1>1, BackIs DEF FileInv, Protected, Scheduled
<1>6. ASSUME NEW e \in FlushEdits, manifest' = Logged(e), flush.pc = "built"
      PROVE  /\ manifest' \in [l0 : SUBSET Nat, deep : SUBSET Nat, log : Nat, next : Nat, last : Nat]
             /\ manifest'.log = logfile /\ manifest'.next = nextFile
             /\ FilesOf(manifest') = FilesOf(manifest) \cup (IF imm[1] = {} THEN {} ELSE {flush.file})
  <2>1. /\ e \in [del : SUBSET Nat, l0 : SUBSET Nat, deep : SUBSET Nat, log : Nat]
        /\ e.del = {} /\ e.log = logfile
        /\ e.l0 \cup e.deep = IF imm[1] = {} THEN {} ELSE {flush.file}
    BY <1>6, FlushEditIs
  <2>2. VersionsTyped
    BY DEF FileInv
  <2> QED BY <1>6, <2>1, <2>2, AppliedIs DEF FilesOf
<1>7. /\ manifest' \in [l0 : SUBSET Nat, deep : SUBSET Nat, log : Nat, next : Nat, last : Nat]
      /\ manifest'.log = manifest.log \/ manifest'.log = logfile
      /\ manifest'.next = nextFile \/ manifest' = manifest
      /\ \A f \in FilesOf(manifest') : \/ f \in FilesOf(manifest)
                                       \/ flush.pc = "built" /\ imm[1] # {} /\ f = flush.file
  <2>1. CASE manifest' = manifest
    BY <2>1 DEF FileInv, VersionsTyped
  <2>2. CASE manifest' # manifest
    BY <1>1, <1>6, <2>2
  <2> QED BY <2>1, <2>2
<1> DEFINE m == manifest'
<1>8. LogsTyped' /\ TablesTyped' /\ MemoryTyped'
  BY <1>1 DEF FileInv, LogsTyped, TablesTyped, MemoryTyped
<1>9. VersionsTyped'
  BY <1>1, <1>7 DEF FileInv, VersionsTyped
<1>10. BackTyped'
  BY <1>1, <1>2, <1>4 DEF FileInv, BackTyped
<1>11. Quiet'
  BY <1>1, <1>3 DEF FileInv, Quiet, Up
<1>12. ASSUME NEW f \in FilesOf(manifest') PROVE f \in Nat /\ f < nextFile
  <2>1. CASE f \in FilesOf(manifest)
    BY <1>3, <2>1, NumbersAre
  <2>2. CASE flush.pc = "built" /\ f = flush.file
    BY <1>3, <2>2, NumbersAre DEF FileInv, Protected
  <2> QED BY <1>7, <2>1, <2>2
<1>13. NumbersBelow'
  <2>1. \A f \in FilesOf(manifest') : f < manifest'.next
    BY <1>7, <1>12, <1>3, NumbersAre
  <2>2. manifest'.log <= logfile /\ version.log <= manifest'.log
    BY <1>3, <1>7, NumbersAre
  <2>3. \A f \in FilesOf(version) \cup pending \cup edit.l0 \cup edit.deep \cup {logfile} : f < nextFile
    BY <1>3, NumbersAre
  <2> QED BY <1>1, <1>2, <1>3, <1>12, <2>1, <2>2, <2>3 DEF FileInv, NumbersBelow, Alive, FilesOf
<1>14. Scheduled'
  BY <1>1, <1>2, <1>4 DEF FileInv, Scheduled
<1>15. Protected'
  <2>1. ASSUME comp.pc \in {"working", "built"}, comp.file # None PROVE (Fresh(comp.file))'
    <3>1. Fresh(comp.file)
      BY <2>1 DEF FileInv, Protected
    <3>2. comp.file \notin FilesOf(manifest')
      BY <1>5, <1>7, <3>1 DEF Fresh
    <3> QED BY <1>1, <3>1, <3>2 DEF Fresh, FilesOf
  <2>2. comp.file # None => comp.file \in pending'
    BY <1>2, <1>5 DEF FileInv, Protected
  <2> QED BY <1>1, <1>4, <2>1, <2>2 DEF FileInv, Protected, FilesOf
<1>16. EditIs'
  BY <1>1, <1>4, <1>5, <1>3 DEF FileInv, EditIs, Up
<1>17. Outputs'
  BY <1>1, <1>4, <1>5 DEF FileInv, Outputs
<1>18. InStep'
  BY <1>2 DEF InStep
<1>19. Referred'
  <2>1. FilesOf(manifest') \subseteq DOMAIN tables
    BY <1>7 DEF FileInv, Referred, Outputs
  <2> QED BY <1>1, <2>1 DEF FileInv, Referred, FilesOf
<1>20. FileInv'
  BY <1>8, <1>9, <1>10, <1>11, <1>13, <1>14, <1>15, <1>16, <1>17, <1>18, <1>19 DEF FileInv
<1> QED BY <1>1, <1>2, <1>20

LEMMA LogFlushFiles ==
    ASSUME FileInv, LogFlush
    PROVE  /\ FileInv'
           /\ edit' \in FlushEdits /\ manifest' = Logged(edit')
           /\ FilesOf(manifest') = FilesOf(manifest) \cup (IF imm[1] = {} THEN {} ELSE {flush.file})
<1>1. /\ flush.pc = "built" /\ mode = "open"
      /\ edit' \in FlushEdits
      /\ manifest' = Logged(edit')
      /\ flush' = [flush EXCEPT !.pc = "logged"]
      /\ pending' = pending \ {flush.file}
      /\ UNCHANGED <<logs, tables, mem, imm, logfile, version, nextFile, lastSeq, scheduled, bgError,
                     comp, mode, read, committed>>
  BY DEF LogFlush, memory, bounds, ghosts
<1>2. Up /\ Alive
  BY <1>1 DEF Up, Alive
<1> DEFINE e == edit'
<1>3. PICK c : c = e
  OBVIOUS
<1>4. /\ c \in [del : SUBSET Nat, l0 : SUBSET Nat, deep : SUBSET Nat, log : Nat]
      /\ c.del = {} /\ c.log = logfile
      /\ c.l0 \cup c.deep = IF imm[1] = {} THEN {} ELSE {flush.file}
  BY <1>1, <1>3, FlushEditIs
<1>5. /\ Applied(version, c).l0 = version.l0 \cup c.l0
      /\ Applied(version, c).deep = version.deep \cup c.deep
      /\ Applied(version, c).log = logfile
      /\ Logged(c) \in [l0 : SUBSET Nat, deep : SUBSET Nat, log : Nat, next : Nat, last : Nat]
      /\ Logged(c).l0 = manifest.l0 \cup c.l0 /\ Logged(c).deep = manifest.deep \cup c.deep
      /\ Logged(c).log = logfile /\ Logged(c).next = nextFile
  <2>1. VersionsTyped
    BY DEF FileInv
  <2> QED BY <1>4, <2>1, AppliedIs
<1>6. edit' = c /\ manifest' = Logged(c)
  BY <1>1, <1>3
<1>7. flush' = [pc |-> "logged", file |-> flush.file] /\ flush.file \in Nat
  BY <1>1, BackIs
<1>8. flush'.pc = "logged" /\ flush'.file = flush.file
  BY <1>7
<1>9. FilesOf(manifest') = FilesOf(manifest) \cup (IF imm[1] = {} THEN {} ELSE {flush.file})
  BY <1>4, <1>5, <1>6 DEF FilesOf
<1>10. /\ flush.file # comp.file /\ comp.pc \notin {"built", "logged"} /\ flush.file \in pending
       /\ imm[1] # {} => flush.file \in DOMAIN tables
  BY <1>1 DEF FileInv, Protected, Scheduled, Outputs
<1>11. LogsTyped' /\ TablesTyped' /\ MemoryTyped'
  BY <1>1 DEF FileInv, LogsTyped, TablesTyped, MemoryTyped
<1>12. VersionsTyped'
  BY <1>1, <1>4, <1>5, <1>6 DEF FileInv, VersionsTyped
<1>13. BackTyped'
  <2>1. flush' \in FlushSet
    BY <1>7 DEF FlushSet
  <2> QED BY <1>1, <2>1 DEF FileInv, BackTyped
<1>14. Quiet'
  BY <1>1, <1>2 DEF FileInv, Quiet, Up
<1>15. NumbersBelow'
  <2>1. \A f \in FilesOf(manifest) \cup FilesOf(version) \cup pending \cup {logfile} : f < nextFile
    BY <1>2, NumbersAre
  <2>2. \A f \in FilesOf(manifest') \cup edit'.l0 \cup edit'.deep : f < nextFile
    BY <1>4, <1>6, <1>9, <1>10, <2>1
  <2>3. version.log <= logfile /\ logfile <= logfile
    BY <1>2, NumbersAre
  <2> QED BY <1>1, <1>2, <1>5, <1>6, <2>1, <2>2, <2>3 DEF FileInv, NumbersBelow, Alive, FilesOf
<1>16. Scheduled'
  BY <1>1, <1>8, <1>10 DEF FileInv, Scheduled
<1>17. Protected'
  <2>1. ASSUME comp.pc \in {"working", "built"}, comp.file # None PROVE (Fresh(comp.file))'
    <3>1. Fresh(comp.file)
      BY <2>1 DEF FileInv, Protected
    <3>2. comp.file \notin FilesOf(manifest')
      BY <1>9, <1>10, <3>1 DEF Fresh
    <3> QED BY <1>1, <3>1, <3>2 DEF Fresh, FilesOf
  <2>2. comp.file # None => comp.file \in pending'
    BY <1>1, <1>10 DEF FileInv, Protected
  <2> QED BY <1>1, <1>8, <1>10, <2>1, <2>2 DEF FileInv, Protected, FilesOf
<1>18. EditIs'
  <2>1. FlushEdits' = FlushEdits
    BY <1>1, <1>8 DEF FlushEdits
  <2> QED BY <1>1, <1>5, <1>6, <1>8, <1>10, <2>1 DEF EditIs
<1>19. Outputs'
  BY <1>1, <1>8, <1>10 DEF FileInv, Outputs
<1>20. InStep'
  <2>1. ASSUME ~ bgError PROVE SameFiles(Logged(c), Applied(version, c))
    <3>1. SameFiles(manifest, version)
      BY <1>1, <1>2, <1>10, <2>1 DEF FileInv, InStep
    <3> QED BY <1>5, <3>1 DEF SameFiles
  <2>2. Applied(version, c) = Applied(version', edit')
    BY <1>1, <1>6
  <2> QED BY <1>1, <1>6, <1>8, <2>1, <2>2 DEF InStep
<1>21. Referred'
  BY <1>1, <1>9, <1>10 DEF FileInv, Referred, FilesOf
<1> QED BY <1>1, <1>9, <1>11, <1>12, <1>13, <1>14, <1>15, <1>16, <1>17, <1>18, <1>19, <1>20, <1>21
        DEF FileInv

\* DeleteObsoleteFiles: what goes, and what stays.
LEMMA Deleted ==
    ASSUME FileInv, NEW v \in Version, NEW keep, NEW err \in BOOLEAN,
           DeleteObsoleteFiles(v, keep, err)
    PROVE  /\ LogsTyped' /\ TablesTyped'
           /\ DOMAIN logs' \subseteq DOMAIN logs /\ \A n \in DOMAIN logs' : logs'[n] = logs[n]
           /\ \A n \in DOMAIN logs : n >= v.log => n \in DOMAIN logs'
           /\ ~ err => \A n \in DOMAIN logs' : n >= v.log
           /\ DOMAIN tables' \subseteq DOMAIN tables /\ \A f \in DOMAIN tables' : tables'[f] = tables[f]
           /\ \A f \in DOMAIN tables :
                 f \in keep \cup FilesOf(v) \/ (\E r \in Reader : f \in read[r].files)
                     => f \in DOMAIN tables'
<1>1. /\ logs \in [DOMAIN logs -> LogFile] /\ DOMAIN logs \subseteq Nat
      /\ \A m \in DOMAIN logs : logs[m].synced <= Len(logs[m].recs)
      /\ \E b \in Nat : \A m \in DOMAIN logs : m <= b
      /\ DOMAIN tables \subseteq Nat \ {None} /\ tables \in [DOMAIN tables -> SUBSET Entry]
  BY DEF FileInv, LogsTyped, TablesTyped
<1>2. CASE err
  BY <1>1, <1>2 DEF DeleteObsoleteFiles, LogsTyped, TablesTyped
<1>3. CASE ~ err
  <2> DEFINE N == {m \in DOMAIN logs : m >= v.log}
             T == DOMAIN tables \cap LiveTables(v, keep)
  <2>1. logs' = [n \in N |-> logs[n]] /\ tables' = [f \in T |-> tables[f]]
    BY <1>3 DEF DeleteObsoleteFiles
  <2>2. \A f \in DOMAIN tables :
           f \in keep \cup FilesOf(v) \/ (\E r \in Reader : f \in read[r].files) => f \in T
    BY DEF LiveTables
  <2>3. N \subseteq DOMAIN logs /\ T \subseteq DOMAIN tables
    OBVIOUS
  <2>4. \A n \in N : n >= v.log
    OBVIOUS
  <2>5. \A n \in DOMAIN logs : n >= v.log => n \in N
    OBVIOUS
  <2> HIDE DEF N, T
  <2>6. /\ DOMAIN logs' = N /\ \A n \in N : logs'[n] = logs[n]
        /\ DOMAIN tables' = T /\ \A f \in T : tables'[f] = tables[f]
    BY <2>1
  <2>7. logs' \in [N -> LogFile] /\ tables' \in [T -> SUBSET Entry]
    BY <1>1, <2>1, <2>3
  <2>8. LogsTyped' /\ TablesTyped'
    BY <1>1, <2>3, <2>6, <2>7 DEF LogsTyped, TablesTyped
  <2> QED BY <2>2, <2>3, <2>4, <2>5, <2>6, <2>8
<1> QED BY <1>2, <1>3

\* The new version, the memtable gone, and the files nobody needs deleted.
LEMMA InstallFlushFiles ==
    ASSUME FileInv, InstallFlush
    PROVE  /\ FileInv'
           /\ imm # <<>> /\ imm = <<imm[1]>>
           /\ FilesOf(version') = FilesOf(version) \cup (IF imm[1] = {} THEN {} ELSE {flush.file})
           /\ imm[1] # {} => tables[flush.file] = imm[1] /\ flush.file \in DOMAIN tables
           /\ version'.log = logfile /\ manifest.log = logfile
           /\ Alive
<1>1. /\ flush.pc = "logged"
      /\ version' = Applied(version, edit)
      /\ edit' = NoEdit
      /\ imm' = <<>>
      /\ flush' = NoFlush
      /\ DeleteObsoleteFiles(version', pending \cup comp.inputs, bgError)
      /\ IF comp.pc = "idle" THEN CallEnds(version', <<>>, bgError) ELSE UNCHANGED scheduled
      /\ UNCHANGED <<manifest, mem, logfile, nextFile, lastSeq, bgError, pending, comp, mode,
                     read, committed>>
  BY DEF InstallFlush, bounds, ghosts
<1>2. Up /\ Alive
  <2>1. Up
    BY <1>1, BackIs DEF FileInv, Quiet
  <2> QED BY <2>1 DEF Up, Alive
<1>3. /\ edit \in [del : SUBSET Nat, l0 : SUBSET Nat, deep : SUBSET Nat, log : Nat]
      /\ edit.del = {} /\ edit.log = logfile /\ manifest.log = logfile
      /\ edit.l0 \cup edit.deep = IF imm[1] = {} THEN {} ELSE {flush.file}
  <2>1. edit \in FlushEdits /\ manifest.log = logfile
    BY <1>1 DEF FileInv, EditIs
  <2> QED BY <1>1, <2>1, FlushEditIs
<1>4. /\ version' \in Version
      /\ version'.l0 = version.l0 \cup edit.l0 /\ version'.deep = version.deep \cup edit.deep
      /\ version'.log = logfile
  <2>1. VersionsTyped
    BY DEF FileInv
  <2> QED BY <1>1, <1>3, <2>1, AppliedIs
<1>5. FilesOf(version') = FilesOf(version) \cup (IF imm[1] = {} THEN {} ELSE {flush.file})
  BY <1>3, <1>4 DEF FilesOf
<1>6. /\ comp.pc = "idle" \/ comp.pc = "working"
      /\ imm[1] # {} => tables[flush.file] = imm[1] /\ flush.file \in DOMAIN tables
      /\ flush.file # comp.file
  BY <1>1, BackIs DEF FileInv, Scheduled, Outputs, Protected
<1>7. imm # <<>> /\ imm = <<imm[1]>>
  <2>1. imm # <<>>
    BY <1>1 DEF FileInv, Scheduled
  <2>2. PICK s \in SUBSET Entry : imm = <<s>>
    BY <2>1 DEF FileInv, MemoryTyped
  <2> QED BY <2>1, <2>2
<1> DEFINE keep == pending \cup comp.inputs
<1>8. PICK v : v = version'
  OBVIOUS
<1>9. bgError \in BOOLEAN /\ v \in Version /\ DeleteObsoleteFiles(v, keep, bgError)
  BY <1>1, <1>4, <1>8 DEF FileInv, BackTyped
<1>10. /\ LogsTyped' /\ TablesTyped'
       /\ DOMAIN logs' \subseteq DOMAIN logs /\ \A n \in DOMAIN logs' : logs'[n] = logs[n]
       /\ \A n \in DOMAIN logs : n >= v.log => n \in DOMAIN logs'
       /\ DOMAIN tables' \subseteq DOMAIN tables /\ \A f \in DOMAIN tables' : tables'[f] = tables[f]
       /\ \A f \in DOMAIN tables :
             f \in keep \cup FilesOf(v) \/ (\E r \in Reader : f \in read[r].files)
                     => f \in DOMAIN tables'
  <2> HIDE DEF keep
  <2> QED BY <1>9, Deleted
<1>11. FilesOf(version') \subseteq DOMAIN tables'
  <2>1. FilesOf(version') \subseteq DOMAIN tables
    BY <1>5, <1>6 DEF FileInv, Referred
  <2> QED BY <1>8, <1>10, <2>1
<1>12. FilesOf(manifest) \subseteq DOMAIN tables'
  <2>1. FilesOf(manifest) \subseteq DOMAIN tables
    BY DEF FileInv, Referred
  <2>2. CASE bgError
    <3>1. tables' = tables
      BY <1>1, <2>2 DEF DeleteObsoleteFiles
    <3> QED BY <2>1, <3>1
  <2>3. CASE ~ bgError
    <3>1. SameFiles(manifest, Applied(version, edit))
      BY <1>1, <1>2, <2>3 DEF FileInv, InStep
    <3>2. FilesOf(manifest) = FilesOf(version')
      BY <1>1, <3>1 DEF SameFiles, FilesOf
    <3> QED BY <1>11, <3>2
  <2> QED BY <2>2, <2>3
<1>13. \A r \in Reader : read[r].files \subseteq DOMAIN tables'
  BY <1>10 DEF FileInv, Referred
<1>14. scheduled' \in BOOLEAN /\ (comp.pc # "idle" => scheduled')
  <2>1. CASE comp.pc = "idle"
    <3>1. scheduled' = Wanted(version', <<>>, bgError)
      BY <1>1, <2>1 DEF CallEnds
    <3>2. Wanted(version', <<>>, bgError) \in BOOLEAN
      BY DEF Wanted
    <3> QED BY <2>1, <3>1, <3>2
  <2>2. CASE comp.pc # "idle"
    BY <1>1, <2>2 DEF FileInv, Scheduled, BackTyped
  <2> QED BY <2>1, <2>2
<1>15. VersionsTyped'
  <2>1. NoEdit \in [del : SUBSET Nat, l0 : SUBSET Nat, deep : SUBSET Nat, log : Nat]
    BY NoEditIs
  <2> QED BY <1>1, <1>4, <2>1 DEF FileInv, VersionsTyped
<1>16. MemoryTyped'
  BY <1>1 DEF FileInv, MemoryTyped
<1>17. BackTyped'
  BY <1>1, <1>14, BackIs DEF FileInv, BackTyped
<1>18. Quiet'
  BY <1>1, <1>2 DEF FileInv, Quiet, Up
<1>19. NumbersBelow'
  <2>1. \A f \in FilesOf(manifest) \cup FilesOf(version) \cup pending \cup edit.l0 \cup edit.deep
            \cup {logfile} : f < nextFile
    BY <1>2, NumbersAre
  <2>2. \A f \in FilesOf(version') : f < nextFile
    BY <1>3, <1>5, <2>1
  <2>3. logfile \in Nat /\ logfile \in DOMAIN logs /\ \A n \in DOMAIN logs : n <= logfile
    BY <1>2, NumbersAre
  <2>4. logfile \in DOMAIN logs' /\ \A n \in DOMAIN logs' : n <= logfile
    BY <1>4, <1>8, <1>10, <2>3
  <2>5. logfile <= logfile
    BY <2>3
  <2> QED BY <1>1, <1>2, <1>3, <1>4, <2>1, <2>2, <2>4, <2>5, NoEditIs
          DEF FileInv, NumbersBelow, Alive, FilesOf
<1>20. Scheduled'
  BY <1>1, <1>6, <1>14, BackIs DEF FileInv, Scheduled
<1>21. Protected'
  <2>1. ASSUME comp.pc \in {"working", "built"}, comp.file # None PROVE (Fresh(comp.file))'
    <3>1. Fresh(comp.file)
      BY <2>1 DEF FileInv, Protected
    <3>2. comp.file \notin FilesOf(version')
      BY <1>5, <1>6, <3>1 DEF Fresh
    <3> QED BY <1>1, <3>1, <3>2 DEF Fresh, FilesOf
  <2>2. comp.file # None => comp.file \in pending /\ comp.file \in DOMAIN tables'
    BY <1>10 DEF FileInv, Protected
  <2>3. comp.inputs \subseteq FilesOf(version')
    BY <1>5 DEF FileInv, Protected
  <2> QED BY <1>1, <2>1, <2>2, <2>3, BackIs DEF FileInv, Protected, FilesOf
<1>22. EditIs'
  BY <1>1, <1>2, <1>6, BackIs DEF EditIs, Up
<1>23. Outputs'
  BY <1>1, <1>6, BackIs DEF Outputs
<1>24. InStep'
  BY <1>1, <1>2, <1>6, BackIs DEF FileInv, InStep
<1>25. Referred'
  BY <1>1, <1>2, <1>11, <1>12, <1>13 DEF Referred, FilesOf, Up
<1> QED BY <1>2, <1>3, <1>4, <1>5, <1>6, <1>7, <1>10, <1>15, <1>16, <1>17, <1>18, <1>19, <1>20, <1>21,
           <1>22, <1>23, <1>24, <1>25 DEF FileInv

LEMMA PickFiles ==
    ASSUME FileInv, NEW inputs \in SUBSET FilesOf(version), PickCompaction(inputs)
    PROVE  FileInv'
<1>1. /\ mode = "open" /\ scheduled /\ flush.pc = "idle" /\ comp.pc = "idle" /\ imm = <<>>
      /\ \/ comp' = [pc |-> "working", inputs |-> inputs, file |-> None]
         \/ comp' = [pc |-> "built", inputs |-> inputs, file |-> None]
      /\ UNCHANGED <<logs, tables, manifest, mem, imm, logfile, version, nextFile, lastSeq, edit,
                     scheduled, bgError, pending, flush, mode, read, committed>>
  BY DEF PickCompaction, BackgroundIdle, disk, memory, vset, bounds, ghosts
<1>2. Up /\ Alive
  BY <1>1 DEF Up, Alive
<1>3. inputs \in SUBSET Nat
  BY <1>2, NumbersAre
<1>4. /\ comp' \in CompSet /\ comp'.pc \in {"working", "built"} /\ comp'.inputs = inputs
      /\ comp'.file = None
  <2>1. None \in Nat
    BY DEF None
  <2>2. PICK pc \in {"working", "built"} : comp' = [pc |-> pc, inputs |-> inputs, file |-> None]
    BY <1>1
  <2> QED BY <1>3, <2>1, <2>2 DEF CompSet
<1>5. LogsTyped' /\ TablesTyped' /\ VersionsTyped' /\ MemoryTyped'
  BY <1>1 DEF FileInv, LogsTyped, TablesTyped, VersionsTyped, MemoryTyped
<1>6. BackTyped'
  BY <1>1, <1>4 DEF FileInv, BackTyped
<1>7. Quiet'
  BY <1>1, <1>2 DEF FileInv, Quiet, Up
<1>8. NumbersBelow'
  BY <1>1 DEF FileInv, NumbersBelow, Alive, FilesOf
<1>9. Scheduled'
  BY <1>1, <1>4 DEF FileInv, Scheduled
<1>10. Protected'
  BY <1>1, <1>4 DEF Protected, FilesOf
<1>11. EditIs'
  BY <1>1, <1>4 DEF FileInv, EditIs
<1>12. Outputs'
  BY <1>1, <1>4 DEF FileInv, Outputs
<1>13. InStep'
  BY <1>1, <1>2, <1>4 DEF FileInv, InStep, Alive, SameFiles
<1>14. Referred'
  BY <1>1 DEF FileInv, Referred, FilesOf
<1> QED BY <1>5, <1>6, <1>7, <1>8, <1>9, <1>10, <1>11, <1>12, <1>13, <1>14 DEF FileInv

LEMMA NothingFiles ==
    ASSUME FileInv, NothingToDo
    PROVE  FileInv'
<1>1. /\ mode \in {"open", "closing"} /\ flush.pc = "idle" /\ comp.pc = "idle"
      /\ scheduled' = Wanted(version, imm, bgError)
      /\ UNCHANGED <<logs, tables, manifest, mem, imm, logfile, version, nextFile, lastSeq, edit,
                     bgError, pending, flush, comp, mode, read, committed>>
  BY DEF NothingToDo, BackgroundIdle, CallEnds, disk, memory, vset, bounds, ghosts
<1>2. Up /\ scheduled' \in BOOLEAN
  <2>1. Wanted(version, imm, bgError) \in BOOLEAN
    BY DEF Wanted
  <2> QED BY <1>1, <2>1 DEF Up
<1>3. LogsTyped' /\ TablesTyped' /\ VersionsTyped' /\ MemoryTyped'
  BY <1>1 DEF FileInv, LogsTyped, TablesTyped, VersionsTyped, MemoryTyped
<1>4. BackTyped'
  BY <1>1, <1>2 DEF FileInv, BackTyped
<1>5. Quiet'
  BY <1>1, <1>2 DEF FileInv, Quiet, Up
<1>6. NumbersBelow' /\ Protected' /\ Referred'
  BY <1>1 DEF FileInv, NumbersBelow, Alive, FilesOf, Protected, Fresh, Referred
<1>7. Scheduled' /\ EditIs' /\ Outputs'
  BY <1>1 DEF FileInv, Scheduled, EditIs, Outputs
<1>8. InStep'
  BY <1>1 DEF FileInv, InStep, Alive, SameFiles, Applied
<1> QED BY <1>3, <1>4, <1>5, <1>6, <1>7, <1>8 DEF FileInv

LEMMA OpenOutputFiles ==
    ASSUME FileInv, OpenCompactionOutputFile
    PROVE  /\ FileInv' /\ Fresh(nextFile)
           /\ \A f \in DOMAIN tables : f # nextFile => f \in DOMAIN tables' /\ tables'[f] = tables[f]
<1>1. /\ mode = "open" /\ flush.pc = "idle" /\ comp.pc = "working" /\ comp.file = None
      /\ comp' = [comp EXCEPT !.file = nextFile]
      /\ pending' = pending \cup {nextFile}
      /\ nextFile' = nextFile + 1
      /\ tables' = With(tables, nextFile, {})
      /\ UNCHANGED <<logs, manifest, mem, imm, logfile, version, lastSeq, edit, scheduled, bgError,
                     flush, mode, read, committed>>
  BY DEF OpenCompactionOutputFile, memory, bounds, ghosts
<1>2. Up /\ Alive
  BY <1>1 DEF Up, Alive
<1>3. /\ Fresh(nextFile) /\ nextFile \notin pending /\ nextFile \in Nat /\ nextFile # None
      /\ nextFile \notin comp.inputs
  BY <1>2, FreshNumber, NumbersAre
<1>4. comp' = [pc |-> "working", inputs |-> comp.inputs, file |-> nextFile]
  <2>1. comp = [pc |-> comp.pc, inputs |-> comp.inputs, file |-> comp.file]
    BY BackIs
  <2> QED BY <1>1, <2>1
<1>5. comp'.pc = "working" /\ comp'.inputs = comp.inputs /\ comp'.file = nextFile
  BY <1>4
<1>6. /\ DOMAIN tables' = DOMAIN tables \cup {nextFile}
      /\ \A f \in DOMAIN tables : f # nextFile => tables'[f] = tables[f]
      /\ tables' \in [DOMAIN tables' -> SUBSET Entry]
  <2>1. tables \in [DOMAIN tables -> SUBSET Entry] /\ {} \in SUBSET Entry
    BY DEF FileInv, TablesTyped
  <2> QED BY <1>1, <2>1 DEF With
<1>7. LogsTyped' /\ MemoryTyped'
  BY <1>1 DEF FileInv, LogsTyped, MemoryTyped
<1>8. TablesTyped'
  BY <1>3, <1>6 DEF FileInv, TablesTyped
<1>9. VersionsTyped'
  <2>1. nextFile' \in Nat
    BY <1>1, <1>3
  <2> QED BY <1>1, <2>1 DEF FileInv, VersionsTyped
<1>10. BackTyped'
  <2>1. comp' \in CompSet
    BY <1>3, <1>4, BackIs DEF CompSet
  <2> QED BY <1>1, <1>3, <2>1 DEF FileInv, BackTyped
<1>11. Quiet'
  BY <1>1, <1>2 DEF FileInv, Quiet, Up
<1>12. NumbersBelow'
  <2>1. \A f \in FilesOf(manifest) \cup FilesOf(version) \cup pending \cup edit.l0 \cup edit.deep
                \cup {logfile} : f \in Nat /\ f < nextFile
    BY <1>2, NumbersAre
  <2>2. \A r \in Reader : \A f \in read[r].files : f \in Nat /\ f < nextFile
    BY <1>2, NumbersAre
  <2>3. nextFile \in Nat /\ nextFile' = nextFile + 1
    BY <1>1, <1>3
  <2>4. \A f \in FilesOf(manifest) \cup FilesOf(version) \cup pending' \cup edit.l0 \cup edit.deep
                \cup {logfile} : f < nextFile'
    BY <1>1, <2>1, <2>3
  <2>5. \A r \in Reader : \A f \in read[r].files : f < nextFile'
    BY <2>2, <2>3
  <2> QED BY <1>1, <1>2, <2>4, <2>5 DEF FileInv, NumbersBelow, Alive, FilesOf
<1>13. Scheduled'
  BY <1>1, <1>5 DEF FileInv, Scheduled
<1>14. Protected'
  <2>1. (Fresh(comp.file))'
    BY <1>1, <1>3, <1>5 DEF Fresh, FilesOf
  <2> QED BY <1>1, <1>3, <1>5, <1>6, <2>1 DEF FileInv, Protected, FilesOf
<1>15. EditIs'
  BY <1>1, <1>5 DEF FileInv, EditIs
<1>16. Outputs'
  BY <1>1, <1>5 DEF FileInv, Outputs
<1>17. InStep'
  BY <1>1, <1>5 DEF FileInv, InStep, Alive, SameFiles
<1>18. Referred'
  BY <1>1, <1>6 DEF FileInv, Referred, FilesOf
<1> QED BY <1>3, <1>6, <1>7, <1>8, <1>9, <1>10, <1>11, <1>12, <1>13, <1>14, <1>15, <1>16, <1>17,
           <1>18 DEF FileInv

LEMMA FinishOutputFiles ==
    ASSUME FileInv, FinishCompactionOutputFile
    PROVE  /\ FileInv'
           /\ Fresh(comp.file)
           /\ DOMAIN tables' = DOMAIN tables
           /\ \A f \in DOMAIN tables : f # comp.file => tables'[f] = tables[f]
<1>1. /\ mode = "open" /\ flush.pc = "idle" /\ comp.pc = "working" /\ comp.file \in DOMAIN tables
      /\ tables' = [tables EXCEPT ![comp.file] = InTables(comp.inputs)]
      /\ comp' = [comp EXCEPT !.pc = "built"]
      /\ UNCHANGED <<logs, manifest, mem, imm, logfile, version, nextFile, lastSeq, edit, scheduled,
                     bgError, pending, flush, mode, read, committed>>
  BY DEF FinishCompactionOutputFile, memory, vset, bounds, ghosts
<1>2. Up /\ Alive
  BY <1>1 DEF Up, Alive
<1>3. comp' = [pc |-> "built", inputs |-> comp.inputs, file |-> comp.file]
  <2>1. comp = [pc |-> comp.pc, inputs |-> comp.inputs, file |-> comp.file]
    BY BackIs
  <2> QED BY <1>1, <2>1
<1>4. comp'.pc = "built" /\ comp'.inputs = comp.inputs /\ comp'.file = comp.file
  BY <1>3
<1>5. comp.file # None /\ Fresh(comp.file)
  <2>1. comp.file # None
    BY <1>1 DEF FileInv, TablesTyped
  <2> QED BY <1>1, <2>1 DEF FileInv, Protected
<1>6. comp.file \notin comp.inputs
  BY <1>5 DEF FileInv, Protected, Fresh
<1> DEFINE all == InTables(comp.inputs)
           f0 == comp.file
<1>7. tables \in [DOMAIN tables -> SUBSET Entry] /\ all \in SUBSET Entry
  <2>1. tables \in [DOMAIN tables -> SUBSET Entry]
    BY DEF FileInv, TablesTyped
  <2> QED BY <2>1 DEF InTables
<1>8. /\ DOMAIN tables' = DOMAIN tables
      /\ \A f \in DOMAIN tables : f # f0 => tables'[f] = tables[f]
      /\ tables'[f0] = all
      /\ tables' \in [DOMAIN tables' -> SUBSET Entry]
  <2>1. tables' = [tables EXCEPT ![f0] = all] /\ f0 \in DOMAIN tables
    BY <1>1
  <2> HIDE DEF all, f0
  <2> QED BY <1>7, <2>1
<1>9. (InTables(comp.inputs))' = all
  BY <1>4, <1>6, <1>8 DEF InTables
<1>10. LogsTyped' /\ MemoryTyped' /\ VersionsTyped'
  BY <1>1 DEF FileInv, LogsTyped, MemoryTyped, VersionsTyped
<1>11. TablesTyped'
  BY <1>8 DEF FileInv, TablesTyped
<1>12. BackTyped'
  <2>1. comp' \in CompSet
    BY <1>3, BackIs DEF CompSet
  <2> QED BY <1>1, <2>1 DEF FileInv, BackTyped
<1>13. Quiet'
  BY <1>1, <1>2 DEF FileInv, Quiet, Up
<1>14. NumbersBelow'
  BY <1>1 DEF FileInv, NumbersBelow, Alive, FilesOf
<1>15. Scheduled'
  BY <1>1, <1>4 DEF FileInv, Scheduled
<1>16. Protected'
  <2>1. (Fresh(comp.file))'
    BY <1>1, <1>4, <1>5 DEF Fresh, FilesOf
  <2> QED BY <1>1, <1>4, <1>8, <2>1 DEF FileInv, Protected, FilesOf
<1>17. EditIs'
  BY <1>1, <1>4 DEF FileInv, EditIs
<1>18. Outputs'
  BY <1>1, <1>4, <1>8, <1>9 DEF Outputs
<1>19. InStep'
  BY <1>1, <1>4 DEF FileInv, InStep, Alive, SameFiles
<1>20. Referred'
  BY <1>1, <1>8 DEF FileInv, Referred, FilesOf
<1> QED BY <1>5, <1>8, <1>10, <1>11, <1>12, <1>13, <1>14, <1>15, <1>16, <1>17, <1>18, <1>19, <1>20
        DEF FileInv

LEMMA CompactionEditIs ==
    ASSUME FileInv
    PROVE  /\ CompactionEdit \in [del : SUBSET Nat, l0 : SUBSET Nat, deep : SUBSET Nat, log : Nat]
           /\ CompactionEdit.del = comp.inputs /\ CompactionEdit.l0 = {}
           /\ CompactionEdit.log = version.log
           /\ CompactionEdit.deep = IF comp.file = None THEN comp.inputs ELSE {comp.file}
<1>1. /\ comp.inputs \in SUBSET Nat /\ {comp.file} \in SUBSET Nat /\ {} \in SUBSET Nat
      /\ version.log \in Nat
  BY BackIs DEF FileInv, VersionsTyped, Version
<1> DEFINE d == IF comp.file = None THEN comp.inputs ELSE {comp.file}
<1>2. d \in SUBSET Nat /\ CompactionEdit = [del |-> comp.inputs, l0 |-> {}, log |-> version.log, deep |-> d]
  BY <1>1 DEF CompactionEdit
<1> HIDE DEF d
<1>3. CompactionEdit.deep = d
  BY <1>2
<1> QED BY <1>1, <1>2, <1>3 DEF d

\* What LogAndApply makes of the MANIFEST for a compaction: it names what was
\* named, but for the inputs, and the output.
LEMMA CompactionLogged ==
    ASSUME FileInv, Alive, comp.pc \in {"built", "logged"}, NEW m, m = Logged(CompactionEdit)
    PROVE  /\ m \in [l0 : SUBSET Nat, deep : SUBSET Nat, log : Nat, next : Nat, last : Nat]
           /\ m.log = version.log /\ m.next = nextFile /\ m.last = lastSeq
           /\ FilesOf(m) = (FilesOf(manifest) \ comp.inputs)
                           \cup (IF comp.file = None THEN comp.inputs ELSE {comp.file})
           /\ FilesOf(m) \subseteq DOMAIN tables /\ \A f \in FilesOf(m) : f < nextFile
           /\ SameFiles(manifest, version) => SameFiles(m, Applied(version, CompactionEdit))
<1> DEFINE e == CompactionEdit
           d == IF comp.file = None THEN comp.inputs ELSE {comp.file}
<1>1. /\ e \in [del : SUBSET Nat, l0 : SUBSET Nat, deep : SUBSET Nat, log : Nat]
      /\ e.del = comp.inputs /\ e.l0 = {} /\ e.log = version.log /\ e.deep = d
  BY CompactionEditIs
<1>2. VersionsTyped
  BY DEF FileInv
<1> HIDE DEF e, d
<1>3. /\ m \in [l0 : SUBSET Nat, deep : SUBSET Nat, log : Nat, next : Nat, last : Nat]
      /\ m.log = version.log /\ m.next = nextFile /\ m.last = lastSeq
      /\ m.l0 = manifest.l0 \ comp.inputs /\ m.deep = (manifest.deep \ comp.inputs) \cup d
      /\ Applied(version, e).l0 = version.l0 \ comp.inputs
      /\ Applied(version, e).deep = (version.deep \ comp.inputs) \cup d
      /\ Applied(version, e).log = version.log
  <2>1. m = Logged(e)
    BY DEF e
  <2> QED BY <1>1, <1>2, <2>1, AppliedIs
<1>4. FilesOf(m) = (FilesOf(manifest) \ comp.inputs) \cup d
  BY <1>3 DEF FilesOf
<1>5. \A f \in d : f \in DOMAIN tables /\ f < nextFile
  <2>1. comp.inputs \subseteq FilesOf(version) /\ FilesOf(version) \subseteq DOMAIN tables
    BY DEF FileInv, Protected, Referred
  <2>2. comp.file # None => comp.file \in pending /\ comp.file \in DOMAIN tables
    BY DEF FileInv, Protected
  <2> QED BY <2>1, <2>2, NumbersAre DEF d
<1>6. \A f \in FilesOf(manifest) : f \in DOMAIN tables /\ f < nextFile
  BY NumbersAre DEF FileInv, Referred
<1>7. SameFiles(manifest, version) => SameFiles(m, Applied(version, e))
  BY <1>3 DEF SameFiles
<1> QED BY <1>3, <1>4, <1>5, <1>6, <1>7 DEF d, e

LEMMA LogCompactionFiles ==
    ASSUME FileInv, LogCompaction
    PROVE  /\ FileInv' /\ Alive
           /\ FilesOf(manifest') = (FilesOf(manifest) \ comp.inputs)
                           \cup (IF comp.file = None THEN comp.inputs ELSE {comp.file})
           /\ manifest'.log = version.log
<1>1. /\ comp.pc = "built"
      /\ edit' = CompactionEdit /\ manifest' = Logged(CompactionEdit)
      /\ comp' = [comp EXCEPT !.pc = "logged"]
      /\ UNCHANGED <<logs, tables, mem, imm, logfile, version, nextFile, lastSeq, scheduled, bgError,
                     pending, flush, mode, read, committed>>
  BY DEF LogCompaction, memory, bounds, ghosts
<1>2. Up /\ Alive
  <2>1. Up
    BY <1>1, BackIs DEF FileInv, Quiet
  <2> QED BY <2>1 DEF Up, Alive
<1>3. PICK m : m = manifest'
  OBVIOUS
<1>4. /\ m \in [l0 : SUBSET Nat, deep : SUBSET Nat, log : Nat, next : Nat, last : Nat]
      /\ m.log = version.log /\ m.next = nextFile
      /\ FilesOf(m) = (FilesOf(manifest) \ comp.inputs)
                      \cup (IF comp.file = None THEN comp.inputs ELSE {comp.file})
      /\ FilesOf(m) \subseteq DOMAIN tables /\ \A f \in FilesOf(m) : f < nextFile
      /\ SameFiles(manifest, version) => SameFiles(m, Applied(version, CompactionEdit))
  BY <1>1, <1>2, <1>3, CompactionLogged
<1>5. comp' = [pc |-> "logged", inputs |-> comp.inputs, file |-> comp.file]
  <2>1. comp = [pc |-> comp.pc, inputs |-> comp.inputs, file |-> comp.file]
    BY BackIs
  <2> QED BY <1>1, <2>1
<1>6. comp'.pc = "logged" /\ comp'.inputs = comp.inputs /\ comp'.file = comp.file
  BY <1>5
<1>7. flush.pc = "idle"
  BY <1>1 DEF FileInv, Scheduled
<1>8. /\ CompactionEdit \in [del : SUBSET Nat, l0 : SUBSET Nat, deep : SUBSET Nat, log : Nat]
      /\ CompactionEdit.l0 = {}
      /\ CompactionEdit.deep = IF comp.file = None THEN comp.inputs ELSE {comp.file}
  BY CompactionEditIs
<1>9. LogsTyped' /\ TablesTyped' /\ MemoryTyped'
  BY <1>1 DEF FileInv, LogsTyped, TablesTyped, MemoryTyped
<1>10. VersionsTyped'
  BY <1>1, <1>3, <1>4, <1>8 DEF FileInv, VersionsTyped
<1>11. BackTyped'
  <2>1. comp' \in CompSet
    BY <1>5, BackIs DEF CompSet
  <2> QED BY <1>1, <2>1 DEF FileInv, BackTyped
<1>12. Quiet'
  BY <1>1, <1>2 DEF FileInv, Quiet, Up
<1>13. NumbersBelow'
  <2>1. \A f \in FilesOf(version) \cup pending \cup {logfile} : f < nextFile
    BY <1>2, NumbersAre
  <2>2. \A f \in edit'.l0 \cup edit'.deep : f < nextFile
    BY <1>1, <1>8, <2>1 DEF FileInv, Protected
  <2>3. version.log <= version.log /\ version.log <= logfile
    BY <1>2, NumbersAre
  <2> QED BY <1>1, <1>2, <1>3, <1>4, <2>1, <2>2, <2>3 DEF FileInv, NumbersBelow, Alive, FilesOf
<1>14. Scheduled'
  BY <1>1, <1>6, <1>7 DEF FileInv, Scheduled
<1>15. Protected'
  BY <1>1, <1>6, <1>7 DEF FileInv, Protected, FilesOf
<1>16. EditIs'
  <2>1. CompactionEdit' = CompactionEdit
    BY <1>1, <1>6 DEF CompactionEdit
  <2> QED BY <1>1, <1>2, <1>6, <1>7, <2>1 DEF EditIs, FileInv, Up
<1>17. Outputs'
  <2>1. (InTables(comp.inputs))' = InTables(comp.inputs)
    BY <1>1, <1>6 DEF InTables
  <2> QED BY <1>1, <1>6, <1>7, <2>1 DEF FileInv, Outputs
<1>18. InStep'
  <2>1. (Applied(version, edit))' = Applied(version, CompactionEdit)
    BY <1>1
  <2>2. ~ bgError => SameFiles(manifest, version)
    BY <1>1, <1>2, <1>7 DEF FileInv, InStep
  <2> QED BY <1>1, <1>3, <1>4, <1>6, <2>1, <2>2 DEF InStep
<1>19. Referred'
  BY <1>1, <1>2, <1>3, <1>4 DEF FileInv, Referred, FilesOf, Up
<1> QED BY <1>2, <1>3, <1>4, <1>9, <1>10, <1>11, <1>12, <1>13, <1>14, <1>15, <1>16, <1>17, <1>18,
           <1>19 DEF FileInv

\* CleanupCompaction, and the inputs deleted.
LEMMA InstallCompactionFiles ==
    ASSUME FileInv, InstallCompaction
    PROVE  /\ FileInv' /\ Alive
           /\ FilesOf(version') = (FilesOf(version) \ comp.inputs)
                           \cup (IF comp.file = None THEN comp.inputs ELSE {comp.file})
           /\ version'.log = version.log
<1>1. /\ comp.pc = "logged"
      /\ version' = Applied(version, edit)
      /\ edit' = NoEdit
      /\ comp' = NoComp
      /\ pending' = pending \ {comp.file}
      /\ IF comp.file = None THEN UNCHANGED <<logs, tables>>
         ELSE DeleteObsoleteFiles(version', pending', bgError)
      /\ scheduled' = Wanted(version', imm, bgError)
      /\ UNCHANGED <<manifest, mem, imm, logfile, nextFile, lastSeq, bgError, flush, mode, read,
                     committed>>
  BY DEF InstallCompaction, CallEnds, memory, bounds, ghosts
<1>2. Up /\ Alive
  <2>1. Up
    BY <1>1, BackIs DEF FileInv, Quiet
  <2> QED BY <2>1 DEF Up, Alive
<1>3. flush.pc = "idle" /\ edit = CompactionEdit
  BY <1>1 DEF FileInv, Scheduled, EditIs
<1> DEFINE d == IF comp.file = None THEN comp.inputs ELSE {comp.file}
<1>4. /\ version' \in Version /\ version'.log = version.log
      /\ version'.l0 = version.l0 \ comp.inputs
      /\ version'.deep = (version.deep \ comp.inputs) \cup d
  <2>1. VersionsTyped
    BY DEF FileInv
  <2>2. /\ edit \in [del : SUBSET Nat, l0 : SUBSET Nat, deep : SUBSET Nat, log : Nat]
        /\ edit.del = comp.inputs /\ edit.l0 = {} /\ edit.log = version.log /\ edit.deep = d
    BY <1>3, CompactionEditIs
  <2> HIDE DEF d
  <2> QED BY <1>1, <2>1, <2>2, AppliedIs
<1>5. FilesOf(version') = (FilesOf(version) \ comp.inputs) \cup d
  BY <1>4 DEF FilesOf
<1>6. PICK v : v = version'
  OBVIOUS
<1>7. /\ LogsTyped' /\ TablesTyped'
      /\ DOMAIN logs' \subseteq DOMAIN logs
      /\ \A n \in DOMAIN logs : n >= v.log => n \in DOMAIN logs'
      /\ DOMAIN tables' \subseteq DOMAIN tables
      /\ \A f \in DOMAIN tables : f \in FilesOf(v) \/ (\E r \in Reader : f \in read[r].files)
                                      => f \in DOMAIN tables'
  <2>1. CASE comp.file = None
    BY <1>1, <2>1 DEF FileInv, LogsTyped, TablesTyped
  <2>2. CASE comp.file # None
    <3>1. PICK keep : keep = pending'
      OBVIOUS
    <3>2. bgError \in BOOLEAN /\ v \in Version /\ DeleteObsoleteFiles(v, keep, bgError)
      BY <1>1, <1>4, <1>6, <2>2, <3>1 DEF FileInv, BackTyped
    <3> QED BY <3>2, Deleted
  <2> QED BY <2>1, <2>2
<1>8. FilesOf(version') \subseteq DOMAIN tables'
  <2>1. comp.inputs \subseteq FilesOf(version) /\ FilesOf(version) \subseteq DOMAIN tables
    BY DEF FileInv, Protected, Referred
  <2>2. comp.file # None => comp.file \in DOMAIN tables
    BY DEF FileInv, Protected
  <2>3. FilesOf(version') \subseteq DOMAIN tables
    BY <1>5, <2>1, <2>2
  <2> QED BY <1>6, <1>7, <2>3
<1>9. FilesOf(manifest) \subseteq DOMAIN tables'
  <2>1. FilesOf(manifest) \subseteq DOMAIN tables
    BY DEF FileInv, Referred
  <2>2. CASE bgError \/ comp.file = None
    <3>1. tables' = tables
      BY <1>1, <2>2 DEF DeleteObsoleteFiles
    <3> QED BY <2>1, <3>1
  <2>3. CASE ~ bgError
    <3>1. SameFiles(manifest, Applied(version, edit))
      BY <1>1, <1>2, <2>3 DEF FileInv, InStep
    <3>2. FilesOf(manifest) = FilesOf(version')
      BY <1>1, <3>1 DEF SameFiles, FilesOf
    <3> QED BY <1>8, <3>2
  <2> QED BY <2>2, <2>3
<1>10. \A r \in Reader : read[r].files \subseteq DOMAIN tables'
  BY <1>7 DEF FileInv, Referred
<1>11. scheduled' \in BOOLEAN
  <2>1. Wanted(version', imm, bgError) \in BOOLEAN
    BY DEF Wanted
  <2> QED BY <1>1, <2>1
<1>12. VersionsTyped'
  <2>1. NoEdit \in [del : SUBSET Nat, l0 : SUBSET Nat, deep : SUBSET Nat, log : Nat]
    BY NoEditIs
  <2> QED BY <1>1, <1>4, <2>1 DEF FileInv, VersionsTyped
<1>13. MemoryTyped'
  BY <1>1 DEF FileInv, MemoryTyped
<1>14. BackTyped'
  BY <1>1, <1>11, BackIs DEF FileInv, BackTyped
<1>15. Quiet'
  BY <1>1, <1>2 DEF FileInv, Quiet, Up
<1>16. NumbersBelow'
  <2>1. \A f \in FilesOf(manifest) \cup FilesOf(version) \cup pending \cup {logfile} : f < nextFile
    BY <1>2, NumbersAre
  <2>2. \A f \in FilesOf(version') : f < nextFile
    BY <1>5, <2>1 DEF FileInv, Protected
  <2>3. /\ logfile \in Nat /\ logfile \in DOMAIN logs /\ \A n \in DOMAIN logs : n <= logfile
        /\ version.log \in Nat /\ manifest.log \in Nat
        /\ version.log <= manifest.log /\ manifest.log <= logfile
    BY <1>2, NumbersAre
  <2>4. logfile \in DOMAIN logs' /\ \A n \in DOMAIN logs' : n <= logfile
    BY <1>4, <1>6, <1>7, <2>3
  <2> QED BY <1>1, <1>2, <1>4, <2>1, <2>2, <2>3, <2>4, NoEditIs
          DEF FileInv, NumbersBelow, Alive, FilesOf
<1>17. Scheduled'
  BY <1>1, <1>3, BackIs DEF FileInv, Scheduled
<1>18. Protected'
  BY <1>1, <1>3, BackIs DEF FileInv, Protected
<1>19. EditIs'
  BY <1>1, <1>2, <1>3, BackIs DEF EditIs, Up
<1>20. Outputs'
  BY <1>1, <1>3, BackIs DEF Outputs
<1>21. InStep'
  BY <1>1, <1>2, <1>3, BackIs DEF FileInv, InStep
<1>22. Referred'
  BY <1>1, <1>2, <1>8, <1>9, <1>10 DEF Referred, FilesOf, Up
<1> QED BY <1>2, <1>4, <1>5, <1>7, <1>12, <1>13, <1>14, <1>15, <1>16, <1>17, <1>18, <1>19, <1>20, <1>21,
           <1>22 DEF FileInv

\* A compaction that ends without a new version: nothing is deleted, as the
\* error is recorded first.
LEMMA CompactionEndsFiles ==
    ASSUME FileInv, CompactionStopped \/ CompactionFails
    PROVE  /\ FileInv' /\ Alive /\ bgError' = TRUE
           /\ manifest' = manifest
              \/ (comp.pc = "built" /\ manifest' = Logged(CompactionEdit))
           /\ UNCHANGED <<logs, tables>>
<1>1. /\ comp.pc \in {"working", "built"} /\ flush.pc = "idle"
      /\ manifest' = manifest \/ (comp.pc = "built" /\ manifest' = Logged(CompactionEdit))
      /\ bgError' = TRUE /\ comp' = NoComp /\ pending' = pending \ {comp.file}
      /\ scheduled' = FALSE
      /\ DeleteObsoleteFiles(version, pending', bgError')
      /\ UNCHANGED <<mem, imm, logfile, version, nextFile, lastSeq, edit, flush, mode, read, committed>>
  BY DEF CompactionStopped, CompactionFails, CompactionEnds, memory, vset, ghosts
<1>2. Up /\ Alive
  <2>1. Up
    BY <1>1, BackIs DEF FileInv, Quiet
  <2> QED BY <2>1 DEF Up, Alive
<1>3. UNCHANGED <<logs, tables>>
  BY <1>1 DEF DeleteObsoleteFiles
<1>4. /\ manifest' \in [l0 : SUBSET Nat, deep : SUBSET Nat, log : Nat, next : Nat, last : Nat]
      /\ version.log <= manifest'.log /\ manifest'.log <= logfile
      /\ \A f \in FilesOf(manifest') : f < manifest'.next /\ f < nextFile
      /\ FilesOf(manifest') \subseteq DOMAIN tables
  <2>1. CASE manifest' = manifest
    BY <1>2, <2>1, NumbersAre DEF FileInv, VersionsTyped, Referred
  <2>2. CASE comp.pc = "built" /\ manifest' = Logged(CompactionEdit)
    <3>1. PICK m : m = Logged(CompactionEdit)
      OBVIOUS
    <3>2. /\ m \in [l0 : SUBSET Nat, deep : SUBSET Nat, log : Nat, next : Nat, last : Nat]
          /\ m.log = version.log /\ m.next = nextFile
          /\ FilesOf(m) \subseteq DOMAIN tables /\ \A f \in FilesOf(m) : f < nextFile
      BY <1>2, <2>2, <3>1, CompactionLogged
    <3>3. version.log \in Nat /\ version.log <= logfile /\ version.log <= version.log
      BY <1>2, NumbersAre
    <3> QED BY <2>2, <3>1, <3>2, <3>3
  <2> QED BY <1>1, <2>1, <2>2
<1>5. LogsTyped' /\ TablesTyped' /\ MemoryTyped'
  BY <1>1, <1>3 DEF FileInv, LogsTyped, TablesTyped, MemoryTyped
<1>6. VersionsTyped'
  BY <1>1, <1>4 DEF FileInv, VersionsTyped
<1>7. BackTyped'
  BY <1>1, BackIs DEF FileInv, BackTyped
<1>8. Quiet'
  BY <1>1, <1>2 DEF FileInv, Quiet, Up
<1>9. NumbersBelow'
  <2>1. \A f \in FilesOf(version) \cup pending \cup edit.l0 \cup edit.deep \cup {logfile} : f < nextFile
    BY <1>2, NumbersAre
  <2> QED BY <1>1, <1>2, <1>3, <1>4, <2>1 DEF FileInv, NumbersBelow, Alive, FilesOf
<1>10. Scheduled'
  BY <1>1, BackIs DEF FileInv, Scheduled
<1>11. Protected'
  BY <1>1, BackIs DEF FileInv, Protected
<1>12. EditIs'
  BY <1>1, <1>2, BackIs DEF EditIs, Up
<1>13. Outputs'
  BY <1>1, BackIs DEF Outputs
<1>14. InStep'
  BY <1>1 DEF InStep
<1>15. Referred'
  BY <1>1, <1>2, <1>3, <1>4 DEF FileInv, Referred, FilesOf, Up
<1> QED BY <1>1, <1>2, <1>3, <1>5, <1>6, <1>7, <1>8, <1>9, <1>10, <1>11, <1>12, <1>13, <1>14, <1>15
        DEF FileInv

-----------------------------------------------------------------------------
(* Readers, and closing *)

LEMMA NothingIs ==
    /\ Nothing.snap = None /\ Nothing.seen = {} /\ Nothing.files = {} /\ Nothing.due = {}
    /\ Nothing \in ReadSet
<1>1. {} \in SUBSET Entry /\ {} \in SUBSET Nat /\ None \in Nat
  BY DEF None
<1> QED BY <1>1 DEF Nothing, ReadSet

LEMMA ReaderFiles ==
    ASSUME FileInv, NEW r \in Reader, BeginGet(r) \/ EndGet(r)
    PROVE  /\ FileInv'
           /\ \A q \in Reader : q # r => read'[q] = read[q]
           /\ BeginGet(r) => /\ read'[r].snap = lastSeq /\ read'[r].seen = mem \cup UNION ToSet(imm)
                             /\ read'[r].files = FilesOf(version) /\ read'[r].due = committed
           /\ EndGet(r) => read'[r] = Nothing
<1>1. UNCHANGED <<logs, tables, manifest, mem, imm, logfile, version, nextFile, lastSeq, edit,
                  scheduled, bgError, pending, flush, comp, mode, committed>>
  BY DEF BeginGet, EndGet, disk, memory, vset, back, bounds, ghosts
<1>2. read \in [Reader -> ReadSet]
  BY DEF FileInv, BackTyped
<1>3. UNION ToSet(imm) \subseteq Entry
  <2>1. CASE imm = <<>>
    <3>1. DOMAIN imm = {}
      BY <2>1
    <3>2. ToSet(imm) = {}
      BY <3>1 DEF ToSet
    <3> QED BY <3>2
  <2>2. CASE imm # <<>>
    <3>1. PICK s \in SUBSET Entry : imm = <<s>>
      BY <2>2 DEF FileInv, MemoryTyped
    <3>2. ToSet(imm) = {s}
      BY <3>1 DEF ToSet
    <3> QED BY <3>2
  <2> QED BY <2>1, <2>2
<1>4. PICK x \in ReadSet :
         /\ read' = [read EXCEPT ![r] = x]
         /\ x.files \subseteq FilesOf(version)
         /\ mode = "open" \/ x = Nothing
         /\ BeginGet(r) => /\ x.snap = lastSeq /\ x.seen = mem \cup UNION ToSet(imm)
                           /\ x.files = FilesOf(version) /\ x.due = committed
         /\ EndGet(r) => x = Nothing
  <2>1. CASE BeginGet(r)
    <3> DEFINE seen == mem \cup UNION ToSet(imm)
               files == FilesOf(version)
               x == [snap |-> lastSeq, seen |-> seen, files |-> files, due |-> committed]
    <3>1. read' = [read EXCEPT ![r] = x] /\ mode = "open" /\ read[r] = Nothing
      BY <2>1 DEF BeginGet
    <3>2. seen \in SUBSET Entry /\ files \in SUBSET Nat /\ lastSeq \in Nat /\ committed \in SUBSET Entry
      BY <1>3 DEF FileInv, MemoryTyped, VersionsTyped, Version, FilesOf
    <3> HIDE DEF seen, files
    <3>3. x \in ReadSet
      BY <3>2 DEF ReadSet
    <3>4. /\ x.snap = lastSeq /\ x.seen = seen /\ x.files = files /\ x.due = committed
      OBVIOUS
    <3>5. ~ EndGet(r)
      BY <3>1 DEF EndGet
    <3> HIDE DEF x
    <3> QED BY <3>1, <3>3, <3>4, <3>5 DEF seen, files
  <2>2. CASE EndGet(r)
    <3>1. read' = [read EXCEPT ![r] = Nothing] /\ read[r] # Nothing
      BY <2>2 DEF EndGet
    <3>2. ~ BeginGet(r)
      BY <3>1 DEF BeginGet
    <3> QED BY <3>1, <3>2, NothingIs
  <2> QED BY <2>1, <2>2
<1>5. read' \in [Reader -> ReadSet] /\ read'[r] = x /\ \A q \in Reader : q # r => read'[q] = read[q]
  BY <1>2, <1>4
<1>6. \A q \in Reader : read'[q].files \subseteq read[q].files \/ read'[q].files \subseteq FilesOf(version)
  BY <1>4, <1>5
<1>7. LogsTyped' /\ TablesTyped' /\ VersionsTyped' /\ MemoryTyped'
  BY <1>1 DEF FileInv, LogsTyped, TablesTyped, VersionsTyped, MemoryTyped
<1>8. BackTyped'
  BY <1>1, <1>5 DEF FileInv, BackTyped
<1>9. Quiet'
  BY <1>1, <1>4, <1>5 DEF FileInv, Quiet, Up
<1>10. NumbersBelow'
  <2>1. ASSUME Alive PROVE \A q \in Reader : \A f \in read'[q].files : f < nextFile
    BY <1>6, <2>1, NumbersAre
  <2> QED BY <1>1, <2>1 DEF FileInv, NumbersBelow, Alive, FilesOf
<1>11. Scheduled' /\ EditIs'
  BY <1>1 DEF FileInv, Scheduled, EditIs, FlushEdits, CompactionEdit
<1>12. Protected'
  <2>1. ASSUME NEW f, Fresh(f) PROVE \A q \in Reader : f \notin read'[q].files
    BY <1>6, <2>1 DEF Fresh
  <2>2. Fresh(flush.file) => (Fresh(flush.file))'
    BY <1>1, <2>1 DEF Fresh, FilesOf
  <2>3. Fresh(comp.file) => (Fresh(comp.file))'
    BY <1>1, <2>1 DEF Fresh, FilesOf
  <2> QED BY <1>1, <2>2, <2>3 DEF FileInv, Protected, FilesOf
<1>13. Outputs'
  BY <1>1 DEF FileInv, Outputs, InTables
<1>14. InStep'
  BY <1>1 DEF FileInv, InStep, Alive, SameFiles, Applied
<1>15. Referred'
  BY <1>1, <1>6 DEF FileInv, Referred, FilesOf
<1> QED BY <1>4, <1>5, <1>7, <1>8, <1>9, <1>10, <1>11, <1>12, <1>13, <1>14, <1>15 DEF FileInv

LEMMA CloseFiles ==
    ASSUME FileInv, BeginClose
    PROVE  FileInv'
<1>1. /\ mode = "open" /\ mode' = "closing"
      /\ UNCHANGED <<logs, tables, manifest, mem, imm, logfile, version, nextFile, lastSeq, edit,
                     scheduled, bgError, pending, flush, comp, read, committed>>
  BY DEF BeginClose, disk, memory, vset, back, ghosts
<1>2. LogsTyped' /\ TablesTyped' /\ VersionsTyped' /\ MemoryTyped' /\ BackTyped'
  BY <1>1 DEF FileInv, LogsTyped, TablesTyped, VersionsTyped, MemoryTyped, BackTyped
<1>3. Quiet' /\ Scheduled'
  BY <1>1 DEF FileInv, Quiet, Up, Scheduled
<1>4. NumbersBelow' /\ Referred'
  BY <1>1 DEF FileInv, NumbersBelow, Alive, FilesOf, Referred
<1>5. Protected'
  BY <1>1 DEF FileInv, Protected, Fresh, FilesOf
<1>6. EditIs'
  BY <1>1 DEF FileInv, EditIs, FlushEdits, CompactionEdit
<1>7. Outputs'
  BY <1>1 DEF FileInv, Outputs, InTables
<1>8. InStep'
  BY <1>1 DEF FileInv, InStep, Alive, SameFiles, Applied
<1> QED BY <1>2, <1>3, <1>4, <1>5, <1>6, <1>7, <1>8 DEF FileInv

-----------------------------------------------------------------------------
(* Closing and crashing *)

\* What a crash leaves of a log: a prefix that holds what was synced, and
\* perhaps a part of the next record.
LEMMA CrashedLogs ==
    ASSUME LogsTyped, NEW keep, NEW tear,
           \A n \in DOMAIN logs : /\ keep[n] \in Nat /\ logs[n].synced <= keep[n]
                                  /\ keep[n] <= Len(logs[n].recs),
           logs' = [n \in DOMAIN logs |->
                       LET left == SubSeq(logs[n].recs, 1, keep[n])
                       IN [recs |-> IF n \in tear THEN Append(left, Torn) ELSE left,
                           synced |-> logs[n].synced]]
    PROVE  /\ LogsTyped' /\ DOMAIN logs' = DOMAIN logs
           /\ \A n \in DOMAIN logs :
                 /\ logs'[n].synced = logs[n].synced
                 /\ Readable(logs'[n].recs) \subseteq Readable(logs[n].recs)
                 /\ SubSeq(logs'[n].recs, 1, logs'[n].synced) = SubSeq(logs[n].recs, 1, logs[n].synced)
<1>1. /\ logs \in [DOMAIN logs -> LogFile] /\ DOMAIN logs \subseteq Nat
      /\ \E b \in Nat : \A n \in DOMAIN logs : n <= b
  BY DEF LogsTyped
<1> DEFINE Left(n) == SubSeq(logs[n].recs, 1, keep[n])
           New(n) == IF n \in tear THEN Append(Left(n), Torn) ELSE Left(n)
<1>2. DOMAIN logs' = DOMAIN logs /\ \A n \in DOMAIN logs : logs'[n] = [recs |-> New(n), synced |-> logs[n].synced]
  OBVIOUS
<1>2a. logs' = [n \in DOMAIN logs |-> logs'[n]]
  OBVIOUS
<1>3. ASSUME NEW n \in DOMAIN logs
      PROVE  /\ New(n) \in Seq(SUBSET Entry) /\ logs[n].synced \in Nat
             /\ logs[n].synced <= Len(New(n))
             /\ Readable(New(n)) \subseteq Readable(logs[n].recs)
             /\ SubSeq(New(n), 1, logs[n].synced) = SubSeq(logs[n].recs, 1, logs[n].synced)
  <2> DEFINE recs == logs[n].recs
             k == keep[n]
             s == logs[n].synced
             left == SubSeq(recs, 1, k)
             new == IF n \in tear THEN Append(left, Torn) ELSE left
  <2>1. recs \in Seq(SUBSET Entry) /\ s \in Nat /\ k \in Nat /\ s <= k /\ k <= Len(recs)
        /\ Len(recs) \in Nat
    BY <1>1, LogFileIs, LenProperties
  <2> HIDE DEF recs, k, s
  <2>2. /\ left \in Seq(SUBSET Entry) /\ Len(left) = k /\ \A i \in 1 .. k : left[i] = recs[i]
        /\ Readable(left) \subseteq Readable(recs)
    BY <2>1, ReadablePrefix
  <2>3. Torn \in SUBSET Entry
    BY DEF Torn
  <2> HIDE DEF left
  <2>4. /\ Append(left, Torn) \in Seq(SUBSET Entry) /\ Len(Append(left, Torn)) = k + 1
        /\ \A i \in 1 .. k : Append(left, Torn)[i] = left[i]
        /\ Readable(Append(left, Torn)) = Readable(left)
    <3>1. Readable(Append(left, Torn)) = Readable(left)
      BY <2>2, <2>3, ReadableAppend
    <3> QED BY <2>1, <2>2, <2>3, <3>1, AppendProperties
  <2>5. /\ new \in Seq(SUBSET Entry) /\ k <= Len(new) /\ Len(new) \in Nat
        /\ \A i \in 1 .. k : new[i] = recs[i]
        /\ Readable(new) \subseteq Readable(recs)
    <3>1. CASE n \in tear
      BY <2>1, <2>2, <2>4, <3>1
    <3>2. CASE n \notin tear
      BY <2>1, <2>2, <3>2
    <3> QED BY <3>1, <3>2
  <2> HIDE DEF new
  <2>6. SubSeq(new, 1, s) = SubSeq(recs, 1, s)
    <3>1. /\ SubSeq(new, 1, s) \in Seq(SUBSET Entry) /\ Len(SubSeq(new, 1, s)) = s
          /\ \A i \in 1 .. s : SubSeq(new, 1, s)[i] = new[i]
      BY <2>1, <2>5, ReadablePrefix
    <3>2. /\ SubSeq(recs, 1, s) \in Seq(SUBSET Entry) /\ Len(SubSeq(recs, 1, s)) = s
          /\ \A i \in 1 .. s : SubSeq(recs, 1, s)[i] = recs[i]
      BY <2>1, ReadablePrefix
    <3>3. \A i \in 1 .. s : new[i] = recs[i]
      BY <2>1, <2>5
    <3> DEFINE a == SubSeq(new, 1, s)
               b == SubSeq(recs, 1, s)
    <3>4. a \in Seq(SUBSET Entry) /\ b \in Seq(SUBSET Entry) /\ Len(a) = Len(b)
          /\ \A i \in 1 .. Len(a) : a[i] = b[i]
      BY <3>1, <3>2, <3>3
    <3> HIDE DEF a, b
    <3>5. a = b
      BY <3>4, SeqEqual
    <3> QED BY <3>5 DEF a, b
  <2>7. s <= Len(new)
    BY <2>1, <2>5
  <2> QED BY <2>1, <2>5, <2>6, <2>7 DEF new, left, recs, k, s
<1> HIDE DEF New
<1>4. \A n \in DOMAIN logs : /\ logs'[n].recs = New(n) /\ logs'[n].synced = logs[n].synced
                             /\ logs'[n] \in LogFile
  BY <1>2, <1>3, LogFileIs
<1>5. logs' \in [DOMAIN logs -> LogFile]
  BY <1>2a, <1>4
<1>6. LogsTyped'
  BY <1>1, <1>2, <1>3, <1>4, <1>5 DEF LogsTyped
<1> QED BY <1>2, <1>3, <1>4, <1>6

\* Of a log that grew, what was synced is still the same.
LEMMA SyncedAppend ==
    ASSUME NEW recs \in Seq(SUBSET Entry), NEW rec \in SUBSET Entry, NEW s \in Nat, s <= Len(recs)
    PROVE  SubSeq(Append(recs, rec), 1, s) = SubSeq(recs, 1, s)
<1> DEFINE new == Append(recs, rec)
<1>1. /\ new \in Seq(SUBSET Entry) /\ Len(new) = Len(recs) + 1 /\ Len(recs) \in Nat
      /\ \A i \in 1 .. Len(recs) : new[i] = recs[i]
  BY AppendProperties, LenProperties
<1> HIDE DEF new
<1>2. s <= Len(new)
  BY <1>1
<1>3. /\ SubSeq(new, 1, s) \in Seq(SUBSET Entry) /\ Len(SubSeq(new, 1, s)) = s
      /\ \A i \in 1 .. s : SubSeq(new, 1, s)[i] = new[i]
  BY <1>1, <1>2, ReadablePrefix
<1>4. /\ SubSeq(recs, 1, s) \in Seq(SUBSET Entry) /\ Len(SubSeq(recs, 1, s)) = s
      /\ \A i \in 1 .. s : SubSeq(recs, 1, s)[i] = recs[i]
  BY ReadablePrefix
<1>5. \A i \in 1 .. s : new[i] = recs[i]
  BY <1>1
<1> DEFINE a == SubSeq(new, 1, s)
           b == SubSeq(recs, 1, s)
<1>6. /\ a \in Seq(SUBSET Entry) /\ b \in Seq(SUBSET Entry) /\ Len(a) = Len(b)
      /\ \A i \in 1 .. Len(a) : a[i] = b[i]
  BY <1>3, <1>4, <1>5
<1> HIDE DEF a, b
<1>7. a = b
  BY <1>6, SeqEqual
<1> QED BY <1>7 DEF a, b, new

\* A crash, or a close, leaves the disk, and nothing in memory.
LEMMA ResetFiles ==
    ASSUME FileInv, Reset, UNCHANGED <<tables, manifest>>, LogsTyped'
    PROVE  FileInv'
<1>1. /\ mode' = "down" /\ mem' = {} /\ imm' = <<>> /\ logfile' = 0
      /\ version' = NoVersion /\ nextFile' = 0 /\ lastSeq' = 0 /\ edit' = NoEdit
      /\ scheduled' = FALSE /\ bgError' = FALSE /\ pending' = {}
      /\ flush' = NoFlush /\ comp' = NoComp
      /\ read' = [r \in Reader |-> Nothing]
      /\ committed' = {}
  BY DEF Reset
<1>2. TablesTyped' /\ MemoryTyped'
  BY <1>1 DEF FileInv, TablesTyped, MemoryTyped
<1>3. NoVersion \in Version /\ NoVersion.l0 = {} /\ NoVersion.deep = {}
  BY DEF NoVersion, Version
<1>4. VersionsTyped'
  BY <1>1, <1>3, NoEditIs DEF FileInv, VersionsTyped
<1>5. BackTyped'
  <2>1. read' \in [Reader -> ReadSet]
    BY <1>1, NothingIs
  <2> QED BY <1>1, <2>1, BackIs DEF BackTyped
<1>6. Quiet'
  BY <1>1 DEF Quiet
<1>7. NumbersBelow'
  BY <1>1 DEF FileInv, NumbersBelow, Alive, FilesOf
<1>8. Scheduled'
  BY <1>1, BackIs DEF Scheduled
<1>9. Protected'
  BY <1>1, BackIs DEF Protected
<1>10. EditIs' /\ Outputs'
  BY <1>1, BackIs DEF EditIs, Outputs
<1>11. InStep'
  BY <1>1 DEF InStep, Alive
<1>12. Referred'
  <2>1. FilesOf(version') = {}
    BY <1>1, <1>3 DEF FilesOf
  <2>2. \A r \in Reader : read'[r].files = {}
    BY <1>1, NothingIs
  <2> QED BY <1>1, <2>1, <2>2 DEF FileInv, Referred, FilesOf
<1> QED BY <1>2, <1>4, <1>5, <1>6, <1>7, <1>8, <1>9, <1>10, <1>11, <1>12 DEF FileInv

LEMMA DownFiles ==
    ASSUME QueueInv, FileInv, EndClose \/ OpenFails \/ Kill \/ MachineCrash
    PROVE  /\ QueueInv' /\ FileInv' /\ Reset /\ UNCHANGED <<tables, manifest>>
           /\ DOMAIN logs' = DOMAIN logs
           /\ \A n \in DOMAIN logs :
                 /\ Readable(logs'[n].recs) \subseteq Readable(logs[n].recs)
                 /\ SubSeq(logs'[n].recs, 1, logs'[n].synced) = SubSeq(logs[n].recs, 1, logs[n].synced)
           /\ ~ MachineCrash =>
                 \A n \in DOMAIN logs : Readable(logs'[n].recs) = Readable(logs[n].recs)
<1>1. Reset /\ UNCHANGED <<tables, manifest, issued, acked, sure>>
  BY DEF EndClose, OpenFails, Kill, MachineCrash, disk, bounds
<1>2. QueueInv'
  BY <1>1, ResetQueue
<1>3. /\ LogsTyped' /\ DOMAIN logs' = DOMAIN logs
      /\ \A n \in DOMAIN logs :
                 /\ Readable(logs'[n].recs) \subseteq Readable(logs[n].recs)
                 /\ SubSeq(logs'[n].recs, 1, logs'[n].synced) = SubSeq(logs[n].recs, 1, logs[n].synced)
      /\ ~ MachineCrash => \A n \in DOMAIN logs : Readable(logs'[n].recs) = Readable(logs[n].recs)
  <2>1. CASE UNCHANGED logs
    BY <2>1 DEF FileInv, LogsTyped
  <2>2. CASE (\E t \in Thread : job[t].pc = "append") /\ AppendTo(logfile, Torn)
    <3>1. logfile \in DOMAIN logs /\ logs[logfile].recs \in Seq(SUBSET Entry)
          /\ logs[logfile].synced \in Nat /\ logs[logfile].synced <= Len(logs[logfile].recs)
      <4>1. PICK t \in Thread : job[t].pc = "append"
        BY <2>2
      <4>2. mode = "open"
        BY <4>1, FrontIs DEF Stages
      <4> QED BY <4>2, LogAtHand DEF Alive
    <3>2. Torn \in SUBSET Entry
      BY DEF Torn
    <3>3. /\ LogsTyped' /\ DOMAIN logs' = DOMAIN logs
          /\ logs'[logfile].recs = Append(logs[logfile].recs, Torn)
          /\ logs'[logfile].synced = logs[logfile].synced
          /\ \A m \in DOMAIN logs : m # logfile => logs'[m] = logs[m]
      BY <2>2, <3>1, <3>2, AppendTyped
    <3>4. Readable(logs'[logfile].recs) = Readable(logs[logfile].recs)
      BY <3>1, <3>2, <3>3, ReadableAppend
    <3>5. SubSeq(logs'[logfile].recs, 1, logs'[logfile].synced)
              = SubSeq(logs[logfile].recs, 1, logs[logfile].synced)
      BY <3>1, <3>2, <3>3, SyncedAppend
    <3> QED BY <3>3, <3>4, <3>5
  <2>3. CASE MachineCrash
    <3>1. PICK keep \in [DOMAIN logs -> 0 .. MaxBatch], tear \in SUBSET DOMAIN logs :
             /\ \A n \in DOMAIN logs : logs[n].synced <= keep[n] /\ keep[n] <= Len(logs[n].recs)
             /\ logs' = [n \in DOMAIN logs |->
                            LET left == SubSeq(logs[n].recs, 1, keep[n])
                            IN [recs |-> IF n \in tear THEN Append(left, Torn) ELSE left,
                                synced |-> logs[n].synced]]
      BY <2>3 DEF MachineCrash
    <3>2. \A n \in DOMAIN logs : keep[n] \in Nat
      OBVIOUS
    <3> QED BY <2>3, <3>1, <3>2, CrashedLogs DEF FileInv
  <2> QED BY <2>1, <2>2, <2>3 DEF EndClose, OpenFails, Kill, disk
<1>4. FileInv'
  BY <1>1, <1>3, ResetFiles
<1> QED BY <1>1, <1>2, <1>3, <1>4

-----------------------------------------------------------------------------
(* Open *)

\* The sequences in the logs have a bound.
Bounded == \E b \in Nat : \A n \in DOMAIN logs : \A e \in Readable(logs[n].recs) : e.seq <= b

\* The logs of the descriptor, and what Recover makes of them.
LEMMA LiveLogsAre ==
    ASSUME FileInv
    PROVE  /\ LiveLogs \subseteq Nat /\ LiveLogs \subseteq DOMAIN logs
           /\ \A n \in LiveLogs : manifest.log <= n
           /\ \A n \in DOMAIN logs : n \in LiveLogs \/ n < manifest.log
           /\ \A n \in DOMAIN logs : Readable(logs[n].recs) \in SUBSET Entry
           /\ \E b \in Nat : \A n \in DOMAIN logs : n <= b
           /\ manifest.log \in Nat /\ manifest.next \in Nat /\ manifest.last \in Nat
<1>1. /\ DOMAIN logs \subseteq Nat /\ logs \in [DOMAIN logs -> LogFile]
      /\ \E b \in Nat : \A n \in DOMAIN logs : n <= b
  BY DEF FileInv, LogsTyped
<1>2. \A n \in DOMAIN logs : Readable(logs[n].recs) \in SUBSET Entry
  BY <1>1, LogFileIs, ReadableTyped
<1>3. manifest.log \in Nat /\ manifest.next \in Nat /\ manifest.last \in Nat
  BY DEF FileInv, VersionsTyped
<1> QED BY <1>1, <1>2, <1>3 DEF LiveLogs

\* The last log is the one that goes on.
LEMMA ReusedIs ==
    ASSUME FileInv
    PROVE  /\ ReusedLog \subseteq LiveLogs
           /\ \A n \in ReusedLog : \A k \in LiveLogs : k <= n
           /\ \A n \in ReusedLog : ReusedLog = {n}
<1>1. \A n \in ReusedLog : n \in LiveLogs /\ \A k \in LiveLogs : k <= n
  BY DEF ReusedLog
<1>2. ASSUME NEW n \in ReusedLog, NEW k \in ReusedLog PROVE k = n
  <2>1. k <= n /\ n <= k /\ k \in Nat /\ n \in Nat
    BY <1>1, LiveLogsAre
  <2> QED BY <2>1
<1> QED BY <1>1, <1>2

LEMMA SequenceRecovered ==
    ASSUME FileInv, Bounded, NEW found, found = UNION {Readable(logs[n].recs) : n \in LiveLogs}
    PROVE  /\ RecoveredSequence(found) \in Nat /\ manifest.last <= RecoveredSequence(found)
           /\ \A e \in found : e.seq <= RecoveredSequence(found)
<1> DEFINE S == {manifest.last} \cup {e.seq : e \in found}
<1>1. found \subseteq Entry
  BY LiveLogsAre
<1>2. S \subseteq Nat
  <2>1. \A e \in Entry : e.seq \in Nat
    BY DEF Entry
  <2> QED BY <1>1, <2>1, LiveLogsAre
<1>3. PICK b \in Nat : \A e \in found : e.seq <= b
  BY LiveLogsAre DEF Bounded
<1>4. PICK c \in Nat : b <= c /\ manifest.last <= c
  <2>1. manifest.last \in Nat
    BY LiveLogsAre
  <2>2. CASE b <= manifest.last
    BY <2>1, <2>2
  <2>3. CASE manifest.last <= b
    BY <2>1, <2>3
  <2> QED BY <2>1, <2>2, <2>3
<1>5. \A s \in S : s <= c
  <2>1. ASSUME NEW e \in found PROVE e.seq <= c
    <3>1. e.seq \in Nat /\ e.seq <= b
      BY <1>2, <1>3
    <3> QED BY <1>4, <3>1
  <2> QED BY <1>4, <2>1
<1>6. S # {} /\ manifest.last \in S /\ \A e \in found : e.seq \in S
  OBVIOUS
<1>7. RecoveredSequence(found) = Max(S)
  BY DEF RecoveredSequence
<1> HIDE DEF S
<1>8. Max(S) \in S /\ \A s \in S : s <= Max(S)
  BY <1>2, <1>4, <1>5, <1>6, MaxOfBounded
<1> QED BY <1>2, <1>6, <1>7, <1>8

\* The logs that are read become tables, or the memtable and its log.
LEMMA RecoverFiles ==
    ASSUME QueueInv, FileInv, Bounded, Recover
    PROVE  /\ FileInv' /\ mode = "down" /\ mode' \in {"replayed", "saved"}
           /\ DOMAIN logs \subseteq DOMAIN logs' /\ \A n \in DOMAIN logs : logs'[n] = logs[n]
           /\ \A n \in DOMAIN logs' \ DOMAIN logs : n = logfile' /\ logs'[n] = NewLog
           /\ \A n \in DOMAIN logs' : manifest.log <= n => n \in LiveLogs \/ n = logfile'
           /\ ReusedLog = {} => logfile' \notin DOMAIN logs
           /\ ReusedLog # {} => ReusedLog = {logfile'} /\ logfile' \in LiveLogs
           /\ manifest.log <= logfile' /\ UNCHANGED manifest
           /\ version' = [l0 |-> manifest.l0, deep |-> manifest.deep, log |-> manifest.log]
           /\ FilesOf(manifest) \subseteq DOMAIN tables /\ DOMAIN tables \subseteq DOMAIN tables'
           /\ \A f \in FilesOf(manifest) : tables'[f] = tables[f]
           /\ edit'.l0 \subseteq DOMAIN tables'
           /\ \A e : (\E f \in edit'.l0 : e \in tables'[f])
                     <=> \E m \in LiveLogs : m \notin ReusedLog /\ e \in Readable(logs[m].recs)
           /\ mem' = IF ReusedLog # {} THEN Readable(logs[logfile'].recs) ELSE {}
           /\ mode' = "saved" => edit'.l0 = {}
           /\ lastSeq' \in Nat /\ manifest.last <= lastSeq'
           /\ \A m \in LiveLogs : \A e \in Readable(logs[m].recs) : e.seq <= lastSeq'
           /\ lastSeq' = RecoveredSequence(UNION {Readable(logs[n].recs) : n \in LiveLogs})
<1> DEFINE found == UNION {Readable(logs[n].recs) : n \in LiveLogs}
           own == IF ReusedLog # {} THEN CHOOSE n \in ReusedLog : TRUE ELSE Replay.next
<1>1. PICK made, next : made = Replay.made /\ next = Replay.next
  OBVIOUS
<1>2. PICK o : o = own
  OBVIOUS
<1>3. PICK seq : seq = RecoveredSequence(found)
  OBVIOUS
<1> HIDE DEF found
<1>4. /\ mode = "down" /\ FilesOf(manifest) \subseteq DOMAIN tables
      /\ tables' = Over(made, tables)
      /\ logs' = IF o \in DOMAIN logs THEN logs ELSE With(logs, o, NewLog)
      /\ logfile' = o
      /\ mem' = IF ReusedLog # {} THEN Readable(logs[o].recs) ELSE {}
      /\ nextFile' = IF ReusedLog # {} THEN next ELSE o + 1
      /\ lastSeq' = seq
      /\ version' = [l0 |-> manifest.l0, deep |-> manifest.deep, log |-> manifest.log]
      /\ edit' = [NoEdit EXCEPT !.l0 = DOMAIN made, !.log = o]
      /\ mode' = IF ~ReuseLogs \/ made # NoFiles THEN "replayed" ELSE "saved"
      /\ UNCHANGED <<manifest, writers, job, group, imm, scheduled, bgError, pending, flush, comp,
                     read, committed>>
  BY <1>1, <1>2, <1>3 DEF Recover, queue, back, ghosts, found
<1>5. /\ next \in Nat /\ manifest.next < next /\ manifest.log < next
      /\ \A m \in LiveLogs : m < next
      /\ DOMAIN made \subseteq Nat /\ made \in [DOMAIN made -> SUBSET Entry]
      /\ \A f \in DOMAIN made : manifest.next < f /\ f < next
      /\ \A e : (\E f \in DOMAIN made : e \in made[f])
                <=> \E m \in LiveLogs : m \notin ReusedLog /\ e \in Readable(logs[m].recs)
  <2>1. /\ manifest.next \in Nat /\ manifest.log \in Nat /\ LiveLogs \subseteq Nat
        /\ \A m \in LiveLogs : Readable(logs[m].recs) \in SUBSET Entry
        /\ \E b \in Nat : \A m \in LiveLogs : m <= b
    BY LiveLogsAre
  <2> QED BY <1>1, <2>1, ReplayIs
<1>6. seq \in Nat /\ manifest.last <= seq /\ \A e \in found : e.seq <= seq
  BY <1>3, SequenceRecovered DEF found
<1>7. /\ ReusedLog = {} => o = next
      /\ ReusedLog # {} => ReusedLog = {o} /\ o \in LiveLogs /\ \A k \in LiveLogs : k <= o
  BY <1>1, <1>2, ReusedIs
<1> HIDE DEF own
<1>8. /\ o \in Nat /\ manifest.log <= o /\ \A n \in DOMAIN logs : n <= o
      /\ ReusedLog = {} => o \notin DOMAIN logs
  <2>1. /\ manifest.log \in Nat /\ LiveLogs \subseteq Nat
        /\ \A n \in DOMAIN logs : n \in Nat /\ (n \in LiveLogs \/ n < manifest.log)
        /\ \A n \in LiveLogs : manifest.log <= n
    BY LiveLogsAre DEF FileInv, LogsTyped
  <2>2. CASE ReusedLog = {}
    <3>1. o = next
      BY <1>7, <2>2
    <3>2. \A n \in DOMAIN logs : n < o
      BY <1>5, <2>1, <3>1
    <3> QED BY <1>5, <2>1, <3>1, <3>2
  <2>3. CASE ReusedLog # {}
    <3>1. o \in LiveLogs /\ \A k \in LiveLogs : k <= o
      BY <1>7, <2>3
    <3>2. \A n \in DOMAIN logs : n <= o
      BY <2>1, <3>1
    <3> QED BY <2>1, <2>3, <3>1, <3>2
  <2> QED BY <2>2, <2>3
<1>9. nextFile' \in Nat /\ o < nextFile' /\ next <= nextFile'
  BY <1>4, <1>5, <1>7, <1>8
<1>10. /\ DOMAIN logs' = DOMAIN logs \cup {o} /\ \A n \in DOMAIN logs : logs'[n] = logs[n]
       /\ o \notin DOMAIN logs => logs'[o] = NewLog
       /\ logs' = [n \in DOMAIN logs \cup {o} |-> logs'[n]]
  <2>1. logs \in [DOMAIN logs -> LogFile]
    BY DEF FileInv, LogsTyped
  <2>2. CASE o \in DOMAIN logs
    <3>1. DOMAIN logs \cup {o} = DOMAIN logs
      BY <2>2
    <3> QED BY <1>4, <2>1, <2>2, <3>1
  <2>3. CASE o \notin DOMAIN logs
    BY <1>4, <2>3 DEF With
  <2> QED BY <2>2, <2>3
<1>11. NewLog \in LogFile /\ NewLog.recs = <<>> /\ NewLog.synced = 0 /\ Len(NewLog.recs) = 0
  BY LogFileIs, EmptySeq DEF NewLog
<1>12. LogsTyped'
  <2>1. /\ DOMAIN logs \subseteq Nat /\ logs \in [DOMAIN logs -> LogFile]
        /\ \A n \in DOMAIN logs : logs[n].synced <= Len(logs[n].recs)
    BY DEF FileInv, LogsTyped
  <2>2. \A n \in DOMAIN logs' : logs'[n] \in LogFile
    BY <1>10, <1>11, <2>1
  <2>3. logs' \in [DOMAIN logs' -> LogFile]
    BY <1>10, <2>2
  <2>4. \A n \in DOMAIN logs' : logs'[n].synced <= Len(logs'[n].recs)
    BY <1>10, <1>11, <2>1
  <2>5. \A n \in DOMAIN logs' : n <= o
    BY <1>8, <1>10
  <2>6. DOMAIN logs' \subseteq Nat
    BY <1>8, <1>10, <2>1
  <2> QED BY <1>8, <2>3, <2>4, <2>5, <2>6 DEF LogsTyped
<1>13. /\ DOMAIN tables' = DOMAIN made \cup DOMAIN tables
       /\ \A f \in DOMAIN made : tables'[f] = made[f]
       /\ \A f \in DOMAIN tables : f \notin DOMAIN made => tables'[f] = tables[f]
       /\ tables' = [f \in DOMAIN made \cup DOMAIN tables |-> tables'[f]]
  BY <1>4 DEF Over
<1>14. TablesTyped'
  <2>1. DOMAIN tables \subseteq Nat \ {None} /\ tables \in [DOMAIN tables -> SUBSET Entry]
    BY DEF FileInv, TablesTyped
  <2>2. DOMAIN made \subseteq Nat \ {None}
    <3>1. manifest.next \in Nat
      BY LiveLogsAre
    <3> QED BY <1>5, <3>1 DEF None
  <2>3. \A f \in DOMAIN tables' : tables'[f] \in SUBSET Entry
    BY <1>5, <1>13, <2>1
  <2>4. tables' \in [DOMAIN tables' -> SUBSET Entry]
    BY <1>13, <2>3
  <2> QED BY <1>13, <2>1, <2>2, <2>4 DEF TablesTyped
<1>15. \A f \in FilesOf(manifest) : f \notin DOMAIN made /\ f < nextFile' /\ f \in Nat
  <2>1. \A f \in FilesOf(manifest) : f < manifest.next /\ f \in Nat
    BY DEF FileInv, NumbersBelow, VersionsTyped, FilesOf
  <2>2. manifest.next \in Nat
    BY LiveLogsAre
  <2> QED BY <1>5, <1>9, <2>1, <2>2
<1>16. edit'.del = {} /\ edit'.l0 = DOMAIN made /\ edit'.deep = {} /\ edit'.log = o
       /\ edit' = [del |-> {}, l0 |-> DOMAIN made, deep |-> {}, log |-> o]
  <2>1. PICK d : d = DOMAIN made
    OBVIOUS
  <2>2. edit' = [NoEdit EXCEPT !.l0 = d, !.log = o]
    BY <1>4, <2>1
  <2>3. edit' = [del |-> {}, l0 |-> d, deep |-> {}, log |-> o]
    BY <2>2 DEF NoEdit
  <2> QED BY <2>1, <2>3
<1>17. /\ version'.l0 = manifest.l0 /\ version'.deep = manifest.deep /\ version'.log = manifest.log
       /\ version' \in Version /\ FilesOf(version') = FilesOf(manifest)
  <2>1. manifest.l0 \in SUBSET Nat /\ manifest.deep \in SUBSET Nat /\ manifest.log \in Nat
    BY DEF FileInv, VersionsTyped
  <2> QED BY <1>4, <2>1 DEF Version, FilesOf
<1>18. VersionsTyped'
  <2>1. edit' \in [del : SUBSET Nat, l0 : SUBSET Nat, deep : SUBSET Nat, log : Nat]
    BY <1>5, <1>8, <1>16
  <2> QED BY <1>4, <1>6, <1>8, <1>9, <1>17, <2>1 DEF FileInv, VersionsTyped
<1>19. mem' \subseteq Entry
  BY <1>4, <1>7, LiveLogsAre
<1>20. MemoryTyped'
  BY <1>4, <1>19 DEF FileInv, MemoryTyped
<1>21. mode' \in {"replayed", "saved"} /\ ~ Up
  BY <1>4 DEF Up
<1>22. BackTyped'
  BY <1>4, <1>21 DEF FileInv, BackTyped
<1>23. Quiet'
  BY <1>4, <1>21 DEF FileInv, Quiet
<1>24. /\ flush = NoFlush /\ comp = NoComp /\ pending = {} /\ imm = <<>> /\ ~ bgError
       /\ \A r \in Reader : read[r].files = {}
  BY <1>21, NothingIs DEF FileInv, Quiet
<1>25. NumbersBelow'
  <2>1. \A f \in FilesOf(manifest) : f < manifest.next
    BY DEF FileInv, NumbersBelow
  <2>2. \A f \in DOMAIN made : f < nextFile'
    BY <1>5, <1>9
  <2>3. manifest.log <= manifest.log
    BY LiveLogsAre
  <2>4. \A n \in DOMAIN logs' : n <= o
    BY <1>8, <1>10
  <2>5. \A f \in FilesOf(manifest') \cup FilesOf(version') \cup pending' \cup edit'.l0 \cup edit'.deep
              \cup {logfile'} : f < nextFile'
    BY <1>4, <1>9, <1>15, <1>16, <1>17, <1>24, <2>2
  <2>6. \A r \in Reader : \A f \in read'[r].files : f < nextFile'
    BY <1>4, <1>24
  <2>7. version'.log <= manifest'.log /\ manifest'.log <= logfile' /\ logfile' \in DOMAIN logs'
    BY <1>4, <1>8, <1>10, <1>17, <2>3
  <2>8. \A f \in FilesOf(manifest') : f < manifest'.next
    BY <1>4, <2>1
  <2>9. \A n \in DOMAIN logs' : n <= logfile'
    BY <1>4, <2>4
  <2> QED BY <2>5, <2>6, <2>7, <2>8, <2>9 DEF NumbersBelow, FilesOf
<1>26. Scheduled'
  BY <1>4, <1>24, BackIs DEF Scheduled
<1>27. Protected'
  BY <1>4, <1>24, BackIs DEF Protected
<1>28. EditIs' /\ Outputs'
  BY <1>4, <1>16, <1>24, BackIs DEF EditIs, Outputs
<1>29. InStep'
  BY <1>4, <1>17, <1>24, BackIs DEF InStep, SameFiles
<1>30. Referred'
  BY <1>4, <1>13, <1>16, <1>17, <1>24 DEF Referred, FilesOf
<1>31. FileInv'
  BY <1>12, <1>14, <1>18, <1>20, <1>22, <1>23, <1>25, <1>26, <1>27, <1>28, <1>29, <1>30 DEF FileInv
<1>32. \A m \in LiveLogs : \A e \in Readable(logs[m].recs) : e.seq <= lastSeq'
  BY <1>4, <1>6 DEF found
<1>33. mode' = "saved" => edit'.l0 = {}
  <2>1. DOMAIN NoFiles = {}
    BY DEF NoFiles
  <2> QED BY <1>4, <1>16, <2>1
<1>34. \A n \in DOMAIN logs' : manifest.log <= n => n \in LiveLogs \/ n = logfile'
  BY <1>4, <1>10 DEF LiveLogs
<1>35. /\ DOMAIN logs \subseteq DOMAIN logs'
       /\ \A n \in DOMAIN logs' \ DOMAIN logs : n = logfile' /\ logs'[n] = NewLog
       /\ ReusedLog = {} => logfile' \notin DOMAIN logs
       /\ ReusedLog # {} => ReusedLog = {logfile'} /\ logfile' \in LiveLogs
       /\ manifest.log <= logfile'
  BY <1>4, <1>7, <1>8, <1>10
<1>36. /\ DOMAIN tables \subseteq DOMAIN tables'
       /\ \A f \in FilesOf(manifest) : tables'[f] = tables[f]
       /\ edit'.l0 \subseteq DOMAIN tables'
  BY <1>4, <1>13, <1>15, <1>16
<1>37. \A e : (\E f \in edit'.l0 : e \in tables'[f])
              <=> \E m \in LiveLogs : m \notin ReusedLog /\ e \in Readable(logs[m].recs)
  <2>1. \A e : (\E f \in edit'.l0 : e \in tables'[f]) <=> \E f \in DOMAIN made : e \in made[f]
    BY <1>13, <1>16
  <2> QED BY <1>5, <2>1
<1>38. lastSeq' = RecoveredSequence(UNION {Readable(logs[n].recs) : n \in LiveLogs})
  BY <1>3, <1>4 DEF found
<1> QED BY <1>4, <1>6, <1>10, <1>21, <1>31, <1>32, <1>33, <1>34, <1>35, <1>36, <1>37, <1>38

\* The edit of the tables that were made goes into the MANIFEST.
LEMMA SaveManifestFiles ==
    ASSUME FileInv, SaveManifest
    PROVE  /\ FileInv'
           /\ FilesOf(manifest') = FilesOf(manifest) \cup edit.l0
           /\ FilesOf(version') = FilesOf(version) \cup edit.l0
           /\ FilesOf(version) = FilesOf(manifest)
           /\ manifest'.log = logfile /\ manifest'.last = lastSeq /\ version'.log = logfile
           /\ mode = "replayed" /\ mode' = "saved" /\ ~ bgError /\ imm = <<>>
           /\ UNCHANGED <<logs, tables, mem, imm, logfile, lastSeq, bgError, read>>
<1>1. /\ mode = "replayed" /\ mode' = "saved"
      /\ manifest' = Logged(edit)
      /\ version' = Applied(version, edit)
      /\ edit' = NoEdit
      /\ UNCHANGED <<logs, tables, mem, imm, logfile, nextFile, lastSeq, scheduled, bgError,
                     pending, flush, comp, read, committed>>
  BY DEF SaveManifest, memory, back, ghosts
<1>2. ~ Up /\ Alive
  BY <1>1 DEF Up, Alive
<1>3. /\ flush = NoFlush /\ comp = NoComp /\ pending = {} /\ imm = <<>> /\ ~ bgError
      /\ \A r \in Reader : read[r].files = {}
  BY <1>2, NothingIs DEF FileInv, Quiet
<1>4. /\ edit \in [del : SUBSET Nat, l0 : SUBSET Nat, deep : SUBSET Nat, log : Nat]
      /\ edit.del = {} /\ edit.deep = {} /\ edit.log = logfile /\ edit.l0 \subseteq DOMAIN tables
  BY <1>1 DEF FileInv, VersionsTyped, EditIs, Referred
<1>5. /\ version' \in Version
      /\ version'.l0 = version.l0 \cup edit.l0 /\ version'.deep = version.deep
      /\ version'.log = logfile
      /\ manifest' \in [l0 : SUBSET Nat, deep : SUBSET Nat, log : Nat, next : Nat, last : Nat]
      /\ manifest'.l0 = manifest.l0 \cup edit.l0 /\ manifest'.deep = manifest.deep
      /\ manifest'.log = logfile /\ manifest'.next = nextFile /\ manifest'.last = lastSeq
  <2>1. VersionsTyped
    BY DEF FileInv
  <2> QED BY <1>1, <1>4, <2>1, AppliedIs
<1>6. SameFiles(manifest, version)
  BY <1>2, <1>3, BackIs DEF FileInv, InStep
<1>7. /\ FilesOf(manifest') = FilesOf(manifest) \cup edit.l0
      /\ FilesOf(version') = FilesOf(version) \cup edit.l0
      /\ FilesOf(version) = FilesOf(manifest)
  BY <1>5, <1>6 DEF FilesOf, SameFiles
<1>8. LogsTyped' /\ TablesTyped' /\ MemoryTyped'
  BY <1>1 DEF FileInv, LogsTyped, TablesTyped, MemoryTyped
<1>9. VersionsTyped'
  BY <1>1, <1>5, NoEditIs DEF FileInv, VersionsTyped
<1>10. BackTyped'
  BY <1>1 DEF FileInv, BackTyped
<1>11. Quiet'
  BY <1>1, <1>2 DEF FileInv, Quiet
<1>12. NumbersBelow'
  <2>1. \A f \in FilesOf(manifest) \cup FilesOf(version) \cup pending \cup edit.l0
                \cup {logfile} : f < nextFile
    BY <1>2, NumbersAre
  <2>2. \A f \in FilesOf(manifest') \cup FilesOf(version') \cup pending' \cup edit'.l0 \cup edit'.deep
              \cup {logfile'} : f < nextFile'
    BY <1>1, <1>3, <1>7, <2>1, NoEditIs
  <2>3. version'.log <= manifest'.log /\ manifest'.log <= logfile'
    <3>1. logfile \in Nat
      BY <1>2, NumbersAre
    <3> QED BY <1>1, <1>5, <3>1
  <2>4. \A f \in FilesOf(manifest') : f < manifest'.next
    BY <1>1, <1>5, <2>2
  <2>5. \A n \in DOMAIN logs' : n <= logfile'
    BY <1>1, <1>2, NumbersAre
  <2>6. logfile' \in DOMAIN logs'
    BY <1>1, <1>2, NumbersAre
  <2>7. \A r \in Reader : \A f \in read'[r].files : f < nextFile'
    BY <1>1, <1>3
  <2> QED BY <2>2, <2>3, <2>4, <2>5, <2>6, <2>7 DEF NumbersBelow, FilesOf
<1>13. Scheduled' /\ Protected'
  BY <1>1, <1>3, BackIs DEF Scheduled, Protected
<1>14. EditIs' /\ Outputs'
  BY <1>1, <1>3, BackIs DEF EditIs, Outputs
<1>15. InStep'
  BY <1>1, <1>3, <1>5, <1>6, BackIs DEF InStep, SameFiles
<1>16. Referred'
  <2>1. FilesOf(manifest) \cup FilesOf(version) \subseteq DOMAIN tables
    BY DEF FileInv, Referred
  <2>2. FilesOf(manifest') \cup FilesOf(version') \subseteq DOMAIN tables'
    BY <1>1, <1>4, <1>7, <2>1
  <2>3. \A r \in Reader : read'[r].files \subseteq DOMAIN tables'
    BY <1>1, <1>3
  <2> QED BY <1>1, <2>2, <2>3 DEF Referred, FilesOf
<1> QED BY <1>1, <1>3, <1>5, <1>7, <1>8, <1>9, <1>10, <1>11, <1>12, <1>13, <1>14, <1>15, <1>16
        DEF FileInv

\* The end of Open: the files nobody needs are deleted, and the store is open.
LEMMA FinishOpenFiles ==
    ASSUME FileInv, FinishOpen
    PROVE  /\ FileInv' /\ Alive /\ mode = "saved" /\ mode' = "open"
           /\ SameFiles(manifest, version) /\ imm = <<>>
           /\ committed' = mem \cup InTables(FilesOf(version))
           /\ \A f \in FilesOf(version) : f \in DOMAIN tables' /\ tables'[f] = tables[f]
           /\ DOMAIN logs' \subseteq DOMAIN logs /\ \A n \in DOMAIN logs' : logs'[n] = logs[n]
           /\ \A n \in DOMAIN logs : n >= version.log => n \in DOMAIN logs'
           /\ UNCHANGED <<manifest, mem, imm, logfile, version, lastSeq, bgError, read>>
<1>1. /\ mode = "saved" /\ mode' = "open"
      /\ DeleteObsoleteFiles(version, {}, FALSE)
      /\ edit' = NoEdit
      /\ committed' = mem \cup InTables(FilesOf(version))
      /\ scheduled' = NeedsCompaction(version)
      /\ UNCHANGED <<manifest, mem, imm, logfile, version, nextFile, lastSeq, bgError, pending,
                     flush, comp, read>>
  BY DEF FinishOpen, memory, bounds
<1>2. ~ Up /\ Alive
  BY <1>1 DEF Up, Alive
<1>3. /\ flush = NoFlush /\ comp = NoComp /\ pending = {} /\ imm = <<>> /\ ~ bgError
      /\ \A r \in Reader : read[r].files = {}
  BY <1>2, NothingIs DEF FileInv, Quiet
<1>4. SameFiles(manifest, version)
  BY <1>2, <1>3, BackIs DEF FileInv, InStep
<1>5. version \in Version
  BY DEF FileInv, VersionsTyped
<1>6. /\ LogsTyped' /\ TablesTyped'
      /\ DOMAIN logs' \subseteq DOMAIN logs /\ \A n \in DOMAIN logs' : logs'[n] = logs[n]
      /\ \A n \in DOMAIN logs : n >= version.log => n \in DOMAIN logs'
      /\ \A f \in DOMAIN tables' : tables'[f] = tables[f]
      /\ \A f \in DOMAIN tables : f \in FilesOf(version) => f \in DOMAIN tables'
  <2> DEFINE err == FALSE
             keep == {}
  <2>1. DeleteObsoleteFiles(version, keep, err) /\ err \in BOOLEAN /\ ~ err
    BY <1>1
  <2> HIDE DEF err, keep
  <2> QED BY <1>5, <2>1, Deleted
<1>7. \A f \in FilesOf(version) : f \in DOMAIN tables' /\ tables'[f] = tables[f]
  BY <1>6 DEF FileInv, Referred
<1>8. VersionsTyped'
  BY <1>1, NoEditIs DEF FileInv, VersionsTyped
<1>9. committed' \subseteq Entry
  <2>1. mem \subseteq Entry /\ \A f \in DOMAIN tables : tables[f] \subseteq Entry
    BY DEF FileInv, MemoryTyped, TablesTyped
  <2> QED BY <1>1, <2>1 DEF InTables
<1>10. MemoryTyped'
  BY <1>1, <1>9 DEF FileInv, MemoryTyped
<1>11. BackTyped'
  <2>1. scheduled' \in BOOLEAN
    <3>1. NeedsCompaction(version) \in BOOLEAN
      BY DEF NeedsCompaction
    <3> QED BY <1>1, <3>1
  <2> QED BY <1>1, <2>1 DEF FileInv, BackTyped
<1>12. Quiet'
  BY <1>1 DEF Quiet, Up
<1>13. NumbersBelow'
  <2>1. \A f \in FilesOf(manifest) \cup FilesOf(version) \cup pending \cup {logfile} : f < nextFile
    BY <1>2, NumbersAre
  <2>2. \A f \in FilesOf(manifest') \cup FilesOf(version') \cup pending' \cup edit'.l0 \cup edit'.deep
              \cup {logfile'} : f < nextFile'
    BY <1>1, <2>1, NoEditIs
  <2>3. /\ version.log <= manifest.log /\ manifest.log <= logfile
        /\ \A n \in DOMAIN logs : n <= logfile
        /\ \A f \in FilesOf(manifest) : f < manifest.next
    BY <1>2, NumbersAre
  <2>4. logfile \in DOMAIN logs /\ logfile >= version.log
    BY <1>2, <1>4, NumbersAre DEF SameFiles
  <2>5. logfile' \in DOMAIN logs'
    BY <1>1, <1>6, <2>4
  <2>6. \A n \in DOMAIN logs' : n <= logfile'
    BY <1>1, <1>6, <2>3
  <2>7. \A r \in Reader : \A f \in read'[r].files : f < nextFile'
    BY <1>1, <1>3
  <2>8. \A f \in FilesOf(manifest') : f < manifest'.next
    BY <1>1, <2>3
  <2> QED BY <1>1, <2>2, <2>3, <2>5, <2>6, <2>7, <2>8 DEF NumbersBelow, FilesOf
<1>14. Scheduled' /\ Protected'
  BY <1>1, <1>3, BackIs DEF Scheduled, Protected
<1>15. EditIs' /\ Outputs'
  BY <1>1, <1>3, BackIs DEF EditIs, Outputs
<1>16. InStep'
  BY <1>1, <1>3, <1>4, BackIs DEF InStep, SameFiles
<1>17. Referred'
  <2>1. FilesOf(manifest') \cup FilesOf(version') \subseteq DOMAIN tables'
    <3>1. FilesOf(manifest) = FilesOf(version)
      BY <1>4 DEF SameFiles, FilesOf
    <3> QED BY <1>1, <1>7, <3>1
  <2>2. \A r \in Reader : read'[r].files \subseteq DOMAIN tables'
    BY <1>1, <1>3
  <2> QED BY <1>1, <2>1, <2>2 DEF Referred, FilesOf
<1> QED BY <1>1, <1>2, <1>3, <1>4, <1>6, <1>7, <1>8, <1>10, <1>11, <1>12, <1>13, <1>14, <1>15, <1>16, <1>17
        DEF FileInv

LEMMA BackTypes ==
    /\ NoFlush \in FlushSet /\ NoFlush.pc = "idle"
    /\ NoComp \in CompSet /\ NoComp.pc = "idle" /\ NoComp.inputs = {} /\ NoComp.file = None
BY DEF NoFlush, NoComp, FlushSet, CompSet, None

LEMMA InitFiles ==
    ASSUME Init
    PROVE  QueueInv /\ FileInv /\ Bounded /\ Stage = "none"
<1>1. /\ logs = NoFiles /\ tables = NoFiles
      /\ manifest = [l0 |-> {}, deep |-> {}, log |-> 0, next |-> 2, last |-> 0]
      /\ writers = <<>> /\ job = [t \in Thread |-> Idle] /\ group = 0
      /\ mem = {} /\ imm = <<>> /\ logfile = 0
      /\ version = NoVersion /\ nextFile = 0 /\ lastSeq = 0 /\ edit = NoEdit
      /\ scheduled = FALSE /\ bgError = FALSE /\ pending = {}
      /\ flush = NoFlush /\ comp = NoComp
      /\ mode = "down" /\ read = [r \in Reader |-> Nothing]
      /\ issued = 0 /\ acked = {} /\ sure = {} /\ committed = {}
  BY DEF Init
<1>2. /\ Idle = [pc |-> "idle", batch |-> {}, sync |-> FALSE, slow |-> FALSE]
      /\ Idle \in JobSet /\ Idle.pc = "idle" /\ Idle.batch = {}
  BY JobSetIs DEF Idle
<1>3. \A t \in Thread : job[t] = Idle
  BY <1>1
<1>4. Stage = "none"
  BY <1>1 DEF Stage, Foremost
<1>5. QueueInv
  <2>1. writers \in Seq(Thread) /\ Len(writers) = 0
    BY <1>1, EmptySeq
  <2>2. job \in [Thread -> JobSet]
    BY <1>1, <1>2
  <2>3. QueueTyped
    BY <1>1, <2>1, <2>2 DEF QueueTyped
  <2>4. InQueue
    BY <1>1, <1>2, <1>3, <2>1 DEF InQueue
  <2>5. BatchesApart
    BY <1>2, <1>3 DEF BatchesApart
  <2>6. GroupTaken /\ Answered
    BY <1>1, <1>4 DEF GroupTaken, Answered
  <2> QED BY <2>3, <2>4, <2>5, <2>6 DEF QueueInv
<1>6. DOMAIN NoFiles = {} /\ \A S : NoFiles \in [DOMAIN NoFiles -> S]
  BY DEF NoFiles
<1>7. LogsTyped /\ TablesTyped
  <2>1. \E b \in Nat : \A n \in DOMAIN logs : n <= b
    BY <1>1, <1>6
  <2> QED BY <1>1, <1>6, <2>1 DEF LogsTyped, TablesTyped
<1>8. NoVersion \in Version /\ NoVersion.l0 = {} /\ NoVersion.deep = {}
  BY DEF NoVersion, Version
<1>9. VersionsTyped
  BY <1>1, <1>8, NoEditIs DEF VersionsTyped
<1>10. MemoryTyped
  BY <1>1 DEF MemoryTyped
<1>11. BackTyped
  BY <1>1, NothingIs, BackTypes DEF BackTyped
<1>12. Quiet
  BY <1>1 DEF Quiet
<1>13. FilesOf(manifest) = {} /\ FilesOf(version) = {}
  BY <1>1, <1>8 DEF FilesOf
<1>14. NumbersBelow /\ InStep
  BY <1>1, <1>13 DEF NumbersBelow, InStep, Alive
<1>15. Scheduled /\ EditIs /\ Outputs
  BY <1>1, BackTypes DEF Scheduled, EditIs, Outputs
<1>16. Protected
  BY <1>1, BackTypes DEF Protected
<1>17. Referred
  BY <1>1, <1>13, NothingIs DEF Referred
<1>18. Bounded
  BY <1>1, <1>6 DEF Bounded
<1> QED BY <1>4, <1>5, <1>7, <1>9, <1>10, <1>11, <1>12, <1>14, <1>15, <1>16, <1>17, <1>18 DEF FileInv

-----------------------------------------------------------------------------
(* Every step *)

LEMMA DeletedLogs ==
    ASSUME NEW v, NEW keep, NEW err, DeleteObsoleteFiles(v, keep, err)
    PROVE  DOMAIN logs' \subseteq DOMAIN logs /\ \A n \in DOMAIN logs' : logs'[n] = logs[n]
<1>1. CASE err
  BY <1>1 DEF DeleteObsoleteFiles
<1>2. CASE ~ err
  <2> DEFINE N == {m \in DOMAIN logs : m >= v.log}
  <2>1. logs' = [n \in N |-> logs[n]] /\ N \subseteq DOMAIN logs
    BY <1>2 DEF DeleteObsoleteFiles
  <2> HIDE DEF N
  <2> QED BY <2>1
<1> QED BY <1>1, <1>2

BackgroundAction == BackgroundStep \/ BuildTableFails \/ LogFlushFails \/ CompactionFails

\* The background thread deletes logs, and adds none.
LEMMA BackgroundFiles ==
    ASSUME QueueInv, FileInv, BackgroundAction
    PROVE  /\ QueueInv' /\ Stage' = Stage /\ FileInv' /\ mode' = mode
           /\ UNCHANGED <<queue, lastSeq, read, issued, ghosts, mem, logfile>>
           /\ DOMAIN logs' \subseteq DOMAIN logs /\ \A n \in DOMAIN logs' : logs'[n] = logs[n]
<1>1. CASE StartFlush
  BY <1>1, StartFlushFiles, SameQueue DEF StartFlush, disk, queue, memory, bounds, ghosts
<1>2. CASE BuildTable
  <2>1. FileInv'
    BY <1>2, BuildTableFiles
  <2> QED BY <1>2, <2>1, SameQueue DEF BuildTable, queue, memory, vset, bounds, ghosts
<1>3. CASE LogFlush
  <2>1. FileInv'
    BY <1>3, LogFlushFiles
  <2> QED BY <1>3, <2>1, SameQueue DEF LogFlush, queue, memory, bounds, ghosts
<1>4. CASE InstallFlush
  <2>1. FileInv'
    BY <1>4, InstallFlushFiles
  <2>2. PICK v : v = version'
    OBVIOUS
  <2> DEFINE keep == pending \cup comp.inputs
  <2>3. DeleteObsoleteFiles(v, keep, bgError)
    BY <1>4, <2>2 DEF InstallFlush
  <2> HIDE DEF keep
  <2>4. DOMAIN logs' \subseteq DOMAIN logs /\ \A n \in DOMAIN logs' : logs'[n] = logs[n]
    BY <2>3, DeletedLogs
  <2> QED BY <1>4, <2>1, <2>4, SameQueue DEF InstallFlush, queue, bounds, ghosts
<1>5. ASSUME NEW some \in SUBSET version.l0 \ {{}}, NEW below \in SUBSET version.deep,
             PickCompaction(some \cup below)
      PROVE  /\ QueueInv' /\ Stage' = Stage /\ FileInv' /\ mode' = mode
             /\ UNCHANGED <<queue, lastSeq, read, issued, ghosts, mem, logfile>>
             /\ DOMAIN logs' \subseteq DOMAIN logs /\ \A n \in DOMAIN logs' : logs'[n] = logs[n]
  <2>1. PICK inputs : inputs = some \cup below
    OBVIOUS
  <2>2. inputs \in SUBSET FilesOf(version) /\ PickCompaction(inputs)
    BY <1>5, <2>1 DEF FilesOf
  <2>3. FileInv'
    BY <2>2, PickFiles
  <2> QED BY <2>2, <2>3, SameQueue DEF PickCompaction, disk, queue, memory, vset, bounds, ghosts
<1>6. CASE NothingToDo
  BY <1>6, NothingFiles, SameQueue DEF NothingToDo, disk, queue, memory, vset, bounds, ghosts
<1>7. CASE OpenCompactionOutputFile
  <2>1. FileInv'
    BY <1>7, OpenOutputFiles
  <2> QED BY <1>7, <2>1, SameQueue DEF OpenCompactionOutputFile, queue, memory, bounds, ghosts
<1>8. CASE FinishCompactionOutputFile
  <2>1. FileInv'
    BY <1>8, FinishOutputFiles
  <2> QED BY <1>8, <2>1, SameQueue DEF FinishCompactionOutputFile, queue, memory, vset, bounds, ghosts
<1>9. CASE LogCompaction
  <2>1. FileInv'
    BY <1>9, LogCompactionFiles
  <2> QED BY <1>9, <2>1, SameQueue DEF LogCompaction, queue, memory, bounds, ghosts
<1>10. CASE InstallCompaction
  <2>1. FileInv'
    BY <1>10, InstallCompactionFiles
  <2>2. PICK v, keep : v = version' /\ keep = pending'
    OBVIOUS
  <2>3. IF comp.file = None THEN UNCHANGED <<logs, tables>> ELSE DeleteObsoleteFiles(v, keep, bgError)
    BY <1>10, <2>2 DEF InstallCompaction
  <2>4. DOMAIN logs' \subseteq DOMAIN logs /\ \A n \in DOMAIN logs' : logs'[n] = logs[n]
    BY <2>3, DeletedLogs
  <2> QED BY <1>10, <2>1, <2>4, SameQueue DEF InstallCompaction, queue, memory, bounds, ghosts
<1>11. CASE FlushStopped \/ BuildTableFails \/ LogFlushFails
  <2>1. FileInv'
    BY <1>11, FlushFailsFiles
  <2> QED BY <1>11, <2>1, SameQueue
          DEF FlushStopped, BuildTableFails, LogFlushFails, disk, queue, memory, vset, bounds, ghosts
<1>12. CASE CompactionStopped \/ CompactionFails
  <2>1. FileInv' /\ UNCHANGED logs
    BY <1>12, CompactionEndsFiles
  <2> QED BY <1>12, <2>1, SameQueue
          DEF CompactionStopped, CompactionFails, queue, memory, vset, bounds, ghosts
<1> QED BY <1>1, <1>2, <1>3, <1>4, <1>5, <1>6, <1>7, <1>8, <1>9, <1>10, <1>11, <1>12
        DEF BackgroundAction, BackgroundStep

\* A log that is read gives back what it did, or the entries of the group too.
LEMMA StillBounded ==
    ASSUME FileInv, Bounded, NEW extra, extra \subseteq Entry, NEW c \in Nat,
           \A e \in extra : e.seq <= c,
           \A n \in DOMAIN logs' : \/ Readable(logs'[n].recs) = {}
                                   \/ /\ n \in DOMAIN logs
                                      /\ Readable(logs'[n].recs) \subseteq Readable(logs[n].recs) \cup extra
    PROVE  Bounded'
<1>1. PICK b \in Nat : \A n \in DOMAIN logs : \A e \in Readable(logs[n].recs) : e.seq <= b
  BY DEF Bounded
<1>2. PICK d \in Nat : b <= d /\ c <= d
  <2>1. CASE b <= c
    BY <2>1
  <2>2. CASE c <= b
    BY <2>2
  <2> QED BY <2>1, <2>2
<1>3. \A n \in DOMAIN logs : Readable(logs[n].recs) \in SUBSET Entry
  BY LiveLogsAre
<1>4. \A e \in Entry : e.seq \in Nat
  BY DEF Entry
<1>5. \A n \in DOMAIN logs' : \A e \in Readable(logs'[n].recs) : e.seq <= d
  <2>1. ASSUME NEW n \in DOMAIN logs', NEW e \in Readable(logs'[n].recs) PROVE e.seq <= d
    <3>1. n \in DOMAIN logs /\ (e \in Readable(logs[n].recs) \/ e \in extra)
      BY <2>1
    <3>2. e.seq \in Nat
      BY <1>3, <1>4, <3>1
    <3>3. CASE e \in extra
      BY <1>2, <3>2, <3>3
    <3>4. CASE e \in Readable(logs[n].recs)
      BY <1>1, <1>2, <3>1, <3>2, <3>4
    <3> QED BY <3>1, <3>3, <3>4
  <2> QED BY <2>1
<1> QED BY <1>5 DEF Bounded

LEMMA LogsShrink ==
    ASSUME FileInv, Bounded,
           \A n \in DOMAIN logs' : n \in DOMAIN logs /\ Readable(logs'[n].recs) \subseteq Readable(logs[n].recs)
    PROVE  Bounded'
<1> DEFINE none == {}
<1>1. none \subseteq Entry /\ \A e \in none : e.seq <= 0
  OBVIOUS
<1>2. \A n \in DOMAIN logs' : n \in DOMAIN logs
                               /\ Readable(logs'[n].recs) \subseteq Readable(logs[n].recs) \cup none
  OBVIOUS
<1> HIDE DEF none
<1> QED BY <1>1, <1>2, StillBounded

LEMMA AddRecordLogs ==
    ASSUME QueueInv, FileInv, NEW t \in Thread, AddRecord(t) \/ AddRecordFails(t)
    PROVE  /\ logfile \in DOMAIN logs /\ DOMAIN logs' = DOMAIN logs
           /\ \A n \in DOMAIN logs : n # logfile => logs'[n] = logs[n]
           /\ logs'[logfile].synced = logs[logfile].synced
           /\ Readable(logs[logfile].recs) \subseteq Readable(logs'[logfile].recs)
           /\ AddRecord(t) => Readable(logs'[logfile].recs) \subseteq Readable(logs[logfile].recs) \cup GroupEntries
           /\ AddRecord(t) /\ Torn \notin ToSet(logs[logfile].recs)
                 => GroupEntries \subseteq Readable(logs'[logfile].recs)
           /\ AddRecordFails(t) => Readable(logs'[logfile].recs) = Readable(logs[logfile].recs)
           /\ SubSeq(logs'[logfile].recs, 1, logs'[logfile].synced)
                 = SubSeq(logs[logfile].recs, 1, logs[logfile].synced)
<1>1. Stage = "append" /\ job[t].pc = "append" /\ mode = "open"
  BY AddRecordFiles, FrontIs DEF AddRecord, AddRecordFails, Stages
<1>2. /\ logfile \in DOMAIN logs /\ logs[logfile].recs \in Seq(SUBSET Entry)
      /\ logs[logfile].synced \in Nat /\ logs[logfile].synced <= Len(logs[logfile].recs)
  BY <1>1, LogAtHand DEF Alive
<1>3. GroupEntries \in SUBSET Entry /\ Torn \in SUBSET Entry
  BY <1>1, InvTyped DEF Torn
<1>4. ASSUME NEW rec \in SUBSET Entry, AppendTo(logfile, rec)
      PROVE  /\ DOMAIN logs' = DOMAIN logs
             /\ \A n \in DOMAIN logs : n # logfile => logs'[n] = logs[n]
             /\ logs'[logfile].synced = logs[logfile].synced
             /\ logs'[logfile].recs = Append(logs[logfile].recs, rec)
             /\ Readable(logs[logfile].recs) \subseteq Readable(logs'[logfile].recs)
             /\ Readable(logs'[logfile].recs) \subseteq Readable(logs[logfile].recs) \cup rec
             /\ Torn \notin ToSet(logs[logfile].recs) => rec \subseteq Readable(logs'[logfile].recs)
             /\ rec = Torn => Readable(logs'[logfile].recs) = Readable(logs[logfile].recs)
             /\ SubSeq(logs'[logfile].recs, 1, logs'[logfile].synced)
                   = SubSeq(logs[logfile].recs, 1, logs[logfile].synced)
  <2>1. /\ DOMAIN logs' = DOMAIN logs
        /\ \A n \in DOMAIN logs : n # logfile => logs'[n] = logs[n]
        /\ logs'[logfile].synced = logs[logfile].synced
        /\ logs'[logfile].recs = Append(logs[logfile].recs, rec)
    BY <1>2, <1>4, AppendTyped
  <2>2. SubSeq(logs'[logfile].recs, 1, logs'[logfile].synced)
                   = SubSeq(logs[logfile].recs, 1, logs[logfile].synced)
    BY <1>2, <2>1, SyncedAppend
  <2> QED BY <1>2, <2>1, <2>2, ReadableAppend
<1>5. CASE AddRecord(t)
  <2>1. AppendTo(logfile, GroupEntries) /\ ~ AddRecordFails(t)
    <3>2. AddRecordFails(t) => Stage' = "failed"
      BY AddRecordFiles
    <3>3. Stage' \in {"sync", "insert"}
      BY <1>5, AddRecordFiles
    <3> QED BY <1>5, <3>2, <3>3 DEF AddRecord
  <2> QED BY <1>2, <1>3, <1>4, <1>5, <2>1
<1>6. CASE AddRecordFails(t)
  <2>1. AppendTo(logfile, Torn) \/ UNCHANGED logs
    BY <1>6 DEF AddRecordFails
  <2>2. ~ AddRecord(t)
    <3>1. AddRecord(t) => Stage' \in {"sync", "insert"}
      BY AddRecordFiles
    <3>2. Stage' = "failed"
      BY <1>6, AddRecordFiles
    <3> QED BY <3>1, <3>2
  <2> QED BY <1>2, <1>3, <1>4, <2>1, <2>2
<1> QED BY <1>5, <1>6

WriterAction(t) == WriterStep(t) \/ NewLogFails(t) \/ AddRecordFails(t) \/ SyncLogFails(t)
DownAction      == EndClose \/ OpenFails \/ Kill \/ MachineCrash
ClientAction    ==
    \/ \E t \in Thread : \E batch \in {{}, {issued + 1}}, sync \in BOOLEAN : Write(t, batch, sync)
    \/ \E r \in Reader : BeginGet(r) \/ EndGet(r)
    \/ BeginClose

\* A step is one of a writer, of the background thread, of Open, of a client, or the end.
LEMMA StepIs ==
    ASSUME Next
    PROVE  \/ \E t \in Thread : WriterAction(t)
           \/ BackgroundAction \/ DownAction \/ ClientAction
           \/ Recover \/ SaveManifest \/ FinishOpen
<1>1. CASE \E t \in Thread : WriterStep(t)
  BY <1>1 DEF WriterAction
<1>2. CASE BackgroundStep
  BY <1>2 DEF BackgroundAction
<1>3. CASE OpenStep
  BY <1>3 DEF OpenStep, DownAction
<1>4. CASE Fault
  BY <1>4 DEF Fault, WriterAction, BackgroundAction, DownAction
<1>5. CASE Client
  <2>1. CASE \E t \in Thread, sync \in BOOLEAN : Write(t, {issued + 1}, sync)
    BY <2>1 DEF ClientAction
  <2>2. CASE \E t \in Thread : Write(t, {}, FALSE)
    BY <2>2 DEF ClientAction
  <2> QED BY <1>5, <2>1, <2>2 DEF Client, ClientAction
<1> QED BY <1>1, <1>2, <1>3, <1>4, <1>5 DEF Next

LEMMA SwitchedLogs ==
    ASSUME FileInv, NEW t \in Thread, SwitchMemTable(t), nextFile \notin DOMAIN logs
    PROVE  /\ DOMAIN logs' = DOMAIN logs \cup {nextFile}
           /\ \A n \in DOMAIN logs : logs'[n] = logs[n]
           /\ logs'[nextFile] = NewLog /\ Readable(logs'[nextFile].recs) = {}
<1>1. logs' = With(logs, nextFile, NewLog)
  BY DEF SwitchMemTable
<1>2. NewLog.recs = <<>>
  BY DEF NewLog
<1> QED BY <1>1, <1>2, ReadableNone DEF With

LEMMA WriterFiles ==
    ASSUME QueueInv, FileInv, Bounded, NEW t \in Thread, WriterAction(t)
    PROVE  QueueInv' /\ FileInv' /\ Bounded'
<1>1. CASE BadBackground(t) \/ Delay(t) \/ Proceed(t) \/ NewLogFails(t)
  <2>1. QueueInv' /\ FileInv' /\ UNCHANGED disk
    BY <1>1, QueueFiles
  <2> QED BY <2>1, LogsShrink DEF disk
<1>2. CASE SwitchMemTable(t)
  <2>1. QueueInv' /\ FileInv' /\ nextFile \notin DOMAIN logs
    BY <1>2, SwitchFiles
  <2>2. /\ DOMAIN logs' = DOMAIN logs \cup {nextFile}
        /\ \A n \in DOMAIN logs : logs'[n] = logs[n]
        /\ Readable(logs'[nextFile].recs) = {}
    BY <1>2, <2>1, SwitchedLogs
  <2> DEFINE none == {}
  <2>3. none \subseteq Entry /\ \A e \in none : e.seq <= 0
    OBVIOUS
  <2>4. \A n \in DOMAIN logs' : \/ Readable(logs'[n].recs) = {}
                                 \/ /\ n \in DOMAIN logs
                                    /\ Readable(logs'[n].recs) \subseteq Readable(logs[n].recs) \cup none
    BY <2>2
  <2> HIDE DEF none
  <2> QED BY <2>1, <2>3, <2>4, StillBounded
<1>3. CASE AddRecord(t) \/ AddRecordFails(t)
  <2>1. QueueInv' /\ FileInv' /\ Stage = "append"
    BY <1>3, AddRecordFiles
  <2>2. /\ DOMAIN logs' = DOMAIN logs
        /\ \A n \in DOMAIN logs : n # logfile => logs'[n] = logs[n]
        /\ Readable(logs'[logfile].recs) \subseteq Readable(logs[logfile].recs) \cup GroupEntries
    BY <1>3, AddRecordLogs
  <2>3. lastSeq \in Nat
    BY DEF FileInv, VersionsTyped
  <2> DEFINE c == lastSeq + Cardinality(GroupEntries)
  <2>4. c \in Nat /\ GroupEntries \subseteq Entry /\ \A e \in GroupEntries : e.seq <= c
    BY <2>1, <2>3, GroupEntriesAre
  <2> HIDE DEF c
  <2>5. \A n \in DOMAIN logs' : /\ n \in DOMAIN logs
                                 /\ Readable(logs'[n].recs) \subseteq Readable(logs[n].recs) \cup GroupEntries
    BY <2>2
  <2> QED BY <2>1, <2>4, <2>5, StillBounded
<1>4. CASE SyncLog(t) \/ SyncLogFails(t)
  <2>1. QueueInv' /\ FileInv' /\ DOMAIN logs' = DOMAIN logs
        /\ \A n \in DOMAIN logs : logs'[n].recs = logs[n].recs
    BY <1>4, SyncLogFiles
  <2> QED BY <2>1, LogsShrink
<1>5. CASE InsertInto(t)
  <2>1. QueueInv' /\ FileInv' /\ UNCHANGED logs
    BY <1>5, InsertFiles DEF InsertInto, disk
  <2> QED BY <2>1, LogsShrink
<1>6. CASE FinishWrite(t)
  <2>1. QueueInv' /\ FileInv' /\ UNCHANGED logs
    BY <1>6, FinishWriteFiles DEF FinishWrite, disk
  <2> QED BY <2>1, LogsShrink
<1> QED BY <1>1, <1>2, <1>3, <1>4, <1>5, <1>6 DEF WriterAction, WriterStep

LEMMA ClientFiles ==
    ASSUME QueueInv, FileInv, Bounded, ClientAction
    PROVE  QueueInv' /\ FileInv' /\ Bounded'
<1>1. CASE \E t \in Thread : \E batch \in {{}, {issued + 1}}, sync \in BOOLEAN : Write(t, batch, sync)
  <2>1. QueueInv' /\ FileInv' /\ UNCHANGED disk
    BY <1>1, QueueFiles
  <2> QED BY <2>1, LogsShrink DEF disk
<1>2. CASE \E r \in Reader : BeginGet(r) \/ EndGet(r)
  <2>1. FileInv'
    BY <1>2, ReaderFiles
  <2>2. UNCHANGED <<logs, writers, job, group, issued, acked, sure, mode>>
    BY <1>2 DEF BeginGet, EndGet, disk, queue, bounds, ghosts
  <2> QED BY <2>1, <2>2, SameQueue, LogsShrink
<1>3. CASE BeginClose
  <2>1. FileInv'
    BY <1>3, CloseFiles
  <2>2. UNCHANGED <<logs, writers, job, group, issued, acked, sure>> /\ writers = <<>>
    BY <1>3 DEF BeginClose, disk, queue, ghosts
  <2> QED BY <2>1, <2>2, SameQueue, LogsShrink
<1> QED BY <1>1, <1>2, <1>3 DEF ClientAction

LEMMA OpenQueue ==
    ASSUME QueueInv, Recover \/ SaveManifest \/ FinishOpen
    PROVE  QueueInv' /\ Stage' = Stage /\ UNCHANGED <<acked, sure, issued, shaken, behindTear>>
<1>1. UNCHANGED <<writers, job, group, issued, acked, sure, shaken, behindTear>> /\ mode # "open"
  BY DEF Recover, SaveManifest, FinishOpen, queue, bounds, ghosts
<1>2. writers = <<>>
  BY <1>1 DEF QueueInv, InQueue
<1> QED BY <1>1, <1>2, SameQueue

LEMMA FileStep ==
    ASSUME QueueInv, FileInv, Bounded, [Next]_vars
    PROVE  QueueInv' /\ FileInv' /\ Bounded'
<1>1. CASE \E t \in Thread : WriterAction(t)
  BY <1>1, WriterFiles
<1>2. CASE BackgroundAction
  <2>1. QueueInv' /\ FileInv' /\ DOMAIN logs' \subseteq DOMAIN logs
        /\ \A n \in DOMAIN logs' : logs'[n] = logs[n]
    BY <1>2, BackgroundFiles
  <2> QED BY <2>1, LogsShrink
<1>3. CASE DownAction
  <2>1. QueueInv' /\ FileInv' /\ DOMAIN logs' = DOMAIN logs
        /\ \A n \in DOMAIN logs : Readable(logs'[n].recs) \subseteq Readable(logs[n].recs)
    BY <1>3, DownFiles DEF DownAction
  <2> QED BY <2>1, LogsShrink
<1>4. CASE ClientAction
  BY <1>4, ClientFiles
<1>5. CASE Recover
  <2>1. QueueInv'
    BY <1>5, OpenQueue
  <2>2. /\ FileInv' /\ \A n \in DOMAIN logs : logs'[n] = logs[n]
        /\ \A n \in DOMAIN logs' \ DOMAIN logs : logs'[n] = NewLog
    BY <1>5, RecoverFiles
  <2>3. NewLog.recs = <<>>
    BY DEF NewLog
  <2> DEFINE none == {}
  <2>4. none \subseteq Entry /\ \A e \in none : e.seq <= 0
    OBVIOUS
  <2>5. \A n \in DOMAIN logs' : \/ Readable(logs'[n].recs) = {}
                                 \/ /\ n \in DOMAIN logs
                                    /\ Readable(logs'[n].recs) \subseteq Readable(logs[n].recs) \cup none
    <3>1. \A n \in DOMAIN logs' \ DOMAIN logs : logs'[n].recs = <<>>
      BY <2>2, <2>3
    <3>2. \A n \in DOMAIN logs' \ DOMAIN logs : Readable(logs'[n].recs) = {}
      BY <3>1, ReadableNone
    <3> QED BY <2>2, <3>2
  <2> HIDE DEF none
  <2> QED BY <2>1, <2>2, <2>4, <2>5, StillBounded
<1>6. CASE SaveManifest
  <2>1. QueueInv' /\ FileInv' /\ UNCHANGED logs
    BY <1>6, OpenQueue, SaveManifestFiles
  <2> QED BY <2>1, LogsShrink
<1>7. CASE FinishOpen
  <2>1. QueueInv' /\ FileInv' /\ DOMAIN logs' \subseteq DOMAIN logs
        /\ \A n \in DOMAIN logs' : logs'[n] = logs[n]
    BY <1>7, OpenQueue, FinishOpenFiles
  <2> QED BY <2>1, LogsShrink
<1>8. CASE UNCHANGED vars
  <2>1. UNCHANGED <<disk, queue, memory, vset, back, mode, read, bounds, ghosts>>
    BY <1>8 DEF vars
  <2>2. FileInv'
    BY <2>1, IdleFiles DEF ghosts
  <2>3. QueueInv'
    BY <2>1, SameQueue DEF queue, bounds, ghosts
  <2> QED BY <2>1, <2>2, <2>3, LogsShrink DEF disk
<1>9. CASE Next
  <2>1. \/ \E t \in Thread : WriterAction(t)
        \/ BackgroundAction \/ DownAction \/ ClientAction
        \/ Recover \/ SaveManifest \/ FinishOpen
    BY <1>9, StepIs
  <2> QED BY <2>1, <1>1, <1>2, <1>3, <1>4, <1>5, <1>6, <1>7
<1> QED BY <1>8, <1>9

\* The queue of writers, the numbers and the files, in every state that is reached.
LEMMA StoreInv == Spec => [](QueueInv /\ FileInv /\ Bounded)
<1>1. Init => QueueInv /\ FileInv /\ Bounded
  BY InitFiles
<1>2. QueueInv /\ FileInv /\ Bounded /\ [Next]_vars => (QueueInv /\ FileInv /\ Bounded)'
  BY FileStep
<1> QED BY <1>1, <1>2, PTL DEF Spec

\* Numbers of files stay below the counter that hands them out, the background
\* thread works only when it was scheduled, and sync answers are answers: of
\* DBImpl and its VersionSet, whatever writers, crashes and errors do.
THEOREM LevelDBTypeCorrect == Spec => []LevelDBTypeOK
<1>1. ASSUME QueueInv, FileInv PROVE LevelDBTypeOK
  <2>1. mode \in {"down", "replayed", "saved", "open", "closing"}
    BY <1>1 DEF FileInv, BackTyped
  <2>2. DOMAIN tables \cup DOMAIN logs \subseteq Nat
    BY <1>1 DEF FileInv, TablesTyped, LogsTyped
  <2>3. ASSUME mode \in {"open", "closing"}
        PROVE  /\ \A f \in FilesOf(version) \cup pending \cup {logfile} : f < nextFile
               /\ flush.pc # "idle" \/ comp.pc # "idle" => scheduled
    BY <1>1, <2>3 DEF FileInv, NumbersBelow, Scheduled, Alive
  <2>4. Len(imm) <= 1
    <3>1. CASE imm = <<>>
      BY <3>1, EmptySeq
    <3>2. CASE \E s \in SUBSET Entry : imm = <<s>>
      BY <3>2
    <3> QED BY <1>1, <3>1, <3>2 DEF FileInv, MemoryTyped
  <2>5. group <= Len(writers)
    <3>1. Len(writers) \in Nat
      BY <1>1, JobsAre DEF QueueInv
    <3>2. group = 0 \/ group \in 1 .. Len(writers)
      BY <1>1 DEF QueueInv, GroupTaken
    <3> QED BY <3>1, <3>2
  <2>6. sure \subseteq acked /\ acked \subseteq 1 .. issued
    BY <1>1 DEF QueueInv, Answered
  <2> QED BY <2>1, <2>2, <2>3, <2>4, <2>5, <2>6 DEF LevelDBTypeOK
<1> QED BY <1>1, StoreInv, PTL

\* DeleteObsoleteFiles leaves every table that the MANIFEST, the current
\* version, a reader or a compaction refers to, and the log that is written to.
THEOREM FilesKeptCorrect == Spec => []FilesKept
<1>1. ASSUME FileInv PROVE FilesKept
  <2>1. FilesOf(manifest) \cup FilesOf(version) \cup comp.inputs \subseteq DOMAIN tables
    BY <1>1 DEF FileInv, Referred, Protected
  <2>2. comp.file # None => comp.file \in DOMAIN tables
    BY <1>1 DEF FileInv, Protected
  <2>3. flush.pc = "built" /\ imm[1] # {} => flush.file \in DOMAIN tables
    BY <1>1 DEF FileInv, Outputs
  <2>4. \A r \in Reader : read[r].files \subseteq DOMAIN tables
    BY <1>1 DEF FileInv, Referred
  <2>5. mode \notin {"down"} => logfile \in DOMAIN logs
    BY <1>1 DEF FileInv, NumbersBelow, Alive
  <2> QED BY <2>1, <2>2, <2>3, <2>4, <2>5 DEF FilesKept
<1> QED BY <1>1, StoreInv, PTL

-----------------------------------------------------------------------------
(* What readers find, and what the disk gives back *)

\* What a log gives back, and what its synced part does.
Log(n)       == Readable(logs[n].recs)
LogSynced(n) == Readable(SubSeq(logs[n].recs, 1, logs[n].synced))

Imm        == UNION ToSet(imm)
InManifest == InTables(FilesOf(manifest))
InVersion  == InTables(FilesOf(version))
Visible    == mem \cup Imm \cup InVersion

\* The logs that are live, or may be again: a compaction writes the log number
\* of the version to the MANIFEST, after a flush that failed behind its back.
KeptLogs   == IF Alive THEN {n \in DOMAIN logs : n >= version.log} ELSE LiveLogs
InLogs     == UNION {Log(n) : n \in KeptLogs}
Everything == InManifest \cup InLogs \cup Visible

\* The entries of the group, from the time they are in the log until the front
\* writer has the mutex again.
Appended == {"sync", "insert", "inserted", "syncError"}
InFlight == IF Stage \in Appended THEN GroupEntries ELSE {}

-----------------------------------------------------------------------------
(* The invariant *)

Apart == \A d, e \in Everything : d.seq = e.seq => d = e

Numbered ==
    /\ Ids(Everything) \subseteq 1 .. issued
    /\ \A e \in InManifest : e.seq <= manifest.last
    /\ Alive =>
        /\ \A e \in InManifest \cup InVersion \cup Imm : e.seq <= lastSeq
        /\ \A e \in mem : e.seq <= lastSeq \/ (Stage = "inserted" /\ e \in InFlight)
        /\ \A e \in InLogs : e.seq <= lastSeq \/ e \in InFlight

\* The group is in the log, or behind a tear in it; with sync, also after a crash.
GroupInLog ==
    /\ Stage \in Appended =>
          InFlight \subseteq Log(logfile) \/ Ids(InFlight) \subseteq behindTear
    /\ Stage \in {"insert", "inserted"} /\ job[writers[1]].sync =>
          InFlight \subseteq LogSynced(logfile) \/ Ids(InFlight) \subseteq behindTear
    /\ Stage = "inserted" => InFlight \subseteq mem
    /\ mode \in {"replayed", "saved"} => mem \subseteq Log(logfile)

\* What the logs hold is in a memtable, or in a table of the MANIFEST.
Unflushed ==
    /\ Alive => InVersion \subseteq InManifest
    /\ Alive => \A n \in KeptLogs : n # logfile =>
          Log(n) \subseteq Imm \cup InManifest \cup
                             (IF mode = "replayed" THEN InTables(edit.l0) ELSE {})
    /\ mode = "replayed" => InTables(edit.l0) \subseteq InLogs
    /\ flush.pc = "logged" => Imm \subseteq InManifest
    /\ Alive => \A e \in Log(logfile) : e \in mem \/ bgError \/ e \in InFlight

\* What the open store holds is what it should hold.
CommittedIs ==
    Up => /\ committed = {e \in Visible : e.seq <= lastSeq}
          /\ acked \subseteq Ids(committed) \cup shaken \cup behindTear
          /\ Ids(InManifest \cup InLogs) \cap acked \subseteq Ids(committed)

DiskInv == Apart /\ Numbered /\ GroupInLog /\ Unflushed /\ CommittedIs
DataInv == DiskInv /\ KilledLosesNothing /\ SyncedKeptUnlessTorn

-----------------------------------------------------------------------------
(* What the data are *)

LEMMA ImmIs ==
    ASSUME FileInv
    PROVE  /\ imm = <<>> => Imm = {}
           /\ imm # <<>> => Imm = imm[1] /\ imm = <<imm[1]>>
           /\ Imm \subseteq Entry
<1>1. CASE imm = <<>>
  <2>1. ToSet(imm) = {}
    BY <1>1 DEF ToSet
  <2> QED BY <1>1, <2>1 DEF Imm
<1>2. CASE imm # <<>>
  <2>1. PICK s \in SUBSET Entry : imm = <<s>>
    BY <1>2 DEF FileInv, MemoryTyped
  <2>2. ToSet(imm) = {s} /\ imm[1] = s
    BY <2>1 DEF ToSet
  <2> QED BY <1>2, <2>1, <2>2 DEF Imm
<1> QED BY <1>1, <1>2

LEMMA LogIs ==
    ASSUME FileInv, NEW n \in DOMAIN logs
    PROVE  /\ Log(n) \subseteq Entry /\ LogSynced(n) \subseteq Log(n)
           /\ logs[n].synced = Len(logs[n].recs) => LogSynced(n) = Log(n)
<1>1. logs[n].recs \in Seq(SUBSET Entry) /\ logs[n].synced \in Nat
      /\ logs[n].synced <= Len(logs[n].recs)
  BY LogFileIs DEF FileInv, LogsTyped
<1>2. Log(n) \subseteq Entry
  BY <1>1, ReadableTyped DEF Log
<1>3. /\ Readable(SubSeq(logs[n].recs, 1, logs[n].synced)) \subseteq Readable(logs[n].recs)
      /\ logs[n].synced = Len(logs[n].recs) => SubSeq(logs[n].recs, 1, logs[n].synced) = logs[n].recs
  BY <1>1, ReadablePrefix
<1> QED BY <1>2, <1>3 DEF Log, LogSynced

LEMMA InTablesTyped ==
    ASSUME FileInv, NEW files
    PROVE  InTables(files) \subseteq Entry
BY DEF FileInv, TablesTyped, InTables

LEMMA KeptAre ==
    ASSUME FileInv
    PROVE  /\ LiveLogs \subseteq KeptLogs /\ KeptLogs \subseteq DOMAIN logs
           /\ Alive => logfile \in LiveLogs /\ logfile \in KeptLogs
           /\ ~ Alive => KeptLogs = LiveLogs
<1>1. CASE Alive
  <2>1. /\ version.log \in Nat /\ manifest.log \in Nat /\ version.log <= manifest.log
        /\ manifest.log <= logfile /\ logfile \in DOMAIN logs /\ logfile \in Nat
        /\ \A n \in DOMAIN logs : n \in Nat
    BY <1>1, NumbersAre
  <2> QED BY <1>1, <2>1 DEF KeptLogs, LiveLogs
<1>2. CASE ~ Alive
  BY <1>2 DEF KeptLogs, LiveLogs
<1> QED BY <1>1, <1>2

LEMMA DataAre ==
    ASSUME FileInv
    PROVE  /\ Everything \subseteq Entry /\ InLogs \subseteq Entry /\ Visible \subseteq Entry
           /\ Recoverable = InManifest \cup UNION {Log(n) : n \in LiveLogs}
           /\ RecoverableSynced = InManifest \cup UNION {LogSynced(n) : n \in LiveLogs}
           /\ RecoverableSynced \subseteq Recoverable
           /\ Recoverable \subseteq InManifest \cup InLogs
           /\ \A n \in KeptLogs : Log(n) \subseteq InLogs
           /\ lastSeq \in Nat /\ \A e \in Entry : e.seq \in Nat /\ e.batch \in Nat
<1>1. /\ mem \subseteq Entry /\ Imm \subseteq Entry /\ InVersion \subseteq Entry /\ InManifest \subseteq Entry
      /\ \A n \in DOMAIN logs : Log(n) \subseteq Entry /\ LogSynced(n) \subseteq Log(n)
      /\ lastSeq \in Nat
  BY ImmIs, LogIs, InTablesTyped DEF FileInv, MemoryTyped, VersionsTyped, InVersion, InManifest
<1>2. LiveLogs \subseteq KeptLogs /\ KeptLogs \subseteq DOMAIN logs
  BY KeptAre
<1>3. InLogs \subseteq Entry /\ Visible \subseteq Entry /\ \A n \in KeptLogs : Log(n) \subseteq InLogs
  BY <1>1, <1>2 DEF InLogs, Visible
<1>4. Everything \subseteq Entry
  BY <1>1, <1>3 DEF Everything
<1>5. /\ Recoverable = InManifest \cup UNION {Log(n) : n \in LiveLogs}
      /\ RecoverableSynced = InManifest \cup UNION {LogSynced(n) : n \in LiveLogs}
  BY DEF Recoverable, RecoverableSynced, InManifest, Log, LogSynced
<1>6. UNION {LogSynced(n) : n \in LiveLogs} \subseteq UNION {Log(n) : n \in LiveLogs}
  BY <1>1, <1>2
<1>7. UNION {Log(n) : n \in LiveLogs} \subseteq InLogs
  BY <1>2 DEF InLogs
<1>8. \A e \in Entry : e.seq \in Nat /\ e.batch \in Nat
  BY DEF Entry
<1> QED BY <1>1, <1>3, <1>4, <1>5, <1>6, <1>7, <1>8

\* Only an open store has a group.
LEMMA FlightIs ==
    ASSUME QueueInv, FileInv
    PROVE  /\ Stage # "none" => mode = "open"
           /\ Stage \in Appended => mode = "open" /\ InFlight = GroupEntries
           /\ Stage \notin Appended => InFlight = {}
           /\ InFlight \subseteq Entry
           /\ \A e \in InFlight : /\ lastSeq < e.seq /\ e.seq <= lastSeq + Cardinality(GroupEntries)
                                  /\ e.batch \in 1 .. issued /\ e.batch \notin acked
           /\ \A d, e \in InFlight : d.seq = e.seq => d = e
<1>1. Stage # "none" => mode = "open"
  BY DEF QueueInv, InQueue, Stage, Foremost
<1>2. Stage \in Appended => InFlight = GroupEntries /\ Stage # "none"
  BY DEF InFlight, Appended
<1>3. Stage \notin Appended => InFlight = {}
  BY DEF InFlight
<1>4. lastSeq \in Nat
  BY DEF FileInv, VersionsTyped
<1>5. CASE Stage \in Appended
  BY <1>1, <1>2, <1>4, <1>5, GroupEntriesAre
<1>6. CASE Stage \notin Appended
  BY <1>1, <1>3, <1>6
<1> QED BY <1>5, <1>6

-----------------------------------------------------------------------------
(* Tables that are referred to stay as they are *)

PinnedTables == FilesOf(manifest) \cup FilesOf(version) \cup UNION {read[r].files : r \in Reader}

TablesKept == \A f \in PinnedTables \cap DOMAIN tables' : tables'[f] = tables[f]

LEMMA InTablesKept ==
    ASSUME TablesKept, NEW files, files \subseteq PinnedTables, files \subseteq DOMAIN tables,
           files \subseteq DOMAIN tables'
    PROVE  UNION {tables'[f] : f \in files \cap DOMAIN tables'} = InTables(files)
<1>1. files \cap DOMAIN tables' = files /\ files \cap DOMAIN tables = files
  OBVIOUS
<1>2. \A f \in files : tables'[f] = tables[f]
  BY DEF TablesKept
<1> QED BY <1>1, <1>2 DEF InTables

LEMMA BackTables ==
    ASSUME FileInv, BackgroundAction
    PROVE  TablesKept
<1>1. CASE UNCHANGED tables
  BY <1>1 DEF TablesKept
<1>2. CASE BuildTable
  <2>1. /\ flush.file \notin FilesOf(manifest) \cup FilesOf(version)
        /\ \A r \in Reader : flush.file \notin read[r].files
        /\ \A f \in DOMAIN tables : f # flush.file => tables'[f] = tables[f]
    BY <1>2, BuildTableFiles
  <2>2. PinnedTables \subseteq DOMAIN tables
    BY DEF FileInv, Referred, PinnedTables
  <2>3. flush.file \notin PinnedTables
    BY <2>1 DEF PinnedTables
  <2> QED BY <2>1, <2>2, <2>3 DEF TablesKept
<1>3. CASE OpenCompactionOutputFile
  <2>1. Fresh(nextFile) /\ \A f \in DOMAIN tables : f # nextFile => tables'[f] = tables[f]
    BY <1>3, OpenOutputFiles
  <2>2. PinnedTables \subseteq DOMAIN tables /\ nextFile \notin PinnedTables
    BY <2>1 DEF FileInv, Referred, PinnedTables, Fresh
  <2> QED BY <2>1, <2>2 DEF TablesKept
<1>4. CASE FinishCompactionOutputFile
  <2>1. Fresh(comp.file) /\ \A f \in DOMAIN tables : f # comp.file => tables'[f] = tables[f]
    BY <1>4, FinishOutputFiles
  <2>2. PinnedTables \subseteq DOMAIN tables /\ comp.file \notin PinnedTables
    BY <2>1 DEF FileInv, Referred, PinnedTables, Fresh
  <2> QED BY <2>1, <2>2 DEF TablesKept
<1>5. ASSUME NEW v, NEW keep, NEW err, DeleteObsoleteFiles(v, keep, err)
      PROVE  TablesKept
  <2>1. CASE err
    BY <1>5, <2>1 DEF DeleteObsoleteFiles, TablesKept
  <2>2. CASE ~ err
    <3> DEFINE T == DOMAIN tables \cap LiveTables(v, keep)
    <3>1. tables' = [f \in T |-> tables[f]]
      BY <1>5, <2>2 DEF DeleteObsoleteFiles
    <3> HIDE DEF T
    <3> QED BY <3>1 DEF TablesKept
  <2> QED BY <2>1, <2>2
<1>6. CASE InstallFlush
  <2>1. PICK v, keep : v = version' /\ keep = pending \cup comp.inputs
    OBVIOUS
  <2>2. DeleteObsoleteFiles(v, keep, bgError)
    BY <1>6, <2>1 DEF InstallFlush
  <2> QED BY <1>5, <2>2
<1>7. CASE InstallCompaction
  <2>1. PICK v, keep : v = version' /\ keep = pending'
    OBVIOUS
  <2>2. UNCHANGED tables \/ DeleteObsoleteFiles(v, keep, bgError)
    BY <1>7, <2>1 DEF InstallCompaction
  <2> QED BY <1>1, <1>5, <2>2
<1>8. CASE CompactionStopped \/ CompactionFails
  BY <1>1, <1>8, CompactionEndsFiles
<1>9. CASE \E some \in SUBSET version.l0 \ {{}}, below \in SUBSET version.deep :
              PickCompaction(some \cup below)
  BY <1>1, <1>9 DEF PickCompaction, disk
<1> QED BY <1>1, <1>2, <1>3, <1>4, <1>6, <1>7, <1>8, <1>9
        DEF BackgroundAction, BackgroundStep, StartFlush, LogFlush, NothingToDo, LogCompaction,
            FlushStopped, BuildTableFails, LogFlushFails, disk

\* No step changes a table that somebody refers to.
LEMMA TablesStay ==
    ASSUME QueueInv, FileInv, Bounded, [Next]_vars
    PROVE  TablesKept
<1>1. CASE UNCHANGED tables
  BY <1>1 DEF TablesKept
<1>2. CASE \E t \in Thread : WriterAction(t)
  BY <1>1, <1>2 DEF WriterAction, WriterStep, BadBackground, Delay, Proceed, SwitchMemTable, NewLogFails,
                    AddRecord, AddRecordFails, SyncLog, SyncLogFails, InsertInto, FinishWrite, disk
<1>3. CASE BackgroundAction
  BY <1>3, BackTables
<1>4. CASE DownAction
  BY <1>1, <1>4, DownFiles DEF DownAction
<1>5. CASE ClientAction
  BY <1>1, <1>5 DEF ClientAction, Write, BeginGet, EndGet, BeginClose, disk
<1>6. CASE Recover
  <2>1. /\ \A f \in FilesOf(manifest) : tables'[f] = tables[f]
        /\ mode = "down"
    BY <1>6, RecoverFiles
  <2>2. PinnedTables \subseteq FilesOf(manifest)
    <3>1. version = NoVersion /\ \A r \in Reader : read[r] = Nothing
      BY <2>1 DEF FileInv, Quiet, Up
    <3>2. FilesOf(version) = {}
      BY <3>1 DEF NoVersion, FilesOf
    <3> QED BY <3>1, <3>2, NothingIs DEF PinnedTables
  <2> QED BY <2>1, <2>2 DEF TablesKept
<1>7. CASE SaveManifest
  BY <1>1, <1>7, SaveManifestFiles
<1>8. CASE FinishOpen
  <2>1. /\ \A f \in FilesOf(version) : tables'[f] = tables[f]
        /\ SameFiles(manifest, version) /\ mode = "saved"
    BY <1>8, FinishOpenFiles
  <2>2. PinnedTables \subseteq FilesOf(version)
    <3>1. \A r \in Reader : read[r] = Nothing
      BY <2>1 DEF FileInv, Quiet, Up
    <3> QED BY <2>1, <3>1, NothingIs DEF PinnedTables, SameFiles, FilesOf
  <2> QED BY <2>1, <2>2 DEF TablesKept
<1>9. CASE UNCHANGED vars
  BY <1>1, <1>9 DEF vars, disk
<1>10. CASE Next
  <2>1. \/ \E t \in Thread : WriterAction(t)
        \/ BackgroundAction \/ DownAction \/ ClientAction
        \/ Recover \/ SaveManifest \/ FinishOpen
    BY <1>10, StepIs
  <2> QED BY <2>1, <1>2, <1>3, <1>4, <1>5, <1>6, <1>7, <1>8
<1> QED BY <1>9, <1>10

-----------------------------------------------------------------------------
(* Steps that leave the data alone *)

\* The logs that matter are as they were.
LogsAsBefore ==
    /\ \A n \in DOMAIN logs' :
          /\ n \in DOMAIN logs /\ Readable(logs'[n].recs) = Log(n)
          /\ Readable(SubSeq(logs'[n].recs, 1, logs'[n].synced)) = LogSynced(n)
    /\ \A n \in DOMAIN logs : n >= version.log => n \in DOMAIN logs'

\* The group is as far as it was, as the data go.
GroupAsBefore ==
    /\ InFlight' = InFlight
    /\ (Stage \in Appended)' = (Stage \in Appended)
    /\ Stage' = "inserted" <=> Stage = "inserted"
    /\ Stage' \in {"insert", "inserted"} =>
          Stage \in {"insert", "inserted"} /\ job'[writers'[1]].sync = job[writers[1]].sync

LEMMA LogsStay ==
    ASSUME FileInv, LogsAsBefore, Alive, Alive', manifest'.log = manifest.log,
           version'.log = version.log
    PROVE  /\ KeptLogs' = KeptLogs /\ LiveLogs' = LiveLogs
           /\ InLogs' = InLogs
           /\ \A n \in KeptLogs : /\ Readable(logs'[n].recs) = Log(n)
                                  /\ Readable(SubSeq(logs'[n].recs, 1, logs'[n].synced)) = LogSynced(n)
           /\ (UNION {Log(n) : n \in LiveLogs})' = UNION {Log(n) : n \in LiveLogs}
           /\ (UNION {LogSynced(n) : n \in LiveLogs})' = UNION {LogSynced(n) : n \in LiveLogs}
<1>1. /\ version.log \in Nat /\ manifest.log \in Nat /\ version.log <= manifest.log
      /\ \A n \in DOMAIN logs : n \in Nat
  BY NumbersAre
<1>2. /\ DOMAIN logs' \subseteq DOMAIN logs
      /\ \A n \in DOMAIN logs : n >= version.log => n \in DOMAIN logs'
      /\ \A n \in DOMAIN logs' : Readable(logs'[n].recs) = Log(n)
      /\ \A n \in DOMAIN logs' : Readable(SubSeq(logs'[n].recs, 1, logs'[n].synced)) = LogSynced(n)
  BY DEF LogsAsBefore
<1>3. KeptLogs' = {n \in DOMAIN logs' : n >= version.log} /\ KeptLogs = {n \in DOMAIN logs : n >= version.log}
  BY DEF KeptLogs
<1>4. LiveLogs' = {n \in DOMAIN logs' : n >= manifest.log} /\ LiveLogs = {n \in DOMAIN logs : n >= manifest.log}
  BY DEF LiveLogs
<1>5. KeptLogs' = KeptLogs
  BY <1>2, <1>3
<1>6. LiveLogs' = LiveLogs
  BY <1>1, <1>2, <1>4
<1>7. KeptLogs \subseteq DOMAIN logs' /\ LiveLogs \subseteq KeptLogs
  BY <1>2, <1>3, KeptAre
<1>8. /\ \A n \in KeptLogs : Readable(logs'[n].recs) = Log(n)
      /\ \A n \in KeptLogs : Readable(SubSeq(logs'[n].recs, 1, logs'[n].synced)) = LogSynced(n)
  BY <1>2, <1>7
<1>9. InLogs' = InLogs
  <2>1. InLogs' = UNION {Readable(logs'[n].recs) : n \in KeptLogs'}
    BY DEF InLogs, Log
  <2> QED BY <1>5, <1>8, <2>1 DEF InLogs
<1>10. (UNION {Log(n) : n \in LiveLogs})' = UNION {Log(n) : n \in LiveLogs}
  <2>1. (UNION {Log(n) : n \in LiveLogs})' = UNION {Readable(logs'[n].recs) : n \in LiveLogs'}
    BY DEF Log
  <2> QED BY <1>6, <1>7, <1>8, <2>1
<1>11. (UNION {LogSynced(n) : n \in LiveLogs})' = UNION {LogSynced(n) : n \in LiveLogs}
  <2>1. (UNION {LogSynced(n) : n \in LiveLogs})'
            = UNION {Readable(SubSeq(logs'[n].recs, 1, logs'[n].synced)) : n \in LiveLogs'}
    BY DEF LogSynced
  <2> QED BY <1>6, <1>7, <1>8, <2>1
<1> QED BY <1>5, <1>6, <1>8, <1>9, <1>10, <1>11

LEMMA QuietData ==
    ASSUME QueueInv, FileInv, DataInv, QueueInv', FileInv', Up, Up',
           LogsAsBefore, GroupAsBefore, version'.log = version.log,
           InManifest' = InManifest, InVersion' = InVersion,
           UNCHANGED <<manifest, mem, imm, logfile, lastSeq, acked, sure, shaken, behindTear, committed>>,
           issued <= issued', bgError => bgError', flush'.pc = "logged" => flush.pc = "logged"
    PROVE  DataInv' /\ Recoverable' = Recoverable
<1>1. Alive /\ Alive' /\ mode \notin {"replayed", "saved"} /\ mode' \notin {"replayed", "saved"}
  BY DEF Up, Alive
<1>2. /\ KeptLogs' = KeptLogs /\ LiveLogs' = LiveLogs
      /\ InLogs' = InLogs
      /\ \A n \in KeptLogs : /\ Readable(logs'[n].recs) = Log(n)
                             /\ Readable(SubSeq(logs'[n].recs, 1, logs'[n].synced)) = LogSynced(n)
      /\ (UNION {Log(n) : n \in LiveLogs})' = UNION {Log(n) : n \in LiveLogs}
      /\ (UNION {LogSynced(n) : n \in LiveLogs})' = UNION {LogSynced(n) : n \in LiveLogs}
  BY <1>1, LogsStay
<1>3. Imm' = Imm
  BY DEF Imm
<1>4. Visible' = Visible /\ Everything' = Everything
  BY <1>2, <1>3 DEF Visible, Everything
<1>5. /\ logfile \in KeptLogs /\ (Log(logfile))' = Log(logfile)
      /\ (LogSynced(logfile))' = LogSynced(logfile)
  BY <1>1, <1>2, KeptAre DEF Log, LogSynced
<1>6. Apart'
  BY <1>4 DEF DataInv, DiskInv, Apart
<1>7. Numbered'
  <2>1. 1 .. issued \subseteq 1 .. issued'
    <3>1. issued \in Nat /\ issued' \in Nat
      BY DEF QueueInv, Answered
    <3> QED BY <3>1
  <2>2. Ids(Everything') = Ids(Everything)
    BY <1>4
  <2>3. Ids(Everything') \subseteq 1 .. issued'
    BY <2>1, <2>2 DEF DataInv, DiskInv, Numbered
  <2>4. (Ids(Everything))' \subseteq 1 .. issued'
    BY <2>3 DEF Ids
  <2> QED BY <1>1, <1>2, <1>3, <2>4 DEF DataInv, DiskInv, Numbered, GroupAsBefore
<1>8. GroupInLog'
  <2>1. Stage \in Appended => InFlight' \subseteq (Log(logfile))' \/ Ids(InFlight') \subseteq behindTear
    BY <1>5 DEF DataInv, DiskInv, GroupInLog, GroupAsBefore
  <2>2. Stage' \in {"insert", "inserted"} /\ job'[writers'[1]].sync =>
            InFlight' \subseteq (LogSynced(logfile))' \/ Ids(InFlight') \subseteq behindTear
    BY <1>5 DEF DataInv, DiskInv, GroupInLog, GroupAsBefore
  <2>3. Stage' = "inserted" => InFlight' \subseteq mem
    BY DEF DataInv, DiskInv, GroupInLog, GroupAsBefore
  <2>4. (Ids(InFlight))' = Ids(InFlight')
    BY DEF Ids
  <2>5. (Stage \in Appended)' = (Stage \in Appended)
    BY DEF GroupAsBefore
  <2> QED BY <1>1, <2>1, <2>2, <2>3, <2>4, <2>5 DEF GroupInLog
<1>9. Unflushed'
  <2>1. \A n \in KeptLogs' : n # logfile' => (Readable(logs'[n].recs)) \subseteq Imm' \cup InManifest'
    BY <1>1, <1>2, <1>3 DEF DataInv, DiskInv, Unflushed
  <2>2. \A e \in (Log(logfile))' : e \in mem \/ bgError' \/ e \in InFlight'
    BY <1>1, <1>5 DEF DataInv, DiskInv, Unflushed, GroupAsBefore
  <2> QED BY <1>1, <1>3, <2>1, <2>2 DEF DataInv, DiskInv, Unflushed, Log
<1>10. CommittedIs'
  BY <1>2, <1>4 DEF DataInv, DiskInv, CommittedIs, Ids
<1>11. Recoverable' = Recoverable /\ RecoverableSynced' = RecoverableSynced
  BY <1>2, DataAre DEF Recoverable, RecoverableSynced, InManifest, Log, LogSynced
<1>12. KilledLosesNothing' /\ SyncedKeptUnlessTorn'
  BY <1>11 DEF DataInv, KilledLosesNothing, SyncedKeptUnlessTorn, Ids
<1> QED BY <1>6, <1>7, <1>8, <1>9, <1>10, <1>11, <1>12 DEF DataInv, DiskInv

LEMMA GroupStays ==
    ASSUME QueueInv, Stage # "none", UNCHANGED <<writers, group, lastSeq>>,
           \A u \in Thread : job'[u].batch = job[u].batch
    PROVE  GroupEntries' = GroupEntries
<1>1. /\ group \in 1 .. Len(writers) /\ Len(writers) \in Nat
      /\ \A i \in 1 .. Len(writers) : writers[i] \in Thread
  BY JobsAre DEF QueueInv, GroupTaken
<1>2. \A i \in 1 .. group : job'[writers'[i]].batch = job[writers[i]].batch
  BY <1>1
<1>3. ASSUME NEW i \in 1 .. group
      PROVE  {j \in 1 .. i : job'[writers'[j]].batch # {}} = {j \in 1 .. i : job[writers[j]].batch # {}}
  <2>1. \A j \in 1 .. i : j \in 1 .. group
    BY <1>1
  <2> QED BY <1>2, <2>1
<1> DEFINE Upto(i) == {j \in 1 .. i : job[writers[j]].batch # {}}
           Then(i) == {j \in 1 .. i : job'[writers'[j]].batch # {}}
           Old(i) == {[batch |-> b, seq |-> lastSeq + Cardinality(Upto(i))] : b \in job[writers[i]].batch}
           New(i) == {[batch |-> b, seq |-> lastSeq' + Cardinality(Then(i))] : b \in job'[writers'[i]].batch}
<1>4. GroupEntries = UNION {Old(i) : i \in 1 .. group} /\ GroupEntries' = UNION {New(i) : i \in 1 .. group'}
  BY DEF GroupEntries
<1>5. \A i \in 1 .. group : Upto(i) = Then(i)
  BY <1>3
<1> HIDE DEF Upto, Then
<1>6. \A i \in 1 .. group : New(i) = Old(i)
  BY <1>2, <1>5
<1> HIDE DEF Old, New
<1>7. group' = group
  OBVIOUS
<1> QED BY <1>4, <1>6, <1>7

\* A step in the queue: the group goes on, or begins.
LEMMA GroupGoesOn ==
    ASSUME Stage' = Stage \/ (Stage = "none" /\ Stage' = "append"),
           Stage # "none" => GroupEntries' = GroupEntries,
           Stage \in {"insert", "inserted"} => job'[writers'[1]].sync = job[writers[1]].sync
    PROVE  GroupAsBefore
BY DEF GroupAsBefore, InFlight, Appended

LEMMA QueueData ==
    ASSUME QueueInv, FileInv, DataInv, NEW t \in Thread,
           \/ \E batch \in {{}, {issued + 1}}, sync \in BOOLEAN : Write(t, batch, sync)
           \/ BadBackground(t) \/ Delay(t) \/ Proceed(t) \/ NewLogFails(t)
    PROVE  DataInv' /\ Recoverable' = Recoverable /\ UNCHANGED <<mode, acked, sure, shaken, behindTear, committed>>
<1>1. /\ QueueInv' /\ FileInv' /\ UNCHANGED <<disk, memory, vset, back, mode, read, committed>>
      /\ Stage' = Stage \/ (Stage = "none" /\ Stage' = "append")
      /\ Stage # "none" => GroupEntries' = GroupEntries
  BY QueueFiles
<1>2. UNCHANGED <<logs, tables, manifest, mem, imm, logfile, version, nextFile, lastSeq, edit,
                  bgError, flush, mode, read, committed>>
  BY <1>1 DEF disk, memory, vset, back
<1>3. mode = "open" /\ Up /\ Up' /\ Alive
  <2>1. AtFront(t) => mode = "open"
    BY DEF AtFront, QueueInv, InQueue
  <2>2. mode = "open"
    BY <2>1 DEF Write, BadBackground, Delay, Proceed, NewLogFails, MaySwitch, MakingRoom
  <2> QED BY <1>1, <2>2 DEF Up, Alive
<1>4. UNCHANGED <<acked, sure, shaken, behindTear>>
  BY DEF Write, BadBackground, Delay, Proceed, NewLogFails, ghosts, Answer, StartGroup
<1>5. issued <= issued'
  <2>1. issued \in Nat /\ issued' \in Nat
    BY <1>1 DEF QueueInv, Answered
  <2>2. issued' = issued \/ issued' = issued + 1
    BY DEF Write, BadBackground, Delay, Proceed, NewLogFails, bounds
  <2> QED BY <2>1, <2>2
<1>6. ASSUME Stage \in {"insert", "inserted"}
      PROVE  job'[writers'[1]].sync = job[writers[1]].sync
  <2>1. writers # <<>> /\ Len(writers) >= 1 /\ writers[1] \in Thread /\ Head(writers) = writers[1]
        /\ job[writers[1]].pc \in {"insert", "inserted"} /\ Len(writers) \in Nat
    BY <1>6, JobsAre DEF Stage, Foremost, QueueInv
  <2>2. ~ (AtFront(t) /\ job[t].pc = "queued")
    BY <2>1 DEF AtFront
  <2>3. PICK batch \in {{}, {issued + 1}}, sync \in BOOLEAN : Write(t, batch, sync)
    BY <2>2 DEF BadBackground, Delay, Proceed, NewLogFails, MaySwitch, MakingRoom
  <2> DEFINE new == [pc |-> "queued", batch |-> batch, sync |-> sync, slow |-> FALSE]
  <2>4. writers' = Append(writers, t) /\ job' = [job EXCEPT ![t] = new] /\ job[t].pc = "idle"
    BY <2>3 DEF Write
  <2>5. writers'[1] = writers[1]
    <3>1. writers \in Seq(Thread)
      BY DEF QueueInv, QueueTyped
    <3> QED BY <2>1, <2>4, <3>1, AppendProperties
  <2>6. writers[1] # t
    BY <2>1, <2>4
  <2> HIDE DEF new
  <2>7. job'[writers[1]] = job[writers[1]]
    BY <2>1, <2>4, <2>6 DEF QueueInv, QueueTyped
  <2> QED BY <2>5, <2>7
<1>7. GroupAsBefore
  BY <1>1, <1>6, GroupGoesOn
<1>8. LogsAsBefore
  BY <1>2 DEF LogsAsBefore, Log, LogSynced
<1>9. InManifest' = InManifest /\ InVersion' = InVersion
  BY <1>2 DEF InManifest, InVersion, InTables, FilesOf
<1> QED BY <1>1, <1>2, <1>3, <1>4, <1>5, <1>7, <1>8, <1>9, QuietData

\* The record, or the sync of the log, fails.
LEMMA RecordFailsData ==
    ASSUME QueueInv, FileInv, DataInv, NEW t \in Thread, AddRecordFails(t) \/ SyncLogFails(t)
    PROVE  DataInv' /\ Recoverable' = Recoverable /\ UNCHANGED <<mode, acked, sure, shaken, behindTear, committed, issued>>
<1>1. UNCHANGED <<tables, manifest, writers, group, mem, imm, logfile, version, nextFile, lastSeq,
                  edit, bgError, flush, mode, read, issued, committed, acked, sure, shaken, behindTear>>
  BY DEF AddRecordFails, SyncLogFails, disk, memory, vset, back, ghosts
<1>2. InManifest' = InManifest /\ InVersion' = InVersion
  BY <1>1 DEF InManifest, InVersion, InTables, FilesOf
<1>3. issued \in Nat /\ issued <= issued'
  BY <1>1 DEF QueueInv, Answered
<1>4. CASE AddRecordFails(t)
  <2>1. QueueInv' /\ FileInv' /\ Stage = "append" /\ Stage' = "failed"
    BY <1>4, AddRecordFiles
  <2>2. mode = "open" /\ Up /\ Up'
    BY <1>1, <2>1, FlightIs DEF Up
  <2>3. GroupAsBefore
    BY <2>1 DEF GroupAsBefore, InFlight, Appended
  <2>4. LogsAsBefore
    <3>1. /\ DOMAIN logs' = DOMAIN logs
          /\ \A n \in DOMAIN logs : n # logfile => logs'[n] = logs[n]
          /\ Readable(logs'[logfile].recs) = Readable(logs[logfile].recs)
          /\ SubSeq(logs'[logfile].recs, 1, logs'[logfile].synced)
                 = SubSeq(logs[logfile].recs, 1, logs[logfile].synced)
      BY <1>4, AddRecordLogs
    <3> QED BY <3>1 DEF LogsAsBefore, Log, LogSynced
  <2> QED BY <1>1, <1>2, <1>3, <2>1, <2>2, <2>3, <2>4, QuietData
<1>5. CASE SyncLogFails(t)
  <2>1. QueueInv' /\ FileInv' /\ Stage = "sync" /\ Stage' = "syncError" /\ UNCHANGED logs
    BY <1>5, SyncLogFiles
  <2>2. mode = "open" /\ Up /\ Up'
    BY <1>1, <2>1, FlightIs DEF Up
  <2>3. \A u \in Thread : job'[u].batch = job[u].batch
    <3>1. job' = [job EXCEPT ![t].pc = "syncError"] /\ job \in [Thread -> JobSet]
      BY <1>5 DEF SyncLogFails, QueueInv, QueueTyped
    <3> QED BY <3>1, JobSetIs
  <2>4. GroupEntries' = GroupEntries
    BY <1>1, <2>1, <2>3, GroupStays
  <2>5. GroupAsBefore
    BY <2>1, <2>4 DEF GroupAsBefore, InFlight, Appended
  <2>6. LogsAsBefore
    BY <2>1 DEF LogsAsBefore, Log, LogSynced
  <2> QED BY <1>1, <1>2, <1>3, <2>1, <2>2, <2>5, <2>6, QuietData
<1> QED BY <1>1, <1>4, <1>5

\* The background thread is only at work in an open store.
LEMMA BackUp ==
    ASSUME FileInv, BackgroundAction
    PROVE  Up /\ mode' = mode
<1>1. mode \in {"open", "closing"} \/ flush.pc # "idle" \/ comp.pc # "idle"
  BY DEF BackgroundAction, BackgroundStep, StartFlush, BuildTable, BuildTableFails, LogFlush, LogFlushFails,
         InstallFlush, FlushStopped, PickCompaction, NothingToDo, OpenCompactionOutputFile,
         FinishCompactionOutputFile, LogCompaction, InstallCompaction, CompactionStopped, CompactionFails
<1>2. Up
  BY <1>1, BackIs DEF FileInv, Quiet, Up
<1>3. mode' = mode
  BY DEF BackgroundAction, BackgroundStep, StartFlush, BuildTable, BuildTableFails, LogFlush, LogFlushFails,
         InstallFlush, FlushStopped, PickCompaction, NothingToDo, OpenCompactionOutputFile,
         FinishCompactionOutputFile, LogCompaction, InstallCompaction, CompactionStopped, CompactionFails
<1> QED BY <1>2, <1>3

LEMMA BackSteps ==
    ASSUME QueueInv, FileInv, Bounded, BackgroundAction
    PROVE  /\ QueueInv' /\ FileInv' /\ TablesKept /\ Up /\ Up' /\ Alive /\ Alive' /\ GroupAsBefore
           /\ InFlight' = InFlight /\ Stage' = Stage
           /\ UNCHANGED <<mem, logfile, lastSeq, acked, sure, shaken, behindTear, committed, issued, mode, read>>
           /\ issued <= issued' /\ (bgError => bgError')
           /\ DOMAIN logs' \subseteq DOMAIN logs /\ \A n \in DOMAIN logs' : logs'[n] = logs[n]
<1>1. /\ QueueInv' /\ Stage' = Stage /\ FileInv' /\ mode' = mode
      /\ UNCHANGED <<queue, lastSeq, read, issued, ghosts, mem, logfile>>
      /\ DOMAIN logs' \subseteq DOMAIN logs /\ \A n \in DOMAIN logs' : logs'[n] = logs[n]
  BY BackgroundFiles
<1>2. Up /\ Alive /\ Up' /\ Alive'
  BY <1>1, BackUp DEF Up, Alive
<1>3. GroupEntries' = GroupEntries
  BY <1>1 DEF queue, GroupEntries
<1>4. GroupAsBefore /\ InFlight' = InFlight
  <2>1. job'[writers'[1]].sync = job[writers[1]].sync
    BY <1>1 DEF queue
  <2> QED BY <1>1, <1>3, <2>1 DEF GroupAsBefore, InFlight
<1>5. TablesKept
  BY BackTables
<1>6. issued \in Nat /\ issued <= issued'
  BY <1>1 DEF QueueInv, Answered
<1>7. bgError => bgError'
  BY DEF BackgroundAction, BackgroundStep, StartFlush, BuildTable, BuildTableFails, LogFlush, LogFlushFails,
         InstallFlush, FlushStopped, PickCompaction, NothingToDo, OpenCompactionOutputFile,
         FinishCompactionOutputFile, LogCompaction, InstallCompaction, CompactionStopped, CompactionFails,
         FlushFails, CompactionEnds
<1> QED BY <1>1, <1>2, <1>4, <1>5, <1>6, <1>7 DEF ghosts, queue

-----------------------------------------------------------------------------
(* The background thread *)

LEMMA ManifestTables ==
    ASSUME FileInv, FileInv', TablesKept, FilesOf(manifest') = FilesOf(manifest)
    PROVE  InManifest' = InManifest
<1> DEFINE files == FilesOf(manifest)
<1>1. files \subseteq PinnedTables /\ files \subseteq DOMAIN tables /\ FilesOf(manifest') \subseteq DOMAIN tables'
  BY DEF FileInv, Referred, PinnedTables, FilesOf
<1>2. InManifest' = UNION {tables'[f] : f \in FilesOf(manifest') \cap DOMAIN tables'}
  BY DEF InManifest, InTables, FilesOf
<1>3. UNION {tables'[f] : f \in files \cap DOMAIN tables'} = InTables(files)
  <2> HIDE DEF files
  <2>1. files = FilesOf(manifest')
    BY DEF files
  <2> QED BY <1>1, <2>1, InTablesKept
<1> QED BY <1>2, <1>3 DEF InManifest

LEMMA VersionTables ==
    ASSUME FileInv, FileInv', TablesKept, FilesOf(version') = FilesOf(version)
    PROVE  InVersion' = InVersion
<1> DEFINE files == FilesOf(version)
<1>1. files \subseteq PinnedTables /\ files \subseteq DOMAIN tables /\ FilesOf(version') \subseteq DOMAIN tables'
  BY DEF FileInv, Referred, PinnedTables, FilesOf
<1>2. InVersion' = UNION {tables'[f] : f \in FilesOf(version') \cap DOMAIN tables'}
  BY DEF InVersion, InTables, FilesOf
<1>3. UNION {tables'[f] : f \in files \cap DOMAIN tables'} = InTables(files)
  <2> HIDE DEF files
  <2>1. files = FilesOf(version')
    BY DEF files
  <2> QED BY <1>1, <2>1, InTablesKept
<1> QED BY <1>2, <1>3 DEF InVersion

LEMMA DeletedTables ==
    ASSUME NEW v, NEW keep, NEW err, DeleteObsoleteFiles(v, keep, err)
    PROVE  /\ DOMAIN tables' \subseteq DOMAIN tables /\ \A f \in DOMAIN tables' : tables'[f] = tables[f]
           /\ \A n \in DOMAIN logs : n >= v.log => n \in DOMAIN logs'
<1>1. CASE err
  BY <1>1 DEF DeleteObsoleteFiles
<1>2. CASE ~ err
  <2> DEFINE T == DOMAIN tables \cap LiveTables(v, keep)
             N == {m \in DOMAIN logs : m >= v.log}
  <2>1. tables' = [f \in T |-> tables[f]] /\ T \subseteq DOMAIN tables /\ logs' = [n \in N |-> logs[n]]
    BY <1>2 DEF DeleteObsoleteFiles
  <2>2. DOMAIN logs' = N
    BY <2>1
  <2> HIDE DEF T
  <2> QED BY <2>1, <2>2
<1> QED BY <1>1, <1>2

\* Work on files that no version has yet, and the end of a compaction.
LEMMA BackQuiet ==
    ASSUME QueueInv, FileInv, Bounded, DataInv, BackgroundAction, UNCHANGED <<manifest, imm>>,
           version'.log = version.log, InVersion' = InVersion,
           flush'.pc = "logged" => flush.pc = "logged",
           \A n \in DOMAIN logs : n >= version.log => n \in DOMAIN logs'
    PROVE  DataInv' /\ Recoverable' = Recoverable
<1>1. /\ QueueInv' /\ FileInv' /\ TablesKept /\ Up /\ Up' /\ GroupAsBefore
      /\ UNCHANGED <<mem, logfile, lastSeq, acked, sure, shaken, behindTear, committed>>
      /\ issued <= issued' /\ (bgError => bgError')
      /\ DOMAIN logs' \subseteq DOMAIN logs /\ \A n \in DOMAIN logs' : logs'[n] = logs[n]
  BY BackSteps
<1>2. InManifest' = InManifest
  BY <1>1, ManifestTables
<1>3. LogsAsBefore
  BY <1>1 DEF LogsAsBefore, Log, LogSynced
<1> QED BY <1>1, <1>2, <1>3, QuietData

\* A record goes into the MANIFEST: of a flush, with the number of the log, or
\* of a compaction, with that of the version.
LEMMA ManifestStep ==
    ASSUME QueueInv, FileInv, Bounded, DataInv, BackgroundAction, UNCHANGED <<logs, tables, version, imm>>,
           manifest'.last = lastSeq,
           InManifest \subseteq InManifest', InManifest' \subseteq InManifest \cup Imm,
           manifest'.log = version.log \/ (manifest'.log = logfile /\ Imm \subseteq InManifest'),
           flush'.pc = "logged" => Imm \subseteq InManifest'
    PROVE  DataInv' /\ Recoverable \subseteq Recoverable'
<1>1. /\ QueueInv' /\ FileInv' /\ Up /\ Up' /\ Alive /\ Alive' /\ GroupAsBefore /\ InFlight' = InFlight /\ Stage' = Stage
      /\ UNCHANGED <<mem, logfile, lastSeq, acked, sure, shaken, behindTear, committed, mode, issued>>
      /\ (bgError => bgError')
  BY BackSteps
<1>2. /\ mode \notin {"replayed", "saved"} /\ mode' \notin {"replayed", "saved"}
  BY <1>1 DEF Up
<1>3. /\ Imm' = Imm /\ InVersion' = InVersion /\ Visible' = Visible
      /\ KeptLogs' = KeptLogs /\ InLogs' = InLogs /\ (Log(logfile))' = Log(logfile)
      /\ (LogSynced(logfile))' = LogSynced(logfile)
      /\ \A n \in DOMAIN logs : Readable(logs'[n].recs) = Log(n)
  BY <1>1 DEF Imm, InVersion, InTables, FilesOf, Visible, KeptLogs, InLogs, Log, LogSynced
<1>4. Everything' = Everything
  BY <1>3 DEF Everything, Visible
<1>5. Apart'
  BY <1>4 DEF DataInv, DiskInv, Apart
<1>6. Numbered'
  <2>1. (Ids(Everything))' \subseteq 1 .. issued'
    BY <1>1, <1>4 DEF DataInv, DiskInv, Numbered, Ids
  <2>2. \A e \in InManifest' : e.seq <= lastSeq
    BY <1>1 DEF DataInv, DiskInv, Numbered
  <2> QED BY <1>1, <1>3, <2>1, <2>2 DEF DataInv, DiskInv, Numbered
<1>7. GroupInLog'
  <2>1. (Ids(InFlight))' = Ids(InFlight) /\ (job[writers[1]].sync)' = job[writers[1]].sync
    <3>1. UNCHANGED queue
      BY BackgroundFiles
    <3> QED BY <1>1, <3>1 DEF Ids, queue
  <2> QED BY <1>1, <1>2, <1>3, <2>1 DEF DataInv, DiskInv, GroupInLog
<1>8. Unflushed'
  <2>1. \A n \in KeptLogs' : n # logfile' => (Readable(logs'[n].recs)) \subseteq Imm' \cup InManifest'
    BY <1>1, <1>2, <1>3, KeptAre DEF DataInv, DiskInv, Unflushed
  <2>2. \A e \in (Log(logfile))' : e \in mem' \/ bgError' \/ e \in InFlight'
    BY <1>1, <1>3 DEF DataInv, DiskInv, Unflushed
  <2>3. InVersion' \subseteq InManifest'
    BY <1>1, <1>3 DEF DataInv, DiskInv, Unflushed
  <2> QED BY <1>1, <1>2, <1>3, <2>1, <2>2, <2>3 DEF Unflushed, Log
<1>9. CommittedIs'
  <2>1. \A e \in Imm : e \in committed
    BY <1>1 DEF DataInv, DiskInv, CommittedIs, Numbered, Visible
  <2>2. Ids(InManifest' \cup InLogs) \cap acked \subseteq Ids(committed)
    BY <1>1, <2>1 DEF DataInv, DiskInv, CommittedIs, Ids
  <2>3. (Ids(InManifest \cup InLogs) \cap acked \subseteq Ids(committed))'
    BY <1>1, <1>3, <2>2 DEF Ids
  <2> QED BY <1>1, <1>3, <2>3 DEF DataInv, DiskInv, CommittedIs, Ids
<1>10. ASSUME NEW n \in LiveLogs PROVE n \in LiveLogs' \/ Log(n) \subseteq InManifest'
  <2>1. n \in DOMAIN logs /\ n \in Nat /\ n >= manifest.log /\ n <= logfile /\ n \in KeptLogs
        /\ version.log <= manifest.log /\ version.log \in Nat /\ manifest.log \in Nat /\ logfile \in Nat
    BY <1>1, NumbersAre, KeptAre DEF LiveLogs
  <2>2. CASE manifest'.log = version.log
    <3>1. n >= manifest'.log
      BY <2>1, <2>2
    <3> QED BY <2>1, <3>1 DEF LiveLogs
  <2>3. CASE manifest'.log = logfile /\ Imm \subseteq InManifest'
    <3>1. CASE n = logfile
      <4>1. n >= manifest'.log
        BY <2>1, <2>3, <3>1
      <4> QED BY <2>1, <4>1 DEF LiveLogs
    <3>2. CASE n # logfile
      <4>1. Log(n) \subseteq Imm \cup InManifest
        BY <1>1, <1>2, <2>1, <3>2 DEF DataInv, DiskInv, Unflushed
      <4> QED BY <2>3, <4>1
    <3> QED BY <3>1, <3>2
  <2> QED BY <2>2, <2>3
<1>11. Recoverable \subseteq Recoverable' /\ RecoverableSynced \subseteq RecoverableSynced'
  <2>1. /\ Recoverable = InManifest \cup UNION {Log(n) : n \in LiveLogs}
        /\ RecoverableSynced = InManifest \cup UNION {LogSynced(n) : n \in LiveLogs}
        /\ \A n \in LiveLogs : LogSynced(n) \subseteq Log(n)
    BY DataAre, LogIs, KeptAre
  <2>2. Recoverable' = InManifest' \cup UNION {Log(n) : n \in LiveLogs'}
    BY DEF Recoverable, InManifest, Log
  <2>3. RecoverableSynced' = InManifest' \cup UNION {LogSynced(n) : n \in LiveLogs'}
    BY DEF RecoverableSynced, InManifest, LogSynced
  <2> QED BY <1>10, <2>1, <2>2, <2>3
<1>12. KilledLosesNothing' /\ SyncedKeptUnlessTorn'
  BY <1>1, <1>11 DEF DataInv, KilledLosesNothing, SyncedKeptUnlessTorn, Ids
<1> QED BY <1>5, <1>6, <1>7, <1>8, <1>9, <1>11, <1>12 DEF DataInv, DiskInv

LEMMA FlushLogged ==
    ASSUME FileInv, flush.pc = "built", NEW e \in FlushEdits, manifest' = Logged(e), UNCHANGED tables
    PROVE  /\ InManifest' = InManifest \cup Imm
           /\ manifest'.log = logfile /\ manifest'.last = lastSeq
<1>1. /\ e \in [del : SUBSET Nat, l0 : SUBSET Nat, deep : SUBSET Nat, log : Nat]
      /\ e.del = {} /\ e.log = logfile
      /\ e.l0 \cup e.deep = IF imm[1] = {} THEN {} ELSE {flush.file}
  BY FlushEditIs
<1>2. /\ Logged(e).l0 = manifest.l0 \cup e.l0 /\ Logged(e).deep = manifest.deep \cup e.deep
      /\ Logged(e).log = logfile /\ Logged(e).last = lastSeq
  <2>1. VersionsTyped
    BY DEF FileInv
  <2> QED BY <1>1, <2>1, AppliedIs
<1>3. FilesOf(manifest') = FilesOf(manifest) \cup (IF imm[1] = {} THEN {} ELSE {flush.file})
  BY <1>1, <1>2 DEF FilesOf
<1>4. Imm = imm[1]
  <2>1. imm # <<>>
    BY DEF FileInv, Scheduled
  <2> QED BY <2>1, ImmIs
<1>5. imm[1] # {} => flush.file \in DOMAIN tables /\ tables[flush.file] = imm[1]
  BY DEF FileInv, Outputs
<1>6. InManifest' = InTables(FilesOf(manifest'))
  BY DEF InManifest, InTables, FilesOf
<1>7. InTables(FilesOf(manifest) \cup (IF imm[1] = {} THEN {} ELSE {flush.file})) = InManifest \cup Imm
  <2>1. CASE imm[1] = {}
    BY <1>4, <2>1 DEF InManifest
  <2>2. CASE imm[1] # {}
    <3>1. InTables(FilesOf(manifest) \cup {flush.file}) = InTables(FilesOf(manifest)) \cup tables[flush.file]
      BY <1>5, <2>2 DEF InTables
    <3> QED BY <1>4, <1>5, <2>2, <3>1 DEF InManifest
  <2> QED BY <2>1, <2>2
<1> QED BY <1>2, <1>3, <1>6, <1>7

LEMMA CompactedTables ==
    ASSUME FileInv, comp.pc \in {"built", "logged"}, NEW files, files \subseteq DOMAIN tables,
           InVersion \subseteq InTables(files) \/ comp.inputs \subseteq files
    PROVE  InTables((files \ comp.inputs) \cup (IF comp.file = None THEN comp.inputs ELSE {comp.file}))
               = InTables(files)
<1>1. comp.inputs \subseteq DOMAIN tables /\ InTables(comp.inputs) \subseteq InVersion
  BY DEF FileInv, Protected, Referred, InTables, InVersion
<1>2. InTables(comp.inputs) \subseteq InTables(files)
  BY <1>1 DEF InTables
<1>3. CASE comp.file = None
  <2>1. InTables((files \ comp.inputs) \cup comp.inputs) = InTables(files) \cup InTables(comp.inputs)
    BY DEF InTables
  <2> QED BY <1>2, <1>3, <2>1
<1>4. CASE comp.file # None
  <2>1. comp.file \in DOMAIN tables /\ tables[comp.file] = InTables(comp.inputs)
    BY <1>4 DEF FileInv, Protected, Outputs
  <2>2. InTables((files \ comp.inputs) \cup {comp.file}) = InTables(files \ comp.inputs) \cup tables[comp.file]
    BY <2>1 DEF InTables
  <2>3. InTables(files) \subseteq InTables(files \ comp.inputs) \cup InTables(comp.inputs)
        /\ InTables(files \ comp.inputs) \subseteq InTables(files)
    BY DEF InTables
  <2> QED BY <1>2, <1>4, <2>1, <2>2, <2>3
<1> QED BY <1>3, <1>4

LEMMA CompactionData ==
    ASSUME FileInv, DataInv, Alive, comp.pc = "built", manifest' = Logged(CompactionEdit), UNCHANGED tables
    PROVE  InManifest' = InManifest /\ manifest'.log = version.log /\ manifest'.last = lastSeq
<1>1. PICK m : m = manifest'
  OBVIOUS
<1>2. /\ m.log = version.log /\ m.last = lastSeq
      /\ FilesOf(m) = (FilesOf(manifest) \ comp.inputs)
                           \cup (IF comp.file = None THEN comp.inputs ELSE {comp.file})
  BY <1>1, CompactionLogged
<1>3. InVersion \subseteq InTables(FilesOf(manifest)) /\ FilesOf(manifest) \subseteq DOMAIN tables
  BY DEF DataInv, DiskInv, Unflushed, FileInv, Referred, InManifest
<1>4. InTables(FilesOf(m)) = InTables(FilesOf(manifest))
  <2> DEFINE files == FilesOf(manifest)
  <2>1. files \subseteq DOMAIN tables /\ InVersion \subseteq InTables(files)
    BY <1>3
  <2> HIDE DEF files
  <2>2. InTables((files \ comp.inputs) \cup (IF comp.file = None THEN comp.inputs ELSE {comp.file}))
               = InTables(files)
    BY <2>1, CompactedTables
  <2> QED BY <1>2, <2>2 DEF files
<1>5. InManifest' = InTables(FilesOf(m))
  BY <1>1 DEF InManifest, InTables, FilesOf
<1> QED BY <1>1, <1>2, <1>4, <1>5 DEF InManifest

\* The memtable gives way to its table; only the log in use stays.
LEMMA InstallFlushData ==
    ASSUME QueueInv, FileInv, Bounded, DataInv, InstallFlush
    PROVE  DataInv' /\ Recoverable' = Recoverable
<1>1. /\ QueueInv' /\ FileInv' /\ TablesKept /\ Up /\ Up' /\ Alive /\ Alive' /\ InFlight' = InFlight /\ Stage' = Stage
      /\ UNCHANGED <<mem, logfile, lastSeq, acked, sure, shaken, behindTear, committed, mode, issued>>
      /\ (bgError => bgError')
      /\ DOMAIN logs' \subseteq DOMAIN logs /\ \A n \in DOMAIN logs' : logs'[n] = logs[n]
  <2>1. BackgroundAction
    BY DEF BackgroundAction, BackgroundStep
  <2> QED BY <2>1, BackSteps
<1>2. /\ mode \notin {"replayed", "saved"} /\ mode' \notin {"replayed", "saved"}
  BY <1>1 DEF Up
<1>3. /\ imm # <<>>
      /\ FilesOf(version') = FilesOf(version) \cup (IF imm[1] = {} THEN {} ELSE {flush.file})
      /\ imm[1] # {} => tables[flush.file] = imm[1] /\ flush.file \in DOMAIN tables
      /\ version'.log = logfile /\ manifest.log = logfile
  BY InstallFlushFiles
<1>4. UNCHANGED manifest /\ imm' = <<>> /\ flush.pc = "logged" /\ flush'.pc = "idle"
  BY DEF InstallFlush, NoFlush
<1>5. DOMAIN tables' \subseteq DOMAIN tables /\ \A f \in DOMAIN tables' : tables'[f] = tables[f]
  <2>1. PICK v, keep : v = version' /\ keep = pending \cup comp.inputs
    OBVIOUS
  <2>2. DeleteObsoleteFiles(v, keep, bgError)
    BY <2>1 DEF InstallFlush
  <2> QED BY <2>2, DeletedTables
<1>6. Imm = imm[1] /\ Imm' = {}
  <2>1. Imm' = {}
    BY <1>4 DEF Imm, ToSet
  <2> QED BY <1>3, <2>1, ImmIs
<1>7. InManifest' = InManifest
  <2>1. FilesOf(manifest') = FilesOf(manifest)
    BY <1>4 DEF FilesOf
  <2> QED BY <1>1, <2>1, ManifestTables
<1>8. InVersion' = InVersion \cup Imm
  <2>1. FilesOf(version') \subseteq DOMAIN tables' /\ FilesOf(version) \subseteq DOMAIN tables
    BY <1>1 DEF FileInv, Referred, FilesOf
  <2>2. InVersion' = UNION {tables'[f] : f \in FilesOf(version') \cap DOMAIN tables'}
    BY DEF InVersion, InTables, FilesOf
  <2>3. UNION {tables'[f] : f \in FilesOf(version') \cap DOMAIN tables'} = InTables(FilesOf(version'))
    BY <1>5, <2>1 DEF InTables
  <2>4. CASE imm[1] = {}
    BY <1>3, <1>6, <2>2, <2>3, <2>4 DEF InVersion
  <2>5. CASE imm[1] # {}
    <3>1. InTables(FilesOf(version) \cup {flush.file}) = InTables(FilesOf(version)) \cup tables[flush.file]
      BY <1>3, <2>5 DEF InTables
    <3> QED BY <1>3, <1>6, <2>2, <2>3, <2>5, <3>1 DEF InVersion
  <2> QED BY <2>4, <2>5
<1>9. KeptLogs' = {logfile} /\ LiveLogs' = {logfile} /\ LiveLogs = {logfile} /\ logfile \in KeptLogs
  <2>1. /\ logfile \in Nat /\ \A n \in DOMAIN logs : n \in Nat /\ n <= logfile
        /\ logfile \in DOMAIN logs
    BY <1>1, NumbersAre
  <2>2. logfile \in DOMAIN logs'
    BY <1>1 DEF FileInv, NumbersBelow
  <2>3. /\ KeptLogs' = {n \in DOMAIN logs' : n >= version'.log}
        /\ LiveLogs' = {n \in DOMAIN logs' : n >= manifest'.log}
        /\ LiveLogs = {n \in DOMAIN logs : n >= manifest.log}
    BY <1>1 DEF KeptLogs, LiveLogs
  <2>4. {n \in DOMAIN logs' : n >= logfile} = {logfile} /\ {n \in DOMAIN logs : n >= logfile} = {logfile}
    BY <1>1, <2>1, <2>2
  <2> QED BY <1>1, <1>3, <1>4, <2>3, <2>4, KeptAre
<1>10. (Log(logfile))' = Log(logfile) /\ (LogSynced(logfile))' = LogSynced(logfile)
  BY <1>1, <1>9 DEF Log, LogSynced, KeptLogs
<1>11. InLogs' = Log(logfile) /\ Log(logfile) \subseteq InLogs
  <2>1. InLogs' = UNION {(Log(n))' : n \in KeptLogs'}
    BY DEF InLogs, Log
  <2> QED BY <1>1, <1>9, <1>10, <2>1 DEF InLogs, Log
<1>12. Visible' = Visible /\ Everything' \subseteq Everything
  BY <1>1, <1>6, <1>7, <1>8, <1>11 DEF Visible, Everything
<1>13. Apart'
  BY <1>12 DEF DataInv, DiskInv, Apart
<1>14. Numbered'
  <2>1. (Ids(Everything))' \subseteq 1 .. issued'
    BY <1>1, <1>12 DEF DataInv, DiskInv, Numbered, Ids
  <2>2. \A e \in InManifest' : e.seq <= manifest'.last
    BY <1>4, <1>7 DEF DataInv, DiskInv, Numbered
  <2>3. \A e \in InManifest' \cup InVersion' \cup Imm' : e.seq <= lastSeq'
    BY <1>1, <1>6, <1>7, <1>8 DEF DataInv, DiskInv, Numbered
  <2>4. \A e \in mem' : e.seq <= lastSeq' \/ (Stage' = "inserted" /\ e \in InFlight')
    BY <1>1 DEF DataInv, DiskInv, Numbered
  <2>5. \A e \in InLogs' : e.seq <= lastSeq' \/ e \in InFlight'
    BY <1>1, <1>11 DEF DataInv, DiskInv, Numbered
  <2> QED BY <2>1, <2>2, <2>3, <2>4, <2>5 DEF Numbered
<1>15. GroupInLog'
  <2>1. (Ids(InFlight))' = Ids(InFlight) /\ (job[writers[1]].sync)' = job[writers[1]].sync
    <3>1. UNCHANGED queue
      BY DEF InstallFlush
    <3> QED BY <1>1, <3>1 DEF Ids, queue
  <2> QED BY <1>1, <1>2, <1>10, <2>1 DEF DataInv, DiskInv, GroupInLog
<1>16. Unflushed'
  <2>1. InVersion' \subseteq InManifest'
    BY <1>1, <1>4, <1>7, <1>8 DEF DataInv, DiskInv, Unflushed
  <2>2. \A e \in (Log(logfile))' : e \in mem' \/ bgError' \/ e \in InFlight'
    BY <1>1, <1>10 DEF DataInv, DiskInv, Unflushed
  <2>3. \A n \in KeptLogs' : n = logfile'
    BY <1>1, <1>9
  <2> QED BY <1>2, <1>4, <2>1, <2>2, <2>3 DEF Unflushed
<1>17. CommittedIs'
  <2>1. (Ids(InManifest \cup InLogs) \cap acked \subseteq Ids(committed))'
    BY <1>1, <1>7, <1>11 DEF DataInv, DiskInv, CommittedIs, Ids
  <2>2. (acked \subseteq Ids(committed) \cup shaken \cup behindTear)'
    BY <1>1 DEF DataInv, DiskInv, CommittedIs, Ids
  <2>3. committed' = {e \in Visible' : e.seq <= lastSeq'}
    BY <1>1, <1>12 DEF DataInv, DiskInv, CommittedIs
  <2> QED BY <2>1, <2>2, <2>3 DEF CommittedIs
<1>18. Recoverable' = Recoverable /\ RecoverableSynced' = RecoverableSynced
  <2>1. /\ Recoverable = InManifest \cup Log(logfile) /\ RecoverableSynced = InManifest \cup LogSynced(logfile)
    BY <1>9, DataAre
  <2>2. Recoverable' = InManifest' \cup UNION {(Log(n))' : n \in LiveLogs'}
        /\ RecoverableSynced' = InManifest' \cup UNION {(LogSynced(n))' : n \in LiveLogs'}
    BY DEF Recoverable, RecoverableSynced, InManifest, Log, LogSynced
  <2>3. (Log(logfile))' = Readable(logs'[logfile'].recs)
        /\ (LogSynced(logfile))' = Readable(SubSeq(logs'[logfile'].recs, 1, logs'[logfile'].synced))
    BY DEF Log, LogSynced
  <2> QED BY <1>1, <1>7, <1>9, <1>10, <2>1, <2>2, <2>3 DEF Log, LogSynced
<1>19. KilledLosesNothing' /\ SyncedKeptUnlessTorn'
  BY <1>1, <1>18 DEF DataInv, KilledLosesNothing, SyncedKeptUnlessTorn, Ids
<1> QED BY <1>13, <1>14, <1>15, <1>16, <1>17, <1>18, <1>19 DEF DataInv, DiskInv

LEMMA BackgroundData ==
    ASSUME QueueInv, FileInv, Bounded, DataInv, BackgroundAction
    PROVE  DataInv' /\ Recoverable \subseteq Recoverable'
<1>1. /\ QueueInv' /\ FileInv' /\ TablesKept /\ Up /\ Up' /\ Alive /\ Alive'
  BY BackSteps
<1>2. VersionsTyped
  BY DEF FileInv
<1>3. CASE UNCHANGED <<manifest, imm, version, logs>> /\ (flush'.pc = "logged" => flush.pc = "logged")
  <2>1. FilesOf(version') = FilesOf(version)
    BY <1>3 DEF FilesOf
  <2>2. InVersion' = InVersion
    BY <1>1, <2>1, VersionTables
  <2> QED BY <1>3, <2>2, BackQuiet
<1>4. CASE StartFlush \/ BuildTable
  <2>1. UNCHANGED <<manifest, imm, version, logs>>
    BY <1>4 DEF StartFlush, BuildTable, disk, memory, vset
  <2>2. flush'.pc # "logged"
    <3>1. StartFlush => flush'.pc # "logged"
      BY DEF StartFlush
    <3>2. BuildTable => flush' = [pc |-> "built", file |-> flush.file]
      BY BackIs DEF BuildTable
    <3> QED BY <1>4, <3>1, <3>2
  <2> QED BY <1>3, <2>1, <2>2
<1>5. CASE BuildTableFails \/ FlushStopped
  <2>1. UNCHANGED <<manifest, imm, version, logs>> /\ flush'.pc # "logged"
    BY <1>5 DEF BuildTableFails, FlushStopped, FlushFails, NoFlush, disk, memory, vset
  <2> QED BY <1>3, <2>1
<1>6. CASE NothingToDo \/ OpenCompactionOutputFile \/ FinishCompactionOutputFile \/ CompactionStopped
           \/ \E some \in SUBSET version.l0 \ {{}}, below \in SUBSET version.deep :
                  PickCompaction(some \cup below)
  <2>1. CompactionStopped => UNCHANGED logs
    BY CompactionEndsFiles
  <2>2. UNCHANGED <<manifest, imm, version, logs, flush>>
    BY <1>6, <2>1 DEF NothingToDo, OpenCompactionOutputFile, FinishCompactionOutputFile, CompactionStopped,
                      PickCompaction, disk, memory, vset
  <2> QED BY <1>3, <2>2
<1>7. CASE LogFlush
  <2>1. PICK e \in FlushEdits : manifest' = Logged(e)
    <3>1. edit' \in FlushEdits /\ manifest' = Logged(edit')
      BY <1>7, LogFlushFiles
    <3> QED BY <3>1
  <2>2. flush.pc = "built" /\ UNCHANGED <<logs, tables, version, imm>>
    BY <1>7 DEF LogFlush, memory
  <2>3. /\ InManifest' = InManifest \cup Imm
        /\ manifest'.log = logfile /\ manifest'.last = lastSeq
    BY <2>1, <2>2, FlushLogged
  <2> QED BY <2>2, <2>3, ManifestStep
<1>8. CASE LogFlushFails
  <2>1. flush.pc = "built" /\ UNCHANGED <<logs, tables, version, imm>> /\ flush'.pc # "logged"
    BY <1>8 DEF LogFlushFails, FlushFails, NoFlush, memory, vset
  <2>2. CASE UNCHANGED manifest
    BY <1>3, <2>1, <2>2
  <2>3. ASSUME NEW e \in FlushEdits, manifest' = Logged(e)
        PROVE  DataInv' /\ Recoverable \subseteq Recoverable'
    <3>1. /\ InManifest' = InManifest \cup Imm
          /\ manifest'.log = logfile /\ manifest'.last = lastSeq
      BY <2>1, <2>3, FlushLogged
    <3> QED BY <2>1, <3>1, ManifestStep
  <2>4. UNCHANGED manifest \/ \E e \in FlushEdits : manifest' = Logged(e)
    BY <1>8 DEF LogFlushFails
  <2> QED BY <2>2, <2>3, <2>4
<1>9. CASE InstallFlush
  BY <1>9, InstallFlushData
<1>10. ASSUME comp.pc = "built", manifest' = Logged(CompactionEdit),
              UNCHANGED <<logs, tables, version, imm>>, flush'.pc = "logged" => flush.pc = "logged"
       PROVE  DataInv' /\ Recoverable \subseteq Recoverable'
  <2>1. InManifest' = InManifest /\ manifest'.log = version.log /\ manifest'.last = lastSeq
    BY <1>1, <1>10, CompactionData
  <2>2. flush.pc = "logged" => Imm \subseteq InManifest
    BY DEF DataInv, DiskInv, Unflushed
  <2> QED BY <1>10, <2>1, <2>2, ManifestStep
<1>11. CASE LogCompaction
  <2>1. comp.pc = "built" /\ edit' = CompactionEdit /\ manifest' = Logged(edit')
        /\ UNCHANGED <<logs, tables, version, imm, flush>>
    BY <1>11 DEF LogCompaction, memory
  <2>2. PICK e : e = edit'
    OBVIOUS
  <2>3. manifest' = Logged(e) /\ e = CompactionEdit
    BY <2>1, <2>2
  <2>4. manifest' = Logged(CompactionEdit)
    BY <2>3
  <2> QED BY <1>10, <2>1, <2>4
<1>12. CASE CompactionFails
  <2>1. /\ manifest' = manifest \/ (comp.pc = "built" /\ manifest' = Logged(CompactionEdit))
        /\ UNCHANGED <<logs, tables>>
    BY <1>12, CompactionEndsFiles
  <2>2. UNCHANGED <<version, imm, flush>>
    BY <1>12 DEF CompactionFails, memory, vset
  <2> QED BY <1>3, <1>10, <2>1, <2>2
<1>13. CASE InstallCompaction
  <2>1. /\ FilesOf(version') = (FilesOf(version) \ comp.inputs)
                           \cup (IF comp.file = None THEN comp.inputs ELSE {comp.file})
        /\ version'.log = version.log
    BY <1>13, InstallCompactionFiles
  <2>2. comp.pc = "logged" /\ UNCHANGED <<manifest, imm, flush>>
    BY <1>13 DEF InstallCompaction, memory
  <2>3. PICK v, keep : v = version' /\ keep = pending'
    OBVIOUS
  <2>4. UNCHANGED <<logs, tables>> \/ DeleteObsoleteFiles(v, keep, bgError)
    BY <1>13, <2>3 DEF InstallCompaction
  <2>5. /\ DOMAIN tables' \subseteq DOMAIN tables /\ \A f \in DOMAIN tables' : tables'[f] = tables[f]
        /\ \A n \in DOMAIN logs : n >= version'.log => n \in DOMAIN logs'
    BY <2>3, <2>4, DeletedTables
  <2>6. InVersion' = InVersion
    <3>1. FilesOf(version') \subseteq DOMAIN tables'
      BY <1>1 DEF FileInv, Referred, FilesOf
    <3>2. InVersion' = UNION {tables'[f] : f \in FilesOf(version') \cap DOMAIN tables'}
      BY DEF InVersion, InTables, FilesOf
    <3>3. UNION {tables'[f] : f \in FilesOf(version') \cap DOMAIN tables'} = InTables(FilesOf(version'))
      BY <2>5, <3>1 DEF InTables
    <3>4. FilesOf(version) \subseteq DOMAIN tables /\ comp.inputs \subseteq FilesOf(version)
      BY DEF FileInv, Referred, Protected
    <3> DEFINE files == FilesOf(version)
    <3>5. files \subseteq DOMAIN tables /\ comp.inputs \subseteq files /\ InVersion = InTables(files)
      BY <3>4 DEF InVersion
    <3> HIDE DEF files
    <3>6. InTables((files \ comp.inputs) \cup (IF comp.file = None THEN comp.inputs ELSE {comp.file}))
              = InTables(files)
      BY <2>2, <3>5, CompactedTables
    <3> QED BY <2>1, <3>2, <3>3, <3>5, <3>6 DEF files
  <2> QED BY <2>1, <2>2, <2>5, <2>6, BackQuiet
<1> QED BY <1>4, <1>5, <1>6, <1>7, <1>8, <1>9, <1>11, <1>12, <1>13 DEF BackgroundAction, BackgroundStep

-----------------------------------------------------------------------------
(* The writers *)

\* What the front writer does at the log and at the memtable leaves its group
\* as it is.
LEMMA GroupKept ==
    ASSUME QueueInv, FileInv, NEW t \in Thread, Stage # "none", NEW x,
           job' = [job EXCEPT ![t].pc = x], UNCHANGED <<writers, group, lastSeq>>
    PROVE  GroupEntries' = GroupEntries /\ job'[writers'[1]].sync = job[writers[1]].sync
<1>1. job \in [Thread -> JobSet] /\ writers # <<>> /\ writers[1] \in Thread
  BY JobsAre DEF QueueInv, QueueTyped, Stage, Foremost
<1>2. \A u \in Thread : job'[u].batch = job[u].batch /\ job'[u].sync = job[u].sync
  BY <1>1, JobSetIs
<1> QED BY <1>1, <1>2, GroupStays

\* The entries of the group come after all others.
LEMMA GroupApart ==
    ASSUME QueueInv, FileInv, DataInv, Stage # "none"
    PROVE  /\ mode = "open" /\ Up /\ Alive /\ mode \notin {"replayed", "saved"}
           /\ GroupEntries \subseteq Entry
           /\ \A e \in Everything : e.seq <= lastSeq \/ e \in InFlight
           /\ InFlight \subseteq GroupEntries
           /\ \A e \in GroupEntries : lastSeq < e.seq /\ e.seq <= lastSeq + Cardinality(GroupEntries)
                                      /\ e.batch \in 1 .. issued /\ e.batch \notin acked
           /\ \A d, e \in Everything \cup GroupEntries : d.seq = e.seq => d = e
           /\ Ids(Everything \cup GroupEntries) \subseteq 1 .. issued
           /\ Cardinality(GroupEntries) \in Nat /\ lastSeq \in Nat
<1>1. mode = "open" /\ Up /\ Alive /\ mode \notin {"replayed", "saved"}
  BY FlightIs DEF Up, Alive
<1>2. lastSeq \in Nat /\ Everything \subseteq Entry /\ \A e \in Entry : e.seq \in Nat /\ e.batch \in Nat
  BY DataAre
<1>3. /\ GroupEntries \subseteq Entry /\ Cardinality(GroupEntries) \in Nat
      /\ \A e \in GroupEntries : /\ lastSeq < e.seq
                                 /\ e.seq <= lastSeq + Cardinality(GroupEntries)
                                 /\ e.batch \in 1 .. issued /\ e.batch \notin acked
      /\ \A d, e \in GroupEntries : d.seq = e.seq => d = e
  BY <1>2, GroupEntriesAre
<1>4. InFlight \subseteq GroupEntries
  BY DEF InFlight
<1>5. \A e \in Everything : e.seq <= lastSeq \/ e \in InFlight
  BY <1>1 DEF Everything, Visible, DataInv, DiskInv, Numbered
<1>6. ASSUME NEW d \in Everything, NEW e \in GroupEntries, d.seq = e.seq
      PROVE  d = e
  <2>1. ~ (d.seq <= lastSeq)
    <3>1. lastSeq < e.seq /\ e.seq \in Nat
      BY <1>2, <1>3
    <3> QED BY <1>2, <1>6, <3>1
  <2>2. d \in GroupEntries
    BY <1>4, <1>5, <2>1
  <2> QED BY <1>3, <1>6, <2>2
<1>7. \A d, e \in Everything : d.seq = e.seq => d = e
  BY DEF DataInv, DiskInv, Apart
<1>8. \A d, e \in Everything \cup GroupEntries : d.seq = e.seq => d = e
  <2> SUFFICES ASSUME NEW d \in Everything \cup GroupEntries, NEW e \in Everything \cup GroupEntries, d.seq = e.seq
               PROVE  d = e
    OBVIOUS
  <2>1. CASE d \in Everything /\ e \in Everything
    BY <1>7, <2>1
  <2>2. CASE d \in GroupEntries /\ e \in GroupEntries
    BY <1>3, <2>2
  <2>3. CASE d \in Everything /\ e \in GroupEntries
    BY <1>6, <2>3
  <2>4. CASE e \in Everything /\ d \in GroupEntries
    <3>1. e = d
      BY <1>6, <2>4
    <3> QED BY <3>1
  <2> QED BY <2>1, <2>2, <2>3, <2>4
<1>9. Ids(Everything \cup GroupEntries) \subseteq 1 .. issued
  <2>1. Ids(Everything) \subseteq 1 .. issued
    BY DEF DataInv, DiskInv, Numbered
  <2>2. \A e \in GroupEntries : e.batch \in 1 .. issued
    BY <1>3
  <2> QED BY <2>1, <2>2 DEF Ids
<1> QED BY <1>1, <1>2, <1>3, <1>4, <1>5, <1>8, <1>9

\* What a step of a writer outside the mutex leaves alone.
LEMMA StageFrame ==
    ASSUME QueueInv, FileInv, NEW t \in Thread, AddRecord(t) \/ SyncLog(t) \/ InsertInto(t)
    PROVE  /\ UNCHANGED <<tables, manifest, imm, logfile, version, lastSeq, edit, bgError, flush, mode,
                          issued, acked, sure, committed, shaken, read>>
           /\ InManifest' = InManifest /\ InVersion' = InVersion /\ Imm' = Imm
           /\ GroupEntries' = GroupEntries /\ job'[writers'[1]].sync = job[writers[1]].sync
           /\ Stage # "none" /\ Stage = job[t].pc /\ writers[1] = t
<1>1. UNCHANGED <<tables, manifest, imm, logfile, version, lastSeq, edit, bgError, flush, mode,
                  issued, acked, sure, committed, shaken, read, writers, group>>
  BY DEF AddRecord, SyncLog, InsertInto, disk, memory, vset, back, bounds, ghosts
<1>2. InManifest' = InManifest /\ InVersion' = InVersion /\ Imm' = Imm
  BY <1>1 DEF InManifest, InVersion, InTables, FilesOf, Imm
<1>3. Stage = job[t].pc /\ writers[1] = t /\ Stage # "none"
  <2>1. job[t].pc \in Stages
    BY DEF AddRecord, SyncLog, InsertInto, Stages
  <2> QED BY <2>1, FrontIs DEF Stages
<1>4. PICK x : job' = [job EXCEPT ![t].pc = x]
  BY DEF AddRecord, SyncLog, InsertInto
<1> QED BY <1>1, <1>2, <1>3, <1>4, GroupKept

LEMMA AddRecordData ==
    ASSUME QueueInv, FileInv, DataInv, NEW t \in Thread, AddRecord(t)
    PROVE  DataInv' /\ Recoverable \subseteq Recoverable'
<1> DEFINE G == GroupEntries
<1>1. /\ UNCHANGED <<manifest, logfile, version, lastSeq, bgError, flush, mode,
                     issued, acked, sure, committed, shaken>>
      /\ InManifest' = InManifest /\ InVersion' = InVersion /\ Imm' = Imm /\ GroupEntries' = G
      /\ job'[writers'[1]].sync = job[writers[1]].sync
      /\ Stage # "none" /\ writers[1] = t
  BY StageFrame
<1>2. mem' = mem /\ Visible' = Visible
  BY <1>1 DEF AddRecord, memory, Visible
<1>3. QueueInv' /\ FileInv' /\ Stage = "append" /\ Stage' \in {"sync", "insert"}
  BY AddRecordFiles
<1>4. Stage' = "insert" => ~ job[t].sync
  <2>1. job' = [job EXCEPT ![t].pc = IF job[t].sync THEN "sync" ELSE "insert"] /\ job \in [Thread -> JobSet]
    BY DEF AddRecord, QueueInv, QueueTyped
  <2>2. job'[t].pc = IF job[t].sync THEN "sync" ELSE "insert"
    BY <2>1, JobSetIs
  <2>3. writers' = writers /\ job'[t].pc \notin {"none", "queued"}
    BY <2>2 DEF AddRecord
  <2>4. Stage' = job'[t].pc \/ Stage' = "none"
    BY <1>1, <2>3 DEF Stage, Foremost
  <2> QED BY <1>3, <2>2, <2>4
<1>5. InFlight = {} /\ InFlight' = G
  BY <1>1, <1>3 DEF InFlight, Appended
<1>6. /\ mode = "open" /\ Up /\ Alive /\ mode \notin {"replayed", "saved"}
      /\ \A e \in Everything : e.seq <= lastSeq
      /\ \A e \in G : lastSeq < e.seq /\ e.batch \in 1 .. issued /\ e.batch \notin acked
      /\ \A d, e \in Everything \cup G : d.seq = e.seq => d = e
      /\ Ids(Everything \cup G) \subseteq 1 .. issued
  BY <1>1, <1>5, GroupApart
<1> HIDE DEF G
<1>7. /\ logfile \in DOMAIN logs /\ DOMAIN logs' = DOMAIN logs
      /\ \A n \in DOMAIN logs : n # logfile => logs'[n] = logs[n]
      /\ Log(logfile) \subseteq Readable(logs'[logfile].recs)
      /\ Readable(logs'[logfile].recs) \subseteq Log(logfile) \cup G
      /\ Torn \notin ToSet(logs[logfile].recs) => G \subseteq Readable(logs'[logfile].recs)
      /\ Readable(SubSeq(logs'[logfile].recs, 1, logs'[logfile].synced)) = LogSynced(logfile)
  <2>1. /\ logfile \in DOMAIN logs /\ DOMAIN logs' = DOMAIN logs
        /\ \A n \in DOMAIN logs : n # logfile => logs'[n] = logs[n]
        /\ Readable(logs[logfile].recs) \subseteq Readable(logs'[logfile].recs)
        /\ SubSeq(logs'[logfile].recs, 1, logs'[logfile].synced)
                 = SubSeq(logs[logfile].recs, 1, logs[logfile].synced)
    BY AddRecordLogs
  <2>2. /\ Readable(logs'[logfile].recs) \subseteq Readable(logs[logfile].recs) \cup GroupEntries
        /\ Torn \notin ToSet(logs[logfile].recs)
                 => GroupEntries \subseteq Readable(logs'[logfile].recs)
    BY AddRecordLogs
  <2> QED BY <2>1, <2>2 DEF Log, LogSynced, G
<1>8. /\ behindTear \subseteq behindTear'
      /\ Torn \in ToSet(logs[logfile].recs) => Ids(G) \subseteq behindTear'
  <2>1. behindTear' = IF Torn \in ToSet(logs[logfile].recs) THEN behindTear \cup Ids(G) ELSE behindTear
    BY DEF AddRecord, G
  <2> QED BY <2>1
<1>9. /\ (Log(logfile))' = Readable(logs'[logfile].recs)
      /\ (LogSynced(logfile))' = LogSynced(logfile)
      /\ \A n \in DOMAIN logs : n # logfile => Readable(logs'[n].recs) = Log(n)
      /\ \A n \in DOMAIN logs : Log(n) \subseteq Readable(logs'[n].recs)
      /\ \A n \in DOMAIN logs : Readable(logs'[n].recs) \subseteq Log(n) \cup G
      /\ \A n \in DOMAIN logs : Readable(SubSeq(logs'[n].recs, 1, logs'[n].synced)) = LogSynced(n)
  BY <1>1, <1>7 DEF Log, LogSynced
<1>10. /\ KeptLogs' = KeptLogs /\ LiveLogs' = LiveLogs /\ KeptLogs \subseteq DOMAIN logs
       /\ LiveLogs \subseteq KeptLogs /\ logfile \in KeptLogs
  BY <1>1, <1>6, <1>7, KeptAre DEF KeptLogs, LiveLogs, Alive
<1>11. InLogs \subseteq InLogs' /\ InLogs' \subseteq InLogs \cup G
  <2>1. InLogs' = UNION {Readable(logs'[n].recs) : n \in KeptLogs'}
    BY DEF InLogs, Log
  <2> QED BY <1>9, <1>10, <2>1 DEF InLogs
<1>12. Everything' \subseteq Everything \cup G
  BY <1>1, <1>2, <1>11 DEF Everything
<1>13. Apart'
  BY <1>6, <1>12 DEF Apart
<1>14. Numbered'
  <2>1. (Ids(Everything))' \subseteq 1 .. issued'
    BY <1>1, <1>6, <1>12 DEF Ids
  <2>2. \A e \in InManifest' : e.seq <= manifest'.last
    BY <1>1 DEF DataInv, DiskInv, Numbered
  <2>3. \A e \in InManifest' \cup InVersion' \cup Imm' \cup mem' : e.seq <= lastSeq'
    BY <1>1, <1>2, <1>6 DEF Everything, Visible
  <2>4. \A e \in InLogs' : e.seq <= lastSeq' \/ e \in InFlight'
    BY <1>1, <1>5, <1>6, <1>11 DEF Everything
  <2> QED BY <2>1, <2>2, <2>3, <2>4 DEF Numbered
<1>15. GroupInLog'
  <2>1. InFlight' \subseteq (Log(logfile))' \/ (Ids(InFlight))' \subseteq behindTear'
    BY <1>5, <1>7, <1>8, <1>9 DEF Ids
  <2>2. Stage' # "inserted" /\ mode' \notin {"replayed", "saved"}
    BY <1>1, <1>3, <1>6
  <2>3. ~ (Stage' \in {"insert", "inserted"} /\ job'[writers'[1]].sync)
    BY <1>1, <1>3, <1>4
  <2> QED BY <2>1, <2>2, <2>3 DEF GroupInLog
<1>16. Unflushed'
  <2>1. InVersion' \subseteq InManifest' /\ (flush'.pc = "logged" => Imm' \subseteq InManifest')
    BY <1>1, <1>6 DEF DataInv, DiskInv, Unflushed
  <2>2. \A n \in KeptLogs' : n # logfile' => Readable(logs'[n].recs) \subseteq Imm' \cup InManifest'
    BY <1>1, <1>6, <1>9, <1>10 DEF DataInv, DiskInv, Unflushed
  <2>3. \A e \in (Log(logfile))' : e \in mem' \/ bgError' \/ e \in InFlight'
    BY <1>1, <1>2, <1>5, <1>6, <1>7, <1>9 DEF DataInv, DiskInv, Unflushed
  <2>4. mode' \notin {"replayed", "saved"}
    BY <1>1, <1>6
  <2> QED BY <2>1, <2>2, <2>3, <2>4 DEF Unflushed, Log
<1>17. CommittedIs'
  <2>1. Ids(InManifest' \cup InLogs') \cap acked \subseteq Ids(committed)
    <3>1. Ids(InManifest \cup InLogs) \cap acked \subseteq Ids(committed)
      BY <1>6 DEF DataInv, DiskInv, CommittedIs
    <3> QED BY <1>1, <1>6, <1>11, <3>1 DEF Ids
  <2>2. (Ids(InManifest \cup InLogs) \cap acked \subseteq Ids(committed))'
    BY <1>1, <2>1 DEF Ids
  <2>3. (acked \subseteq Ids(committed) \cup shaken \cup behindTear)'
    BY <1>1, <1>6, <1>8 DEF DataInv, DiskInv, CommittedIs, Ids
  <2>4. committed' = {e \in Visible' : e.seq <= lastSeq'}
    BY <1>1, <1>2, <1>6 DEF DataInv, DiskInv, CommittedIs
  <2> QED BY <2>2, <2>3, <2>4 DEF CommittedIs
<1>18. Recoverable \subseteq Recoverable' /\ RecoverableSynced' = RecoverableSynced
  <2>1. /\ Recoverable = InManifest \cup UNION {Log(n) : n \in LiveLogs}
        /\ RecoverableSynced = InManifest \cup UNION {LogSynced(n) : n \in LiveLogs}
    BY DataAre
  <2>2. Recoverable' = InManifest' \cup UNION {Readable(logs'[n].recs) : n \in LiveLogs'}
        /\ RecoverableSynced' = InManifest' \cup UNION {Readable(SubSeq(logs'[n].recs, 1, logs'[n].synced)) : n \in LiveLogs'}
    BY DEF Recoverable, RecoverableSynced, InManifest
  <2> QED BY <1>1, <1>9, <1>10, <2>1, <2>2
<1>19. KilledLosesNothing' /\ SyncedKeptUnlessTorn'
  BY <1>1, <1>8, <1>18 DEF DataInv, KilledLosesNothing, SyncedKeptUnlessTorn, Ids
<1> QED BY <1>13, <1>14, <1>15, <1>16, <1>17, <1>18, <1>19 DEF DataInv, DiskInv

\* The sync of the log: what it gives back is now safe from a crash.
LEMMA SyncLogData ==
    ASSUME QueueInv, FileInv, DataInv, NEW t \in Thread, SyncLog(t)
    PROVE  DataInv' /\ Recoverable' = Recoverable
<1>1. /\ UNCHANGED <<manifest, logfile, version, lastSeq, bgError, flush, mode,
                     issued, acked, sure, committed, shaken>>
      /\ InManifest' = InManifest /\ InVersion' = InVersion /\ Imm' = Imm /\ GroupEntries' = GroupEntries
      /\ job'[writers'[1]].sync = job[writers[1]].sync
      /\ Stage # "none" /\ writers[1] = t
  BY StageFrame
<1>2. mem' = mem /\ Visible' = Visible /\ behindTear' = behindTear
  BY <1>1 DEF SyncLog, memory, Visible, ghosts
<1>3. /\ QueueInv' /\ FileInv' /\ Stage = "sync" /\ Stage' = "insert"
      /\ \A n \in DOMAIN logs : logs'[n].recs = logs[n].recs
      /\ DOMAIN logs' = DOMAIN logs
      /\ logs'[logfile].synced = Len(logs[logfile].recs)
      /\ \A n \in DOMAIN logs : n # logfile => logs'[n] = logs[n]
  BY SyncLogFiles
<1>4. InFlight' = InFlight /\ InFlight = GroupEntries
  BY <1>1, <1>3 DEF InFlight, Appended
<1>5. /\ mode = "open" /\ Up /\ Alive /\ mode \notin {"replayed", "saved"}
      /\ \A e \in Everything : e.seq <= lastSeq \/ e \in InFlight
  BY <1>1, GroupApart
<1>6. logfile \in DOMAIN logs /\ logs[logfile].recs \in Seq(SUBSET Entry)
  BY <1>5, LogAtHand
<1>7. /\ \A n \in DOMAIN logs : Readable(logs'[n].recs) = Log(n)
      /\ \A n \in DOMAIN logs : LogSynced(n) \subseteq Readable(SubSeq(logs'[n].recs, 1, logs'[n].synced))
      /\ Readable(SubSeq(logs'[logfile].recs, 1, logs'[logfile].synced)) = Log(logfile)
  <2>1. \A n \in DOMAIN logs : Readable(logs'[n].recs) = Log(n)
    BY <1>3 DEF Log
  <2>2. Readable(SubSeq(logs'[logfile].recs, 1, logs'[logfile].synced)) = Log(logfile)
    <3>1. SubSeq(logs[logfile].recs, 1, Len(logs[logfile].recs)) = logs[logfile].recs
      BY <1>6, LenProperties, ReadablePrefix
    <3> QED BY <1>3, <1>6, <3>1 DEF Log
  <2>3. ASSUME NEW n \in DOMAIN logs
        PROVE  LogSynced(n) \subseteq Readable(SubSeq(logs'[n].recs, 1, logs'[n].synced))
    <3>1. CASE n = logfile
      BY <2>2, <3>1, LogIs
    <3>2. CASE n # logfile
      BY <1>3, <3>2 DEF LogSynced
    <3> QED BY <3>1, <3>2
  <2> QED BY <2>1, <2>2, <2>3
<1>8. (Log(logfile))' = Log(logfile) /\ (LogSynced(logfile))' = Log(logfile)
  BY <1>1, <1>6, <1>7 DEF Log, LogSynced
<1>9. /\ KeptLogs' = KeptLogs /\ LiveLogs' = LiveLogs /\ KeptLogs \subseteq DOMAIN logs
      /\ LiveLogs \subseteq KeptLogs /\ logfile \in KeptLogs
  BY <1>1, <1>3, <1>5, KeptAre DEF KeptLogs, LiveLogs, Alive
<1>10. InLogs' = InLogs
  <2>1. InLogs' = UNION {Readable(logs'[n].recs) : n \in KeptLogs'}
    BY DEF InLogs, Log
  <2> QED BY <1>7, <1>9, <2>1 DEF InLogs
<1>11. Everything' = Everything
  BY <1>1, <1>2, <1>10 DEF Everything
<1>12. Apart'
  BY <1>11 DEF DataInv, DiskInv, Apart
<1>13. Numbered'
  <2>1. (Ids(Everything))' \subseteq 1 .. issued'
    BY <1>1, <1>11 DEF DataInv, DiskInv, Numbered, Ids
  <2>2. \A e \in InManifest' : e.seq <= manifest'.last
    BY <1>1 DEF DataInv, DiskInv, Numbered
  <2>3. \A e \in InManifest' \cup InVersion' \cup Imm' \cup mem' : e.seq <= lastSeq'
    BY <1>1, <1>2, <1>3, <1>5 DEF DataInv, DiskInv, Numbered
  <2>4. \A e \in InLogs' : e.seq <= lastSeq' \/ e \in InFlight'
    BY <1>1, <1>4, <1>5, <1>10 DEF Everything
  <2> QED BY <2>1, <2>2, <2>3, <2>4 DEF Numbered
<1>14. GroupInLog'
  <2>1. InFlight \subseteq Log(logfile) \/ Ids(InFlight) \subseteq behindTear
    BY <1>3 DEF DataInv, DiskInv, GroupInLog, Appended
  <2>2. (Ids(InFlight))' = Ids(InFlight)
    BY <1>4 DEF Ids
  <2>3. mode' \notin {"replayed", "saved"}
    BY <1>1, <1>5
  <2> QED BY <1>2, <1>3, <1>4, <1>8, <2>1, <2>2, <2>3 DEF GroupInLog
<1>15. Unflushed'
  <2>1. InVersion' \subseteq InManifest' /\ (flush'.pc = "logged" => Imm' \subseteq InManifest')
    BY <1>1, <1>5 DEF DataInv, DiskInv, Unflushed
  <2>2. \A n \in KeptLogs' : n # logfile' => Readable(logs'[n].recs) \subseteq Imm' \cup InManifest'
    BY <1>1, <1>5, <1>7, <1>9 DEF DataInv, DiskInv, Unflushed
  <2>3. \A e \in (Log(logfile))' : e \in mem' \/ bgError' \/ e \in InFlight'
    BY <1>1, <1>2, <1>4, <1>5, <1>8 DEF DataInv, DiskInv, Unflushed
  <2>4. mode' \notin {"replayed", "saved"}
    BY <1>1, <1>5
  <2> QED BY <2>1, <2>2, <2>3, <2>4 DEF Unflushed, Log
<1>16. CommittedIs'
  BY <1>1, <1>2, <1>5, <1>10 DEF DataInv, DiskInv, CommittedIs, Ids
<1>17. Recoverable' = Recoverable /\ RecoverableSynced \subseteq RecoverableSynced'
  <2>1. /\ Recoverable = InManifest \cup UNION {Log(n) : n \in LiveLogs}
        /\ RecoverableSynced = InManifest \cup UNION {LogSynced(n) : n \in LiveLogs}
    BY DataAre
  <2>2. Recoverable' = InManifest' \cup UNION {Readable(logs'[n].recs) : n \in LiveLogs'}
        /\ RecoverableSynced' = InManifest' \cup UNION {Readable(SubSeq(logs'[n].recs, 1, logs'[n].synced)) : n \in LiveLogs'}
    BY DEF Recoverable, RecoverableSynced, InManifest
  <2> QED BY <1>1, <1>7, <1>9, <2>1, <2>2
<1>18. KilledLosesNothing' /\ SyncedKeptUnlessTorn'
  BY <1>1, <1>2, <1>17 DEF DataInv, KilledLosesNothing, SyncedKeptUnlessTorn, Ids
<1> QED BY <1>12, <1>13, <1>14, <1>15, <1>16, <1>17, <1>18 DEF DataInv, DiskInv

\* The entries of the group are in the memtable, and beyond the last sequence.
LEMMA InsertData ==
    ASSUME QueueInv, FileInv, DataInv, NEW t \in Thread, InsertInto(t)
    PROVE  DataInv' /\ Recoverable' = Recoverable
<1> DEFINE G == GroupEntries
<1>1. /\ UNCHANGED <<manifest, logfile, version, lastSeq, bgError, flush, mode,
                     issued, acked, sure, committed, shaken>>
      /\ InManifest' = InManifest /\ InVersion' = InVersion /\ Imm' = Imm /\ GroupEntries' = G
      /\ job'[writers'[1]].sync = job[writers[1]].sync
      /\ Stage # "none" /\ writers[1] = t
  BY StageFrame
<1>2. mem' = mem \cup G /\ behindTear' = behindTear /\ UNCHANGED logs
  BY DEF InsertInto, ghosts, disk
<1>3. QueueInv' /\ FileInv' /\ Stage = "insert" /\ Stage' = "inserted"
  BY InsertFiles
<1>4. InFlight' = G /\ InFlight = G
  BY <1>1, <1>3 DEF InFlight, Appended
<1>5. /\ mode = "open" /\ Up /\ Alive /\ mode \notin {"replayed", "saved"}
      /\ \A e \in Everything : e.seq <= lastSeq \/ e \in G
      /\ \A e \in G : lastSeq < e.seq
      /\ \A d, e \in Everything \cup G : d.seq = e.seq => d = e
      /\ Ids(Everything \cup G) \subseteq 1 .. issued
      /\ G \subseteq Entry /\ lastSeq \in Nat /\ \A e \in Entry : e.seq \in Nat
  BY <1>1, <1>4, GroupApart, DataAre
<1> HIDE DEF G
<1>6. /\ KeptLogs' = KeptLogs /\ LiveLogs' = LiveLogs /\ InLogs' = InLogs
      /\ (Log(logfile))' = Log(logfile) /\ (LogSynced(logfile))' = LogSynced(logfile)
      /\ \A n : Readable(logs'[n].recs) = Log(n)
  BY <1>1, <1>2 DEF KeptLogs, LiveLogs, InLogs, Log, LogSynced, Alive
<1>7. Visible' = Visible \cup G /\ Everything' = Everything \cup G
  BY <1>1, <1>2, <1>6 DEF Visible, Everything
<1>8. Apart'
  BY <1>5, <1>7 DEF Apart
<1>9. Numbered'
  <2>1. (Ids(Everything))' \subseteq 1 .. issued'
    BY <1>1, <1>5, <1>7 DEF Ids
  <2>2. \A e \in InManifest' : e.seq <= manifest'.last
    BY <1>1 DEF DataInv, DiskInv, Numbered
  <2>3. \A e \in InManifest' \cup InVersion' \cup Imm' : e.seq <= lastSeq'
    BY <1>1, <1>5 DEF DataInv, DiskInv, Numbered
  <2>4. \A e \in mem' : e.seq <= lastSeq' \/ (Stage' = "inserted" /\ e \in InFlight')
    BY <1>1, <1>2, <1>3, <1>4, <1>5 DEF Everything, Visible
  <2>5. \A e \in InLogs' : e.seq <= lastSeq' \/ e \in InFlight'
    BY <1>1, <1>4, <1>5, <1>6 DEF Everything
  <2> QED BY <2>1, <2>2, <2>3, <2>4, <2>5 DEF Numbered
<1>10. GroupInLog'
  <2>1. InFlight \subseteq Log(logfile) \/ Ids(InFlight) \subseteq behindTear
    BY <1>3 DEF DataInv, DiskInv, GroupInLog, Appended
  <2>2. job[writers[1]].sync => InFlight \subseteq LogSynced(logfile) \/ Ids(InFlight) \subseteq behindTear
    BY <1>3 DEF DataInv, DiskInv, GroupInLog
  <2>3. (Ids(InFlight))' = Ids(InFlight)
    BY <1>4 DEF Ids
  <2>4. mode' \notin {"replayed", "saved"} /\ InFlight' \subseteq mem'
    BY <1>1, <1>2, <1>4, <1>5
  <2> QED BY <1>1, <1>2, <1>3, <1>4, <1>6, <2>1, <2>2, <2>3, <2>4 DEF GroupInLog
<1>11. Unflushed'
  <2>1. InVersion' \subseteq InManifest' /\ (flush'.pc = "logged" => Imm' \subseteq InManifest')
    BY <1>1, <1>5 DEF DataInv, DiskInv, Unflushed
  <2>2. \A n \in KeptLogs' : n # logfile' => Readable(logs'[n].recs) \subseteq Imm' \cup InManifest'
    BY <1>1, <1>5, <1>6 DEF DataInv, DiskInv, Unflushed
  <2>3. \A e \in (Log(logfile))' : e \in mem' \/ bgError' \/ e \in InFlight'
    BY <1>1, <1>2, <1>4, <1>5, <1>6 DEF DataInv, DiskInv, Unflushed
  <2>4. mode' \notin {"replayed", "saved"}
    BY <1>1, <1>5
  <2> QED BY <2>1, <2>2, <2>3, <2>4 DEF Unflushed, Log
<1>12. CommittedIs'
  <2>1. committed' = {e \in Visible' : e.seq <= lastSeq'}
    <3>1. committed = {e \in Visible : e.seq <= lastSeq}
      BY <1>5 DEF DataInv, DiskInv, CommittedIs
    <3>2. \A e \in G : ~ (e.seq <= lastSeq)
      BY <1>5
    <3> QED BY <1>1, <1>7, <3>1, <3>2
  <2> QED BY <1>1, <1>2, <1>5, <1>6, <2>1 DEF DataInv, DiskInv, CommittedIs, Ids
<1>13. Recoverable' = Recoverable /\ RecoverableSynced' = RecoverableSynced
  BY <1>1, <1>2, <1>6 DEF Recoverable, RecoverableSynced, InManifest
<1>14. KilledLosesNothing' /\ SyncedKeptUnlessTorn'
  BY <1>1, <1>2, <1>13 DEF DataInv, KilledLosesNothing, SyncedKeptUnlessTorn, Ids
<1> QED BY <1>8, <1>9, <1>10, <1>11, <1>12, <1>13, <1>14 DEF DataInv, DiskInv

\* Who is answered for with OK, and for sure.
LEMMA FinishAnswers ==
    ASSUME QueueInv, FileInv, NEW t \in Thread, FinishWrite(t)
    PROVE  /\ Stage = "inserted" => acked' = acked \cup Ids(GroupEntries) /\ committed' = committed \cup GroupEntries
           /\ Stage # "inserted" => acked' = acked /\ sure' = sure /\ committed' = committed
           /\ sure \subseteq sure' /\ sure' \subseteq acked'
           /\ ~ job[writers[1]].sync => sure' = sure
           /\ sure' \subseteq sure \cup Ids(GroupEntries)
<1>1. Stage = job[t].pc /\ Stage \in {"inserted", "failed", "syncError"} /\ QueueInv'
  BY FinishWriteFiles
<1>2. group \in 1 .. Len(writers) /\ \A i \in 1 .. group : job[writers[i]].sync => job[writers[1]].sync
  BY <1>1 DEF QueueInv, GroupTaken
<1>3. Ids(GroupEntries) = UNION {job[writers[i]].batch : i \in 1 .. group}
  BY <1>1, GroupEntriesAre DEF FileInv, VersionsTyped
<1> DEFINE done == {writers[i] : i \in 1 .. group}
           All  == UNION {job[u].batch : u \in done}
           Some == UNION {job[u].batch : u \in {w \in done : job[w].sync}}
           ok   == job[t].pc = "inserted"
<1>4. /\ acked' = IF ok THEN acked \cup All ELSE acked
      /\ sure' = IF ok THEN sure \cup Some ELSE sure
  BY DEF FinishWrite, Answer
<1>5. All = Ids(GroupEntries)
  BY <1>3
<1>6. Some \subseteq All /\ (~ job[writers[1]].sync => Some = {})
  BY <1>2
<1>7. committed' = IF ok THEN committed \cup GroupEntries ELSE committed
  BY DEF FinishWrite
<1>8. ok <=> Stage = "inserted"
  BY <1>1
<1>9. sure' \subseteq acked'
  BY <1>1 DEF QueueInv, Answered
<1> HIDE DEF done, All, Some, ok
<1> QED BY <1>4, <1>5, <1>6, <1>7, <1>8, <1>9

LEMMA FinishData ==
    ASSUME QueueInv, FileInv, DataInv, NEW t \in Thread, FinishWrite(t)
    PROVE  DataInv' /\ Recoverable' = Recoverable
<1> DEFINE G == GroupEntries
<1>1. /\ UNCHANGED <<logs, tables, manifest, mem, imm, logfile, version, flush, mode, issued, shaken, behindTear>>
      /\ bgError' = (bgError \/ job[t].pc = "syncError") /\ lastSeq' = lastSeq + Cardinality(G)
  BY DEF FinishWrite, disk, memory, bounds
<1>2. /\ QueueInv' /\ FileInv' /\ Stage \in {"inserted", "failed", "syncError"}
      /\ Stage = job[t].pc /\ Stage' = "none"
  BY FinishWriteFiles
<1>3. /\ Stage = "inserted" => acked' = acked \cup Ids(G) /\ committed' = committed \cup G
      /\ Stage # "inserted" => acked' = acked /\ sure' = sure /\ committed' = committed
      /\ ~ job[writers[1]].sync => sure' = sure
      /\ sure' \subseteq sure \cup Ids(G)
  BY FinishAnswers
<1>4. /\ InFlight' = {} /\ InFlight \subseteq G
      /\ Stage \in {"inserted", "syncError"} => InFlight = G
      /\ Stage = "failed" => InFlight = {}
  BY <1>2 DEF InFlight, Appended
<1>5. /\ mode = "open" /\ Up /\ Alive /\ mode \notin {"replayed", "saved"}
      /\ \A e \in Everything : e.seq <= lastSeq \/ e \in InFlight
      /\ \A e \in G : lastSeq < e.seq /\ e.seq <= lastSeq + Cardinality(G)
      /\ lastSeq \in Nat /\ Cardinality(G) \in Nat
      /\ Everything \subseteq Entry /\ G \subseteq Entry /\ \A e \in Entry : e.seq \in Nat
  BY <1>2, GroupApart, DataAre
<1> HIDE DEF G
<1>6. /\ KeptLogs' = KeptLogs /\ LiveLogs' = LiveLogs /\ InLogs' = InLogs /\ InManifest' = InManifest
      /\ InVersion' = InVersion /\ Imm' = Imm /\ Visible' = Visible /\ Everything' = Everything
      /\ (Log(logfile))' = Log(logfile) /\ \A n : Readable(logs'[n].recs) = Log(n)
      /\ Recoverable' = Recoverable /\ RecoverableSynced' = RecoverableSynced
  <2>1. /\ KeptLogs' = KeptLogs /\ LiveLogs' = LiveLogs /\ InLogs' = InLogs
        /\ (Log(logfile))' = Log(logfile) /\ \A n : Readable(logs'[n].recs) = Log(n)
    BY <1>1 DEF KeptLogs, LiveLogs, InLogs, Log, Alive
  <2>2. InManifest' = InManifest /\ InVersion' = InVersion /\ Imm' = Imm
    BY <1>1 DEF InManifest, InVersion, Imm, InTables, FilesOf
  <2>3. Recoverable' = Recoverable /\ RecoverableSynced' = RecoverableSynced
    BY <1>1, <2>1, <2>2 DEF Recoverable, RecoverableSynced, InManifest
  <2> QED BY <1>1, <2>1, <2>2, <2>3 DEF Visible, Everything
<1>7. \A e \in Everything : e.seq <= lastSeq'
  <2>1. \A e \in Everything : e.seq \in Nat
    BY <1>5
  <2> QED BY <1>1, <1>4, <1>5, <2>1
<1>8. Apart'
  BY <1>6 DEF DataInv, DiskInv, Apart
<1>9. Numbered'
  <2>1. (Ids(Everything))' \subseteq 1 .. issued'
    BY <1>1, <1>6 DEF DataInv, DiskInv, Numbered, Ids
  <2>2. \A e \in InManifest' : e.seq <= manifest'.last
    BY <1>1, <1>6 DEF DataInv, DiskInv, Numbered
  <2>3. \A e \in Everything' : e.seq <= lastSeq'
    BY <1>6, <1>7
  <2> QED BY <2>1, <2>2, <2>3 DEF Numbered, Everything, Visible
<1>10. GroupInLog'
  BY <1>1, <1>2, <1>5 DEF GroupInLog, Appended
<1>11. Unflushed'
  <2>1. InVersion' \subseteq InManifest' /\ (flush'.pc = "logged" => Imm' \subseteq InManifest')
    BY <1>1, <1>5, <1>6 DEF DataInv, DiskInv, Unflushed
  <2>2. \A n \in KeptLogs' : n # logfile' => Readable(logs'[n].recs) \subseteq Imm' \cup InManifest'
    BY <1>1, <1>5, <1>6 DEF DataInv, DiskInv, Unflushed
  <2>3. \A e \in (Log(logfile))' : e \in mem' \/ bgError' \/ e \in InFlight'
    <3>1. \A e \in Log(logfile) : e \in mem \/ bgError \/ e \in InFlight
      BY <1>5 DEF DataInv, DiskInv, Unflushed
    <3>2. InFlight \subseteq mem \/ bgError'
      <4>1. CASE Stage = "inserted"
        BY <4>1 DEF DataInv, DiskInv, GroupInLog
      <4>2. CASE Stage = "syncError"
        BY <1>1, <1>2, <4>2
      <4>3. CASE Stage = "failed"
        BY <1>4, <4>3
      <4> QED BY <1>2, <4>1, <4>2, <4>3
    <3> QED BY <1>1, <1>6, <3>1, <3>2
  <2>4. mode' \notin {"replayed", "saved"}
    BY <1>1, <1>5
  <2> QED BY <2>1, <2>2, <2>3, <2>4 DEF Unflushed, Log
<1>12. committed = {e \in Visible : e.seq <= lastSeq} /\ Visible \subseteq Everything
       /\ acked \subseteq Ids(committed) \cup shaken \cup behindTear
       /\ Ids(InManifest \cup InLogs) \cap acked \subseteq Ids(committed)
  BY <1>5 DEF DataInv, DiskInv, CommittedIs, Everything
<1>13. committed' = Visible
  <2>1. CASE Stage = "inserted"
    <3>1. G \subseteq mem
      BY <1>4, <2>1 DEF DataInv, DiskInv, GroupInLog
    <3>2. \A e \in Visible : e.seq <= lastSeq \/ e \in G
      BY <1>4, <1>5, <1>12
    <3> QED BY <1>3, <1>12, <2>1, <3>1, <3>2 DEF Visible
  <2>2. CASE Stage # "inserted"
    <3>1. \A e \in Visible : e.seq <= lastSeq
      BY <1>5, <2>2 DEF DataInv, DiskInv, Numbered, Visible
    <3> QED BY <1>3, <1>12, <2>2, <3>1
  <2> QED BY <2>1, <2>2
<1>14. CommittedIs'
  <2>1. committed' = {e \in Visible' : e.seq <= lastSeq'}
    BY <1>6, <1>7, <1>12, <1>13
  <2>2. acked' \subseteq acked \cup (IF Stage = "inserted" THEN Ids(G) ELSE {})
        /\ (Stage = "inserted" => Ids(G) \subseteq Ids(committed')) /\ Ids(committed) \subseteq Ids(committed')
    BY <1>3 DEF Ids
  <2>3. (acked \subseteq Ids(committed) \cup shaken \cup behindTear)'
    BY <1>1, <1>12, <2>2 DEF Ids
  <2>4. Ids(InManifest \cup InLogs) \cap acked' \subseteq Ids(committed')
    BY <1>12, <2>2
  <2>5. (Ids(InManifest \cup InLogs) \cap acked \subseteq Ids(committed))'
    BY <1>6, <2>4 DEF Ids
  <2> QED BY <2>1, <2>3, <2>5 DEF CommittedIs
<1>15. logfile \in LiveLogs
  BY <1>5, KeptAre
<1>16. KilledLosesNothing'
  <2>1. acked \subseteq Ids(Recoverable) \cup shaken \cup behindTear
    BY DEF DataInv, KilledLosesNothing
  <2>2. Stage = "inserted" => Ids(G) \subseteq Ids(Recoverable) \cup behindTear
    <3>1. Stage = "inserted" => G \subseteq Log(logfile) \/ Ids(G) \subseteq behindTear
      BY <1>4 DEF DataInv, DiskInv, GroupInLog, Appended
    <3>2. Log(logfile) \subseteq Recoverable
      BY <1>15, DataAre
    <3> QED BY <3>1, <3>2 DEF Ids
  <2>3. acked' \subseteq Ids(Recoverable) \cup shaken \cup behindTear
    BY <1>3, <2>1, <2>2
  <2> QED BY <1>1, <1>6, <2>3 DEF KilledLosesNothing, Ids
<1>17. SyncedKeptUnlessTorn'
  <2>1. sure \subseteq Ids(RecoverableSynced) \cup behindTear
    BY DEF DataInv, SyncedKeptUnlessTorn
  <2>2. Stage = "inserted" /\ job[writers[1]].sync => Ids(G) \subseteq Ids(RecoverableSynced) \cup behindTear
    <3>1. Stage = "inserted" /\ job[writers[1]].sync
              => G \subseteq LogSynced(logfile) \/ Ids(G) \subseteq behindTear
      BY <1>4 DEF DataInv, DiskInv, GroupInLog
    <3>2. LogSynced(logfile) \subseteq RecoverableSynced
      BY <1>15, DataAre
    <3> QED BY <3>1, <3>2 DEF Ids
  <2>3. sure' \subseteq Ids(RecoverableSynced) \cup behindTear
    <3>1. CASE Stage = "inserted" /\ job[writers[1]].sync
      BY <1>3, <2>1, <2>2, <3>1
    <3>2. CASE ~ (Stage = "inserted" /\ job[writers[1]].sync)
      BY <1>3, <2>1, <3>2
    <3> QED BY <3>1, <3>2
  <2> QED BY <1>1, <1>6, <2>3 DEF SyncedKeptUnlessTorn, Ids
<1> QED BY <1>6, <1>8, <1>9, <1>10, <1>11, <1>14, <1>16, <1>17 DEF DataInv, DiskInv

\* The memtable goes behind, and the new log is empty.
LEMMA SwitchData ==
    ASSUME QueueInv, FileInv, DataInv, NEW t \in Thread, SwitchMemTable(t)
    PROVE  /\ DataInv' /\ Recoverable' = Recoverable
           /\ UNCHANGED <<acked, sure, committed, issued, shaken, behindTear, mode>>
<1>1. /\ QueueInv' /\ FileInv' /\ Stage = "none" /\ Stage' \in {"none", "append"}
      /\ mode = "open" /\ imm = <<>> /\ nextFile \notin DOMAIN logs
  BY SwitchFiles
<1>2. /\ UNCHANGED <<tables, manifest, version, lastSeq, bgError, flush, mode, issued, committed, shaken, behindTear>>
      /\ imm' = <<mem>> /\ mem' = {} /\ logfile' = nextFile /\ ~ bgError
  BY DEF SwitchMemTable, MaySwitch, MakingRoom, bounds
<1>3. acked' = acked /\ sure' = sure
  <2>1. CASE job[t].batch # {}
    BY <2>1 DEF SwitchMemTable, StartGroup
  <2>2. CASE job[t].batch = {}
    <3>1. writers # <<>> /\ writers[1] = t
      <4>1. writers # <<>> /\ Head(writers) = t
        BY DEF SwitchMemTable, MaySwitch, MakingRoom, AtFront
      <4> QED BY <4>1, JobsAre DEF QueueInv
    <3> DEFINE done == {writers[i] : i \in 1 .. 1}
               All  == UNION {job[u].batch : u \in done}
               Some == UNION {job[u].batch : u \in {w \in done : job[w].sync}}
    <3>2. done = {t}
      BY <3>1
    <3>3. All = {} /\ Some = {}
      BY <2>2, <3>2
    <3>4. acked' = acked \cup All /\ sure' = sure \cup Some
      BY <2>2 DEF SwitchMemTable, Answer
    <3> QED BY <3>3, <3>4
  <2> QED BY <2>1, <2>2
<1>4. Up /\ Alive /\ Alive' /\ Up' /\ mode \notin {"replayed", "saved"} /\ mode' \notin {"replayed", "saved"}
  BY <1>1, <1>2 DEF Up, Alive
<1>5. /\ DOMAIN logs' = DOMAIN logs \cup {nextFile}
      /\ \A n \in DOMAIN logs : logs'[n] = logs[n]
      /\ logs'[nextFile] = NewLog /\ Readable(logs'[nextFile].recs) = {}
  BY <1>1, SwitchedLogs
<1>6. /\ nextFile \in Nat /\ logfile < nextFile /\ logfile \in Nat /\ logfile \in DOMAIN logs
      /\ version.log \in Nat /\ manifest.log \in Nat
      /\ version.log <= manifest.log /\ manifest.log <= logfile
  BY <1>4, NumbersAre
<1>7. InFlight = {} /\ InFlight' = {}
  BY <1>1 DEF InFlight, Appended
<1>8. InManifest' = InManifest /\ InVersion' = InVersion
  BY <1>2 DEF InManifest, InVersion, InTables, FilesOf
<1>9. Imm = {} /\ Imm' = mem
  <2>1. Imm' = mem
    <3>1. ToSet(<<mem>>) = {mem}
      BY DEF ToSet
    <3> QED BY <1>2, <3>1 DEF Imm
  <2> QED BY <1>1, <2>1, ImmIs
<1>10. Visible' = Visible
  BY <1>2, <1>8, <1>9 DEF Visible
<1>11. /\ KeptLogs' = KeptLogs \cup {nextFile} /\ LiveLogs' = LiveLogs \cup {nextFile}
       /\ LiveLogs \subseteq KeptLogs /\ KeptLogs \subseteq DOMAIN logs /\ logfile \in KeptLogs
       /\ nextFile \notin KeptLogs
  <2>1. nextFile >= version.log /\ nextFile >= manifest.log
    BY <1>6
  <2>2. /\ KeptLogs' = {n \in DOMAIN logs' : n >= version.log} /\ LiveLogs' = {n \in DOMAIN logs' : n >= manifest.log}
        /\ KeptLogs = {n \in DOMAIN logs : n >= version.log} /\ LiveLogs = {n \in DOMAIN logs : n >= manifest.log}
    BY <1>2, <1>4 DEF KeptLogs, LiveLogs
  <2>3. KeptLogs' = KeptLogs \cup {nextFile} /\ LiveLogs' = LiveLogs \cup {nextFile}
    BY <1>5, <2>1, <2>2
  <2> QED BY <1>1, <1>4, <2>3, KeptAre
<1>12. /\ \A n \in KeptLogs : Readable(logs'[n].recs) = Log(n)
       /\ \A n \in KeptLogs : Readable(SubSeq(logs'[n].recs, 1, logs'[n].synced)) = LogSynced(n)
  BY <1>5, <1>11 DEF Log, LogSynced
<1>13. InLogs' = InLogs
  <2>1. InLogs' = UNION {Readable(logs'[n].recs) : n \in KeptLogs'}
    BY DEF InLogs, Log
  <2> QED BY <1>5, <1>11, <1>12, <2>1 DEF InLogs
<1>14. Everything' = Everything
  BY <1>8, <1>10, <1>13 DEF Everything
<1>15. Apart'
  BY <1>14 DEF DataInv, DiskInv, Apart
<1>16. Numbered'
  <2>1. (Ids(Everything))' \subseteq 1 .. issued'
    BY <1>2, <1>14 DEF DataInv, DiskInv, Numbered, Ids
  <2>2. \A e \in InManifest' : e.seq <= manifest'.last
    BY <1>2, <1>8 DEF DataInv, DiskInv, Numbered
  <2>3. \A e \in InManifest' \cup InVersion' \cup Imm' : e.seq <= lastSeq'
    BY <1>1, <1>2, <1>4, <1>8, <1>9 DEF DataInv, DiskInv, Numbered
  <2>4. \A e \in InLogs' : e.seq <= lastSeq'
    BY <1>2, <1>4, <1>7, <1>13 DEF DataInv, DiskInv, Numbered
  <2> QED BY <1>2, <2>1, <2>2, <2>3, <2>4 DEF Numbered
<1>17. GroupInLog'
  BY <1>1, <1>4 DEF GroupInLog, Appended
<1>18. Unflushed'
  <2>1. InVersion' \subseteq InManifest'
    BY <1>4, <1>8 DEF DataInv, DiskInv, Unflushed
  <2>2. flush.pc # "logged"
    BY <1>1 DEF FileInv, Scheduled
  <2>3. \A n \in KeptLogs' : n # logfile' => Readable(logs'[n].recs) \subseteq Imm' \cup InManifest'
    <3>1. \A n \in KeptLogs : Log(n) \subseteq Imm' \cup InManifest'
      <4>1. \A n \in KeptLogs : n # logfile => Log(n) \subseteq Imm \cup InManifest
        BY <1>4 DEF DataInv, DiskInv, Unflushed
      <4>2. Log(logfile) \subseteq mem
        BY <1>2, <1>4, <1>7 DEF DataInv, DiskInv, Unflushed
      <4> QED BY <1>8, <1>9, <4>1, <4>2
    <3> QED BY <1>2, <1>11, <1>12, <3>1
  <2>4. (Log(logfile))' = {}
    BY <1>2, <1>5 DEF Log
  <2> QED BY <1>2, <1>4, <2>1, <2>2, <2>3, <2>4 DEF Unflushed, Log
<1>19. CommittedIs'
  BY <1>2, <1>3, <1>4, <1>8, <1>10, <1>13 DEF DataInv, DiskInv, CommittedIs, Ids
<1>20. Recoverable' = Recoverable /\ RecoverableSynced' = RecoverableSynced
  <2>1. /\ Recoverable = InManifest \cup UNION {Log(n) : n \in LiveLogs}
        /\ RecoverableSynced = InManifest \cup UNION {LogSynced(n) : n \in LiveLogs}
    BY DataAre
  <2>2. Recoverable' = InManifest' \cup UNION {Readable(logs'[n].recs) : n \in LiveLogs'}
        /\ RecoverableSynced' = InManifest' \cup UNION {Readable(SubSeq(logs'[n].recs, 1, logs'[n].synced)) : n \in LiveLogs'}
    BY DEF Recoverable, RecoverableSynced, InManifest
  <2>3. Readable(SubSeq(logs'[nextFile].recs, 1, logs'[nextFile].synced)) = {}
    <3>1. SubSeq(<<>>, 1, 0) = <<>>
      <4>1. <<>> \in Seq({}) /\ Len(<<>>) = 0
        BY EmptySeq
      <4> QED BY <4>1, ReadablePrefix
    <3>2. logs'[nextFile].recs = <<>> /\ logs'[nextFile].synced = 0
      BY <1>5 DEF NewLog
    <3> QED BY <3>1, <3>2, ReadableNone
  <2> QED BY <1>5, <1>8, <1>11, <1>12, <2>1, <2>2, <2>3
<1>21. KilledLosesNothing' /\ SyncedKeptUnlessTorn'
  BY <1>2, <1>3, <1>20 DEF DataInv, KilledLosesNothing, SyncedKeptUnlessTorn, Ids
<1> QED BY <1>2, <1>3, <1>15, <1>16, <1>17, <1>18, <1>19, <1>20, <1>21 DEF DataInv, DiskInv

LEMMA WriterData ==
    ASSUME QueueInv, FileInv, DataInv, NEW t \in Thread, WriterAction(t)
    PROVE  DataInv' /\ Recoverable \subseteq Recoverable'
BY QueueData, RecordFailsData, AddRecordData, SyncLogData, InsertData, FinishData, SwitchData
   DEF WriterAction, WriterStep

-----------------------------------------------------------------------------
(* Clients, and the end of an incarnation *)

LEMMA ClientData ==
    ASSUME QueueInv, FileInv, Bounded, DataInv, ClientAction
    PROVE  DataInv' /\ Recoverable' = Recoverable
<1>1. CASE \E t \in Thread : \E batch \in {{}, {issued + 1}}, sync \in BOOLEAN : Write(t, batch, sync)
  BY <1>1, QueueData
<1>2. CASE (\E r \in Reader : BeginGet(r) \/ EndGet(r)) \/ BeginClose
  <2>1. QueueInv' /\ FileInv'
    BY ClientFiles
  <2>2. UNCHANGED <<logs, tables, manifest, writers, job, group, mem, imm, logfile, version, nextFile,
                    lastSeq, edit, bgError, flush, issued, acked, sure, shaken, behindTear, committed>>
    BY <1>2 DEF BeginGet, EndGet, BeginClose, disk, queue, memory, vset, back, bounds, ghosts
  <2>3. Up /\ Up'
    <3>1. CASE BeginClose
      BY <3>1 DEF BeginClose, Up
    <3>2. CASE \E r \in Reader : BeginGet(r) \/ EndGet(r)
      <4>1. Up
        BY <3>2 DEF BeginGet, EndGet, FileInv, Quiet, Up
      <4> QED BY <3>2, <4>1 DEF BeginGet, EndGet, Up
    <3> QED BY <1>2, <3>1, <3>2
  <2>4. GroupAsBefore
    <3>1. Stage' = Stage /\ GroupEntries' = GroupEntries
      BY <2>2 DEF Stage, Foremost, GroupEntries
    <3> QED BY <2>2, <3>1 DEF GroupAsBefore, InFlight
  <2>5. LogsAsBefore
    BY <2>2 DEF LogsAsBefore, Log, LogSynced
  <2>6. InManifest' = InManifest /\ InVersion' = InVersion
    BY <2>2 DEF InManifest, InVersion, InTables, FilesOf
  <2>7. issued \in Nat /\ issued <= issued'
    BY <2>2 DEF QueueInv, Answered
  <2> QED BY <2>1, <2>2, <2>3, <2>4, <2>5, <2>6, <2>7, QuietData
<1> QED BY <1>1, <1>2 DEF ClientAction

\* What is on the disk when the store is down.
LEMMA DownData ==
    ASSUME QueueInv, FileInv, Bounded, DataInv, DownAction
    PROVE  /\ DataInv' /\ Recoverable' \subseteq Recoverable /\ ~ Up'
           /\ UNCHANGED <<issued, acked, sure, behindTear>>
           /\ ~ MachineCrash => Recoverable' = Recoverable
           /\ RecoverableSynced' \subseteq Recoverable'
<1>1. /\ QueueInv' /\ FileInv' /\ Reset /\ UNCHANGED <<tables, manifest>>
      /\ DOMAIN logs' = DOMAIN logs
      /\ \A n \in DOMAIN logs :
            /\ Readable(logs'[n].recs) \subseteq Readable(logs[n].recs)
            /\ SubSeq(logs'[n].recs, 1, logs'[n].synced) = SubSeq(logs[n].recs, 1, logs[n].synced)
      /\ ~ MachineCrash =>
            \A n \in DOMAIN logs : Readable(logs'[n].recs) = Readable(logs[n].recs)
  BY DownFiles DEF DownAction
<1>2. UNCHANGED <<issued, acked, sure, behindTear>> /\ (~ MachineCrash => shaken' = shaken)
  BY DEF DownAction, EndClose, OpenFails, Kill, MachineCrash, bounds
<1>3. /\ mode' = "down" /\ ~ Alive' /\ ~ Up' /\ mem' = {} /\ imm' = <<>> /\ version' = NoVersion
      /\ flush'.pc = "idle" /\ writers' = <<>>
  BY <1>1 DEF Reset, Alive, Up, NoFlush
<1>4. Stage' = "none"
  BY <1>3 DEF Stage, Foremost
<1>5. /\ LiveLogs' = LiveLogs /\ KeptLogs' = LiveLogs /\ LiveLogs \subseteq KeptLogs
      /\ LiveLogs \subseteq DOMAIN logs
  BY <1>1, <1>3, KeptAre DEF LiveLogs, KeptLogs
<1>6. InManifest' = InManifest
  BY <1>1 DEF InManifest, InTables, FilesOf
<1>7. Visible' = {}
  <2>1. FilesOf(version') = {}
    BY <1>3 DEF NoVersion, FilesOf
  <2>2. InVersion' = UNION {tables'[f] : f \in FilesOf(version') \cap DOMAIN tables'}
    BY DEF InVersion, InTables, FilesOf
  <2>3. ToSet(imm') = {} /\ Imm' = UNION ToSet(imm')
    BY <1>3 DEF Imm, ToSet
  <2> QED BY <1>3, <2>1, <2>2, <2>3 DEF Visible
<1>8. InLogs' \subseteq InLogs
  <2>1. InLogs' = UNION {Readable(logs'[n].recs) : n \in KeptLogs'}
    BY DEF InLogs, Log
  <2> QED BY <1>1, <1>5, <2>1 DEF InLogs, Log
<1>9. Everything' \subseteq Everything
  BY <1>6, <1>7, <1>8 DEF Everything
<1>10. /\ Recoverable' \subseteq Recoverable /\ RecoverableSynced' = RecoverableSynced
       /\ ~ MachineCrash => Recoverable' = Recoverable
  <2>1. /\ Recoverable = InManifest \cup UNION {Readable(logs[n].recs) : n \in LiveLogs}
        /\ RecoverableSynced = InManifest \cup UNION {Readable(SubSeq(logs[n].recs, 1, logs[n].synced)) : n \in LiveLogs}
    BY DEF Recoverable, RecoverableSynced, InManifest
  <2>2. /\ Recoverable' = InManifest' \cup UNION {Readable(logs'[n].recs) : n \in LiveLogs'}
        /\ RecoverableSynced' = InManifest' \cup UNION {Readable(SubSeq(logs'[n].recs, 1, logs'[n].synced)) : n \in LiveLogs'}
    BY DEF Recoverable, RecoverableSynced, InManifest
  <2>3. /\ \A n \in LiveLogs : Readable(logs'[n].recs) \subseteq Readable(logs[n].recs)
        /\ ~ MachineCrash => \A n \in LiveLogs : Readable(logs'[n].recs) = Readable(logs[n].recs)
    BY <1>1, <1>5
  <2>4. \A n \in LiveLogs : Readable(SubSeq(logs'[n].recs, 1, logs'[n].synced))
                             = Readable(SubSeq(logs[n].recs, 1, logs[n].synced))
    BY <1>1, <1>5
  <2>5. RecoverableSynced' = RecoverableSynced
    BY <1>5, <1>6, <2>1, <2>2, <2>4
  <2>6. Recoverable' \subseteq Recoverable
    BY <1>5, <1>6, <2>1, <2>2, <2>3
  <2>7. ~ MachineCrash => Recoverable' = Recoverable
    BY <1>5, <1>6, <2>1, <2>2, <2>3
  <2> QED BY <2>5, <2>6, <2>7
<1>11. Apart'
  BY <1>9 DEF DataInv, DiskInv, Apart
<1>12. Numbered'
  <2>1. (Ids(Everything))' \subseteq 1 .. issued'
    BY <1>2, <1>9 DEF DataInv, DiskInv, Numbered, Ids
  <2>2. \A e \in InManifest' : e.seq <= manifest'.last
    BY <1>1, <1>6 DEF DataInv, DiskInv, Numbered
  <2> QED BY <1>3, <2>1, <2>2 DEF Numbered
<1>13. GroupInLog' /\ Unflushed' /\ CommittedIs'
  BY <1>3, <1>4 DEF GroupInLog, Unflushed, CommittedIs, Appended
<1>14. KilledLosesNothing'
  <2>1. acked \subseteq Ids(Recoverable) \cup shaken \cup behindTear
    BY DEF DataInv, KilledLosesNothing
  <2>2. CASE MachineCrash
    <3>1. shaken' = shaken \cup (Ids(Recoverable) \ Ids(Recoverable'))
      BY <2>2 DEF MachineCrash
    <3>2. acked \subseteq Ids(Recoverable') \cup shaken' \cup behindTear
      BY <2>1, <3>1
    <3> QED BY <1>2, <3>2 DEF KilledLosesNothing, Ids
  <2>3. CASE ~ MachineCrash
    BY <1>2, <1>10, <2>1, <2>3 DEF KilledLosesNothing, Ids
  <2> QED BY <2>2, <2>3
<1>15. SyncedKeptUnlessTorn'
  BY <1>2, <1>10 DEF DataInv, SyncedKeptUnlessTorn, Ids
<1>16. RecoverableSynced' \subseteq Recoverable'
  <2>1. /\ Recoverable' = InManifest' \cup UNION {Readable(logs'[n].recs) : n \in LiveLogs'}
        /\ RecoverableSynced' = InManifest' \cup UNION {Readable(SubSeq(logs'[n].recs, 1, logs'[n].synced)) : n \in LiveLogs'}
    BY DEF Recoverable, RecoverableSynced, InManifest
  <2>2. ASSUME NEW n \in LiveLogs'
        PROVE  Readable(SubSeq(logs'[n].recs, 1, logs'[n].synced)) \subseteq Readable(logs'[n].recs)
    <3>1. n \in DOMAIN logs'
      BY <1>1, <1>5
    <3>2. logs'[n].recs \in Seq(SUBSET Entry) /\ logs'[n].synced \in Nat
          /\ logs'[n].synced <= Len(logs'[n].recs)
      <4>1. /\ logs' \in [DOMAIN logs' -> LogFile]
            /\ \A m \in DOMAIN logs' : logs'[m].synced <= Len(logs'[m].recs)
        BY <1>1 DEF FileInv, LogsTyped
      <4> QED BY <3>1, <4>1, LogFileIs
    <3> QED BY <3>2, ReadablePrefix
  <2> QED BY <2>1, <2>2
<1> QED BY <1>2, <1>3, <1>10, <1>11, <1>12, <1>13, <1>14, <1>15, <1>16 DEF DataInv, DiskInv

-----------------------------------------------------------------------------
(* Open *)

\* What the logs give back is, after Recover, in the memtable or in tables that
\* the edit adds.
LEMMA RecoverData ==
    ASSUME QueueInv, FileInv, Bounded, DataInv, Recover
    PROVE  DataInv' /\ Recoverable' = Recoverable /\ ~ Up'
<1> DEFINE own == logfile'
           made == InTables(edit.l0)
<1>1. /\ FileInv' /\ mode = "down" /\ mode' \in {"replayed", "saved"}
      /\ DOMAIN logs \subseteq DOMAIN logs' /\ \A n \in DOMAIN logs : logs'[n] = logs[n]
      /\ \A n \in DOMAIN logs' \ DOMAIN logs : n = logfile' /\ logs'[n] = NewLog
      /\ \A n \in DOMAIN logs' : manifest.log <= n => n \in LiveLogs \/ n = logfile'
      /\ manifest.log <= logfile' /\ UNCHANGED manifest
  BY RecoverFiles
<1>2. /\ ReusedLog = {} => logfile' \notin DOMAIN logs
      /\ ReusedLog # {} => ReusedLog = {logfile'} /\ logfile' \in LiveLogs
      /\ version' = [l0 |-> manifest.l0, deep |-> manifest.deep, log |-> manifest.log]
      /\ FilesOf(manifest) \subseteq DOMAIN tables /\ DOMAIN tables \subseteq DOMAIN tables'
      /\ \A f \in FilesOf(manifest) : tables'[f] = tables[f]
      /\ edit'.l0 \subseteq DOMAIN tables'
      /\ \A e : (\E f \in edit'.l0 : e \in tables'[f])
                <=> \E m \in LiveLogs : m \notin ReusedLog /\ e \in Readable(logs[m].recs)
  BY RecoverFiles
<1>3. /\ mem' = IF ReusedLog # {} THEN Readable(logs[logfile'].recs) ELSE {}
      /\ mode' = "saved" => edit'.l0 = {}
      /\ lastSeq' \in Nat /\ manifest.last <= lastSeq' /\ manifest.last \in Nat
      /\ \A m \in LiveLogs : \A e \in Readable(logs[m].recs) : e.seq <= lastSeq'
  BY RecoverFiles DEF FileInv, VersionsTyped
<1>4. UNCHANGED <<imm, bgError, flush, issued, acked, sure, shaken, behindTear>>
  BY DEF Recover, back, bounds, ghosts
<1>5. imm' = <<>> /\ flush'.pc = "idle" /\ Imm' = {}
  <2>1. imm = <<>> /\ flush = NoFlush
    BY <1>1 DEF FileInv, Quiet, Up
  <2>2. ToSet(imm') = {}
    BY <1>4, <2>1 DEF ToSet
  <2> QED BY <1>4, <2>1, <2>2 DEF Imm, NoFlush
<1>6. Stage' = "none" /\ InFlight' = {}
  <2>1. writers' = <<>>
    <3>1. writers = <<>>
      BY <1>1 DEF QueueInv, InQueue
    <3> QED BY <3>1 DEF Recover, queue
  <2> QED BY <2>1 DEF Stage, Foremost, InFlight, Appended
<1>7. Alive' /\ ~ Up' /\ ~ Up /\ ~ Alive
  BY <1>1 DEF Alive, Up
<1>8. /\ LiveLogs \subseteq Nat /\ LiveLogs \subseteq DOMAIN logs /\ \A n \in LiveLogs : manifest.log <= n
      /\ \A n \in DOMAIN logs : n \in LiveLogs \/ n < manifest.log
      /\ manifest.log \in Nat
  BY LiveLogsAre
<1>9. own \in DOMAIN logs' /\ \A n \in DOMAIN logs' : n \in Nat
  BY <1>1, <1>7 DEF FileInv, LogsTyped, NumbersBelow
<1>10. KeptLogs' = LiveLogs \cup {own} /\ LiveLogs' = LiveLogs \cup {own} /\ KeptLogs = LiveLogs
  <2>1. KeptLogs' = {n \in DOMAIN logs' : n >= manifest.log} /\ LiveLogs' = {n \in DOMAIN logs' : n >= manifest.log}
    BY <1>1, <1>2, <1>7 DEF KeptLogs, LiveLogs
  <2>2. {n \in DOMAIN logs' : n >= manifest.log} = LiveLogs \cup {own}
    BY <1>1, <1>8, <1>9
  <2> QED BY <1>7, <2>1, <2>2, KeptAre
<1>11. own \in LiveLogs \/ (own \notin DOMAIN logs /\ ReusedLog = {} /\ logs'[own] = NewLog)
  BY <1>1, <1>2, <1>9
<1>12. \A n \in LiveLogs : Readable(logs'[n].recs) = Log(n)
       /\ Readable(SubSeq(logs'[n].recs, 1, logs'[n].synced)) = LogSynced(n)
  BY <1>1, <1>8 DEF Log, LogSynced
<1>13. own \notin LiveLogs => Readable(logs'[own].recs) = {}
                              /\ Readable(SubSeq(logs'[own].recs, 1, logs'[own].synced)) = {}
  <2>1. SubSeq(<<>>, 1, 0) = <<>>
    <3>1. <<>> \in Seq({}) /\ Len(<<>>) = 0
      BY EmptySeq
    <3> QED BY <3>1, ReadablePrefix
  <2>2. own \notin LiveLogs => logs'[own].recs = <<>> /\ logs'[own].synced = 0
    BY <1>11 DEF NewLog
  <2> QED BY <2>1, <2>2, ReadableNone
<1>14. InLogs' = InLogs
  <2>1. InLogs' = UNION {Readable(logs'[n].recs) : n \in LiveLogs \cup {own}}
    BY <1>10 DEF InLogs, Log
  <2>2. InLogs = UNION {Log(n) : n \in LiveLogs}
    BY <1>10 DEF InLogs
  <2> QED BY <1>12, <1>13, <2>1, <2>2
<1>15. mem' = Readable(logs'[own].recs) /\ mem' \subseteq InLogs
  <2>1. CASE ReusedLog # {}
    <3>1. own \in LiveLogs /\ mem' = Log(own)
      BY <1>2, <1>3, <2>1 DEF Log
    <3> QED BY <1>10, <1>12, <3>1 DEF InLogs
  <2>2. CASE ReusedLog = {}
    <3>1. own \notin LiveLogs /\ mem' = {}
      BY <1>2, <1>3, <1>8, <2>2
    <3> QED BY <1>13, <3>1
  <2> QED BY <2>1, <2>2
<1>16. made' \subseteq InLogs /\ \A n \in LiveLogs : n # own => Log(n) \subseteq made'
  <2>1. made' = UNION {tables'[f] : f \in edit'.l0 \cap DOMAIN tables'}
    BY DEF InTables
  <2>2. \A e : e \in made' <=> \E f \in edit'.l0 : e \in tables'[f]
    BY <1>2, <2>1
  <2>3. \A e : e \in made' <=> \E m \in LiveLogs : m \notin ReusedLog /\ e \in Log(m)
    BY <1>2, <2>2 DEF Log
  <2>4. \A n \in LiveLogs : n # own => n \notin ReusedLog
    BY <1>2
  <2> QED BY <1>10, <2>3, <2>4 DEF InLogs
<1>17. InManifest' = InManifest /\ InVersion' = InManifest
  <2>1. FilesOf(version') = FilesOf(manifest) /\ FilesOf(manifest') = FilesOf(manifest)
    BY <1>1, <1>2 DEF FilesOf
  <2>2. /\ InManifest' = UNION {tables'[f] : f \in FilesOf(manifest') \cap DOMAIN tables'}
        /\ InVersion' = UNION {tables'[f] : f \in FilesOf(version') \cap DOMAIN tables'}
    BY DEF InManifest, InVersion, InTables, FilesOf
  <2>3. UNION {tables'[f] : f \in FilesOf(manifest) \cap DOMAIN tables'} = InTables(FilesOf(manifest))
    BY <1>2 DEF InTables
  <2> QED BY <2>1, <2>2, <2>3 DEF InManifest
<1>18. Everything' \subseteq Everything
  BY <1>5, <1>14, <1>15, <1>17 DEF Everything, Visible
<1>19. \A e \in InLogs : e.seq <= lastSeq'
  BY <1>3, <1>10 DEF InLogs, Log
<1>20. \A e \in InManifest : e.seq <= lastSeq'
  <2>1. \A e \in InManifest : e.seq <= manifest.last /\ e.seq \in Nat
    BY DataAre DEF DataInv, DiskInv, Numbered, Everything
  <2> QED BY <1>3, <2>1
<1>21. Apart'
  BY <1>18 DEF DataInv, DiskInv, Apart
<1>22. Numbered'
  <2>1. (Ids(Everything))' \subseteq 1 .. issued'
    BY <1>4, <1>18 DEF DataInv, DiskInv, Numbered, Ids
  <2>2. \A e \in InManifest' : e.seq <= manifest'.last
    BY <1>1, <1>17 DEF DataInv, DiskInv, Numbered
  <2>3. \A e \in InManifest' \cup InVersion' \cup Imm' \cup mem' \cup InLogs' : e.seq <= lastSeq'
    BY <1>5, <1>14, <1>15, <1>17, <1>19, <1>20
  <2> QED BY <2>1, <2>2, <2>3 DEF Numbered
<1>23. GroupInLog'
  BY <1>6, <1>15 DEF GroupInLog, Appended, Log
<1>24. Unflushed'
  <2>1. \A n \in KeptLogs' : n # logfile' =>
            Readable(logs'[n].recs) \subseteq Imm' \cup InManifest' \cup
                (IF mode' = "replayed" THEN made' ELSE {})
    <3>1. \A n \in LiveLogs : n # own => Log(n) \subseteq made'
      BY <1>16
    <3>2. mode' = "saved" => made' = {}
      BY <1>3 DEF InTables
    <3> QED BY <1>1, <1>10, <1>12, <3>1, <3>2
  <2>2. (Log(logfile))' = mem'
    BY <1>15 DEF Log
  <2>3. InVersion' \subseteq InManifest' /\ flush'.pc # "logged"
    BY <1>5, <1>17
  <2>4. mode' = "replayed" => made' \subseteq InLogs'
    BY <1>14, <1>16
  <2>5. \A e \in (Log(logfile))' : e \in mem' \/ bgError' \/ e \in InFlight'
    BY <2>2
  <2> QED BY <2>1, <2>3, <2>4, <2>5 DEF Unflushed, Log
<1>25. CommittedIs'
  BY <1>7 DEF CommittedIs
<1>26. Recoverable' = Recoverable /\ RecoverableSynced' = RecoverableSynced
  <2>1. /\ Recoverable = InManifest \cup UNION {Log(n) : n \in LiveLogs}
        /\ RecoverableSynced = InManifest \cup UNION {LogSynced(n) : n \in LiveLogs}
    BY DataAre
  <2>2. Recoverable' = InManifest' \cup UNION {Readable(logs'[n].recs) : n \in LiveLogs'}
        /\ RecoverableSynced' = InManifest' \cup UNION {Readable(SubSeq(logs'[n].recs, 1, logs'[n].synced)) : n \in LiveLogs'}
    BY DEF Recoverable, RecoverableSynced, InManifest
  <2>3. UNION {Readable(logs'[n].recs) : n \in LiveLogs \cup {own}} = UNION {Log(n) : n \in LiveLogs}
    BY <1>12, <1>13
  <2>4. UNION {Readable(SubSeq(logs'[n].recs, 1, logs'[n].synced)) : n \in LiveLogs \cup {own}}
            = UNION {LogSynced(n) : n \in LiveLogs}
    BY <1>12, <1>13
  <2> QED BY <1>10, <1>17, <2>1, <2>2, <2>3, <2>4
<1>27. KilledLosesNothing' /\ SyncedKeptUnlessTorn'
  BY <1>4, <1>26 DEF DataInv, KilledLosesNothing, SyncedKeptUnlessTorn, Ids
<1> QED BY <1>7, <1>21, <1>22, <1>23, <1>24, <1>25, <1>26, <1>27 DEF DataInv, DiskInv

\* A store that is being opened has one MANIFEST and version, and the logs that
\* are live are those that are kept.
LEMMA OpeningIs ==
    ASSUME QueueInv, FileInv, mode \in {"replayed", "saved"}
    PROVE  /\ SameFiles(manifest, version) /\ Alive /\ ~ Up /\ ~ bgError
           /\ FilesOf(manifest) = FilesOf(version) /\ InVersion = InManifest
           /\ KeptLogs = LiveLogs /\ imm = <<>> /\ Imm = {} /\ flush.pc = "idle"
           /\ Stage = "none" /\ InFlight = {} /\ logfile \in LiveLogs
<1>1. Alive /\ ~ Up
  BY DEF Alive, Up
<1>2. imm = <<>> /\ flush = NoFlush /\ comp = NoComp /\ ~ bgError
  BY <1>1 DEF FileInv, Quiet
<1>3. flush.pc = "idle" /\ comp.pc = "idle"
  BY <1>2 DEF NoFlush, NoComp
<1>4. SameFiles(manifest, version)
  <2>1. SameFiles(manifest, IF flush.pc = "logged" \/ comp.pc = "logged" THEN Applied(version, edit) ELSE version)
    BY <1>1, <1>2 DEF FileInv, InStep
  <2> QED BY <1>3, <2>1
<1>5. FilesOf(manifest) = FilesOf(version) /\ manifest.log = version.log
  BY <1>4 DEF SameFiles, FilesOf
<1>6. KeptLogs = LiveLogs
  BY <1>1, <1>5 DEF KeptLogs, LiveLogs
<1>7. Stage = "none" /\ InFlight = {}
  <2>1. writers = <<>>
    BY DEF QueueInv, InQueue
  <2> QED BY <2>1 DEF Stage, Foremost, InFlight, Appended
<1> QED BY <1>1, <1>2, <1>3, <1>4, <1>5, <1>6, <1>7, ImmIs, KeptAre DEF InVersion, InManifest

\* The tables that the edit adds stand for the logs before the one in use.
LEMMA SaveManifestData ==
    ASSUME QueueInv, FileInv, Bounded, DataInv, SaveManifest
    PROVE  DataInv' /\ Recoverable' = Recoverable /\ ~ Up'
<1> DEFINE made == InTables(edit.l0)
<1>1. /\ FileInv'
      /\ FilesOf(manifest') = FilesOf(manifest) \cup edit.l0
      /\ FilesOf(version') = FilesOf(version) \cup edit.l0
      /\ FilesOf(version) = FilesOf(manifest)
      /\ manifest'.log = logfile /\ manifest'.last = lastSeq /\ version'.log = logfile
      /\ mode = "replayed" /\ mode' = "saved" /\ ~ bgError /\ imm = <<>>
      /\ UNCHANGED <<logs, tables, mem, imm, logfile, lastSeq, bgError, read>>
  BY SaveManifestFiles
<1>2. UNCHANGED <<flush, issued, acked, sure, shaken, behindTear, writers, job, group>>
  BY DEF SaveManifest, back, bounds, ghosts, queue
<1>3. /\ Alive /\ ~ Up /\ InVersion = InManifest /\ KeptLogs = LiveLogs /\ Imm = {} /\ flush.pc = "idle"
      /\ Stage = "none" /\ InFlight = {} /\ logfile \in LiveLogs
  BY <1>1, OpeningIs
<1>4. Alive' /\ ~ Up' /\ Stage' = "none" /\ InFlight' = {} /\ Imm' = {}
  <2>1. Stage' = Stage
    BY <1>2 DEF Stage, Foremost
  <2>2. Imm' = Imm
    BY <1>1 DEF Imm
  <2> QED BY <1>1, <1>3, <2>1, <2>2 DEF Alive, Up, InFlight, Appended
<1>5. InManifest' = InManifest \cup made /\ InVersion' = InManifest \cup made
  <2>1. /\ InManifest' = InTables(FilesOf(manifest'))
        /\ InVersion' = InTables(FilesOf(version'))
    BY <1>1 DEF InManifest, InVersion, InTables, FilesOf
  <2>2. InTables(FilesOf(manifest) \cup edit.l0) = InTables(FilesOf(manifest)) \cup made
    BY DEF InTables
  <2> QED BY <1>1, <2>1, <2>2 DEF InManifest
<1>6. /\ LiveLogs \subseteq DOMAIN logs /\ \A n \in DOMAIN logs : n \in Nat /\ n <= logfile
      /\ logfile \in Nat /\ logfile \in DOMAIN logs
  BY <1>3, NumbersAre, LiveLogsAre
<1>7. KeptLogs' = {logfile} /\ LiveLogs' = {logfile}
  <2>1. {n \in DOMAIN logs : n >= logfile} = {logfile}
    BY <1>6
  <2>2. KeptLogs' = {n \in DOMAIN logs' : n >= version'.log} /\ LiveLogs' = {n \in DOMAIN logs' : n >= manifest'.log}
    BY <1>4 DEF KeptLogs, LiveLogs
  <2> QED BY <1>1, <2>1, <2>2
<1>8. /\ made \subseteq InLogs
      /\ \A n \in LiveLogs : n # logfile => Log(n) \subseteq InManifest \cup made
      /\ \A e \in Log(logfile) : e \in mem
      /\ mem \subseteq Log(logfile)
  BY <1>1, <1>3 DEF DataInv, DiskInv, Unflushed, GroupInLog
<1>9. /\ Log(logfile) \subseteq InLogs /\ (Log(logfile))' = Log(logfile)
      /\ (LogSynced(logfile))' = LogSynced(logfile)
      /\ InLogs' = Log(logfile) /\ InLogs = UNION {Log(n) : n \in LiveLogs}
  <2>1. InLogs' = UNION {Readable(logs'[n].recs) : n \in KeptLogs'}
    BY DEF InLogs, Log
  <2> QED BY <1>1, <1>3, <1>7, <2>1 DEF InLogs, Log, LogSynced
<1>10. Everything' \subseteq Everything
  BY <1>1, <1>4, <1>5, <1>8, <1>9 DEF Everything, Visible
<1>11. Apart'
  BY <1>10 DEF DataInv, DiskInv, Apart
<1>12. \A e \in InManifest \cup InLogs \cup mem : e.seq <= lastSeq
  BY <1>3 DEF DataInv, DiskInv, Numbered
<1>13. Numbered'
  <2>1. (Ids(Everything))' \subseteq 1 .. issued'
    BY <1>2, <1>10 DEF DataInv, DiskInv, Numbered, Ids
  <2>2. \A e \in InManifest' : e.seq <= manifest'.last
    BY <1>1, <1>5, <1>8, <1>12
  <2>3. \A e \in InManifest' \cup InVersion' \cup Imm' \cup mem' \cup InLogs' : e.seq <= lastSeq'
    BY <1>1, <1>4, <1>5, <1>8, <1>9, <1>12
  <2> QED BY <2>1, <2>2, <2>3 DEF Numbered
<1>14. GroupInLog'
  BY <1>1, <1>4, <1>8, <1>9 DEF GroupInLog, Appended
<1>15. Unflushed'
  <2>1. InVersion' \subseteq InManifest' /\ flush'.pc # "logged" /\ mode' # "replayed"
    BY <1>1, <1>2, <1>3, <1>5
  <2>2. \A n \in KeptLogs' : n = logfile'
    BY <1>1, <1>7
  <2>3. \A e \in (Log(logfile))' : e \in mem'
    BY <1>1, <1>8, <1>9
  <2> QED BY <2>1, <2>2, <2>3 DEF Unflushed
<1>16. CommittedIs'
  BY <1>4 DEF CommittedIs
<1>17. Recoverable' = Recoverable /\ RecoverableSynced \subseteq RecoverableSynced'
  <2>1. /\ Recoverable = InManifest \cup InLogs
        /\ RecoverableSynced = InManifest \cup UNION {LogSynced(n) : n \in LiveLogs}
    BY <1>9, DataAre
  <2>2. /\ Recoverable' = InManifest' \cup UNION {(Log(n))' : n \in LiveLogs'}
        /\ RecoverableSynced' = InManifest' \cup UNION {(LogSynced(n))' : n \in LiveLogs'}
    BY DEF Recoverable, RecoverableSynced, InManifest, Log, LogSynced
  <2>3. UNION {(Log(n))' : n \in {logfile}} = Log(logfile)
        /\ UNION {(LogSynced(n))' : n \in {logfile}} = LogSynced(logfile)
    BY <1>1 DEF Log, LogSynced
  <2>4. Recoverable' = InManifest \cup made \cup Log(logfile)
        /\ RecoverableSynced' = InManifest \cup made \cup LogSynced(logfile)
    BY <1>5, <1>7, <2>2, <2>3
  <2>5. InLogs \subseteq InManifest \cup made \cup Log(logfile)
    BY <1>8, <1>9
  <2>6. UNION {LogSynced(n) : n \in LiveLogs} \subseteq InManifest \cup made \cup LogSynced(logfile)
    <3>1. \A n \in LiveLogs : LogSynced(n) \subseteq Log(n)
      BY <1>6, LogIs
    <3> QED BY <1>8, <3>1
  <2> QED BY <1>8, <1>9, <2>1, <2>4, <2>5, <2>6
<1>18. KilledLosesNothing' /\ SyncedKeptUnlessTorn'
  BY <1>2, <1>17 DEF DataInv, KilledLosesNothing, SyncedKeptUnlessTorn, Ids
<1> QED BY <1>4, <1>11, <1>13, <1>14, <1>15, <1>16, <1>17, <1>18 DEF DataInv, DiskInv

\* The open store holds what the disk gave back.
LEMMA FinishOpenData ==
    ASSUME QueueInv, FileInv, Bounded, DataInv, FinishOpen
    PROVE  DataInv' /\ Recoverable' = Recoverable /\ committed' = Recoverable /\ ~ Up /\ Up'
<1>1. /\ FileInv' /\ Alive /\ mode = "saved" /\ mode' = "open"
      /\ committed' = mem \cup InVersion
      /\ \A f \in FilesOf(version) : f \in DOMAIN tables' /\ tables'[f] = tables[f]
      /\ DOMAIN logs' \subseteq DOMAIN logs /\ \A n \in DOMAIN logs' : logs'[n] = logs[n]
      /\ \A n \in DOMAIN logs : n >= version.log => n \in DOMAIN logs'
      /\ UNCHANGED <<manifest, mem, imm, logfile, version, lastSeq, bgError, read>>
  BY FinishOpenFiles DEF InVersion
<1>2. UNCHANGED <<flush, issued, acked, sure, shaken, behindTear, writers, job, group>>
  BY DEF FinishOpen, queue, bounds
<1>3. /\ ~ Up /\ ~ bgError /\ FilesOf(manifest) = FilesOf(version) /\ InVersion = InManifest
      /\ KeptLogs = LiveLogs /\ Imm = {} /\ flush.pc = "idle"
      /\ Stage = "none" /\ InFlight = {} /\ logfile \in LiveLogs
  BY <1>1, OpeningIs
<1>4. Alive' /\ Up' /\ Stage' = "none" /\ InFlight' = {} /\ Imm' = {}
  <2>1. Stage' = Stage
    BY <1>2 DEF Stage, Foremost
  <2>2. Imm' = Imm
    BY <1>1 DEF Imm
  <2> QED BY <1>1, <1>3, <2>1, <2>2 DEF Alive, Up, InFlight, Appended
<1>5. InManifest' = InManifest /\ InVersion' = InManifest
  <2>1. FilesOf(version') = FilesOf(version) /\ FilesOf(manifest') = FilesOf(version)
    BY <1>1, <1>3 DEF FilesOf
  <2>2. /\ InManifest' = UNION {tables'[f] : f \in FilesOf(manifest') \cap DOMAIN tables'}
        /\ InVersion' = UNION {tables'[f] : f \in FilesOf(version') \cap DOMAIN tables'}
    BY DEF InManifest, InVersion, InTables, FilesOf
  <2>3. FilesOf(version) \subseteq DOMAIN tables
    BY DEF FileInv, Referred
  <2>4. UNION {tables'[f] : f \in FilesOf(version) \cap DOMAIN tables'} = InTables(FilesOf(version))
    BY <1>1, <2>3 DEF InTables
  <2> QED BY <1>3, <2>1, <2>2, <2>4 DEF InVersion
<1>6. /\ KeptLogs' = KeptLogs /\ LiveLogs' = LiveLogs
      /\ InLogs' = InLogs
      /\ \A n \in KeptLogs : /\ Readable(logs'[n].recs) = Log(n)
                             /\ Readable(SubSeq(logs'[n].recs, 1, logs'[n].synced)) = LogSynced(n)
      /\ (UNION {Log(n) : n \in LiveLogs})' = UNION {Log(n) : n \in LiveLogs}
      /\ (UNION {LogSynced(n) : n \in LiveLogs})' = UNION {LogSynced(n) : n \in LiveLogs}
  <2>1. LogsAsBefore
    BY <1>1 DEF LogsAsBefore, Log, LogSynced
  <2> QED BY <1>1, <1>4, <2>1, LogsStay
<1>7. Visible' = Visible /\ Everything' = Everything /\ Visible = mem \cup InVersion
  BY <1>1, <1>3, <1>4, <1>5, <1>6 DEF Visible, Everything
<1>8. (Log(logfile))' = Log(logfile)
  BY <1>1, <1>3, <1>6 DEF Log
<1>9. /\ \A n \in LiveLogs : n # logfile => Log(n) \subseteq InManifest
      /\ \A e \in Log(logfile) : e \in mem
      /\ mem \subseteq Log(logfile)
  BY <1>1, <1>3 DEF DataInv, DiskInv, Unflushed, GroupInLog
<1>10. /\ Recoverable = InManifest \cup UNION {Log(n) : n \in LiveLogs}
       /\ RecoverableSynced = InManifest \cup UNION {LogSynced(n) : n \in LiveLogs}
       /\ Recoverable = InManifest \cup InLogs
  BY <1>3, DataAre DEF InLogs
<1>11. committed' = Recoverable
  <2>1. Recoverable \subseteq InManifest \cup mem
    BY <1>9, <1>10
  <2>2. mem \subseteq Recoverable
    BY <1>3, <1>9, <1>10
  <2> QED BY <1>1, <1>3, <1>10, <2>1, <2>2
<1>12. Apart'
  BY <1>7 DEF DataInv, DiskInv, Apart
<1>13. \A e \in InManifest \cup InLogs \cup mem : e.seq <= lastSeq
  BY <1>1, <1>3 DEF DataInv, DiskInv, Numbered
<1>14. Numbered'
  <2>1. (Ids(Everything))' \subseteq 1 .. issued'
    BY <1>2, <1>7 DEF DataInv, DiskInv, Numbered, Ids
  <2>2. \A e \in InManifest' : e.seq <= manifest'.last
    BY <1>1, <1>5 DEF DataInv, DiskInv, Numbered
  <2>3. \A e \in InManifest' \cup InVersion' \cup Imm' \cup mem' \cup InLogs' : e.seq <= lastSeq'
    BY <1>1, <1>4, <1>5, <1>6, <1>13
  <2> QED BY <2>1, <2>2, <2>3 DEF Numbered
<1>15. GroupInLog'
  BY <1>1, <1>4 DEF GroupInLog, Appended
<1>16. Unflushed'
  <2>1. InVersion' \subseteq InManifest' /\ flush'.pc # "logged" /\ mode' # "replayed"
    BY <1>1, <1>2, <1>3, <1>5
  <2>2. \A n \in KeptLogs' : n # logfile' => Readable(logs'[n].recs) \subseteq InManifest'
    BY <1>1, <1>3, <1>5, <1>6, <1>9
  <2>3. \A e \in (Log(logfile))' : e \in mem'
    BY <1>1, <1>8, <1>9
  <2> QED BY <2>1, <2>2, <2>3 DEF Unflushed, Log
<1>17. CommittedIs'
  <2>1. \A e \in Visible : e.seq <= lastSeq
    BY <1>3, <1>7, <1>13
  <2>2. committed' = {e \in Visible' : e.seq <= lastSeq'}
    BY <1>1, <1>7, <2>1
  <2>3. acked \subseteq Ids(Recoverable) \cup shaken \cup behindTear
    BY DEF DataInv, KilledLosesNothing
  <2>4. (acked \subseteq Ids(committed) \cup shaken \cup behindTear)'
    BY <1>2, <1>11, <2>3 DEF Ids
  <2>5. (Ids(InManifest \cup InLogs) \cap acked \subseteq Ids(committed))'
    BY <1>5, <1>6, <1>10, <1>11 DEF Ids
  <2> QED BY <2>2, <2>4, <2>5 DEF CommittedIs
<1>18. Recoverable' = Recoverable /\ RecoverableSynced' = RecoverableSynced
  <2>1. /\ Recoverable' = InManifest' \cup (UNION {Log(n) : n \in LiveLogs})'
        /\ RecoverableSynced' = InManifest' \cup (UNION {LogSynced(n) : n \in LiveLogs})'
    BY DEF Recoverable, RecoverableSynced, InManifest, Log, LogSynced
  <2> QED BY <1>5, <1>6, <1>10, <2>1
<1>19. KilledLosesNothing' /\ SyncedKeptUnlessTorn'
  BY <1>2, <1>18 DEF DataInv, KilledLosesNothing, SyncedKeptUnlessTorn, Ids
<1> QED BY <1>3, <1>4, <1>11, <1>12, <1>14, <1>15, <1>16, <1>17, <1>18, <1>19 DEF DataInv, DiskInv

-----------------------------------------------------------------------------
(* The invariant holds *)

LEMMA DataInit ==
    ASSUME Init
    PROVE  DataInv /\ ReadersComplete /\ Recoverable = {}
<1>1. QueueInv /\ FileInv /\ Stage = "none"
  BY InitFiles
<1>2. /\ DOMAIN logs = {} /\ FilesOf(manifest) = {} /\ FilesOf(version) = {} /\ mode = "down"
      /\ mem = {} /\ imm = <<>> /\ flush.pc = "idle" /\ acked = {} /\ sure = {}
      /\ \A r \in Reader : read[r] = Nothing
  BY DEF Init, NoFiles, FilesOf, NoVersion, NoFlush
<1>3. Imm = {}
  BY <1>1, <1>2, ImmIs
<1>4. InManifest = {} /\ InVersion = {}
  BY <1>2 DEF InManifest, InVersion, InTables
<1>5. LiveLogs = {} /\ KeptLogs = {} /\ ~ Alive /\ ~ Up
  BY <1>2 DEF LiveLogs, KeptLogs, Alive, Up
<1>6. InLogs = {} /\ Recoverable = {} /\ RecoverableSynced = {}
  BY <1>1, <1>4, <1>5, DataAre DEF InLogs
<1>7. Everything = {}
  BY <1>2, <1>3, <1>4, <1>6 DEF Everything, Visible
<1>8. Apart /\ Numbered /\ GroupInLog /\ Unflushed /\ CommittedIs
  BY <1>1, <1>2, <1>4, <1>5, <1>7 DEF Apart, Numbered, GroupInLog, Unflushed, CommittedIs, Ids, Appended
<1>9. KilledLosesNothing /\ SyncedKeptUnlessTorn
  BY <1>2 DEF KilledLosesNothing, SyncedKeptUnlessTorn
<1>10. ReadersComplete
  BY <1>2, NothingIs DEF ReadersComplete, Found, InTables
<1> QED BY <1>6, <1>8, <1>9, <1>10 DEF DataInv, DiskInv

LEMMA StutterData ==
    ASSUME DataInv, UNCHANGED vars
    PROVE  DataInv'
<1>1. UNCHANGED <<logs, tables, manifest, writers, job, group, mem, imm, logfile, version, nextFile,
                  lastSeq, edit, bgError, flush, mode, issued, acked, sure, shaken, behindTear, committed>>
  BY DEF vars, disk, queue, memory, vset, back, bounds, ghosts
<1>2. /\ InManifest' = InManifest /\ InVersion' = InVersion /\ Imm' = Imm /\ KeptLogs' = KeptLogs
      /\ LiveLogs' = LiveLogs /\ Alive' = Alive /\ Up' = Up
      /\ Stage' = Stage /\ GroupEntries' = GroupEntries /\ InTables(edit.l0)' = InTables(edit.l0)
      /\ \A n : (Log(n))' = Log(n) /\ (LogSynced(n))' = LogSynced(n)
  BY <1>1 DEF InManifest, InVersion, Imm, KeptLogs, LiveLogs, Alive, Up, Stage, Foremost, GroupEntries,
              Log, LogSynced, InTables, FilesOf
<1>3. InLogs' = InLogs /\ InFlight' = InFlight /\ Visible' = Visible
  BY <1>1, <1>2 DEF InLogs, InFlight, Visible, Log
<1>4. Everything' = Everything
  BY <1>2, <1>3 DEF Everything
<1>5. Recoverable' = Recoverable /\ RecoverableSynced' = RecoverableSynced
  BY <1>1, <1>2 DEF Recoverable, RecoverableSynced, InManifest
<1>6. \A s : (Ids(s))' = Ids(s)
  BY DEF Ids
<1>7. Apart' /\ Numbered'
  BY <1>1, <1>2, <1>3, <1>4 DEF DataInv, DiskInv, Apart, Numbered, Ids
<1>8. GroupInLog' /\ CommittedIs'
  BY <1>1, <1>2, <1>3 DEF DataInv, DiskInv, GroupInLog, CommittedIs, Ids
<1>9. Unflushed'
  BY <1>1, <1>2, <1>3 DEF DataInv, DiskInv, Unflushed, Log, InTables
<1>10. KilledLosesNothing' /\ SyncedKeptUnlessTorn'
  BY <1>1, <1>5 DEF DataInv, KilledLosesNothing, SyncedKeptUnlessTorn, Ids
<1> QED BY <1>7, <1>8, <1>9, <1>10 DEF DataInv, DiskInv

LEMMA DataStep ==
    ASSUME QueueInv, FileInv, Bounded, DataInv, [Next]_vars
    PROVE  DataInv'
<1>1. CASE UNCHANGED vars
  BY <1>1, StutterData
<1>2. CASE Next
  <2>1. \/ \E t \in Thread : WriterAction(t)
        \/ BackgroundAction \/ DownAction \/ ClientAction
        \/ Recover \/ SaveManifest \/ FinishOpen
    BY <1>2, StepIs
  <2> QED BY <2>1, WriterData, BackgroundData, DownData, ClientData, RecoverData, SaveManifestData,
             FinishOpenData
<1> QED BY <1>1, <1>2

\* A reader goes on with what it has, begins, or ends.
LEMMA ReadStep ==
    ASSUME QueueInv, FileInv, Bounded, [Next]_vars, NEW r \in Reader
    PROVE  \/ read'[r] = read[r] \/ read'[r] = Nothing
           \/ BeginGet(r)
<1>1. CASE UNCHANGED vars
  BY <1>1 DEF vars
<1>2. CASE Next
  <2>1. CASE \E t \in Thread : WriterAction(t)
    BY <2>1 DEF WriterAction, WriterStep, BadBackground, Delay, Proceed, SwitchMemTable, NewLogFails,
                AddRecord, AddRecordFails, SyncLog, SyncLogFails, InsertInto, FinishWrite
  <2>2. CASE BackgroundAction
    BY <2>2, BackgroundFiles
  <2>3. CASE DownAction
    <3>1. Reset
      BY <2>3, DownFiles DEF DownAction
    <3> QED BY <3>1 DEF Reset
  <2>4. CASE \E q \in Reader : BeginGet(q) \/ EndGet(q)
    <3>1. PICK q \in Reader : BeginGet(q) \/ EndGet(q)
      BY <2>4
    <3> QED BY <3>1, ReaderFiles
  <2>5. CASE \/ \E t \in Thread : \E batch \in {{}, {issued + 1}}, sync \in BOOLEAN : Write(t, batch, sync)
             \/ BeginClose
    BY <2>5 DEF Write, BeginClose
  <2>6. CASE Recover \/ SaveManifest \/ FinishOpen
    BY <2>6 DEF Recover, SaveManifest, FinishOpen
  <2>7. \/ \E t \in Thread : WriterAction(t)
        \/ BackgroundAction \/ DownAction \/ ClientAction
        \/ Recover \/ SaveManifest \/ FinishOpen
    BY <1>2, StepIs
  <2> QED BY <2>1, <2>2, <2>3, <2>4, <2>5, <2>6, <2>7 DEF ClientAction
<1> QED BY <1>1, <1>2

\* The tables a reader pinned are there, and as they were.
LEMMA ReadersStep ==
    ASSUME QueueInv, FileInv, Bounded, DataInv, ReadersComplete, [Next]_vars
    PROVE  ReadersComplete'
<1>1. FileInv' /\ TablesKept
  BY FileStep, TablesStay
<1> SUFFICES ASSUME NEW r \in Reader
             PROVE  {e \in read'[r].seen \cup UNION {tables'[f] : f \in read'[r].files \cap DOMAIN tables'}
                        : e.seq <= read'[r].snap} = read'[r].due
  BY DEF ReadersComplete, Found, InTables
<1>2. read'[r].files \subseteq DOMAIN tables'
  BY <1>1 DEF FileInv, Referred
<1>3. CASE read'[r] = read[r]
  <2> DEFINE files == read[r].files
  <2>1. files \subseteq PinnedTables /\ files \subseteq DOMAIN tables /\ files \subseteq DOMAIN tables'
    BY <1>2, <1>3 DEF FileInv, Referred, PinnedTables
  <2> HIDE DEF files
  <2>2. UNION {tables'[f] : f \in files \cap DOMAIN tables'} = InTables(files)
    BY <1>1, <2>1, InTablesKept
  <2> QED BY <1>3, <2>2 DEF ReadersComplete, Found, files
<1>4. CASE read'[r] = Nothing
  BY <1>4, NothingIs
<1>5. CASE BeginGet(r)
  <2>1. /\ read'[r].snap = lastSeq /\ read'[r].seen = mem \cup UNION ToSet(imm)
        /\ read'[r].files = FilesOf(version) /\ read'[r].due = committed
    BY <1>5, ReaderFiles
  <2>2. UNCHANGED tables /\ mode = "open"
    BY <1>5 DEF BeginGet, disk
  <2>3. committed = {e \in Visible : e.seq <= lastSeq}
    BY <2>2 DEF DataInv, DiskInv, CommittedIs, Up
  <2>4. UNION {tables'[f] : f \in read'[r].files \cap DOMAIN tables'} = InVersion
    BY <2>1, <2>2 DEF InVersion, InTables
  <2>5. read'[r].seen = mem \cup Imm
    BY <2>1 DEF Imm
  <2> QED BY <2>1, <2>3, <2>4, <2>5 DEF Visible
<1> QED BY <1>3, <1>4, <1>5, ReadStep

LEMMA DataCorrect == Spec => [](QueueInv /\ FileInv /\ Bounded /\ DataInv /\ ReadersComplete)
<1>1. Init => DataInv /\ ReadersComplete
  BY DataInit
<1>2. QueueInv /\ FileInv /\ Bounded /\ DataInv /\ ReadersComplete /\ [Next]_vars => DataInv' /\ ReadersComplete'
  BY DataStep, ReadersStep
<1>3. Spec => [](QueueInv /\ FileInv /\ Bounded)
  BY StoreInv
<1> QED BY <1>1, <1>2, <1>3, PTL DEF Spec

\* Whatever is written, flushed, compacted or deleted after BeginGet, a reader
\* finds the entries that were committed when it pinned its memtables and its
\* version (DBImpl::Get, NewInternalIterator, DeleteObsoleteFiles).
THEOREM ReadersCorrect == Spec => []ReadersComplete
BY DataCorrect, PTL

\* The open store holds what was answered with OK, each entry once and none
\* beyond its last sequence (DBImpl::Write, CompactMemTable,
\* InstallCompactionResults, Recover).
THEOREM StoreCorrect == Spec => []StoreComplete
<1>1. FileInv /\ DataInv => StoreComplete
  <2> SUFFICES ASSUME FileInv, DataInv, Up
               PROVE  /\ acked \subseteq Ids(committed) \cup shaken \cup behindTear
                      /\ committed = {e \in mem \cup (UNION ToSet(imm)) \cup InTables(FilesOf(version)) : e.seq <= lastSeq}
                      /\ \A d, e \in committed : d.seq = e.seq => d = e
    BY DEF StoreComplete, Up
  <2>1. /\ acked \subseteq Ids(committed) \cup shaken \cup behindTear
        /\ committed = {e \in Visible : e.seq <= lastSeq}
    BY DEF DataInv, DiskInv, CommittedIs
  <2>2. Visible = mem \cup (UNION ToSet(imm)) \cup InTables(FilesOf(version))
    BY DEF Visible, Imm, InVersion
  <2>3. committed \subseteq Everything
    BY <2>1 DEF Everything
  <2> QED BY <2>1, <2>2, <2>3 DEF DataInv, DiskInv, Apart
<1> QED BY <1>1, DataCorrect, PTL

\* At every moment the logs and tables on the disk give back what was answered
\* with OK, in any interleaving of writers, flushes, compactions, errors, closes
\* and kills, but for what a stop of the machine took from an unsynced log and
\* what was appended behind a torn record.
THEOREM KilledCorrect == Spec => []KilledLosesNothing
<1>1. DataInv => KilledLosesNothing
  BY DEF DataInv
<1> QED BY <1>1, DataCorrect, PTL

\* The synced bytes alone give back every batch that was written with sync and
\* answered with OK, unless it stands behind a torn record.
THEOREM SyncedCorrect == Spec => []SyncedKeptUnlessTorn
<1>1. DataInv => SyncedKeptUnlessTorn
  BY DEF DataInv
<1> QED BY <1>1, DataCorrect, PTL

-----------------------------------------------------------------------------
(* LevelDB implements DurableStore *)

\* The abstract state, as the refinement mapping gives it.
Batches  == IF Up THEN Ids(committed) ELSE Ids(Recoverable)
Waiting  == (1 .. issued) \ acked
Lasting  == sure \ behindTear

LEMMA PromiseStutters ==
    ASSUME Up' = Up, Batches' = Batches, Waiting' = Waiting, Lasting' = Lasting
    PROVE  UNCHANGED Promise!vars
BY DEF Promise!vars, Up, Batches, Waiting, Lasting

\* What a batch does that is asked for, that is answered, and that an end of
\* the incarnation meets; and Open.
LEMMA PromiseSteps ==
    /\ Up /\ Up' /\ Batches' = Batches /\ Lasting' = Lasting
         /\ (\E b \in 1 .. MaxBatch : b \notin Batches \cup Waiting /\ Waiting' = Waiting \cup {b})
         => Promise!Next
    /\ Up /\ Up' /\ Waiting' \subseteq Waiting /\ Batches' = Batches \cup (Waiting \ Waiting')
         /\ Lasting \subseteq Lasting' /\ Lasting' \subseteq Lasting \cup (Waiting \ Waiting')
         => Promise!Next
    /\ ~ Up' /\ Lasting \subseteq Batches' /\ Batches' \subseteq Batches \cup Waiting
         /\ Waiting' = Waiting /\ Lasting' = Lasting
         => Promise!Next
    /\ ~ Up /\ Up' /\ Batches' = Batches /\ Waiting' = Waiting /\ Lasting' = Lasting
         => Promise!Next
<1>1. ASSUME Up, Up', Batches' = Batches, Lasting' = Lasting,
             NEW b \in 1 .. MaxBatch, b \notin Batches \cup Waiting, Waiting' = Waiting \cup {b}
      PROVE  Promise!Next
  <2>1. Promise!Ask(b)
    BY <1>1 DEF Promise!Ask, Up, Batches, Waiting, Lasting
  <2> QED BY <2>1 DEF Promise!Next
<1>2. ASSUME Up, Up', Waiting' \subseteq Waiting, Batches' = Batches \cup (Waiting \ Waiting'),
             Lasting \subseteq Lasting', Lasting' \subseteq Lasting \cup (Waiting \ Waiting')
      PROVE  Promise!Next
  <2>1. Promise!Commit
    BY <1>2 DEF Promise!Commit, Up, Batches, Waiting, Lasting
  <2> QED BY <2>1 DEF Promise!Next
<1>3. ASSUME ~ Up', Lasting \subseteq Batches', Batches' \subseteq Batches \cup Waiting,
             Waiting' = Waiting, Lasting' = Lasting
      PROVE  Promise!Next
  <2>1. Promise!Crash
    BY <1>3 DEF Promise!Crash, Up, Batches, Waiting, Lasting
  <2> QED BY <2>1 DEF Promise!Next
<1>4. ASSUME ~ Up, Up', Batches' = Batches, Waiting' = Waiting, Lasting' = Lasting
      PROVE  Promise!Next
  <2>1. Promise!Open
    BY <1>4 DEF Promise!Open, Up, Batches, Waiting, Lasting
  <2> QED BY <2>1 DEF Promise!Next
<1> QED BY <1>1, <1>2, <1>3, <1>4

\* Nothing that the user can tell.
LEMMA PromiseQuiet ==
    ASSUME Up, Up', committed' = committed, UNCHANGED <<issued, acked, sure, behindTear>>
    PROVE  [Promise!Next]_(Promise!vars)
<1>1. Batches' = Batches /\ Waiting' = Waiting /\ Lasting' = Lasting
  BY DEF Batches, Waiting, Lasting, Ids
<1>2. Up' = Up
  BY DEF Up
<1> QED BY <1>1, <1>2, PromiseStutters

LEMMA PromiseWrite ==
    ASSUME QueueInv, FileInv, DataInv, NEW t \in Thread, NEW batch \in {{}, {issued + 1}}, NEW sync \in BOOLEAN,
           Write(t, batch, sync)
    PROVE  [Promise!Next]_(Promise!vars)
<1>1. mode = "open" /\ Up /\ issued < MaxBatch /\ issued' = issued + 1
      /\ UNCHANGED <<mode, acked, sure, behindTear, committed>>
  BY DEF Write, Up, ghosts
<1>2. Up'
  BY <1>1 DEF Up
<1>3. issued \in Nat /\ acked \subseteq 1 .. issued /\ MaxBatch \in Nat
  BY LevelDBAssumption DEF QueueInv, Answered
<1>4. Batches' = Batches /\ Lasting' = Lasting
  BY <1>1, <1>2 DEF Batches, Lasting, Ids
<1>5. issued + 1 \in 1 .. MaxBatch
  BY <1>1, <1>3
<1>6. Batches \subseteq 1 .. issued
  <2>1. committed \subseteq Everything
    BY <1>1 DEF DataInv, DiskInv, CommittedIs, Everything
  <2> QED BY <1>1, <2>1 DEF DataInv, DiskInv, Numbered, Batches, Ids
<1>7. Waiting' = Waiting \cup {issued + 1} /\ issued + 1 \notin Batches \cup Waiting
  BY <1>1, <1>3, <1>6 DEF Waiting
<1> QED BY <1>1, <1>2, <1>4, <1>5, <1>7, PromiseSteps

LEMMA PromiseFinish ==
    ASSUME QueueInv, FileInv, DataInv, NEW t \in Thread, FinishWrite(t)
    PROVE  [Promise!Next]_(Promise!vars)
<1>1. /\ UNCHANGED <<mode, issued, behindTear>>
  BY DEF FinishWrite, bounds
<1>2. Stage \in {"inserted", "failed", "syncError"} /\ Stage # "none"
  BY FinishWriteFiles
<1>3. Up /\ Up' /\ \A e \in GroupEntries : e.batch \in 1 .. issued /\ e.batch \notin acked
  BY <1>1, <1>2, GroupApart DEF Up
<1>4. /\ Stage = "inserted" => acked' = acked \cup Ids(GroupEntries) /\ committed' = committed \cup GroupEntries
      /\ Stage # "inserted" => acked' = acked /\ sure' = sure /\ committed' = committed
      /\ sure \subseteq sure' /\ sure' \subseteq sure \cup Ids(GroupEntries)
  BY FinishAnswers
<1>5. CASE Stage # "inserted"
  BY <1>1, <1>3, <1>4, <1>5, PromiseQuiet
<1>6. CASE Stage = "inserted"
  <2>1. Ids(GroupEntries) \subseteq Waiting
    BY <1>3 DEF Waiting, Ids
  <2>2. Waiting' = Waiting \ Ids(GroupEntries)
    BY <1>1, <1>4, <1>6 DEF Waiting
  <2>3. Batches' = Batches \cup Ids(GroupEntries)
    <3>1. Batches' = {e.batch : e \in committed'} /\ Batches = Ids(committed)
      BY <1>3 DEF Batches, Ids
    <3> QED BY <1>4, <1>6, <3>1 DEF Ids
  <2>4. Waiting \ Waiting' = Ids(GroupEntries) /\ Waiting' \subseteq Waiting
    BY <2>1, <2>2
  <2>5. Lasting \subseteq Lasting' /\ Lasting' \subseteq Lasting \cup Ids(GroupEntries)
    BY <1>1, <1>4 DEF Lasting
  <2> QED BY <1>3, <2>3, <2>4, <2>5, PromiseSteps
<1> QED BY <1>5, <1>6

LEMMA PromiseWriter ==
    ASSUME QueueInv, FileInv, DataInv, NEW t \in Thread, WriterAction(t)
    PROVE  [Promise!Next]_(Promise!vars)
<1>1. CASE FinishWrite(t)
  BY <1>1, PromiseFinish
<1>2. CASE AddRecord(t)
  <2>1. /\ UNCHANGED <<mode, issued, acked, sure, committed>> /\ Stage # "none"
    BY <1>2, StageFrame
  <2>2. Up /\ Up' /\ \A e \in GroupEntries : e.batch \notin acked
    BY <2>1, GroupApart DEF Up
  <2>3. behindTear' = behindTear \/ behindTear' = behindTear \cup Ids(GroupEntries)
    BY <1>2 DEF AddRecord
  <2>4. sure \subseteq acked
    BY DEF QueueInv, Answered
  <2>5. Lasting' = Lasting
    BY <2>1, <2>2, <2>3, <2>4 DEF Lasting, Ids
  <2>6. Batches' = Batches /\ Waiting' = Waiting
    BY <2>1, <2>2 DEF Batches, Waiting, Ids
  <2>7. Up' = Up
    BY <2>2 DEF Up
  <2> QED BY <2>5, <2>6, <2>7, PromiseStutters
<1>3. CASE SyncLog(t) \/ InsertInto(t)
  <2>1. /\ UNCHANGED <<mode, issued, acked, sure, committed>> /\ Stage # "none"
    BY <1>3, StageFrame
  <2>2. Up /\ Up'
    BY <2>1, GroupApart DEF Up
  <2>3. behindTear' = behindTear
    BY <1>3 DEF SyncLog, InsertInto, ghosts
  <2> QED BY <2>1, <2>2, <2>3, PromiseQuiet
<1>4. CASE SwitchMemTable(t)
  <2>1. UNCHANGED <<acked, sure, committed, issued, behindTear, mode>> /\ mode = "open"
    BY <1>4, SwitchData, SwitchFiles
  <2> QED BY <2>1, PromiseQuiet DEF Up
<1>5. CASE BadBackground(t) \/ Delay(t) \/ Proceed(t) \/ NewLogFails(t)
  <2>1. UNCHANGED <<mode, acked, sure, behindTear, committed>>
    BY <1>5, QueueData
  <2>2. mode = "open"
    BY <1>5 DEF AtFront, QueueInv, InQueue, BadBackground, Delay, Proceed, NewLogFails, MaySwitch, MakingRoom
  <2>3. issued' = issued
    BY <1>5 DEF BadBackground, Delay, Proceed, NewLogFails, bounds
  <2> QED BY <2>1, <2>2, <2>3, PromiseQuiet DEF Up
<1>6. CASE AddRecordFails(t) \/ SyncLogFails(t)
  <2>1. UNCHANGED <<mode, acked, sure, behindTear, committed, issued>>
    BY <1>6, RecordFailsData
  <2>2. mode = "open"
    BY <1>6, FrontIs DEF AddRecordFails, SyncLogFails, Stages
  <2> QED BY <2>1, <2>2, PromiseQuiet DEF Up
<1> QED BY <1>1, <1>2, <1>3, <1>4, <1>5, <1>6 DEF WriterAction, WriterStep

\* A crash keeps what must last, and lets in only batches that were waiting.
LEMMA PromiseDown ==
    ASSUME QueueInv, FileInv, Bounded, DataInv, DownAction
    PROVE  [Promise!Next]_(Promise!vars)
<1>1. /\ DataInv' /\ Recoverable' \subseteq Recoverable /\ ~ Up'
      /\ UNCHANGED <<issued, acked, sure, behindTear>>
      /\ RecoverableSynced' \subseteq Recoverable'
  BY DownData
<1>2. Waiting' = Waiting /\ Lasting' = Lasting
  BY <1>1 DEF Waiting, Lasting
<1>3. Batches' = {e.batch : e \in Recoverable'}
  BY <1>1 DEF Batches, Ids
<1>4. Lasting \subseteq Batches'
  <2>1. sure' \subseteq {e.batch : e \in RecoverableSynced'} \cup behindTear'
    BY <1>1 DEF DataInv, SyncedKeptUnlessTorn, Ids
  <2> QED BY <1>1, <1>3, <2>1 DEF Lasting
<1>5. Batches' \subseteq Batches \cup Waiting
  <2>1. CASE ~ Up
    BY <1>1, <1>3, <2>1 DEF Batches, Ids
  <2>2. CASE Up
    <3>1. Recoverable \subseteq InManifest \cup InLogs
      BY DataAre
    <3>2. Ids(InManifest \cup InLogs) \subseteq 1 .. issued
      BY DEF DataInv, DiskInv, Numbered, Everything, Ids
    <3>3. Ids(InManifest \cup InLogs) \cap acked \subseteq Ids(committed)
      BY <2>2 DEF DataInv, DiskInv, CommittedIs
    <3>4. Batches' \subseteq Ids(InManifest \cup InLogs)
      BY <1>1, <1>3, <3>1 DEF Ids
    <3> QED BY <2>2, <3>2, <3>3, <3>4 DEF Batches, Waiting
  <2> QED BY <2>1, <2>2
<1> QED BY <1>1, <1>2, <1>4, <1>5, PromiseSteps

LEMMA PromiseOpens ==
    ASSUME QueueInv, FileInv, Bounded, DataInv, Recover \/ SaveManifest \/ FinishOpen
    PROVE  [Promise!Next]_(Promise!vars)
<1>1. Recoverable' = Recoverable /\ UNCHANGED <<acked, sure, issued, behindTear>>
  BY OpenQueue, RecoverData, SaveManifestData, FinishOpenData
<1>2. Waiting' = Waiting /\ Lasting' = Lasting
  BY <1>1 DEF Waiting, Lasting
<1>3. CASE Recover \/ SaveManifest
  <2>1. ~ Up /\ ~ Up'
    BY <1>3, RecoverData, SaveManifestData DEF Recover, SaveManifest, Up
  <2>2. Up' = Up
    BY <2>1 DEF Up
  <2>3. Batches' = Batches
    BY <1>1, <2>1 DEF Batches, Ids
  <2> QED BY <1>2, <2>2, <2>3, PromiseStutters
<1>4. CASE FinishOpen
  <2>1. ~ Up /\ Up' /\ committed' = Recoverable
    BY <1>4, FinishOpenData
  <2>2. Batches' = {e.batch : e \in committed'} /\ Batches = {e.batch : e \in Recoverable}
    BY <2>1 DEF Batches, Ids
  <2> QED BY <1>2, <2>1, <2>2, PromiseSteps
<1> QED BY <1>3, <1>4

LEMMA PromiseStep ==
    ASSUME QueueInv, FileInv, Bounded, DataInv, [Next]_vars
    PROVE  [Promise!Next]_(Promise!vars)
<1>1. CASE UNCHANGED vars
  <2>1. UNCHANGED <<logs, tables, manifest, mode, issued, acked, sure, behindTear, committed>>
    BY <1>1 DEF vars, disk, bounds, ghosts
  <2>2. Recoverable' = Recoverable /\ Up' = Up
    BY <2>1 DEF Recoverable, InTables, LiveLogs, FilesOf, Up
  <2>3. Batches' = Batches /\ Waiting' = Waiting /\ Lasting' = Lasting
    BY <2>1, <2>2 DEF Batches, Waiting, Lasting, Ids
  <2> QED BY <2>2, <2>3, PromiseStutters
<1>2. CASE BackgroundAction
  <2>1. Up /\ Up' /\ UNCHANGED <<acked, sure, behindTear, committed, issued>>
    BY <1>2, BackSteps
  <2> QED BY <2>1, PromiseQuiet
<1>3. CASE (\E r \in Reader : BeginGet(r) \/ EndGet(r)) \/ BeginClose
  <2>1. UNCHANGED <<issued, acked, sure, behindTear, committed, logs, tables, manifest>>
    BY <1>3 DEF BeginGet, EndGet, BeginClose, bounds, ghosts, disk
  <2>2. Recoverable' = Recoverable
    BY <2>1 DEF Recoverable, InTables, LiveLogs, FilesOf
  <2>3. Up' = Up
    BY <1>3 DEF BeginGet, EndGet, BeginClose, Up
  <2>4. Batches' = Batches /\ Waiting' = Waiting /\ Lasting' = Lasting
    BY <2>1, <2>2, <2>3 DEF Batches, Waiting, Lasting, Ids
  <2> QED BY <2>3, <2>4, PromiseStutters
<1>4. CASE Next
  <2>1. \/ \E t \in Thread : WriterAction(t)
        \/ BackgroundAction \/ DownAction \/ ClientAction
        \/ Recover \/ SaveManifest \/ FinishOpen
    BY <1>4, StepIs
  <2> QED BY <2>1, <1>2, <1>3, PromiseWriter, PromiseDown, PromiseWrite, PromiseOpens DEF ClientAction
<1> QED BY <1>1, <1>4

\* The store as its user knows it: whatever the writers, the background thread,
\* Open, crashes and errors do, a batch enters an open store only when it is
\* answered with OK, and an end of the process or of the machine takes back
\* none that was written with sync and does not stand behind a torn record.
THEOREM PromiseKept == Spec => KeepsPromise
<1>1. Init => Promise!Init
  <2> SUFFICES ASSUME Init
               PROVE  Promise!Init
    OBVIOUS
  <2>1. Recoverable = {} /\ mode = "down" /\ issued = 0 /\ acked = {} /\ sure = {}
    BY DataInit DEF Init
  <2>2. Ids(Recoverable) = {} /\ (1 .. issued) \ acked = {}
    BY <2>1 DEF Ids
  <2> QED BY <2>1, <2>2 DEF Promise!Init
<1>2. QueueInv /\ FileInv /\ Bounded /\ DataInv /\ [Next]_vars => [Promise!Next]_(Promise!vars)
  BY PromiseStep
<1> QED BY <1>1, <1>2, DataCorrect, PTL DEF Spec, KeepsPromise, Promise!Spec
=============================================================================
